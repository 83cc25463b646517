------------------------ MODULE LateBoundHostProofs ------------------------
(***************************************************************************)
(* Proofs about LateBoundHost for any number of threads, hosts and         *)
(* subscriptions.  CoreInv is inductive whoever calls set, and panics      *)
(* included; CurrentInv is inductive on top of it when sets do not         *)
(* overlap.  Each has one lemma per action.                                *)
(***************************************************************************)
EXTENDS LateBoundHostInv, TLAPS

USE RolesAssumption, ConstantsAssumption
USE DEF Threads, Kinds, AllPc, SetPc, SubPc, DropPc, OwnsSubs, GuardStates,
        lockVars, slotVars, guardVars, hostVars, localVars,
        Goto, Return, IsBound, UnwindPoisoning

----------------------------------------------------------------------------
(* CoreInv *)

\* LateBoundBackendHost::new: unbound, no slots, no thread inside.
LEMMA InitCore == Init => CoreInv
<1> SUFFICES ASSUME Init PROVE CoreInv
  OBVIOUS
<1> USE DEF Init, CoreInv
<1>1. TypeOK
  <2>1. /\ slotId \in [Subs -> 0..MaxId] /\ guardId \in [Subs -> 0..MaxId]
        /\ nextId \in 0..MaxId /\ sets \in 0..MaxSets /\ fires \in 0..MaxFires
    OBVIOUS
  <2>2. regs \in [Hosts -> [Subs -> Nat]]
    OBVIOUS
  <2>3. listLock \in [Hosts -> [Kinds -> Broadcasters \cup {Free}]]
    OBVIOUS
  <2> QED BY <2>1, <2>2, <2>3 DEF TypeOK, Answers
<1>2. RoleInv /\ MutexInv
  BY DEF RoleInv, MutexInv
<1>3. SetterInv /\ PluginInv /\ OneThreadPerSub
  BY DEF SetterInv, PluginInv, OneThreadPerSub
<1>4. SlotInv
  BY DEF SlotInv
<1>5. RegInv /\ FireInv
  BY DEF RegInv, FireInv, InFlight
<1> QED BY <1>1, <1>2, <1>3, <1>4, <1>5

\* set is entered.
LEMMA SetBeginCore ==
  ASSUME NEW t \in Setters, NEW h \in Hosts, CoreInv, SetBegin(t, h)
  PROVE  CoreInv'
<1> USE DEF CoreInv, SetBegin
<1>1. TypeOK'
  BY DEF TypeOK
<1>2. RoleInv'
  BY DEF RoleInv
<1>3. MutexInv'
  BY DEF MutexInv
<1>4. SetterInv'
  BY DEF TypeOK, SetterInv, Slots
<1>5. PluginInv'
  BY DEF PluginInv
<1>6. OneThreadPerSub'
  BY DEF OneThreadPerSub
<1>7. SlotInv'
  BY DEF SlotInv
<1>8. RegInv'
  BY DEF RegInv, InFlight
<1>9. FireInv'
  BY DEF FireInv
<1> QED BY <1>1, <1>2, <1>3, <1>4, <1>5, <1>6, <1>7, <1>8, <1>9

\* set writes `inner`; it cannot while a subscribe holds a read guard.
LEMMA SetInnerCore ==
  ASSUME NEW t \in Setters, CoreInv, SetInner(t)
  PROVE  CoreInv'
<1> USE DEF CoreInv, SetInner
<1>1. TypeOK'
  BY DEF TypeOK
<1>2. RoleInv'
  BY DEF RoleInv
<1>3. MutexInv'
  BY DEF MutexInv
<1>4. SetterInv'
  BY DEF SetterInv, Slots
<1>5. PluginInv'
  BY DEF PluginInv, InnerReaders
<1>6. OneThreadPerSub'
  BY DEF OneThreadPerSub
<1>7. SlotInv'
  BY DEF SlotInv
<1>8. RegInv'
  BY DEF RegInv, InFlight
<1>9. FireInv'
  BY DEF FireInv
<1> QED BY <1>1, <1>2, <1>3, <1>4, <1>5, <1>6, <1>7, <1>8, <1>9

\* set owns the mutex: every slot is to be replayed.
LEMMA SetLockCore ==
  ASSUME NEW t \in Setters, CoreInv, SetLock(t)
  PROVE  CoreInv'
<1> USE DEF CoreInv, SetLock
<1>1. TypeOK'
  BY DEF TypeOK, Slots
<1>2. RoleInv'
  BY DEF RoleInv
<1>3. MutexInv'
  BY DEF TypeOK, MutexInv
<1>4. SetterInv'
  BY DEF TypeOK, SetterInv, Slots
<1>5. PluginInv'
  BY DEF PluginInv
<1>6. OneThreadPerSub'
  BY DEF OneThreadPerSub
<1>7. SlotInv'
  BY DEF SlotInv
<1>8. RegInv'
  BY DEF RegInv, InFlight
<1>9. FireInv'
  BY DEF FireInv
<1> QED BY <1>1, <1>2, <1>3, <1>4, <1>5, <1>6, <1>7, <1>8, <1>9

\* set finds the mutex poisoned.
LEMMA SetLockFailsCore ==
  ASSUME NEW t \in Setters, CoreInv, SetLockFails(t)
  PROVE  CoreInv'
<1> USE DEF CoreInv, SetLockFails
<1>1. TypeOK'
  BY DEF TypeOK
<1>2. RoleInv'
  BY DEF RoleInv
<1>3. MutexInv'
  BY DEF MutexInv
<1>4. SetterInv'
  BY DEF TypeOK, SetterInv, Slots
<1>5. PluginInv'
  BY DEF PluginInv
<1>6. OneThreadPerSub'
  BY DEF OneThreadPerSub
<1>7. SlotInv'
  BY DEF SlotInv
<1>8. RegInv'
  BY DEF RegInv, InFlight
<1>9. FireInv'
  BY DEF FireInv
<1> QED BY <1>1, <1>2, <1>3, <1>4, <1>5, <1>6, <1>7, <1>8, <1>9

\* The old registration of one slot goes.
LEMMA ReplayDropCore ==
  ASSUME NEW t \in Setters, NEW s \in Subs, CoreInv, ReplayDrop(t, s)
  PROVE  CoreInv'
<1> USE DEF CoreInv, ReplayDrop
<1>1. TypeOK'
  BY DEF TypeOK, RegInv, Unregister
<1>2. RoleInv'
  BY DEF RoleInv
<1>3. MutexInv'
  BY DEF MutexInv
<1>4. SetterInv'
  BY DEF TypeOK, SetterInv, Slots
<1>5. PluginInv'
  BY DEF PluginInv
<1>6. OneThreadPerSub'
  BY DEF OneThreadPerSub
<1>7. SlotInv'
  BY DEF SlotInv
<1>8. RegInv'
  BY DEF TypeOK, MutexInv, RegInv, InFlight, Unregister
<1>9. FireInv'
  BY DEF TypeOK, FireInv, Unregister, ListFree
<1> QED BY <1>1, <1>2, <1>3, <1>4, <1>5, <1>6, <1>7, <1>8, <1>9

\* The new registration of that slot comes.
LEMMA ReplaySubscribeCore ==
  ASSUME NEW t \in Setters, CoreInv, ReplaySubscribe(t)
  PROVE  CoreInv'
<1> USE DEF CoreInv, ReplaySubscribe
<1>1. TypeOK'
  BY DEF TypeOK, SetterInv, Register
<1>2. RoleInv'
  BY DEF RoleInv
<1>3. MutexInv'
  BY DEF MutexInv
<1>4. SetterInv'
  BY DEF TypeOK, MutexInv, SetterInv, Slots
<1>5. PluginInv'
  BY DEF PluginInv
<1>6. OneThreadPerSub'
  BY DEF OneThreadPerSub
<1>7. SlotInv'
  BY DEF SetterInv, SlotInv, Slots
<1>8. RegInv'
  BY DEF TypeOK, SetterInv, PluginInv, SlotInv, RegInv, InFlight, Register,
         ListFree, Slots
<1>9. FireInv'
  BY DEF FireInv, Register, ListFree
<1> QED BY <1>1, <1>2, <1>3, <1>4, <1>5, <1>6, <1>7, <1>8, <1>9

\* The host panics in a replay.
LEMMA ReplayPanicCore ==
  ASSUME NEW t \in Setters, CoreInv, ReplayPanic(t)
  PROVE  CoreInv'
<1> USE DEF CoreInv, ReplayPanic
<1>1. TypeOK'
  BY DEF TypeOK
<1>2. RoleInv'
  BY DEF RoleInv
<1>3. MutexInv'
  BY DEF TypeOK, MutexInv
<1>4. SetterInv'
  BY DEF TypeOK, SetterInv, Slots
<1>5. PluginInv'
  BY DEF PluginInv
<1>6. OneThreadPerSub'
  BY DEF OneThreadPerSub
<1>7. SlotInv'
  BY DEF SlotInv
<1>8. RegInv'
  BY DEF RegInv, InFlight
<1>9. FireInv'
  BY DEF FireInv
<1> QED BY <1>1, <1>2, <1>3, <1>4, <1>5, <1>6, <1>7, <1>8, <1>9

\* set releases the mutex.
LEMMA SetReturnCore ==
  ASSUME NEW t \in Setters, CoreInv, SetReturn(t)
  PROVE  CoreInv'
<1> USE DEF CoreInv, SetReturn
<1>1. TypeOK'
  BY DEF TypeOK
<1>2. RoleInv'
  BY DEF RoleInv
<1>3. MutexInv'
  BY DEF TypeOK, MutexInv
<1>4. SetterInv'
  BY DEF TypeOK, SetterInv, Slots
<1>5. PluginInv'
  BY DEF PluginInv
<1>6. OneThreadPerSub'
  BY DEF OneThreadPerSub
<1>7. SlotInv'
  BY DEF SlotInv
<1>8. RegInv'
  BY DEF RegInv, InFlight
<1>9. FireInv'
  BY DEF TypeOK, FireInv
<1> QED BY <1>1, <1>2, <1>3, <1>4, <1>5, <1>6, <1>7, <1>8, <1>9

\* A subscribe is entered.
LEMMA SubBeginCore ==
  ASSUME NEW t \in Plugins, NEW s \in Subs, CoreInv, SubBegin(t, s)
  PROVE  CoreInv'
<1> USE DEF CoreInv, SubBegin
<1>1. TypeOK'
  BY DEF TypeOK
<1>2. RoleInv'
  BY DEF RoleInv
<1>3. MutexInv'
  BY DEF MutexInv
<1>4. SetterInv'
  BY DEF SetterInv, Slots
<1>5. PluginInv'
  BY DEF TypeOK, PluginInv, Slots
<1>6. OneThreadPerSub'
  BY DEF TypeOK, PluginInv, OneThreadPerSub
<1>7. SlotInv'
  BY DEF SlotInv
<1>8. RegInv'
  BY DEF RegInv, InFlight
<1>9. FireInv'
  BY DEF FireInv
<1> QED BY <1>1, <1>2, <1>3, <1>4, <1>5, <1>6, <1>7, <1>8, <1>9

\* A subscribe owns the mutex and has a fresh id.
LEMMA SubLockCore ==
  ASSUME NEW t \in Plugins, CoreInv, SubLock(t)
  PROVE  CoreInv'
<1> USE DEF CoreInv, SubLock
<1>1. TypeOK'
  BY DEF TypeOK
<1>2. RoleInv'
  BY DEF RoleInv
<1>3. MutexInv'
  BY DEF TypeOK, MutexInv
<1>4. SetterInv'
  BY DEF SetterInv, Slots
<1>5. PluginInv'
  BY DEF PluginInv
<1>6. OneThreadPerSub'
  BY DEF OneThreadPerSub
<1>7. SlotInv'
  BY DEF TypeOK, SlotInv
<1>8. RegInv'
  BY DEF RegInv, InFlight
<1>9. FireInv'
  BY DEF FireInv
<1> QED BY <1>1, <1>2, <1>3, <1>4, <1>5, <1>6, <1>7, <1>8, <1>9

\* A subscribe finds the mutex poisoned.
LEMMA SubLockFailsCore ==
  ASSUME NEW t \in Plugins, CoreInv, SubLockFails(t)
  PROVE  CoreInv'
<1> USE DEF CoreInv, SubLockFails
<1>1. TypeOK'
  BY DEF TypeOK
<1>2. RoleInv'
  BY DEF RoleInv
<1>3. MutexInv'
  BY DEF MutexInv
<1>4. SetterInv'
  BY DEF SetterInv, Slots
<1>5. PluginInv'
  BY DEF TypeOK, PluginInv, OneThreadPerSub
<1>6. OneThreadPerSub'
  BY DEF PluginInv, OneThreadPerSub
<1>7. SlotInv'
  BY DEF PluginInv, SlotInv
<1>8. RegInv'
  BY DEF TypeOK, RegInv, InFlight
<1>9. FireInv'
  BY DEF FireInv
<1> QED BY <1>1, <1>2, <1>3, <1>4, <1>5, <1>6, <1>7, <1>8, <1>9

\* A subscribe reads `inner`.
LEMMA SubReadCore ==
  ASSUME NEW t \in Plugins, CoreInv, SubRead(t)
  PROVE  CoreInv'
<1> USE DEF CoreInv, SubRead
<1>1. TypeOK'
  BY DEF TypeOK
<1>2. RoleInv'
  BY DEF RoleInv
<1>3. MutexInv'
  BY DEF TypeOK, MutexInv
<1>4. SetterInv'
  BY DEF SetterInv, Slots
<1>5. PluginInv'
  BY DEF TypeOK, RoleInv, PluginInv, OneThreadPerSub, SlotInv
<1>6. OneThreadPerSub'
  BY DEF OneThreadPerSub
<1>7. SlotInv'
  BY DEF SlotInv, Slots
<1>8. RegInv'
  BY DEF TypeOK, RegInv, InFlight
<1>9. FireInv'
  BY DEF FireInv
<1> QED BY <1>1, <1>2, <1>3, <1>4, <1>5, <1>6, <1>7, <1>8, <1>9

\* A subscribe registers with the host: its entry is in flight.
LEMMA SubHostCore ==
  ASSUME NEW t \in Plugins, CoreInv, SubHost(t)
  PROVE  CoreInv'
<1> USE DEF CoreInv, SubHost
<1>1. TypeOK'
  BY DEF TypeOK, PluginInv, Register
<1>2. RoleInv'
  BY DEF RoleInv
<1>3. MutexInv'
  BY DEF MutexInv
<1>4. SetterInv'
  BY DEF SetterInv, Slots
<1>5. PluginInv'
  BY DEF PluginInv
<1>6. OneThreadPerSub'
  BY DEF OneThreadPerSub
<1>7. SlotInv'
  BY DEF SlotInv
<1>8. RegInv'
  <2>1. \A u \in Plugins, s \in Subs, h \in Hosts : ~InFlight(u, s, h)
    BY DEF InFlight, MutexInv
  <2>2. \A u \in Plugins, s \in Subs, h \in Hosts :
          InFlight(u, s, h)' <=> u = t /\ s = cb[t] /\ h = host[t]
    BY <2>1 DEF InFlight, TypeOK
  <2>3. cb[t] \in Subs /\ host[t] \in Hosts /\ real[cb[t]] = NoHost
    BY DEF PluginInv, SlotInv
  <2>4. \A s \in Subs, h \in Hosts :
          regs'[h][s] = IF s = cb[t] /\ h = host[t] THEN regs[h][s] + 1
                                                    ELSE regs[h][s]
    BY <2>3 DEF Register, TypeOK
  <2> QED BY <2>1, <2>2, <2>3, <2>4 DEF RegInv
<1>9. FireInv'
  <2>1. \A s \in Subs, h \in Hosts : regs[h][s] > 0 => regs'[h][s] > 0
    BY DEF Register, TypeOK
  <2> QED BY <2>1 DEF FireInv, TypeOK
<1> QED BY <1>1, <1>2, <1>3, <1>4, <1>5, <1>6, <1>7, <1>8, <1>9

\* The host panics in a subscribe.
LEMMA SubPanicCore ==
  ASSUME NEW t \in Plugins, CoreInv, SubPanic(t)
  PROVE  CoreInv'
<1> USE DEF CoreInv, SubPanic
<1>1. TypeOK'
  BY DEF TypeOK
<1>2. RoleInv'
  BY DEF RoleInv
<1>3. MutexInv'
  BY DEF TypeOK, MutexInv
<1>4. SetterInv'
  BY DEF SetterInv, Slots
<1>5. PluginInv'
  BY DEF TypeOK, PluginInv, OneThreadPerSub
<1>6. OneThreadPerSub'
  BY DEF PluginInv, OneThreadPerSub
<1>7. SlotInv'
  BY DEF PluginInv, SlotInv
<1>8. RegInv'
  BY DEF RegInv, InFlight
<1>9. FireInv'
  BY DEF FireInv
<1> QED BY <1>1, <1>2, <1>3, <1>4, <1>5, <1>6, <1>7, <1>8, <1>9

\* The in-flight entry becomes that of the new slot.
LEMMA SubPushCore ==
  ASSUME NEW t \in Plugins, CoreInv, SubPush(t)
  PROVE  CoreInv'
<1> USE DEF CoreInv, SubPush
<1>1. TypeOK'
  BY DEF TypeOK
<1>2. RoleInv'
  BY DEF RoleInv
<1>3. MutexInv'
  BY DEF TypeOK, MutexInv
<1>4. SetterInv'
  BY DEF SetterInv, PluginInv, SlotInv, Slots
<1>5. PluginInv'
  BY DEF TypeOK, PluginInv, OneThreadPerSub
<1>6. OneThreadPerSub'
  BY DEF PluginInv, OneThreadPerSub
<1>7. SlotInv'
  BY DEF TypeOK, MutexInv, SlotInv
<1>8. RegInv'
  <2>1. \A u \in Plugins, s \in Subs, h \in Hosts :
          InFlight(u, s, h) <=> u = t /\ s = cb[t] /\ h = host[t]
    BY DEF InFlight, MutexInv
  <2>2. \A u \in Plugins, s \in Subs, h \in Hosts : ~InFlight(u, s, h)'
    BY <2>1 DEF InFlight, TypeOK
  <2>3. cb[t] \in Subs /\ real[cb[t]] = NoHost
    BY DEF PluginInv, SlotInv
  <2>4. \A s \in Subs : real'[s] = IF s = cb[t] THEN host[t] ELSE real[s]
    BY <2>3 DEF TypeOK
  <2> QED BY <2>1, <2>2, <2>3, <2>4 DEF RegInv
<1>9. FireInv'
  BY DEF FireInv
<1> QED BY <1>1, <1>2, <1>3, <1>4, <1>5, <1>6, <1>7, <1>8, <1>9

\* A guard is being dropped.
LEMMA DropBeginCore ==
  ASSUME NEW t \in Plugins, NEW s \in Subs, CoreInv, DropBegin(t, s)
  PROVE  CoreInv'
<1> USE DEF CoreInv, DropBegin
<1>1. TypeOK'
  BY DEF TypeOK
<1>2. RoleInv'
  BY DEF RoleInv
<1>3. MutexInv'
  BY DEF MutexInv
<1>4. SetterInv'
  BY DEF SetterInv, Slots
<1>5. PluginInv'
  BY DEF TypeOK, PluginInv
<1>6. OneThreadPerSub'
  BY DEF TypeOK, PluginInv, OneThreadPerSub
<1>7. SlotInv'
  BY DEF SlotInv
<1>8. RegInv'
  BY DEF RegInv, InFlight
<1>9. FireInv'
  BY DEF FireInv
<1> QED BY <1>1, <1>2, <1>3, <1>4, <1>5, <1>6, <1>7, <1>8, <1>9

\* The drop owns the mutex.
LEMMA DropLockCore ==
  ASSUME NEW t \in Plugins, CoreInv, DropLock(t)
  PROVE  CoreInv'
<1> USE DEF CoreInv, DropLock
<1>1. TypeOK'
  BY DEF TypeOK
<1>2. RoleInv'
  BY DEF RoleInv
<1>3. MutexInv'
  BY DEF TypeOK, MutexInv
<1>4. SetterInv'
  BY DEF SetterInv, Slots
<1>5. PluginInv'
  BY DEF PluginInv
<1>6. OneThreadPerSub'
  BY DEF OneThreadPerSub
<1>7. SlotInv'
  BY DEF SlotInv
<1>8. RegInv'
  BY DEF RegInv, InFlight
<1>9. FireInv'
  BY DEF FireInv
<1> QED BY <1>1, <1>2, <1>3, <1>4, <1>5, <1>6, <1>7, <1>8, <1>9

\* The drop finds the mutex poisoned and leaves the slot.
LEMMA DropLockFailsCore ==
  ASSUME NEW t \in Plugins, CoreInv, DropLockFails(t)
  PROVE  CoreInv'
<1> USE DEF CoreInv, DropLockFails
<1>1. TypeOK'
  BY DEF TypeOK
<1>2. RoleInv'
  BY DEF RoleInv
<1>3. MutexInv'
  BY DEF MutexInv
<1>4. SetterInv'
  BY DEF SetterInv, Slots
<1>5. PluginInv'
  BY DEF TypeOK, PluginInv, OneThreadPerSub
<1>6. OneThreadPerSub'
  BY DEF PluginInv, OneThreadPerSub
<1>7. SlotInv'
  BY DEF SlotInv
<1>8. RegInv'
  BY DEF RegInv, InFlight
<1>9. FireInv'
  BY DEF FireInv
<1> QED BY <1>1, <1>2, <1>3, <1>4, <1>5, <1>6, <1>7, <1>8, <1>9

\* The slot goes, with its entry in the host's list.
LEMMA DropRetainCore ==
  ASSUME NEW t \in Plugins, CoreInv, DropRetain(t)
  PROVE  CoreInv'
<1> USE DEF CoreInv, DropRetain
<1>1. TypeOK'
  <2>1. \A h \in Hosts, s \in Subs : real[s] = h => regs[h][s] = 1
    BY DEF RegInv
  <2>2. regs' \in [Hosts -> [Subs -> Nat]]
    BY <2>1 DEF TypeOK, Unregister
  <2>3. slotId' \in [Subs -> 0..MaxId] /\ real' \in [Subs -> Hosts \cup {NoHost}]
    BY DEF TypeOK
  <2>4. guard' \in [Subs -> GuardStates]
    BY DEF TypeOK
  <2>5. /\ pc' \in [Threads -> AllPc]
        /\ host' \in [Threads -> Hosts \cup {NoHost}]
        /\ cb' \in [Threads -> Subs \cup {NoSub}]
        /\ todo' \in [Threads -> SUBSET Subs]
    BY DEF TypeOK
  <2> QED BY <2>2, <2>3, <2>4, <2>5 DEF TypeOK
<1>2. RoleInv'
  BY DEF RoleInv
<1>3. MutexInv'
  BY DEF TypeOK, MutexInv
<1>4. SetterInv'
  BY DEF MutexInv, SetterInv
<1>5. PluginInv'
  BY DEF TypeOK, PluginInv, OneThreadPerSub
<1>6. OneThreadPerSub'
  BY DEF PluginInv, OneThreadPerSub
<1>7. SlotInv'
  BY DEF TypeOK, PluginInv, SlotInv, Removed, Slots
<1>8. RegInv'
  BY DEF TypeOK, PluginInv, SlotInv, RegInv, InFlight, Removed, Unregister
<1>9. FireInv'
  <2> SUFFICES ASSUME NEW u \in Broadcasters, NEW s \in todo'[u]
               PROVE  /\ pc'[u] = "fire"
                      /\ \E h \in Hosts : /\ listLock'[h][KindOf[s]] = u
                                          /\ regs'[h][s] > 0
    BY DEF FireInv
  <2>1. u # t /\ s \in todo[u] /\ s \in Subs
    BY DEF TypeOK
  <2>2. PICK h \in Hosts : listLock[h][KindOf[s]] = u /\ regs[h][s] > 0
    BY <2>1 DEF FireInv
  <2>3. regs'[h][s] = regs[h][s]
    BY <2>1, <2>2 DEF Unregister, ListFree, TypeOK
  <2> QED BY <2>1, <2>2, <2>3 DEF FireInv, TypeOK
<1> QED BY <1>1, <1>2, <1>3, <1>4, <1>5, <1>6, <1>7, <1>8, <1>9

\* A call is forwarded.
LEMMA CallForwardCore ==
  ASSUME NEW t \in Plugins, NEW m \in Methods, CoreInv, CallForward(t, m)
  PROVE  CoreInv'
<1> USE DEF CoreInv, CallForward
<1>1. TypeOK'
  BY DEF TypeOK, Answers
<1>2. RoleInv'
  BY DEF RoleInv
<1>3. MutexInv'
  BY DEF MutexInv
<1>4. SetterInv'
  BY DEF SetterInv, Slots
<1>5. PluginInv'
  BY DEF PluginInv
<1>6. OneThreadPerSub'
  BY DEF OneThreadPerSub
<1>7. SlotInv'
  BY DEF SlotInv
<1>8. RegInv'
  BY DEF RegInv, InFlight
<1>9. FireInv'
  BY DEF FireInv
<1> QED BY <1>1, <1>2, <1>3, <1>4, <1>5, <1>6, <1>7, <1>8, <1>9

\* A call is answered without a host.
LEMMA CallUnforwardedCore ==
  ASSUME NEW t \in Plugins, NEW m \in Methods, CoreInv, CallUnforwarded(t, m)
  PROVE  CoreInv'
<1> USE DEF CoreInv, CallUnforwarded
<1>1. TypeOK'
  BY DEF TypeOK, UnboundAnswer, Answers
<1>2. RoleInv'
  BY DEF RoleInv
<1>3. MutexInv'
  BY DEF MutexInv
<1>4. SetterInv'
  BY DEF SetterInv, Slots
<1>5. PluginInv'
  BY DEF PluginInv
<1>6. OneThreadPerSub'
  BY DEF OneThreadPerSub
<1>7. SlotInv'
  BY DEF SlotInv
<1>8. RegInv'
  BY DEF RegInv, InFlight
<1>9. FireInv'
  BY DEF FireInv
<1> QED BY <1>1, <1>2, <1>3, <1>4, <1>5, <1>6, <1>7, <1>8, <1>9

\* A forwarded call returns.
LEMMA CallReturnCore ==
  ASSUME NEW t \in Plugins, CoreInv, CallReturn(t)
  PROVE  CoreInv'
<1> USE DEF CoreInv, CallReturn
<1>1. TypeOK'
  BY DEF TypeOK, Answers
<1>2. RoleInv'
  BY DEF RoleInv
<1>3. MutexInv'
  BY DEF MutexInv
<1>4. SetterInv'
  BY DEF SetterInv, Slots
<1>5. PluginInv'
  BY DEF PluginInv
<1>6. OneThreadPerSub'
  BY DEF OneThreadPerSub
<1>7. SlotInv'
  BY DEF SlotInv
<1>8. RegInv'
  BY DEF RegInv, InFlight
<1>9. FireInv'
  BY DEF FireInv
<1> QED BY <1>1, <1>2, <1>3, <1>4, <1>5, <1>6, <1>7, <1>8, <1>9

\* A host fires an event.
LEMMA FireBeginCore ==
  ASSUME NEW t \in Broadcasters, NEW h \in Hosts, NEW k \in Kinds, CoreInv, FireBegin(t, h, k)
  PROVE  CoreInv'
<1> USE DEF CoreInv, FireBegin
<1>1. TypeOK'
  BY DEF TypeOK
<1>2. RoleInv'
  BY DEF RoleInv
<1>3. MutexInv'
  BY DEF MutexInv
<1>4. SetterInv'
  BY DEF SetterInv, Slots
<1>5. PluginInv'
  BY DEF PluginInv
<1>6. OneThreadPerSub'
  BY DEF OneThreadPerSub
<1>7. SlotInv'
  BY DEF SlotInv
<1>8. RegInv'
  BY DEF RegInv, InFlight
<1>9. FireInv'
  BY DEF TypeOK, FireInv
<1> QED BY <1>1, <1>2, <1>3, <1>4, <1>5, <1>6, <1>7, <1>8, <1>9

\* One callback runs.
LEMMA RunCallbackCore ==
  ASSUME NEW t \in Broadcasters, NEW s \in Subs, CoreInv, RunCallback(t, s)
  PROVE  CoreInv'
<1> USE DEF CoreInv, RunCallback
<1>1. TypeOK'
  BY DEF TypeOK
<1>2. RoleInv'
  BY DEF RoleInv
<1>3. MutexInv'
  BY DEF MutexInv
<1>4. SetterInv'
  BY DEF SetterInv, Slots
<1>5. PluginInv'
  BY DEF PluginInv
<1>6. OneThreadPerSub'
  BY DEF OneThreadPerSub
<1>7. SlotInv'
  BY DEF SlotInv
<1>8. RegInv'
  BY DEF RegInv, InFlight
<1>9. FireInv'
  BY DEF FireInv
<1> QED BY <1>1, <1>2, <1>3, <1>4, <1>5, <1>6, <1>7, <1>8, <1>9

\* The event is over.
LEMMA FireEndCore ==
  ASSUME NEW t \in Broadcasters, CoreInv, FireEnd(t)
  PROVE  CoreInv'
<1> USE DEF CoreInv, FireEnd
<1>1. TypeOK'
  BY DEF TypeOK
<1>2. RoleInv'
  BY DEF RoleInv
<1>3. MutexInv'
  BY DEF MutexInv
<1>4. SetterInv'
  BY DEF SetterInv, Slots
<1>5. PluginInv'
  BY DEF PluginInv
<1>6. OneThreadPerSub'
  BY DEF OneThreadPerSub
<1>7. SlotInv'
  BY DEF SlotInv
<1>8. RegInv'
  BY DEF RegInv, InFlight
<1>9. FireInv'
  <2> SUFFICES ASSUME NEW u \in Broadcasters, NEW s \in todo'[u]
               PROVE  /\ pc'[u] = "fire"
                      /\ \E h \in Hosts : /\ listLock'[h][KindOf[s]] = u
                                          /\ regs'[h][s] > 0
    BY DEF FireInv
  <2>1. u # t /\ s \in todo[u] /\ s \in Subs
    BY DEF TypeOK
  <2>2. PICK h \in Hosts : listLock[h][KindOf[s]] = u /\ regs[h][s] > 0
    BY <2>1 DEF FireInv
  <2> QED BY <2>1, <2>2 DEF FireInv, TypeOK
<1> QED BY <1>1, <1>2, <1>3, <1>4, <1>5, <1>6, <1>7, <1>8, <1>9

\* One step of any thread.
LEMMA CoreStep == CoreInv /\ [Next]_vars => CoreInv'
<1> SUFFICES ASSUME CoreInv, [Next]_vars PROVE CoreInv'
  OBVIOUS
<1>1. CASE UNCHANGED vars
  BY <1>1 DEF vars, CoreInv, TypeOK, RoleInv, MutexInv, SetterInv, PluginInv,
     OneThreadPerSub, SlotInv, RegInv, FireInv, InFlight, Slots
<1>2. ASSUME NEW t \in Setters, Begin(t) \/ Step(t)
      PROVE  CoreInv'
  BY <1>2, SetBeginCore, SetInnerCore, SetLockCore, SetLockFailsCore,
     ReplayDropCore, ReplaySubscribeCore, ReplayPanicCore, SetReturnCore
     DEF Begin, Step, SetStep
<1>3. ASSUME NEW t \in Plugins, Begin(t) \/ Step(t)
      PROVE  CoreInv'
  <2>1. CASE Begin(t)
    BY <1>3, <2>1, SubBeginCore, DropBeginCore, CallForwardCore,
       CallUnforwardedCore DEF Begin
  <2>2. CASE SubStep(t)
    BY <1>3, <2>2, SubLockCore, SubLockFailsCore, SubReadCore, SubHostCore,
       SubPanicCore, SubPushCore DEF SubStep
  <2>3. CASE DropStep(t) \/ CallReturn(t)
    BY <1>3, <2>3, DropLockCore, DropLockFailsCore, DropRetainCore,
       CallReturnCore DEF DropStep
  <2> QED BY <1>3, <2>1, <2>2, <2>3 DEF Step
<1>4. ASSUME NEW t \in Broadcasters, Begin(t) \/ Step(t)
      PROVE  CoreInv'
  BY <1>4, FireBeginCore, RunCallbackCore, FireEndCore
     DEF Begin, Step, FireStep
<1> QED BY <1>1, <1>2, <1>3, <1>4 DEF Next

\* Whatever the threads do, panics and overlapping sets included, the slots,
\* the guards, the ids and the hosts' lists agree with one another.
THEOREM CoreInvariant == Spec => []CoreInv
BY InitCore, CoreStep, PTL DEF Spec

\* Every variable keeps its type; in particular no entry is ever taken off a
\* host's list it is not on.
THEOREM TypeCorrect == Spec => []TypeOK
<1>1. CoreInv => TypeOK
  BY DEF CoreInv
<1> QED BY <1>1, CoreInvariant, PTL

----------------------------------------------------------------------------
(* CurrentInv *)

\* Entering set(new) rebinds nothing: what is current stays current.
LEMMA SetBeginCurrent ==
  ASSUME NEW t \in Setters, NEW h \in Hosts, OneSetter, CoreInv, CurrentInv,
         SetBegin(t, h)
  PROVE  CurrentInv'
BY DEF SetBegin, CurrentInv, WillReplay

\* The one window: set has written `inner`, and the slots are stale until its replay.
LEMMA SetInnerCurrent ==
  ASSUME NEW t \in Setters, OneSetter, CoreInv, CurrentInv,
         SetInner(t)
  PROVE  CurrentInv'
BY DEF CoreInv, SetInner, OneSetter, CurrentInv, WillReplay, TypeOK

\* Taking the mutex for the replay puts every slot in the work list, the stale ones with them.
LEMMA SetLockCurrent ==
  ASSUME NEW t \in Setters, OneSetter, CoreInv, CurrentInv,
         SetLock(t)
  PROVE  CurrentInv'
BY DEF CoreInv, SetLock, CurrentInv, WillReplay, TypeOK, MutexInv, Slots

\* A set that finds the mutex poisoned returns early; nothing is promised of slots then.
LEMMA SetLockFailsCurrent ==
  ASSUME NEW t \in Setters, OneSetter, CoreInv, CurrentInv,
         SetLockFails(t)
  PROVE  CurrentInv'
BY DEF SetLockFails, CurrentInv

\* `slot.inner_guard = None` touches a slot that is still to be replayed.
LEMMA ReplayDropCurrent ==
  ASSUME NEW t \in Setters, NEW s \in Subs, OneSetter, CoreInv, CurrentInv,
         ReplayDrop(t, s)
  PROVE  CurrentInv'
BY DEF ReplayDrop, CurrentInv, WillReplay

\* A replayed slot leaves the work list bound to the newest host.
LEMMA ReplaySubscribeCurrent ==
  ASSUME NEW t \in Setters, OneSetter, CoreInv, CurrentInv,
         ReplaySubscribe(t)
  PROVE  CurrentInv'
BY DEF CoreInv, ReplaySubscribe, CurrentInv, WillReplay, TypeOK, MutexInv

\* A panic in a replay poisons the mutex, and nothing is promised of slots then.
LEMMA ReplayPanicCurrent ==
  ASSUME NEW t \in Setters, OneSetter, CoreInv, CurrentInv,
         ReplayPanic(t)
  PROVE  CurrentInv'
BY DEF ReplayPanic, CurrentInv

\* With one setter, the work list is empty and nobody else has moved `inner`: all slots are current.
LEMMA SetReturnCurrent ==
  ASSUME NEW t \in Setters, OneSetter, CoreInv, CurrentInv,
         SetReturn(t)
  PROVE  CurrentInv'
BY DEF CoreInv, SetReturn, CurrentInv, WillReplay, TypeOK

\* Entering subscribe_changes adds no slot.
LEMMA SubBeginCurrent ==
  ASSUME NEW t \in Plugins, NEW s \in Subs, OneSetter, CoreInv, CurrentInv,
         SubBegin(t, s)
  PROVE  CurrentInv'
BY DEF SubBegin, CurrentInv, WillReplay

\* Taking the mutex and an id adds no slot.
LEMMA SubLockCurrent ==
  ASSUME NEW t \in Plugins, OneSetter, CoreInv, CurrentInv,
         SubLock(t)
  PROVE  CurrentInv'
BY DEF SubLock, CurrentInv, WillReplay

\* A subscribe that finds the mutex poisoned adds no slot.
LEMMA SubLockFailsCurrent ==
  ASSUME NEW t \in Plugins, OneSetter, CoreInv, CurrentInv,
         SubLockFails(t)
  PROVE  CurrentInv'
BY DEF SubLockFails, CurrentInv

\* Reading `inner` under the mutex adds no slot; the push that may follow is of an unbound slot.
LEMMA SubReadCurrent ==
  ASSUME NEW t \in Plugins, OneSetter, CoreInv, CurrentInv,
         SubRead(t)
  PROVE  CurrentInv'
BY DEF CoreInv, SubRead, CurrentInv, WillReplay, TypeOK

\* The host registered with is `inner`: the read guard kept set out.
LEMMA SubHostCurrent ==
  ASSUME NEW t \in Plugins, OneSetter, CoreInv, CurrentInv,
         SubHost(t)
  PROVE  CurrentInv'
BY DEF CoreInv, SubHost, CurrentInv, WillReplay, PluginInv

\* A panic in the host's subscribe poisons the mutex, and nothing is promised of slots then.
LEMMA SubPanicCurrent ==
  ASSUME NEW t \in Plugins, OneSetter, CoreInv, CurrentInv,
         SubPanic(t)
  PROVE  CurrentInv'
BY DEF SubPanic, CurrentInv

\* The pushed slot is on the newest host, or a set that swapped since waits for the mutex.
LEMMA SubPushCurrent ==
  ASSUME NEW t \in Plugins, OneSetter, CoreInv, CurrentInv,
         SubPush(t)
  PROVE  CurrentInv'
<1> USE DEF CoreInv, SubPush
<1>1. SUFFICES ASSUME ~poisoned
               PROVE  CurrentInv'
  BY DEF CurrentInv
<1>2. \A u \in Setters : pc[u] \notin {"replay_drop", "replay_sub"}
  BY DEF MutexInv
<1>3. \A u \in Plugins : pc'[u] # "sub_push"
  BY DEF MutexInv, TypeOK
<1>4. \A u \in Setters : pc'[u] = pc[u] /\ host'[u] = host[u] /\ todo'[u] = todo[u]
  OBVIOUS
<1>5. ASSUME NEW s \in Subs, slotId'[s] # 0
      PROVE  real'[s] = inner \/ \E u \in Setters : pc[u] = "set_lock"
  BY <1>1, <1>2, <1>5 DEF CurrentInv, WillReplay, TypeOK, PluginInv
<1> QED BY <1>1, <1>3, <1>4, <1>5 DEF CurrentInv, WillReplay

\* Beginning a guard's drop changes no slot.
LEMMA DropBeginCurrent ==
  ASSUME NEW t \in Plugins, NEW s \in Subs, OneSetter, CoreInv, CurrentInv,
         DropBegin(t, s)
  PROVE  CurrentInv'
BY DEF DropBegin, CurrentInv, WillReplay

\* A drop that owns the mutex has changed no slot yet.
LEMMA DropLockCurrent ==
  ASSUME NEW t \in Plugins, OneSetter, CoreInv, CurrentInv,
         DropLock(t)
  PROVE  CurrentInv'
BY DEF DropLock, CurrentInv, WillReplay

\* A drop that finds the mutex poisoned changes no slot.
LEMMA DropLockFailsCurrent ==
  ASSUME NEW t \in Plugins, OneSetter, CoreInv, CurrentInv,
         DropLockFails(t)
  PROVE  CurrentInv'
BY DEF DropLockFails, CurrentInv

\* `retain` removes one slot and rebinds none.
LEMMA DropRetainCurrent ==
  ASSUME NEW t \in Plugins, OneSetter, CoreInv, CurrentInv,
         DropRetain(t)
  PROVE  CurrentInv'
BY DEF DropRetain, OneSetter, CurrentInv, WillReplay

\* A forwarded call changes no slot.
LEMMA CallForwardCurrent ==
  ASSUME NEW t \in Plugins, NEW m \in Methods, OneSetter, CoreInv, CurrentInv,
         CallForward(t, m)
  PROVE  CurrentInv'
BY DEF CallForward, CurrentInv, WillReplay

\* A call answered without a host changes no slot.
LEMMA CallUnforwardedCurrent ==
  ASSUME NEW t \in Plugins, NEW m \in Methods, OneSetter, CoreInv, CurrentInv,
         CallUnforwarded(t, m)
  PROVE  CurrentInv'
BY DEF CallUnforwarded, CurrentInv, WillReplay

\* A returning call changes no slot.
LEMMA CallReturnCurrent ==
  ASSUME NEW t \in Plugins, OneSetter, CoreInv, CurrentInv,
         CallReturn(t)
  PROVE  CurrentInv'
BY DEF CallReturn, CurrentInv, WillReplay

\* An event changes no slot.
LEMMA FireBeginCurrent ==
  ASSUME NEW t \in Broadcasters, NEW h \in Hosts, NEW k \in Kinds, OneSetter, CoreInv, CurrentInv,
         FireBegin(t, h, k)
  PROVE  CurrentInv'
BY DEF FireBegin, CurrentInv, WillReplay

\* A callback changes no slot.
LEMMA RunCallbackCurrent ==
  ASSUME NEW t \in Broadcasters, NEW s \in Subs, OneSetter, CoreInv, CurrentInv,
         RunCallback(t, s)
  PROVE  CurrentInv'
BY DEF RunCallback, CurrentInv, WillReplay

\* The end of an event changes no slot.
LEMMA FireEndCurrent ==
  ASSUME NEW t \in Broadcasters, OneSetter, CoreInv, CurrentInv,
         FireEnd(t)
  PROVE  CurrentInv'
BY DEF FireEnd, CurrentInv, WillReplay

\* One step of any thread, when sets do not overlap.
LEMMA CurrentStep ==
  ASSUME OneSetter
  PROVE  CoreInv /\ CurrentInv /\ [Next]_vars => CurrentInv'
<1> SUFFICES ASSUME CoreInv, CurrentInv, [Next]_vars PROVE CurrentInv'
  OBVIOUS
<1>1. CASE UNCHANGED vars
  BY <1>1 DEF vars, CurrentInv, WillReplay
<1>2. ASSUME NEW t \in Setters, Begin(t) \/ Step(t)
      PROVE  CurrentInv'
  BY <1>2, SetBeginCurrent, SetInnerCurrent, SetLockCurrent,
     SetLockFailsCurrent, ReplayDropCurrent, ReplaySubscribeCurrent,
     ReplayPanicCurrent, SetReturnCurrent
     DEF Begin, Step, SetStep
<1>3. ASSUME NEW t \in Plugins, Begin(t) \/ Step(t)
      PROVE  CurrentInv'
  <2>1. CASE Begin(t)
    BY <1>3, <2>1, SubBeginCurrent, DropBeginCurrent, CallForwardCurrent,
       CallUnforwardedCurrent DEF Begin
  <2>2. CASE SubStep(t)
    BY <1>3, <2>2, SubLockCurrent, SubLockFailsCurrent, SubReadCurrent,
       SubHostCurrent, SubPanicCurrent, SubPushCurrent DEF SubStep
  <2>3. CASE DropStep(t) \/ CallReturn(t)
    BY <1>3, <2>3, DropLockCurrent, DropLockFailsCurrent, DropRetainCurrent,
       CallReturnCurrent DEF DropStep
  <2> QED BY <1>3, <2>1, <2>2, <2>3 DEF Step
<1>4. ASSUME NEW t \in Broadcasters, Begin(t) \/ Step(t)
      PROVE  CurrentInv'
  BY <1>4, FireBeginCurrent, RunCallbackCurrent, FireEndCurrent
     DEF Begin, Step, FireStep
<1> QED BY <1>1, <1>2, <1>3, <1>4 DEF Next

----------------------------------------------------------------------------
(* The safety properties *)

\* A callback is never in the hosts' lists twice, for any number of hosts and
\* of concurrent sets.
THEOREM NeverTwiceHolds == Spec => []NeverTwice
<1>1. CoreInv => NeverTwice
  <2> SUFFICES ASSUME CoreInv, NEW s \in Subs, NEW h1 \in Hosts, NEW h2 \in Hosts
               PROVE  /\ regs[h1][s] <= 1
                      /\ regs[h1][s] = 1 /\ regs[h2][s] = 1 => h1 = h2
    BY DEF NeverTwice
  <2>1. regs[h1][s] <= 1
    BY DEF CoreInv, RegInv
  <2>2. ASSUME NEW t \in Plugins, NEW h \in Hosts, InFlight(t, s, h)
        PROVE  real[s] = NoHost /\ subsLock = t /\ host[t] = h
    BY <2>2 DEF CoreInv, InFlight, PluginInv, SlotInv, MutexInv
  <2>3. ASSUME regs[h1][s] = 1, regs[h2][s] = 1
        PROVE  h1 = h2
    <3>1. real[s] = h1 \/ \E t \in Plugins : InFlight(t, s, h1)
      BY <2>3 DEF CoreInv, RegInv
    <3>2. real[s] = h2 \/ \E t \in Plugins : InFlight(t, s, h2)
      BY <2>3 DEF CoreInv, RegInv
    <3> QED BY <2>2, <3>1, <3>2
  <2> QED BY <2>1, <2>3
<1> QED BY <1>1, CoreInvariant, PTL

\* Once a guard is dropped, on a mutex that is not poisoned, no host lists the
\* callback and no event still runs it.
THEOREM DroppedIsSilentHolds == Spec => []DroppedIsSilent
<1>1. CoreInv => DroppedIsSilent
  <2> SUFFICES ASSUME CoreInv, ~poisoned, NEW s \in Subs,
                      guard[s] \in {"dropped", "failed"}
               PROVE  /\ \A h \in Hosts : regs[h][s] = 0
                      /\ \A t \in Broadcasters : s \notin todo[t]
    BY DEF DroppedIsSilent
  <2>1. real[s] = NoHost
    BY DEF CoreInv, SlotInv
  <2>2. \A t \in Plugins, h \in Hosts : ~InFlight(t, s, h)
    BY DEF CoreInv, InFlight, PluginInv
  <2>3. \A h \in Hosts : regs[h][s] = 0
    BY <2>1, <2>2 DEF CoreInv, RegInv
  <2> QED BY <2>3 DEF CoreInv, FireInv
<1> QED BY <1>1, CoreInvariant, PTL

\* Panics or not, an entry in a host's list has an owner that can remove it.
THEOREM EveryEntryIsOwnedHolds == Spec => []EveryEntryIsOwned
<1>1. CoreInv => EveryEntryIsOwned
  <2> SUFFICES ASSUME CoreInv, NEW h \in Hosts, NEW s \in Subs, regs[h][s] > 0
               PROVE  \/ slotId[s] # 0 /\ real[s] = h
                      \/ \E t \in Plugins : InFlight(t, s, h)
    BY DEF EveryEntryIsOwned, InFlight
  <2>1. real[s] = h \/ \E t \in Plugins : InFlight(t, s, h)
    BY DEF CoreInv, RegInv
  <2> QED BY <2>1 DEF CoreInv, SlotInv
<1> QED BY <1>1, CoreInvariant, PTL

\* If sets do not overlap, then whenever none is between its write of `inner`
\* and its last replayed slot, every held guard is registered with the
\* installed host and with no other.
THEOREM SettledOnCurrentHolds == OneSetter => (Spec => []SettledOnCurrent)
<1> SUFFICES ASSUME OneSetter PROVE Spec => []SettledOnCurrent
  OBVIOUS
<1>1. Init => CurrentInv
  BY DEF Init, CurrentInv
<1>2. CoreInv /\ CurrentInv => SettledOnCurrent
  <2> SUFFICES ASSUME CoreInv, CurrentInv, ~poisoned, IsBound,
                      \A t \in Setters : ~Setting(t),
                      NEW s \in Subs, guard[s] = "held"
               PROVE  /\ regs[inner][s] = 1
                      /\ \A h \in Hosts \ {inner} : regs[h][s] = 0
    BY DEF SettledOnCurrent
  <2>1. inner \in Hosts
    BY DEF CoreInv, TypeOK
  <2>2. real[s] = inner
    BY DEF CoreInv, SlotInv, CurrentInv, WillReplay, Setting
  <2>3. \A t \in Plugins, h \in Hosts : ~InFlight(t, s, h)
    BY DEF CoreInv, InFlight, PluginInv
  <2> QED BY <2>1, <2>2, <2>3 DEF CoreInv, RegInv
<1> QED BY <1>1, <1>2, CoreInvariant, CurrentStep, PTL DEF Spec

\* While a guard is held only a replay, by the owner of the mutex, moves its
\* registration: no drop ever takes away another guard's slot.
THEOREM HeldIsUndisturbedHolds == Spec => HeldIsUndisturbed
<1> DEFINE Quiet == UNCHANGED <<slotId, real>>
           Held(s) == guard[s] = "held" /\ guard'[s] = "held"
           Undisturbed == \A s \in Subs : Held(s) =>
                            /\ slotId'[s] = slotId[s]
                            /\ real'[s] # real[s] =>
                                 \E t \in Setters : subsLock = t /\ s \in todo[t]
<1>1. CoreInv /\ [Next]_vars => [Undisturbed]_vars
  <2> SUFFICES ASSUME CoreInv, Next PROVE Undisturbed
    OBVIOUS
  <2>1. CASE Quiet
    BY <2>1
  <2>2. ASSUME NEW t \in Setters, Begin(t) \/ Step(t)
        PROVE  Undisturbed
    <3>1. ASSUME NEW x \in Subs, ReplayDrop(t, x)
          PROVE  Undisturbed
      BY <3>1 DEF ReplayDrop, CoreInv, MutexInv, TypeOK
    <3>2. CASE ReplaySubscribe(t)
      BY <3>2 DEF ReplaySubscribe, CoreInv, MutexInv, SetterInv, TypeOK
    <3>3. CASE Quiet
      BY <3>3
    <3> QED
      BY <2>2, <3>1, <3>2, <3>3 DEF Begin, Step, SetStep, SetBegin, SetInner,
         SetLock, SetLockFails, ReplayPanic, SetReturn
  <2>3. ASSUME NEW t \in Plugins, Begin(t) \/ Step(t)
        PROVE  Undisturbed
    <3>1. CASE SubPush(t)
      BY <3>1 DEF SubPush, CoreInv, PluginInv, TypeOK
    <3>2. CASE DropRetain(t)
      <4>1. cb[t] \in Subs /\ guard[cb[t]] = "dropping"
        BY <3>2 DEF DropRetain, CoreInv, PluginInv
      <4>2. Removed(cb[t]) \subseteq {cb[t]}
        BY <4>1 DEF Removed, Slots, CoreInv, SlotInv
      <4> QED BY <3>2, <4>1, <4>2 DEF DropRetain, CoreInv, TypeOK
    <3>3. CASE Quiet
      BY <3>3
    <3> QED
      BY <2>3, <3>1, <3>2, <3>3 DEF Begin, Step, SubStep, DropStep, SubBegin,
         SubLock, SubLockFails, SubRead, SubHost, SubPanic, DropBegin, DropLock,
         DropLockFails, CallForward, CallUnforwarded, CallReturn
  <2>4. ASSUME NEW t \in Broadcasters, Begin(t) \/ Step(t)
        PROVE  Undisturbed
    BY <2>1, <2>4 DEF Begin, Step, FireStep, FireBegin, RunCallback, FireEnd
  <2> QED BY <2>2, <2>3, <2>4 DEF Next
<1> QED BY <1>1, CoreInvariant, PTL DEF Spec, HeldIsUndisturbed

----------------------------------------------------------------------------
(* The subscription bus *)

\* Every lock() on a poisoned mutex fails.
LEMMA PoisonStep == CoreInv /\ PoisonInv /\ [Next]_vars => PoisonInv'
<1> SUFFICES ASSUME CoreInv, PoisonInv, [Next]_vars PROVE PoisonInv'
  OBVIOUS
<1> USE DEF PoisonInv
<1>1. CASE UNCHANGED vars
  BY <1>1 DEF vars
<1>2. ASSUME NEW t \in Setters, Begin(t) \/ Step(t)
      PROVE  PoisonInv'
  BY <1>2 DEF Begin, Step, SetStep, SetBegin, SetInner, SetLock, SetLockFails,
     ReplayDrop, ReplaySubscribe, ReplayPanic, SetReturn
<1>3. ASSUME NEW t \in Plugins, Begin(t) \/ Step(t)
      PROVE  PoisonInv'
  BY <1>3 DEF Begin, Step, SubStep, DropStep, SubBegin, SubLock, SubLockFails,
     SubRead, SubHost, SubPanic, SubPush, DropBegin, DropLock, DropLockFails,
     DropRetain, CallForward, CallUnforwarded, CallReturn
<1>4. ASSUME NEW t \in Broadcasters, Begin(t) \/ Step(t)
      PROVE  PoisonInv'
  BY <1>4 DEF Begin, Step, FireStep, FireBegin, RunCallback, FireEnd
<1> QED BY <1>1, <1>2, <1>3, <1>4 DEF Next

\* A slot listens to the host of its `real` guard, and a subscription without
\* one to none, unless a subscribe is about to push it.
LEMMA ListensTo ==
  ASSUME CoreInv, NEW s \in Subs, \A t \in Plugins, h \in Hosts : ~InFlight(t, s, h)
  PROVE  BusListens[s] = IF real[s] = NoHost THEN {} ELSE {real[s]}
<1>1. \A h \in Hosts : regs[h][s] > 0 <=> real[s] = h
  BY DEF CoreInv, RegInv
<1>2. real[s] \in Hosts \cup {NoHost}
  BY DEF CoreInv, TypeOK
<1> QED BY <1>1, <1>2 DEF BusListens

\* A step of the bus that moves no subscription's phase and no listener.
LEMMA Invisible ==
  ASSUME UNCHANGED <<inner, poisoned, guard, regs>>
  PROVE  UNCHANGED <<inner, BusPhase, BusListens, poisoned>>
BY DEF BusPhase, BusListens

\* The phase follows the guard.
LEMMA PhaseMoves ==
  ASSUME CoreInv, NEW s \in Subs, NEW g \in GuardStates,
         guard' = [guard EXCEPT ![s] = g]
  PROVE  BusPhase' = [BusPhase EXCEPT ![s] =
                        CASE g \in {"held", "dropping"} -> "live"
                          [] g = "dropped" -> "closed"
                          [] OTHER -> "new"]
BY DEF BusPhase, CoreInv, TypeOK

\* Beginning to subscribe or to drop, and failing to subscribe, leave the phase.
LEMMA PhaseStays ==
  ASSUME CoreInv, NEW s \in Subs, NEW g \in GuardStates,
         guard' = [guard EXCEPT ![s] = g],
         \/ {guard[s], g} \subseteq {"unused", "subscribing", "failed"}
         \/ {guard[s], g} \subseteq {"held", "dropping"}
  PROVE  BusPhase' = BusPhase
<1>1. \A x \in Subs : guard'[x] = IF x = s THEN g ELSE guard[x]
  BY DEF CoreInv, TypeOK
<1>2. \A x \in Subs : /\ guard'[x] \in {"held", "dropping"} <=> guard[x] \in {"held", "dropping"}
                     /\ guard'[x] = "dropped" <=> guard[x] = "dropped"
  BY <1>1
<1>3. \A x \in Subs : BusPhase'[x] = BusPhase[x]
  BY <1>2 DEF BusPhase
<1> QED BY <1>3 DEF BusPhase

\* Registering a subscription that listens to nobody attaches it to that host.
LEMMA RegisterAttaches ==
  ASSUME CoreInv, NEW s \in Subs, NEW h \in Hosts, Register(h, s), BusListens[s] = {}
  PROVE  BusListens' = [BusListens EXCEPT ![s] = {h}]
<1>1. \A x \in Hosts : regs[x][s] = 0
  BY DEF BusListens, CoreInv, TypeOK
<1>2. \A x \in Hosts, y \in Subs :
        regs'[x][y] = IF x = h /\ y = s THEN 1 ELSE regs[x][y]
  BY <1>1 DEF Register, CoreInv, TypeOK
<1>3. \A y \in Subs :
        {x \in Hosts : regs'[x][y] > 0} = IF y = s THEN {h} ELSE BusListens[y]
  BY <1>1, <1>2 DEF BusListens
<1> QED BY <1>3 DEF BusListens

\* Dropping the `real` guard of a slot leaves it listening to nobody.
LEMMA UnregisterDetaches ==
  ASSUME CoreInv, NEW s \in Subs, Unregister({s}),
         \A t \in Plugins, h \in Hosts : ~InFlight(t, s, h)
  PROVE  BusListens' = [BusListens EXCEPT ![s] = {}]
<1>1. \A h \in Hosts : regs'[h][s] = 0
  BY DEF Unregister, CoreInv, RegInv
<1>2. \A h \in Hosts, x \in Subs : x # s => regs'[h][x] = regs[h][x]
  BY DEF Unregister
<1>3. \A y \in Subs :
        {h \in Hosts : regs'[h][y] > 0} = IF y = s THEN {} ELSE BusListens[y]
  BY <1>1, <1>2 DEF BusListens
<1> QED BY <1>3 DEF BusListens

\* Every step of set is a step of the bus: the swap itself installs a host, the
\* replay detaches and attaches, a panic breaks it.
LEMMA SetStepBus ==
  ASSUME NEW t \in Setters, CoreInv, CurrentInv, PoisonInv, Begin(t) \/ Step(t)
  PROVE  [Bus!BusNext]_(Bus!busVars)
<1> USE DEF CoreInv
<1>1. CASE SetInner(t)
  <2>1. host[t] \in Hosts
    BY <1>1 DEF SetInner, SetterInv
  <2>2. Bus!Install(host[t])
    BY <1>1 DEF SetInner, Bus!Install, BusPhase, BusListens
  <2> QED BY <2>1, <2>2 DEF Bus!BusNext
<1>2. ASSUME NEW s \in Subs, ReplayDrop(t, s)
      PROVE  Bus!Detach(s)
  <2>1. subsLock = t /\ ~poisoned /\ s \in Slots
    BY <1>2 DEF ReplayDrop, MutexInv, PoisonInv, SetterInv
  <2>2. guard[s] \in {"held", "dropping"}
    BY <2>1 DEF SlotInv, Slots
  <2>3. \A u \in Plugins, h \in Hosts : ~InFlight(u, s, h)
    BY <2>2 DEF InFlight, PluginInv
  <2>4. BusListens' = [BusListens EXCEPT ![s] = {}]
    BY <1>2, <2>3, UnregisterDetaches DEF ReplayDrop
  <2>5. BusPhase[s] = "live"
    BY <2>2 DEF BusPhase
  <2> QED BY <1>2, <2>1, <2>4, <2>5 DEF ReplayDrop, Bus!Detach, BusPhase
<1>3. CASE ReplaySubscribe(t)
  <2>1. /\ subsLock = t /\ ~poisoned /\ host[t] \in Hosts /\ host[t] = inner
        /\ cb[t] \in Slots /\ real[cb[t]] = NoHost
    BY <1>3 DEF ReplaySubscribe, MutexInv, PoisonInv, SetterInv, CurrentInv
  <2>2. cb[t] \in Subs /\ guard[cb[t]] \in {"held", "dropping"}
    BY <2>1 DEF SlotInv, Slots
  <2>3. \A u \in Plugins, h \in Hosts : ~InFlight(u, cb[t], h)
    BY <2>2 DEF InFlight, PluginInv
  <2>4. BusListens[cb[t]] = {}
    BY <2>1, <2>2, <2>3, ListensTo
  <2>5. BusListens' = [BusListens EXCEPT ![cb[t]] = {inner}]
    BY <1>3, <2>1, <2>2, <2>4, RegisterAttaches DEF ReplaySubscribe
  <2>6. BusPhase[cb[t]] = "live"
    BY <2>2 DEF BusPhase
  <2>7. Bus!Attach(cb[t])
    BY <1>3, <2>1, <2>4, <2>5, <2>6 DEF ReplaySubscribe, Bus!Attach, BusPhase
  <2> QED BY <2>2, <2>7 DEF Bus!BusNext
<1>4. CASE ReplayPanic(t)
  <2>1. Bus!Break
    BY <1>4 DEF ReplayPanic, Bus!Break, BusPhase, BusListens
  <2> QED BY <2>1 DEF Bus!BusNext
<1>5. CASE UNCHANGED <<inner, poisoned, guard, regs>>
  BY <1>5, Invisible DEF Bus!busVars
<1> QED
  BY <1>1, <1>2, <1>3, <1>4, <1>5 DEF Begin, Step, SetStep, SetBegin, SetLock,
     SetLockFails, SetReturn, Bus!BusNext

\* Subscribing attaches and opens, dropping closes; what a plugin calls
\* otherwise is invisible on the bus.
LEMMA PluginStepBus ==
  ASSUME NEW t \in Plugins, CoreInv, PoisonInv, Begin(t) \/ Step(t)
  PROVE  [Bus!BusNext]_(Bus!busVars)
<1> USE DEF CoreInv
<1>1. CASE SubHost(t)
  <2>1. /\ subsLock = t /\ ~poisoned /\ host[t] \in Hosts /\ host[t] = inner
        /\ cb[t] \in Subs /\ guard[cb[t]] = "subscribing"
    BY <1>1 DEF SubHost, MutexInv, PoisonInv, PluginInv
  <2>2. real[cb[t]] = NoHost
    BY <2>1 DEF SlotInv
  <2>3. \A u \in Plugins, h \in Hosts : ~InFlight(u, cb[t], h)
    BY <1>1, <2>1 DEF SubHost, InFlight, OneThreadPerSub
  <2>4. BusListens[cb[t]] = {}
    BY <2>1, <2>2, <2>3, ListensTo
  <2>5. BusListens' = [BusListens EXCEPT ![cb[t]] = {inner}]
    BY <1>1, <2>1, <2>4, RegisterAttaches DEF SubHost
  <2>6. BusPhase[cb[t]] = "new"
    BY <2>1 DEF BusPhase
  <2>7. Bus!Attach(cb[t])
    BY <1>1, <2>1, <2>4, <2>5, <2>6 DEF SubHost, Bus!Attach, BusPhase
  <2> QED BY <2>1, <2>7 DEF Bus!BusNext
<1>2. CASE SubPush(t)
  <2>1. subsLock = t /\ ~poisoned /\ cb[t] \in Subs /\ guard[cb[t]] = "subscribing"
    BY <1>2 DEF SubPush, MutexInv, PoisonInv, PluginInv
  <2>2. BusPhase' = [BusPhase EXCEPT ![cb[t]] = "live"]
    BY <1>2, <2>1, PhaseMoves DEF SubPush
  <2>3. BusPhase[cb[t]] = "new"
    BY <2>1 DEF BusPhase
  <2>4. Bus!Open(cb[t])
    BY <1>2, <2>1, <2>2, <2>3 DEF SubPush, Bus!Open, BusListens
  <2> QED BY <2>1, <2>4 DEF Bus!BusNext
<1>3. CASE SubPanic(t)
  <2>1. cb[t] \in Subs /\ guard[cb[t]] = "subscribing"
    BY <1>3 DEF SubPanic, PluginInv
  <2>2. BusPhase' = BusPhase
    BY <1>3, <2>1, PhaseStays DEF SubPanic
  <2>3. Bus!Break
    BY <1>3, <2>2 DEF SubPanic, Bus!Break, BusListens
  <2> QED BY <2>3 DEF Bus!BusNext
<1>4. CASE DropRetain(t)
  <2>1. subsLock = t /\ ~poisoned /\ cb[t] \in Subs /\ guard[cb[t]] = "dropping"
    BY <1>4 DEF DropRetain, MutexInv, PoisonInv, PluginInv
  <2>2. Removed(cb[t]) = {cb[t]}
    BY <2>1 DEF Removed, Slots, SlotInv
  <2>3. \A u \in Plugins, h \in Hosts : ~InFlight(u, cb[t], h)
    BY <2>1 DEF InFlight, PluginInv
  <2>4. BusListens' = [BusListens EXCEPT ![cb[t]] = {}]
    BY <1>4, <2>1, <2>2, <2>3, UnregisterDetaches DEF DropRetain
  <2>5. BusPhase' = [BusPhase EXCEPT ![cb[t]] = "closed"] /\ BusPhase[cb[t]] = "live"
    <3>1. BusPhase' = [BusPhase EXCEPT ![cb[t]] = "closed"]
      BY <1>4, <2>1, PhaseMoves DEF DropRetain
    <3> QED BY <2>1, <3>1 DEF BusPhase
  <2>6. Bus!Close(cb[t])
    BY <1>4, <2>1, <2>4, <2>5 DEF DropRetain, Bus!Close
  <2> QED BY <2>1, <2>6 DEF Bus!BusNext
<1>5. CASE DropLockFails(t)
  <2>1. poisoned /\ cb[t] \in Subs /\ guard[cb[t]] = "dropping"
    BY <1>5 DEF DropLockFails, PluginInv
  <2>2. BusPhase' = [BusPhase EXCEPT ![cb[t]] = "closed"] /\ BusPhase[cb[t]] = "live"
    <3>1. BusPhase' = [BusPhase EXCEPT ![cb[t]] = "closed"]
      BY <1>5, <2>1, PhaseMoves DEF DropLockFails
    <3> QED BY <2>1, <3>1 DEF BusPhase
  <2>3. Bus!Close(cb[t])
    BY <1>5, <2>1, <2>2 DEF DropLockFails, Bus!Close, BusListens
  <2> QED BY <2>1, <2>3 DEF Bus!BusNext
<1>6. CASE UNCHANGED <<inner, poisoned, BusPhase, regs>>
  BY <1>6 DEF Bus!busVars, BusListens
<1>7. ASSUME NEW s \in Subs, SubBegin(t, s) \/ DropBegin(t, s)
      PROVE  UNCHANGED <<inner, poisoned, BusPhase, regs>>
  <2>1. CASE SubBegin(t, s)
    BY <2>1, PhaseStays DEF SubBegin
  <2>2. CASE DropBegin(t, s)
    BY <2>2, PhaseStays DEF DropBegin
  <2> QED BY <1>7, <2>1, <2>2
<1>8. CASE SubLockFails(t)
  <2>1. cb[t] \in Subs /\ guard[cb[t]] = "subscribing"
    BY <1>8 DEF SubLockFails, PluginInv
  <2>2. BusPhase' = BusPhase
    BY <1>8, <2>1, PhaseStays DEF SubLockFails
  <2> QED BY <1>6, <1>8, <2>2 DEF SubLockFails
<1>9. CASE UNCHANGED <<inner, poisoned, guard, regs>>
  BY <1>6, <1>9 DEF BusPhase
<1> QED
  BY <1>1, <1>2, <1>3, <1>4, <1>5, <1>6, <1>7, <1>8, <1>9 DEF Begin, Step,
     SubStep, DropStep, SubLock, SubRead, DropLock, CallForward,
     CallUnforwarded, CallReturn

\* The locks-and-slots code implements the safety of the subscription bus, when
\* sets do not overlap: a callback starts to listen only to the installed host,
\* only while it listens to no other, and never after its guard was dropped.
THEOREM ImplementsBusSafety == OneSetter => (Spec => Bus!BusSafety)
<1> SUFFICES ASSUME OneSetter PROVE Spec => Bus!BusSafety
  OBVIOUS
<1>1. Init => CurrentInv /\ PoisonInv
  BY DEF Init, CurrentInv, PoisonInv
<1>2. Init => Bus!BusInit
  BY DEF Init, Bus!BusInit, BusPhase, BusListens
<1>3. CoreInv /\ CurrentInv /\ PoisonInv /\ [Next]_vars => [Bus!BusNext]_(Bus!busVars)
  <2> SUFFICES ASSUME CoreInv, CurrentInv, PoisonInv, [Next]_vars
               PROVE  [Bus!BusNext]_(Bus!busVars)
    OBVIOUS
  <2>1. CASE UNCHANGED vars
    BY <2>1, Invisible DEF vars, Bus!busVars
  <2>2. ASSUME NEW t \in Broadcasters, Begin(t) \/ Step(t)
        PROVE  [Bus!BusNext]_(Bus!busVars)
    BY <2>2, Invisible DEF Begin, Step, FireStep, FireBegin, RunCallback, FireEnd,
       Bus!busVars
  <2> QED BY <2>1, <2>2, SetStepBus, PluginStepBus DEF Next
<1> QED
  BY <1>1, <1>2, <1>3, CoreInvariant, CurrentStep, PoisonStep, PTL
     DEF Spec, Bus!BusSafety

=============================================================================
