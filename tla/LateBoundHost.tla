--------------------------- MODULE LateBoundHost ---------------------------
(***************************************************************************)
(* LateBoundBackendHost (src/backend.rs): a BackendHost handed to plugins  *)
(* before the real host exists.  `set` installs (or swaps) the real host   *)
(* and replays onto it every subscription a plugin still holds a guard     *)
(* for; forwarded calls go to whichever host is installed when they read   *)
(* the `inner` lock.                                                       *)
(*                                                                         *)
(* A step is what one thread does between two points where another thread  *)
(* can get in: taking or releasing a lock, or calling into the real host.  *)
(* The real host is external.  It is modelled on the BroadcastingHost of   *)
(* the crate's tests, which "mirrors the production GatewayBackendHost     *)
(* contract": one list of callbacks per kind of event, each behind its own *)
(* mutex, held while the callbacks of an event run.                        *)
(***************************************************************************)
EXTENDS Naturals

CONSTANTS
  Setters,       \* threads that call set (bootstrap, config reload)
  Plugins,       \* threads that run plugin code: subscribe, drop, call
  Broadcasters,  \* threads of the real hosts that fire events
  Hosts,         \* the real hosts that may be installed
  Subs,          \* subscriptions: one callback, one guard each
  KindOf,        \* [Subs -> Kinds]: which subscribe_* each one uses
  Methods,       \* the BackendHost methods plugins call
  HostPanics,    \* may a host's subscribe_* panic?
  NoHost, NoSub, Free,
  MaxId,         \* bound on next_id, below the wrap of the u64 counter
  MaxSets,       \* bound on calls of set
  MaxFires       \* bound on events fired

Kinds == {"revocation", "rotation"}

Threads == Setters \cup Plugins \cup Broadcasters

AllMethods == {"invoke_tool", "store_content", "fetch_content", "cache_get",
               "cache_put", "cache_invalidate", "resolve_credentials"}

ASSUME RolesAssumption ==
  /\ Setters \cap Plugins = {}
  /\ Setters \cap Broadcasters = {}
  /\ Plugins \cap Broadcasters = {}

ASSUME ConstantsAssumption ==
  /\ KindOf \in [Subs -> Kinds]
  /\ Methods \subseteq AllMethods
  /\ HostPanics \in BOOLEAN
  /\ NoHost \notin Hosts
  /\ NoSub \notin Subs
  /\ Free \notin Threads
  /\ MaxId \in Nat
  /\ MaxSets \in Nat
  /\ MaxFires \in Nat

VARIABLES
  inner,     \* LateBoundBackendHost.inner, a host or NoHost
  subsLock,  \* owner of the `subscriptions` mutex, or Free
  poisoned,  \* has a thread panicked while it owned that mutex?
  nextId,    \* LateBoundSubscriptions.next_id
  slotId,    \* id of the buffered slot of each subscription, 0 for no slot
  real,      \* the host the slot's `real` guard is registered with
  guard,     \* what became of the guard handed to the plugin
  guardId,   \* LateBound*Guard.id
  regs,      \* regs[h][s]: entries for s in host h's callback lists
  listLock,  \* listLock[h][k]: the broadcaster firing on that list, or Free
  pc,        \* where each thread is
  host,      \* set's argument, or the Arc a call or a subscribe read
  cb,        \* the subscription a thread is working on
  todo,      \* slots still to replay, or callbacks still to run
  answer,    \* what a plugin's last BackendHost call returned
  sets, fires

lockVars  == <<subsLock, poisoned>>
slotVars  == <<nextId, slotId, real>>
guardVars == <<guard, guardId>>
hostVars  == <<regs, listLock>>
localVars == <<pc, host, cb, todo>>
vars == <<inner, lockVars, slotVars, guardVars, hostVars, localVars, answer,
          sets, fires>>

GuardStates == {"unused", "subscribing", "held", "dropping", "dropped",
                "failed"}
Answers == {"none", "host", "not_implemented", "empty_ok"}
SetPc  == {"set_inner", "set_lock", "replay_drop", "replay_sub"}
SubPc  == {"sub_lock", "sub_read", "sub_host", "sub_push"}
DropPc == {"drop_lock", "drop_retain"}
AllPc  == {"idle", "call_host", "fire"} \cup SetPc \cup SubPc \cup DropPc

\* The program points at which a thread owns the subscriptions mutex.
OwnsSubs == {"replay_drop", "replay_sub", "sub_read", "sub_host", "sub_push",
             "drop_retain"}

TypeOK ==
  /\ inner \in Hosts \cup {NoHost}
  /\ subsLock \in Threads \cup {Free}
  /\ poisoned \in BOOLEAN
  /\ nextId \in 0..MaxId
  /\ slotId \in [Subs -> 0..MaxId]
  /\ real \in [Subs -> Hosts \cup {NoHost}]
  /\ guard \in [Subs -> GuardStates]
  /\ guardId \in [Subs -> 0..MaxId]
  /\ regs \in [Hosts -> [Subs -> Nat]]
  /\ listLock \in [Hosts -> [Kinds -> Broadcasters \cup {Free}]]
  /\ pc \in [Threads -> AllPc]
  /\ host \in [Threads -> Hosts \cup {NoHost}]
  /\ cb \in [Threads -> Subs \cup {NoSub}]
  /\ todo \in [Threads -> SUBSET Subs]
  /\ answer \in [Plugins -> Answers]
  /\ sets \in 0..MaxSets
  /\ fires \in 0..MaxFires

Init ==
  /\ inner = NoHost
  /\ subsLock = Free
  /\ poisoned = FALSE
  /\ nextId = 0
  /\ slotId = [s \in Subs |-> 0]
  /\ real = [s \in Subs |-> NoHost]
  /\ guard = [s \in Subs |-> "unused"]
  /\ guardId = [s \in Subs |-> 0]
  /\ regs = [h \in Hosts |-> [s \in Subs |-> 0]]
  /\ listLock = [h \in Hosts |-> [k \in Kinds |-> Free]]
  /\ pc = [t \in Threads |-> "idle"]
  /\ host = [t \in Threads |-> NoHost]
  /\ cb = [t \in Threads |-> NoSub]
  /\ todo = [t \in Threads |-> {}]
  /\ answer = [t \in Plugins |-> "none"]
  /\ sets = 0
  /\ fires = 0

----------------------------------------------------------------------------
(* Helpers. *)

Goto(t, label) == pc' = [pc EXCEPT ![t] = label]

\* The operation returns or unwinds: its locals are gone.
Return(t) ==
  /\ Goto(t, "idle")
  /\ host' = [host EXCEPT ![t] = NoHost]
  /\ cb' = [cb EXCEPT ![t] = NoSub]
  /\ todo' = [todo EXCEPT ![t] = {}]

IsBound == inner # NoHost

Slots == {s \in Subs : slotId[s] # 0}

\* Faulty variant: the host is cloned out and the read guard dropped before
\* the host is called.
InnerReadersNone == {}

\* Threads holding a read guard of `inner` across a step: a subscribe_* keeps
\* the temporary alive while it calls the host.
InnerReaders == {t \in Threads : pc[t] = "sub_host"}

\* The host's list that the callback of s is kept in is free to be locked.
ListFree(h, s) == listLock[h][KindOf[s]] = Free

\* Faulty variant: `<` in place of `!=` in the retain predicate.
RemovedLater(s) ==
  {x \in Slots : KindOf[x] = KindOf[s] /\ slotId[x] >= guardId[s]}

\* The slots a guard's Drop retains nothing of.
Removed(s) == {x \in Slots : KindOf[x] = KindOf[s] /\ slotId[x] = guardId[s]}

\* host.subscribe_*: one more entry for s in the list of h.
Register(h, s) ==
  /\ ListFree(h, s)
  /\ regs' = [regs EXCEPT ![h][s] = @ + 1]

\* Dropping the `real` guards of a set of slots: each takes its entry away.
Unregister(S) ==
  /\ \A s \in S : real[s] # NoHost => ListFree(real[s], s)
  /\ regs' = [h \in Hosts |-> [s \in Subs |->
                IF s \in S /\ real[s] = h THEN regs[h][s] - 1 ELSE regs[h][s]]]

\* A panic in the host unwinds through the owner of the subscriptions mutex.
UnwindPoisoning(t) ==
  /\ HostPanics
  /\ poisoned' = TRUE
  /\ subsLock' = Free
  /\ Return(t)

----------------------------------------------------------------------------
(* set *)

SetBegin(t, h) ==
  /\ pc[t] = "idle"
  /\ sets < MaxSets
  /\ sets' = sets + 1
  /\ Goto(t, "set_inner")
  /\ host' = [host EXCEPT ![t] = h]
  /\ UNCHANGED <<inner, lockVars, slotVars, guardVars, hostVars, cb, todo,
                 answer, fires>>

\* The write guard of `inner` lives for one statement only.
SetInner(t) ==
  /\ pc[t] = "set_inner"
  /\ InnerReaders = {}
  /\ inner' = host[t]
  /\ Goto(t, "set_lock")
  /\ UNCHANGED <<lockVars, slotVars, guardVars, hostVars, host, cb, todo,
                 answer, sets, fires>>

\* Faulty variant: the rotation slots are forgotten.
SetLockHalf(t) ==
  /\ pc[t] = "set_lock"
  /\ subsLock = Free
  /\ ~poisoned
  /\ subsLock' = t
  /\ todo' = [todo EXCEPT ![t] = {s \in Slots : KindOf[s] = "revocation"}]
  /\ Goto(t, "replay_drop")
  /\ UNCHANGED <<inner, poisoned, slotVars, guardVars, hostVars, host, cb,
                 answer, sets, fires>>

\* subscriptions.lock(): the loops will go through every slot.
SetLock(t) ==
  /\ pc[t] = "set_lock"
  /\ subsLock = Free
  /\ ~poisoned
  /\ subsLock' = t
  /\ todo' = [todo EXCEPT ![t] = Slots]
  /\ Goto(t, "replay_drop")
  /\ UNCHANGED <<inner, poisoned, slotVars, guardVars, hostVars, host, cb,
                 answer, sets, fires>>

\* Faulty variant: try_lock in place of lock.
SetLockFailsBusy(t) ==
  /\ pc[t] = "set_lock"
  /\ subsLock = Free => poisoned
  /\ Return(t)
  /\ UNCHANGED <<inner, lockVars, slotVars, guardVars, hostVars, answer, sets,
                 fires>>

\* .expect(..) on a poisoned mutex: set panics and replays nothing.
SetLockFails(t) ==
  /\ pc[t] = "set_lock"
  /\ subsLock = Free
  /\ poisoned
  /\ Return(t)
  /\ UNCHANGED <<inner, lockVars, slotVars, guardVars, hostVars, answer, sets,
                 fires>>

\* Faulty variant: the previous `real` guard is leaked, not dropped.
ReplayDropLeak(t, s) ==
  /\ pc[t] = "replay_drop"
  /\ s \in todo[t]
  /\ real' = [real EXCEPT ![s] = NoHost]
  /\ cb' = [cb EXCEPT ![t] = s]
  /\ Goto(t, "replay_sub")
  /\ UNCHANGED <<inner, lockVars, nextId, slotId, guardVars, hostVars, host,
                 todo, answer, sets, fires>>

\* slot.real = None, the revocation slots before the rotation slots.
ReplayDrop(t, s) ==
  /\ pc[t] = "replay_drop"
  /\ s \in todo[t]
  /\ KindOf[s] = "rotation" => \A x \in todo[t] : KindOf[x] = "rotation"
  /\ Unregister({s})
  /\ real' = [real EXCEPT ![s] = NoHost]
  /\ cb' = [cb EXCEPT ![t] = s]
  /\ Goto(t, "replay_sub")
  /\ UNCHANGED <<inner, lockVars, nextId, slotId, guardVars, listLock, host,
                 todo, answer, sets, fires>>

\* Faulty variant: the rotation loop does not keep the new guard.
ReplaySubscribeLost(t) ==
  /\ pc[t] = "replay_sub"
  /\ Register(host[t], cb[t])
  /\ real' = [real EXCEPT ![cb[t]] =
                 IF KindOf[cb[t]] = "rotation" THEN NoHost ELSE host[t]]
  /\ todo' = [todo EXCEPT ![t] = @ \ {cb[t]}]
  /\ cb' = [cb EXCEPT ![t] = NoSub]
  /\ Goto(t, "replay_drop")
  /\ UNCHANGED <<inner, lockVars, nextId, slotId, guardVars, listLock, host,
                 answer, sets, fires>>

\* slot.real = Some(host.subscribe_*(callback))
ReplaySubscribe(t) ==
  /\ pc[t] = "replay_sub"
  /\ Register(host[t], cb[t])
  /\ real' = [real EXCEPT ![cb[t]] = host[t]]
  /\ todo' = [todo EXCEPT ![t] = @ \ {cb[t]}]
  /\ cb' = [cb EXCEPT ![t] = NoSub]
  /\ Goto(t, "replay_drop")
  /\ UNCHANGED <<inner, lockVars, nextId, slotId, guardVars, listLock, host,
                 answer, sets, fires>>

ReplayPanic(t) ==
  /\ pc[t] = "replay_sub"
  /\ UnwindPoisoning(t)
  /\ UNCHANGED <<inner, slotVars, guardVars, hostVars, answer, sets, fires>>

SetReturn(t) ==
  /\ pc[t] = "replay_drop"
  /\ todo[t] = {}
  /\ subsLock' = Free
  /\ Return(t)
  /\ UNCHANGED <<inner, poisoned, slotVars, guardVars, hostVars, answer, sets,
                 fires>>

----------------------------------------------------------------------------
(* subscribe_credential_revoked, subscribe_secret_rotation *)

SubBegin(t, s) ==
  /\ pc[t] = "idle"
  /\ guard[s] = "unused"
  /\ guard' = [guard EXCEPT ![s] = "subscribing"]
  /\ cb' = [cb EXCEPT ![t] = s]
  /\ Goto(t, "sub_lock")
  /\ UNCHANGED <<inner, lockVars, slotVars, guardId, hostVars, host, todo,
                 answer, sets, fires>>

\* subscriptions.lock(), then next_id is bumped.
SubLock(t) ==
  /\ pc[t] = "sub_lock"
  /\ subsLock = Free
  /\ ~poisoned
  /\ nextId < MaxId
  /\ nextId' = nextId + 1
  /\ subsLock' = t
  /\ Goto(t, "sub_read")
  /\ UNCHANGED <<inner, poisoned, slotId, real, guardVars, hostVars, host, cb,
                 todo, answer, sets, fires>>

\* .expect(..) on a poisoned mutex: the caller gets no guard.
SubLockFails(t) ==
  /\ pc[t] = "sub_lock"
  /\ subsLock = Free
  /\ poisoned
  /\ guard' = [guard EXCEPT ![cb[t]] = "failed"]
  /\ Return(t)
  /\ UNCHANGED <<inner, lockVars, slotVars, guardId, hostVars, answer, sets,
                 fires>>

\* inner.read(): the guard is kept while a bound host is called.
SubRead(t) ==
  /\ pc[t] = "sub_read"
  /\ host' = [host EXCEPT ![t] = inner]
  /\ Goto(t, IF IsBound THEN "sub_host" ELSE "sub_push")
  /\ UNCHANGED <<inner, lockVars, slotVars, guardVars, hostVars, cb, todo,
                 answer, sets, fires>>

SubHost(t) ==
  /\ pc[t] = "sub_host"
  /\ Register(host[t], cb[t])
  /\ Goto(t, "sub_push")
  /\ UNCHANGED <<inner, lockVars, slotVars, guardVars, listLock, host, cb,
                 todo, answer, sets, fires>>

SubPanic(t) ==
  /\ pc[t] = "sub_host"
  /\ UnwindPoisoning(t)
  /\ guard' = [guard EXCEPT ![cb[t]] = "failed"]
  /\ UNCHANGED <<inner, slotVars, guardId, hostVars, answer, sets, fires>>

\* The slot is pushed, the mutex released, the guard handed out.
SubPush(t) ==
  /\ pc[t] = "sub_push"
  /\ slotId' = [slotId EXCEPT ![cb[t]] = nextId]
  /\ real' = [real EXCEPT ![cb[t]] = host[t]]
  /\ guardId' = [guardId EXCEPT ![cb[t]] = nextId]
  /\ guard' = [guard EXCEPT ![cb[t]] = "held"]
  /\ subsLock' = Free
  /\ Return(t)
  /\ UNCHANGED <<inner, poisoned, nextId, hostVars, answer, sets, fires>>

----------------------------------------------------------------------------
(* Drop of a guard *)

DropBegin(t, s) ==
  /\ pc[t] = "idle"
  /\ guard[s] = "held"
  /\ guard' = [guard EXCEPT ![s] = "dropping"]
  /\ cb' = [cb EXCEPT ![t] = s]
  /\ Goto(t, "drop_lock")
  /\ UNCHANGED <<inner, lockVars, slotVars, guardId, hostVars, host, todo,
                 answer, sets, fires>>

\* if let Ok(..) = lock()
DropLock(t) ==
  /\ pc[t] = "drop_lock"
  /\ subsLock = Free
  /\ ~poisoned
  /\ subsLock' = t
  /\ Goto(t, "drop_retain")
  /\ UNCHANGED <<inner, poisoned, slotVars, guardVars, hostVars, host, cb, todo,
                 answer, sets, fires>>

\* Faulty variant: try_lock in place of lock.
DropLockFailsBusy(t) ==
  /\ pc[t] = "drop_lock"
  /\ subsLock = Free => poisoned
  /\ guard' = [guard EXCEPT ![cb[t]] = "dropped"]
  /\ Return(t)
  /\ UNCHANGED <<inner, lockVars, slotVars, guardId, hostVars, answer, sets,
                 fires>>

\* The mutex is poisoned: the drop does nothing and the slot stays.
DropLockFails(t) ==
  /\ pc[t] = "drop_lock"
  /\ subsLock = Free
  /\ poisoned
  /\ guard' = [guard EXCEPT ![cb[t]] = "dropped"]
  /\ Return(t)
  /\ UNCHANGED <<inner, lockVars, slotVars, guardId, hostVars, answer, sets,
                 fires>>

\* retain(|slot| slot.id != self.id); the slots' `real` guards drop with them.
DropRetain(t) ==
  LET gone == Removed(cb[t]) IN
  /\ pc[t] = "drop_retain"
  /\ Unregister(gone)
  /\ slotId' = [s \in Subs |-> IF s \in gone THEN 0 ELSE slotId[s]]
  /\ real' = [s \in Subs |-> IF s \in gone THEN NoHost ELSE real[s]]
  /\ guard' = [guard EXCEPT ![cb[t]] = "dropped"]
  /\ subsLock' = Free
  /\ Return(t)
  /\ UNCHANGED <<inner, poisoned, nextId, guardId, listLock, answer, sets,
                 fires>>

----------------------------------------------------------------------------
(* Calls through the late-bound host.  resolve_credentials is the one method *)
(* of the trait it does not override: the trait's default body answers.      *)

Overridden == AllMethods \ {"resolve_credentials"}

\* What a method answers without reaching a host.
UnboundAnswer(m) ==
  IF m \in {"cache_get", "cache_put", "cache_invalidate"}
  THEN "empty_ok" ELSE "not_implemented"

\* inner.read().clone(): the read guard is gone before the host is called.
CallForward(t, m) ==
  /\ pc[t] = "idle"
  /\ m \in Overridden /\ IsBound
  /\ host' = [host EXCEPT ![t] = inner]
  /\ Goto(t, "call_host")
  /\ answer' = [answer EXCEPT ![t] = "none"]
  /\ UNCHANGED <<inner, lockVars, slotVars, guardVars, hostVars, cb, todo,
                 sets, fires>>

\* No host is installed, or the method is left to the trait's default body.
CallUnforwarded(t, m) ==
  /\ pc[t] = "idle"
  /\ m \notin Overridden \/ ~IsBound
  /\ answer' = [answer EXCEPT ![t] = UnboundAnswer(m)]
  /\ UNCHANGED <<inner, lockVars, slotVars, guardVars, hostVars, localVars,
                 sets, fires>>

CallReturn(t) ==
  /\ pc[t] = "call_host"
  /\ answer' = [answer EXCEPT ![t] = "host"]
  /\ Return(t)
  /\ UNCHANGED <<inner, lockVars, slotVars, guardVars, hostVars, sets, fires>>

----------------------------------------------------------------------------
(* The real host fires an event: it owns the list while the callbacks run.  *)

FireBegin(t, h, k) ==
  /\ pc[t] = "idle"
  /\ fires < MaxFires
  /\ listLock[h][k] = Free
  /\ fires' = fires + 1
  /\ listLock' = [listLock EXCEPT ![h][k] = t]
  /\ todo' = [todo EXCEPT ![t] = {s \in Subs : KindOf[s] = k /\ regs[h][s] > 0}]
  /\ Goto(t, "fire")
  /\ UNCHANGED <<inner, lockVars, slotVars, guardVars, regs, host, cb, answer,
                 sets>>

RunCallback(t, s) ==
  /\ pc[t] = "fire"
  /\ s \in todo[t]
  /\ todo' = [todo EXCEPT ![t] = @ \ {s}]
  /\ UNCHANGED <<inner, lockVars, slotVars, guardVars, hostVars, pc, host, cb,
                 answer, sets, fires>>

FireEnd(t) ==
  /\ pc[t] = "fire"
  /\ todo[t] = {}
  /\ listLock' = [h \in Hosts |-> [k \in Kinds |->
                    IF listLock[h][k] = t THEN Free ELSE listLock[h][k]]]
  /\ Return(t)
  /\ UNCHANGED <<inner, lockVars, slotVars, guardVars, regs, answer, sets,
                 fires>>

----------------------------------------------------------------------------

SetStep(t) ==
  \/ SetInner(t) \/ SetLock(t) \/ SetLockFails(t)
  \/ (\E s \in Subs : ReplayDrop(t, s))
  \/ ReplaySubscribe(t) \/ ReplayPanic(t) \/ SetReturn(t)

SubStep(t) ==
  \/ SubLock(t) \/ SubLockFails(t) \/ SubRead(t)
  \/ SubHost(t) \/ SubPanic(t) \/ SubPush(t)

DropStep(t) == DropLock(t) \/ DropLockFails(t) \/ DropRetain(t)

FireStep(t) == (\E s \in Subs : RunCallback(t, s)) \/ FireEnd(t)

\* The steps of an operation under way: a thread that can take one does.
Step(t) ==
  \/ t \in Setters /\ SetStep(t)
  \/ t \in Plugins /\ (SubStep(t) \/ DropStep(t) \/ CallReturn(t))
  \/ t \in Broadcasters /\ FireStep(t)

\* The operations threads may start, or never start.
Begin(t) ==
  \/ t \in Setters /\ \E h \in Hosts : SetBegin(t, h)
  \/ t \in Plugins /\ \/ \E s \in Subs : SubBegin(t, s) \/ DropBegin(t, s)
                      \/ \E m \in Methods : CallForward(t, m) \/ CallUnforwarded(t, m)
  \/ t \in Broadcasters /\ \E h \in Hosts, k \in Kinds : FireBegin(t, h, k)

Next == \E t \in Threads : Begin(t) \/ Step(t)

Spec == Init /\ [][Next]_vars

\* The scheduler runs every thread that can run.  No mutex fairness is needed:
\* set, subscribe, drop and fire are each started finitely often, and a call
\* holds no lock across a step.
FairSpec == Spec /\ \A t \in Threads : WF_vars(Step(t))

----------------------------------------------------------------------------
(* Properties *)

Setting(t) == pc[t] \in SetPc \ {"set_inner"}

\* "The most recent host wins" and "plugins always see a live subscription for
\* the lifetime of the guard they hold": once no set is between its write of
\* `inner` and its last replayed slot, every guard a plugin holds is
\* registered, exactly once, with the host that `inner` names, whichever way
\* subscribes, drops, calls and events interleaved with the swap.
SettledOnCurrent ==
  (~poisoned /\ IsBound /\ \A t \in Setters : ~Setting(t)) =>
    \A s \in Subs : guard[s] = "held" =>
      /\ regs[inner][s] = 1
      /\ \A h \in Hosts \ {inner} : regs[h][s] = 0

\* The replay drops the old registration before it makes the new one, and a
\* subscribe that lands between set's two locks is re-registered, not doubled:
\* no callback is ever in the lists of the hosts twice.
NeverTwice ==
  \A s \in Subs : \A h1, h2 \in Hosts :
    /\ regs[h1][s] <= 1
    /\ regs[h1][s] = 1 /\ regs[h2][s] = 1 => h1 = h2

\* Dropping the guard unsubscribes: after the drop returned no host lists the
\* callback and no event that is being broadcast will still run it.  (On a
\* poisoned mutex the drop gives up and the entry stays.)
DroppedIsSilent ==
  ~poisoned =>
    \A s \in Subs : guard[s] \in {"dropped", "failed"} =>
      /\ \A h \in Hosts : regs[h][s] = 0
      /\ \A t \in Broadcasters : s \notin todo[t]

\* Even when a host panics half way through a replay or a subscribe, an entry
\* in a host's list is owned: by the slot's `real` guard, or by the subscribe
\* that is about to push the slot.  Nothing else could ever take it away.
EveryEntryIsOwned ==
  \A h \in Hosts, s \in Subs : regs[h][s] > 0 =>
    \/ slotId[s] # 0 /\ real[s] = h
    \/ \E t \in Plugins : pc[t] = "sub_push" /\ cb[t] = s /\ host[t] = h

\* Ids are shared by the two kinds of slot and never reused: a drop takes away
\* the slot of its own guard and no one else's.  Stated of steps: while a
\* plugin holds a guard, only a set's replay touches its registration.
HeldIsUndisturbed ==
  [][\A s \in Subs :
       guard[s] = "held" /\ guard'[s] = "held" =>
         /\ slotId'[s] = slotId[s]
         /\ real'[s] # real[s] =>
              \E t \in Setters : subsLock = t /\ s \in todo[t]]_vars

\* Every operation returns, set, subscribe and drop included, although they
\* wait for one another's locks and for the lists of the hosts.
EveryOperationReturns == \A t \in Threads : pc[t] # "idle" ~> pc[t] = "idle"

\* A swap reaches everyone: a guard held when set has written `inner` ends up
\* registered with the installed host, unless it is dropped first or a host
\* panicked.
SwapReachesEveryone ==
  \A t \in Setters, s \in Subs :
    (pc[t] = "set_lock" /\ guard[s] = "held") ~>
      (poisoned \/ guard[s] # "held" \/ (IsBound /\ regs[inner][s] = 1))

\* No lock order and no poisoned mutex holds anyone up for ever, and a swap
\* arrives at every guard (LateBoundBackendHost::set).
SwapsComplete == EveryOperationReturns /\ SwapReachesEveryone

\* "Once `set` runs, calls transparently forward to the inner host": what a
\* call made while a host is installed answers comes from a host.
CallsForwardOnceBound ==
  [][\A t \in Plugins :
       answer'[t] # answer[t] /\ IsBound => answer'[t] \in {"none", "host"}]_vars

\* A guard in the plugin's hands is a live subscription of the bus.
BusPhase ==
  [s \in Subs |-> CASE guard[s] \in {"held", "dropping"} -> "live"
                    [] guard[s] = "dropped" -> "closed"
                    [] OTHER -> "new"]

\* The entries in the hosts' lists are what a subscription listens to.
BusListens == [s \in Subs |-> {h \in Hosts : regs[h][s] > 0}]

\* The late-bound host implements the subscription bus: `inner` is the host
\* the bus names, and a poisoned mutex is a broken bus.
Bus == INSTANCE SubscriptionBus WITH
  current <- inner, phase <- BusPhase, listens <- BusListens, broken <- poisoned

\* Every step of the locks-and-slots code is a step of the bus or invisible on
\* it, and a subscription that a swap left behind is moved, unless a host
\* panicked.
ImplementsBus == Bus!BusSpec

=============================================================================
