-------------------------- MODULE LateBoundHostInv --------------------------
(***************************************************************************)
(* The inductive invariant of LateBoundHost, part by part.  The parts up   *)
(* to FireInv hold however many threads call set; CurrentInv is about one  *)
(* caller at a time.                                                       *)
(***************************************************************************)
EXTENDS LateBoundHost

\* Each role has its own program points.
RoleInv ==
  /\ \A t \in Setters : pc[t] \in {"idle"} \cup SetPc
  /\ \A t \in Plugins : pc[t] \in {"idle", "call_host"} \cup SubPc \cup DropPc
  /\ \A t \in Broadcasters : pc[t] \in {"idle", "fire"}

\* The subscriptions mutex is owned by exactly the thread inside it.
MutexInv ==
  \A t \in Threads : subsLock = t <=> pc[t] \in OwnsSubs

\* The locals of set: its host, and the slots left to replay.
SetterInv ==
  \A t \in Setters :
    /\ pc[t] \in SetPc => host[t] \in Hosts
    /\ pc[t] \in {"replay_drop", "replay_sub"} => todo[t] \subseteq Slots
    /\ pc[t] = "replay_sub" => cb[t] \in todo[t] /\ real[cb[t]] = NoHost

\* The locals of subscribe and drop: one thread per subscription, and while
\* the read guard is out no one swaps `inner`.
PluginInv ==
  \A t \in Plugins :
    /\ pc[t] \in SubPc => cb[t] \in Subs /\ guard[cb[t]] = "subscribing"
    /\ pc[t] \in DropPc => cb[t] \in Subs /\ guard[cb[t]] = "dropping"
    /\ pc[t] = "sub_host" => host[t] \in Hosts /\ host[t] = inner

OneThreadPerSub ==
  \A t, u \in Plugins :
    pc[t] \in SubPc \cup DropPc /\ pc[u] \in SubPc \cup DropPc /\ cb[t] = cb[u]
      => t = u

\* A slot is there as long as its guard; ids are unique and, inside a
\* subscribe, next_id is not in use yet.
SlotInv ==
  /\ \A s \in Subs :
       /\ slotId[s] <= nextId
       /\ slotId[s] = 0 => real[s] = NoHost
       /\ slotId[s] # 0 =>
            /\ guardId[s] = slotId[s]
            /\ \/ guard[s] \in {"held", "dropping"}
               \/ poisoned /\ guard[s] = "dropped"
       /\ guard[s] \in {"held", "dropping"} => slotId[s] # 0
  /\ \A s, x \in Subs : slotId[s] # 0 /\ slotId[s] = slotId[x] => s = x
  /\ \A t \in Plugins : pc[t] \in {"sub_read", "sub_host", "sub_push"} =>
       \A s \in Subs : slotId[s] < nextId

InFlight(t, s, h) == pc[t] = "sub_push" /\ cb[t] = s /\ host[t] = h

\* The hosts' lists are exactly what slots and in-flight subscribes own.
RegInv ==
  \A h \in Hosts, s \in Subs :
    regs[h][s] = IF real[s] = h \/ \E t \in Plugins : InFlight(t, s, h)
                 THEN 1 ELSE 0

\* What an event will still run is listed by the host, which owns the list.
FireInv ==
  \A t \in Broadcasters : \A s \in todo[t] :
    /\ pc[t] = "fire"
    /\ \E h \in Hosts : listLock[h][KindOf[s]] = t /\ regs[h][s] > 0

CoreInv ==
  TypeOK /\ RoleInv /\ MutexInv /\ SetterInv /\ PluginInv /\ OneThreadPerSub
         /\ SlotInv /\ RegInv /\ FireInv

OneSetter == \A t, u \in Setters : t = u

\* A set is going to register s with the host it has installed.
WillReplay(s) ==
  \E t \in Setters : \/ pc[t] = "set_lock"
                     \/ pc[t] \in {"replay_drop", "replay_sub"} /\ s \in todo[t]

\* With one caller of set at a time, a slot is on the installed host or is
\* about to be moved there, and so is the slot a subscribe is about to push.
CurrentInv ==
  ~poisoned =>
    /\ \A t \in Setters : pc[t] \in SetPc \ {"set_inner"} => host[t] = inner
    /\ \A s \in Subs : slotId[s] # 0 => real[s] = inner \/ WillReplay(s)
    /\ \A t \in Plugins : pc[t] = "sub_push" =>
         host[t] = inner \/ WillReplay(cb[t])

\* A poisoned mutex is never taken again.
PoisonInv == poisoned => subsLock = Free

\* The inductive invariant of a late-bound host whose sets do not overlap.
IInv == CoreInv /\ CurrentInv

=============================================================================
