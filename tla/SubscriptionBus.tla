--------------------------- MODULE SubscriptionBus ---------------------------
(***************************************************************************)
(* What LateBoundBackendHost promises a plugin, without locks, slots, ids  *)
(* or replay loops: a subscription listens to at most one host, only ever  *)
(* starts to listen to the host that is installed at that moment, is left  *)
(* behind by a swap for a while only, and is silent once closed.  A panic  *)
(* of a host breaks the bus: what listens then goes on listening, closed   *)
(* or not, and nothing starts to.                                          *)
(***************************************************************************)
CONSTANTS Hosts, Subs, NoHost

VARIABLES
  current,  \* the installed host, or NoHost
  phase,    \* phase[s]: "new", "live" or "closed"
  listens,  \* listens[s]: the hosts whose events run the callback of s
  broken    \* has a host panicked?

busVars == <<current, phase, listens, broken>>

BusInit ==
  /\ current = NoHost
  /\ phase = [s \in Subs |-> "new"]
  /\ listens = [s \in Subs |-> {}]
  /\ broken = FALSE

Install(h) ==
  /\ current' = h
  /\ UNCHANGED <<phase, listens, broken>>

\* A subscription without a host starts to listen to the installed one.
Attach(s) ==
  /\ ~broken
  /\ phase[s] # "closed"
  /\ listens[s] = {}
  /\ current # NoHost
  /\ listens' = [listens EXCEPT ![s] = {current}]
  /\ UNCHANGED <<current, phase, broken>>

\* A swap takes a live subscription off the host it listens to.
Detach(s) ==
  /\ ~broken
  /\ phase[s] = "live"
  /\ listens' = [listens EXCEPT ![s] = {}]
  /\ UNCHANGED <<current, phase, broken>>

\* The plugin gets its guard.
Open(s) ==
  /\ ~broken
  /\ phase[s] = "new"
  /\ phase' = [phase EXCEPT ![s] = "live"]
  /\ UNCHANGED <<current, listens, broken>>

\* The plugin dropped its guard.  On a broken bus the entry stays.
Close(s) ==
  /\ phase[s] = "live"
  /\ phase' = [phase EXCEPT ![s] = "closed"]
  /\ listens' = IF broken THEN listens ELSE [listens EXCEPT ![s] = {}]
  /\ UNCHANGED <<current, broken>>

\* A host panics in its subscribe_*.
Break ==
  /\ broken' = TRUE
  /\ UNCHANGED <<current, phase, listens>>

BusNext ==
  \/ Break
  \/ \E h \in Hosts : Install(h)
  \/ \E s \in Subs : Attach(s) \/ Detach(s) \/ Open(s) \/ Close(s)

BusSafety == BusInit /\ [][BusNext]_busVars

\* A live subscription that does not listen to the installed host moves, unless
\* the bus breaks.
Move(s) == phase[s] = "live" /\ listens[s] # {current} /\ (Attach(s) \/ Detach(s))

BusSpec == BusSafety /\ \A s \in Subs : WF_busVars(Move(s))

=============================================================================
