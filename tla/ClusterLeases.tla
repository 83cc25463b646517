---------------------------- MODULE ClusterLeases ----------------------------
(***************************************************************************)
(* Leases of a cluster coordinator plugin (LeaseHandle and the lease slots *)
(* of ClusterVTable, abi.rs): the gateways of a cluster acquire, try,      *)
(* renew, release and drop the lease of one role or lock through the       *)
(* plugin each has loaded, while leases run out and gateways crash.        *)
(*                                                                         *)
(* An expiry is the time left until it; expiries are absolute on the wire, *)
(* so those in messages run out too.  The slots' results and the duties of *)
(* both sides are what the vtable states; the coordinator behind the       *)
(* plugin and the gateway's lease object are external.                     *)
(***************************************************************************)
EXTENDS Integers, FiniteSets

CONSTANTS
  Nodes,      \* the gateways
  Ttl,        \* ttl_ms of every acquire
  MaxGrants   \* bound: leases granted

ASSUME TtlIsPositive == Ttl \in Nat \ {0}
ASSUME GrantsAreBounded == MaxGrants \in Nat

VARIABLES
  lease,    \* the coordinator's: token of the lease and time left, token 0 when free
  grants,   \* leases granted so far; the last fencing token
  table,    \* per node: the cookies its plugin keeps state for
  handle,   \* per node: the cookie of its lease object, 0 when it has none
  cached,   \* per node: time left of expires_at as the gateway holds it
  renewal,  \* per node: a lease_renew under way: none, running, or its answer
  wanted    \* per node: it waits for the lease: no or acquire

vars == <<lease, grants, table, handle, cached, renewal, wanted>>

\* Cookies and tokens are numbered alike: one of each per grant.
Free == [token |-> 0, left |-> 0]
NoRenewal == [state |-> "none", cookie |-> 0, left |-> 0]
NoHandle == 0

\* LeaseHandle: a handle with its token and expiry, declined, or an error.
Granted(h, left) == [handle |-> h, error_json |-> "", fencing_token |-> h, left |-> left]
Declined == [handle |-> 0, error_json |-> "", fencing_token |-> 0, left |-> 0]
Failed == [handle |-> 0, error_json |-> "ClusterError", fencing_token |-> 0, left |-> 0]

TypeOK ==
  /\ grants \in Nat /\ grants <= MaxGrants
  /\ lease \in [token : 0..grants, left : 0..Ttl]
  /\ table \in [Nodes -> SUBSET (1..grants)] /\ handle \in [Nodes -> 0..grants]
  /\ cached \in [Nodes -> 0..Ttl] /\ wanted \in [Nodes -> {"no", "acquire"}]
  /\ renewal \in [Nodes -> [state : {"none", "running", "ok", "err"},
                             cookie : 0..grants, left : 0..Ttl]]

Init ==
  /\ lease = Free /\ grants = 0 /\ table = [n \in Nodes |-> {}]
  /\ handle = [n \in Nodes |-> NoHandle] /\ cached = [n \in Nodes |-> 0]
  /\ renewal = [n \in Nodes |-> NoRenewal] /\ wanted = [n \in Nodes |-> "no"]

----------------------------------------------------------------------------
(* The coordinator *)

\* What an acquire slot answers now.
Answers == {Failed} \cup IF lease = Free THEN {Granted(grants + 1, Ttl)} ELSE {Declined}

\* Faulty variant: a lease ends only with its release.
Tick_endless ==
  /\ cached' = [n \in Nodes |-> IF cached[n] = 0 THEN 0 ELSE cached[n] - 1]
  /\ renewal' = [n \in Nodes |->
                   [renewal[n] EXCEPT !.left = IF @ = 0 THEN 0 ELSE @ - 1]]
  /\ UNCHANGED <<lease, grants, table, handle, wanted>>

\* Time passes everywhere at once; a lease that was not renewed is over.
Tick ==
  /\ lease' = IF lease.left <= 1 THEN Free ELSE [lease EXCEPT !.left = @ - 1]
  /\ cached' = [n \in Nodes |-> IF cached[n] = 0 THEN 0 ELSE cached[n] - 1]
  /\ renewal' = [n \in Nodes |->
                   [renewal[n] EXCEPT !.left = IF @ = 0 THEN 0 ELSE @ - 1]]
  /\ UNCHANGED <<grants, table, handle, wanted>>

----------------------------------------------------------------------------
(* Acquiring *)

Receive(n, answer) ==
  IF answer.handle # 0
  THEN /\ lease' = [token |-> answer.fencing_token, left |-> answer.left]
       /\ grants' = grants + 1
       /\ table' = [table EXCEPT ![n] = @ \cup {answer.handle}]
       /\ handle' = [handle EXCEPT ![n] = answer.handle]
       /\ cached' = [cached EXCEPT ![n] = answer.left]
  ELSE UNCHANGED <<lease, grants, table, handle, cached>>

\* try_acquire_leadership, try_acquire_lock: granted, declined or failed.
try_acquire(n) ==
  /\ handle[n] = NoHandle /\ wanted[n] = "no" /\ grants < MaxGrants
  /\ \E answer \in Answers : Receive(n, answer)
  /\ UNCHANGED <<renewal, wanted>>

Want(n) ==
  /\ handle[n] = NoHandle /\ wanted[n] = "no"
  /\ wanted' = [wanted EXCEPT ![n] = "acquire"]
  /\ UNCHANGED <<lease, grants, table, handle, cached, renewal>>

\* acquire_leadership, acquire_lock: they wait while a peer holds the lease.
acquire(n) ==
  /\ wanted[n] = "acquire" /\ grants < MaxGrants
  /\ \E answer \in Answers \ {Declined} : Receive(n, answer)
  /\ wanted' = [wanted EXCEPT ![n] = "no"]
  /\ UNCHANGED renewal

----------------------------------------------------------------------------
(* Renewing *)

\* The gateway's renewal task calls lease_renew on the cookie.
Renew(n) ==
  /\ handle[n] # NoHandle /\ renewal[n].state = "none"
  /\ renewal' = [renewal EXCEPT ![n] = [state |-> "running", cookie |-> handle[n], left |-> 0]]
  /\ UNCHANGED <<lease, grants, table, handle, cached, wanted>>

\* The answer of a renewal: the new expiry or a ClusterError.
Answer(call, state, left) == [state |-> state, cookie |-> call.cookie, left |-> left]

\* Faulty variant: the time to live is added to what is left.
lease_renew_added(n) ==
  /\ renewal[n].state = "running"
  /\ IF lease.token = renewal[n].cookie
     THEN /\ lease' = [lease EXCEPT !.left = @ + Ttl]
          /\ renewal' = [renewal EXCEPT ![n] = Answer(@, "ok", lease.left + Ttl)]
     ELSE /\ renewal' = [renewal EXCEPT ![n] = Answer(@, "err", 0)]
          /\ UNCHANGED lease
  /\ UNCHANGED <<grants, table, handle, cached, wanted>>

\* lease_renew: the new expiry, or an error when the lease is not this one's
\* any more.
lease_renew(n) ==
  /\ renewal[n].state = "running"
  /\ IF lease.token = renewal[n].cookie
     THEN /\ lease' = [lease EXCEPT !.left = Ttl]
          /\ renewal' = [renewal EXCEPT ![n] = Answer(@, "ok", Ttl)]
     ELSE /\ renewal' = [renewal EXCEPT ![n] = Answer(@, "err", 0)]
          /\ UNCHANGED lease
  /\ UNCHANGED <<grants, table, handle, cached, wanted>>

\* Faulty variant: the gateway counts the lease from when the answer came.
Renewed_late(n) ==
  /\ renewal[n].state \in {"ok", "err"}
  /\ cached' = [cached EXCEPT ![n] =
                  CASE handle[n] # renewal[n].cookie -> cached[n]
                    [] handle[n] = renewal[n].cookie /\ renewal[n].state = "ok" -> Ttl
                    [] OTHER -> 0]
  /\ renewal' = [renewal EXCEPT ![n] = NoRenewal]
  /\ UNCHANGED <<lease, grants, table, handle, wanted>>

\* The answer arrives: the gateway takes the expiry it carries, for the lease
\* object that asked, and stops believing in a lease it has lost.
Renewed(n) ==
  /\ renewal[n].state \in {"ok", "err"}
  /\ cached' = [cached EXCEPT ![n] =
                  CASE handle[n] # renewal[n].cookie -> cached[n]
                    [] handle[n] = renewal[n].cookie /\ renewal[n].state = "ok" -> renewal[n].left
                    [] OTHER -> 0]
  /\ renewal' = [renewal EXCEPT ![n] = NoRenewal]
  /\ UNCHANGED <<lease, grants, table, handle, wanted>>

----------------------------------------------------------------------------
(* Giving up *)

\* lease_release: the lease, if it is still this one's, is free.
lease_release(n) ==
  /\ handle[n] # NoHandle
  /\ lease' = IF lease.token = handle[n] THEN Free ELSE lease
  /\ handle' = [handle EXCEPT ![n] = NoHandle] /\ cached' = [cached EXCEPT ![n] = 0]
  /\ UNCHANGED <<grants, table, renewal, wanted>>

\* lease_drop, after the release, when nothing uses the cookie any more.
lease_drop(n, cookie) ==
  /\ cookie \in table[n] /\ cookie # handle[n]
  /\ renewal[n].state = "running" => renewal[n].cookie # cookie
  /\ table' = [table EXCEPT ![n] = @ \ {cookie}]
  /\ UNCHANGED <<lease, grants, handle, cached, renewal, wanted>>

\* A gateway crashes with its plugin; nobody releases its lease.
Crash(n) ==
  /\ handle[n] # NoHandle
  /\ handle' = [handle EXCEPT ![n] = NoHandle] /\ cached' = [cached EXCEPT ![n] = 0]
  /\ table' = [table EXCEPT ![n] = {}] /\ renewal' = [renewal EXCEPT ![n] = NoRenewal]
  /\ wanted' = [wanted EXCEPT ![n] = "no"]
  /\ UNCHANGED <<lease, grants>>

Next ==
  \/ Tick
  \/ \E n \in Nodes :
       \/ try_acquire(n) \/ Want(n) \/ acquire(n)
       \/ Renew(n) \/ lease_renew(n) \/ Renewed(n)
       \/ lease_release(n) \/ Crash(n)
       \/ \E cookie \in table[n] : lease_drop(n, cookie)

\* Time passes, and a plugin answers the renewals it was asked for.
Fairness == WF_vars(Tick) /\ \A n \in Nodes : WF_vars(lease_renew(n)) /\ WF_vars(Renewed(n))

Spec == Init /\ [][Next]_vars /\ Fairness

----------------------------------------------------------------------------
(* Properties *)

Believes(n) == handle[n] # NoHandle /\ cached[n] > 0

\* Two gateways never act on one lease at a time, through slow renewals, lost
\* leases, crashes and releases: the expiry a gateway goes by is never later
\* than the coordinator's (lease_renew returns it for that).
MutualExclusion == Cardinality({n \in Nodes : Believes(n)}) <= 1

\* A gateway that believes in its lease is the coordinator's holder: no peer's
\* late renewal or release takes the lease from it.
HolderIsUndisturbed == \A n \in Nodes : Believes(n) => lease.token = handle[n]

\* Whoever still has a lease object of an earlier lease can be told by its
\* fencing token from the holder, and from everyone after it.
OldTokensAreLower ==
  \A n, q \in Nodes :
    n # q /\ handle[n] # NoHandle /\ Believes(q) => handle[n] < handle[q]

\* lease_drop: the plugin's state of a lease is there as long as the gateway
\* has the lease object or a call of it is under way.
DroppedIsUntouched ==
  \A n \in Nodes :
    /\ handle[n] # NoHandle => handle[n] \in table[n]
    /\ renewal[n].state = "running" => renewal[n].cookie \in table[n]

\* A lease whose holder has crashed or gone silent does not stay taken: either
\* it is renewed again and again, or it becomes free.
LeaseIsFreed ==
  []<>(lease = Free \/ \E n \in Nodes : Believes(n) \/ renewal[n].state = "ok")

\* A lease is one gateway's at a time, through slow renewals, lost leases,
\* crashes and late releases; old lease objects are told by their tokens, and
\* the plugin's state of a lease outlives the calls on it.
LeaseIsExclusive ==
  MutualExclusion /\ HolderIsUndisturbed /\ OldTokensAreLower /\ DroppedIsUntouched

----------------------------------------------------------------------------
(* The inductive invariant *)

\* Only the last lease granted is ever in force.
LastGrantInv == lease.token \in {0, grants} /\ (lease.token = 0 <=> lease.left = 0)

\* No two lease objects are of one lease.
HandleInv == \A n, q \in Nodes : n # q /\ handle[n] # NoHandle => handle[n] # handle[q]

\* What a gateway goes by is no later than the coordinator's expiry.
CachedInv ==
  \A n \in Nodes :
    cached[n] > 0 => /\ handle[n] # NoHandle
                     /\ lease.token = handle[n] /\ cached[n] <= lease.left

\* Nor is what an answer under way will make it go by.
RenewalInv ==
  \A n \in Nodes :
    /\ renewal[n].state # "none" => renewal[n].cookie # NoHandle
    /\ renewal[n].state = "ok" /\ renewal[n].left > 0 /\ handle[n] = renewal[n].cookie
         => lease.token = handle[n] /\ renewal[n].left <= lease.left

\* Only a gateway without a lease object waits for one.
WantedInv == \A n \in Nodes : wanted[n] = "acquire" => handle[n] = NoHandle

\* A gateway's belief, the answers still to come and the coordinator's lease
\* agree: expiries held by a gateway or a message are at most the coordinator's,
\* and belong to the last lease granted.
LeaseInv ==
  /\ TypeOK /\ LastGrantInv /\ HandleInv /\ CachedInv /\ RenewalInv /\ WantedInv
  /\ DroppedIsUntouched

=============================================================================
