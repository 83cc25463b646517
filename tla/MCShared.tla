------------------------------ MODULE MCShared ------------------------------
(***************************************************************************)
(* State that several parties share through a plugin, on small instances:  *)
(* a store's keys, a coordinator's entries and leases, and the approvals   *)
(* humans give.  The four share nothing with each other: each behaviour    *)
(* follows one of them while the others stand at their initial states,     *)
(* where none of their fair steps changes anything.                        *)
(***************************************************************************)
EXTENDS KeyedState, ClusterKv, ClusterLeases, Approvals

VARIABLE focus   \* the state this behaviour follows

sharedVars == <<focus, storeVars, kvVars, vars, approvalVars>>

\* Two roles of the operator's and a canonical one; no TTL, one of 1.5 ms and
\* one past the largest a u64 holds; with and without metadata.
MCNames == {"tenant-profile", "tenant-quota", "replay"}
MCShapes == {<<None, {}>>, <<3, {"owner"}>>, <<9, {}>>}

\* An empty value and one of one byte.
MCValues == {<<>>, <<7>>}

\* Two notifiers bound.  The first call's gate uses every kind of
\* target_notifiers: none, some, none that is bound.
MCBound == <<"slack", "email">>
MCTargets == [id \in Ids |-> IF id = "a1"
                             THEN {<<>>, <<"pager", "email">>, <<"pager">>}
                             ELSE {<<"slack">>}]

----------------------------------------------------------------------------
(* The store is followed twice: two clients that race for the first key of   *)
(* the operator's two roles, in three writes, without scans and watches ...  *)
RacingForAKey ==
  /\ scan = None /\ watch = None /\ stamp <= 3
  /\ \A n \in MCNames, k \in Keys : last[n][k] # None => n # "replay" /\ k = 1
  /\ \A c \in Clients : seen[c] # None => seen[c].name # "replay" /\ seen[c].key = 1

\* ... and one client that changes the three keys of a canonical role, without
\* the longest TTL, under a scan or a watch.
ScanningARole ==
  /\ \A n \in MCNames, k \in Keys : last[n][k] # None => n = "replay" /\ last[n][k].ttl # 9
  /\ \A c \in Clients : seen[c] # None => c = "c1" /\ seen[c].name = "replay"
  /\ scan # None => scan.name = "replay"
  /\ watch # None => watch.name = "replay"

\* Some coordinator plugin, not called.
KvStands ==
  /\ modern = [n \in Gateways |-> TRUE] /\ wire_features = [n \in Gateways |-> {}]
  /\ value = Absent /\ counter = Absent /\ known = [n \in Gateways |-> 0]
  /\ last_call = Outcome("get", Absent, Some(Absent))

SharedInit ==
  /\ StoreInit /\ Init /\ ApprovalInit
  /\ \/ focus = "kv" /\ KvInit
     \/ focus \in {"races", "scans", "leases", "approvals"} /\ KvStands

SharedNext ==
  \/ focus = "races" /\ StoreNext /\ RacingForAKey' /\ UNCHANGED <<focus, kvVars, vars, approvalVars>>
  \/ focus = "scans" /\ StoreNext /\ ScanningARole' /\ UNCHANGED <<focus, kvVars, vars, approvalVars>>
  \/ focus = "kv" /\ KvNext /\ UNCHANGED <<focus, storeVars, vars, approvalVars>>
  \/ focus = "leases" /\ Next /\ UNCHANGED <<focus, storeVars, kvVars, approvalVars>>
  \/ focus = "approvals" /\ ApprovalNext /\ UNCHANGED <<focus, storeVars, kvVars, vars>>

SharedSpec == SharedInit /\ [][SharedNext]_sharedVars /\ Fairness /\ ApprovalFairness

\* Every component's state is of its type: TTLs fit a u64, a lease's time is at
\* most its lifetime.
SharedTypeOK == StoreTypeOK /\ KvTypeOK /\ TypeOK /\ ApprovalTypeOK

=============================================================================
