---------------------------- MODULE HostServices ----------------------------
(***************************************************************************)
(* Calls from loaded plugins back into the host (HostHandleRef,            *)
(* HostServicesVTable and ClusterClientRef, abi.rs): each plugin is given  *)
(* a bridge when it is made, its tasks call services through it and reach  *)
(* the coordinator through a client they keep, and its boxed callbacks run *)
(* on the host's broadcast thread until they are unsubscribed.             *)
(*                                                                         *)
(* Everything that crosses is a raw address, so what matters is that each  *)
(* side's memory outlives the other's calls.  The host and the plugins'    *)
(* tasks are outside this crate; they do what the comments ask of them.    *)
(***************************************************************************)
EXTENDS Integers

CONSTANTS
  Plugins,    \* the plugins that get a HostHandleRef
  Subs,       \* subscriptions, each with one boxed callback
  Owner,      \* the plugin of each
  MaxId       \* bound: subscription ids given out

ASSUME OwnersArePlugins == Owner \in [Subs -> Plugins]

VARIABLES
  plugin,       \* per plugin: none, live, dropping (inside drop_instance) or gone
  bridges,      \* the plugins whose bridge is allocated
  coordinator,  \* live or gone
  task,         \* per plugin: what its task is calling: none, service or cluster
  client,       \* the plugins that hold a ClusterClientRef
  box,          \* per subscription: its callback: none, boxed or freed
  subId,        \* per subscription: the id its plugin holds, 0 for none
  ended,        \* the subscriptions that host_unsubscribe was called for
  entries,      \* the host's list: ids and the callbacks they stand for
  nextId,       \* ids given out
  firing        \* the callback that the broadcast thread is inside, or none

serviceVars ==
  <<plugin, bridges, coordinator, task, client, box, subId, ended, entries, nextId,
    firing>>

NoSub == "none"
Mine(p) == {s \in Subs : Owner[s] = p}

ServicesInit ==
  /\ plugin = [p \in Plugins |-> "none"] /\ bridges = {} /\ coordinator = "live"
  /\ task = [p \in Plugins |-> "none"] /\ client = {}
  /\ box = [s \in Subs |-> "none"] /\ subId = [s \in Subs |-> 0]
  /\ ended = {} /\ entries = {} /\ nextId = 0 /\ firing = NoSub

ServicesTypeOK ==
  /\ plugin \in [Plugins -> {"none", "live", "dropping", "gone"}]
  /\ bridges \subseteq Plugins /\ client \subseteq Plugins /\ ended \subseteq Subs
  /\ task \in [Plugins -> {"none", "service", "cluster"}]
  /\ box \in [Subs -> {"none", "boxed", "freed"}] /\ subId \in [Subs -> 0..nextId]
  /\ entries \subseteq [id : 1..nextId, sub : Subs] /\ firing \in Subs \cup {NoSub}
  /\ \A e, f \in entries : e.id = f.id => e = f

----------------------------------------------------------------------------
(* The life of a plugin *)

\* The bridge is allocated for make.
make_instance(p) ==
  /\ plugin[p] = "none"
  /\ plugin' = [plugin EXCEPT ![p] = "live"] /\ bridges' = bridges \cup {p}
  /\ UNCHANGED <<coordinator, task, client, box, subId, ended, entries,
                 nextId, firing>>

\* The host calls drop_instance; the plugin's task and its subscriptions may be
\* busy.
DropInstance(p) ==
  /\ plugin[p] = "live"
  /\ plugin' = [plugin EXCEPT ![p] = "dropping"]
  /\ UNCHANGED <<bridges, coordinator, task, client, box, subId, ended, entries,
                 nextId, firing>>

\* drop_instance returns: after it the plugin makes no call, and no callback of
\* it is left.
Dropped(p) ==
  /\ plugin[p] = "dropping" /\ task[p] = "none"
  /\ \A s \in Mine(p) : box[s] # "boxed"
  /\ plugin' = [plugin EXCEPT ![p] = "gone"]
  /\ UNCHANGED <<bridges, coordinator, task, client, box, subId, ended, entries,
                 nextId, firing>>

\* The host frees the bridge, only after drop_instance has returned.
FreeBridge(p) ==
  /\ plugin[p] = "gone" /\ p \in bridges
  /\ bridges' = bridges \ {p}
  /\ UNCHANGED <<plugin, coordinator, task, client, box, subId, ended, entries,
                 nextId, firing>>

\* At shutdown the registry drops the consumers before the coordinator.
DropCoordinator ==
  /\ coordinator = "live" /\ \A p \in Plugins : plugin[p] = "gone"
  /\ coordinator' = "gone"
  /\ UNCHANGED <<plugin, bridges, task, client, box, subId, ended, entries, nextId, firing>>

----------------------------------------------------------------------------
(* A plugin's task *)

\* resolve_secret, issue_credential, config_snapshot, audit_event, cache_get,
\* store_content, invoke_tool, the spans and the others.
CallService(p) ==
  /\ plugin[p] = "live" /\ task[p] = "none"
  /\ task' = [task EXCEPT ![p] = "service"]
  /\ UNCHANGED <<plugin, bridges, coordinator, client, box, subId, ended, entries, nextId,
                 firing>>

\* cluster: the plugin keeps a copy of the client.
cluster(p) ==
  /\ plugin[p] = "live" /\ task[p] = "none" /\ p \notin client /\ coordinator = "live"
  /\ client' = client \cup {p}
  /\ UNCHANGED <<plugin, bridges, coordinator, task, box, subId, ended, entries, nextId,
                 firing>>

\* A call of the coordinator's vtable, without the host in between.
CallCluster(p) ==
  /\ plugin[p] = "live" /\ task[p] = "none" /\ p \in client
  /\ task' = [task EXCEPT ![p] = "cluster"]
  /\ UNCHANGED <<plugin, bridges, coordinator, client, box, subId, ended, entries, nextId,
                 firing>>

Return(p) ==
  /\ task[p] # "none"
  /\ task' = [task EXCEPT ![p] = "none"]
  /\ UNCHANGED <<plugin, bridges, coordinator, client, box, subId, ended, entries, nextId,
                 firing>>

----------------------------------------------------------------------------
(* Subscriptions *)

FreshId == nextId + 1

\* subscribe_credential_revoked, subscribe_secret_rotation: an id, or 0 when
\* nothing was registered; then the plugin frees its box again.
subscribe(s) ==
  /\ plugin[Owner[s]] = "live" /\ box[s] = "none" /\ firing = NoSub /\ nextId < MaxId
  /\ \/ /\ entries' = entries \cup {[id |-> FreshId, sub |-> s]}
        /\ subId' = [subId EXCEPT ![s] = FreshId] /\ box' = [box EXCEPT ![s] = "boxed"]
        /\ nextId' = nextId + 1
     \/ /\ box' = [box EXCEPT ![s] = "freed"]
        /\ UNCHANGED <<entries, subId, nextId>>
  /\ UNCHANGED <<plugin, bridges, coordinator, task, client, ended, firing>>

\* Faulty variant: the entry goes while the broadcast thread is inside it.
host_unsubscribe_now(s) ==
  /\ plugin[Owner[s]] \in {"live", "dropping"} /\ box[s] # "none"
  /\ entries' = {e \in entries : e.id # subId[s]} /\ ended' = ended \cup {s}
  /\ UNCHANGED <<plugin, bridges, coordinator, task, client, box, subId, nextId, firing>>

\* host_unsubscribe: the host-side guard is dropped, which waits for the list.
\* The plugin may call it again, and with 0.
host_unsubscribe(s) ==
  /\ plugin[Owner[s]] \in {"live", "dropping"} /\ box[s] # "none" /\ firing = NoSub
  /\ entries' = {e \in entries : e.id # subId[s]} /\ ended' = ended \cup {s}
  /\ UNCHANGED <<plugin, bridges, coordinator, task, client, box, subId, nextId, firing>>

\* The plugin frees a callback once host_unsubscribe has returned.
FreeBox(s) ==
  /\ box[s] = "boxed" /\ plugin[Owner[s]] \in {"live", "dropping"} /\ s \in ended
  /\ box' = [box EXCEPT ![s] = "freed"]
  /\ UNCHANGED <<plugin, bridges, coordinator, task, client, subId, ended, entries, nextId,
                 firing>>

\* The host invokes a callback with its cb_ctx, holding the list.
Fire(e) ==
  /\ firing = NoSub
  /\ firing' = e.sub
  /\ UNCHANGED <<plugin, bridges, coordinator, task, client, box, subId, ended, entries,
                 nextId>>

Fired ==
  /\ firing # NoSub
  /\ firing' = NoSub
  /\ UNCHANGED <<plugin, bridges, coordinator, task, client, box, subId, ended, entries,
                 nextId>>

----------------------------------------------------------------------------

ServicesNext ==
  \/ \E p \in Plugins :
       \/ make_instance(p) \/ DropInstance(p) \/ Dropped(p) \/ FreeBridge(p)
       \/ CallService(p) \/ cluster(p) \/ CallCluster(p) \/ Return(p)
  \/ \E s \in Subs : subscribe(s) \/ host_unsubscribe(s) \/ FreeBox(s)
  \/ \E e \in entries : Fire(e)
  \/ Fired \/ DropCoordinator

\* A plugin being dropped unsubscribes what it has, calls return, callbacks are
\* short, and the host goes on with a teardown.  The list's mutex is given to
\* the plugin in the end: events do not follow each other without a gap.
ServicesFairness ==
  /\ WF_serviceVars(Fired) /\ WF_serviceVars(DropCoordinator)
  /\ \A p \in Plugins : WF_serviceVars(Dropped(p)) /\ WF_serviceVars(FreeBridge(p)) /\ WF_serviceVars(Return(p))
  /\ \A s \in Subs :
       /\ SF_serviceVars(plugin[Owner[s]] = "dropping" /\ host_unsubscribe(s))
       /\ WF_serviceVars(plugin[Owner[s]] = "dropping" /\ FreeBox(s))

ServicesSpec == ServicesInit /\ [][ServicesNext]_serviceVars /\ ServicesFairness

----------------------------------------------------------------------------
(* Properties *)

\* Nobody is inside memory that was freed: a service call has its bridge, a
\* coordinator call its coordinator, a callback its box and its plugin.
NoDanglingCall ==
  /\ \A p \in Plugins :
       /\ task[p] = "service" => p \in bridges /\ plugin[p] # "gone"
       /\ task[p] = "cluster" => coordinator = "live" /\ plugin[p] # "gone"
  /\ firing # NoSub => box[firing] = "boxed" /\ plugin[Owner[firing]] # "gone"

\* ClusterClientRef: the coordinator stays as long as a plugin that may call it.
CoordinatorOutlivesClients ==
  \A p \in client : plugin[p] # "gone" => coordinator = "live"

\* host_unsubscribe is idempotent: called again, or late, it never ends another
\* subscription that its plugin still holds.
HeldStaysSubscribed ==
  \A s \in Subs : box[s] = "boxed" /\ s \notin ended => \E e \in entries : e.sub = s

\* A drop_instance that the host has begun comes to its end, callbacks and calls
\* under way or not, and the bridge is freed.
DropEnds ==
  <>[](\A p \in Plugins :
         plugin[p] \in {"none", "live"} \/ (plugin[p] = "gone" /\ p \notin bridges))

\* What one side allocates is there as long as the other may call into it:
\* bridges, boxes, the coordinator and subscriptions, through drops, repeated
\* unsubscribes and callbacks under way.
LifetimesHold == NoDanglingCall /\ CoordinatorOutlivesClients /\ HeldStaysSubscribed

=============================================================================
