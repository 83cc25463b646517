---------------------------- MODULE PluginProofs ----------------------------
(***************************************************************************)
(* Proofs about what a host and its plugins do with each other's memory    *)
(* and messages: loading (PluginLoad), the services a loaded plugin calls  *)
(* back (HostServices), the events of a watch strategy (WatchEvents), the  *)
(* documents of a secret or config provider (UriProviders), what a backend *)
(* answers and is charged for (BackendCalls), and what the client of an    *)
(* http_route plugin is served (HttpStreams).  Each section states the     *)
(* inductive invariant first, then one lemma per group of actions; the     *)
(* last composes the six.                                                  *)
(***************************************************************************)
EXTENDS MCPlugins, FiniteSetTheorems, SequenceTheorems, WellFoundedInduction,
        NaturalsInduction, TLAPS

(***************************************************************************)
(* PluginLoad: a plugin serves what the operator configured                *)
(***************************************************************************)

\* Some number of a set is its least.
LEMMA LeastOf ==
  ASSUME NEW I \in SUBSET Nat, I # {}
  PROVE  Min(I) \in I /\ \A j \in I : Min(I) <= j
<1>1. PICK x \in I : \A y \in I : ~(<<y, x>> \in OpToRel(<, Nat))
  BY NatLessThanWellFounded, WFMin
<1>2. \A y \in I : ~(y < x)
  BY <1>1 DEF OpToRel
<1>3. \A y \in I : x <= y
  BY <1>2
<1> QED BY <1>3 DEF Min

\* What find_entity finds has the kind and the name it was asked for.
LEMMA EntityFound ==
  ASSUME NEW l \in Libraries, NEW k, NEW n, find_entity(l.entities, k, n) # None
  PROVE  \E i \in DOMAIN l.entities :
           /\ find_entity(l.entities, k, n) = l.entities[i]
           /\ kind(l.entities[i]) = k /\ l.entities[i].inner_name = n
<1> DEFINE s == l.entities
           I == {i \in 1..Len(s) : kind(s[i]) = k /\ s[i].inner_name = n}
<1>1. s \in Seq(Entities)
  BY LibrariesAreWhole
<1>2. Len(s) \in Nat /\ DOMAIN s = 1..Len(s)
  BY <1>1
<1>3. find_entity(s, k, n) = IF (IF I # {} THEN Min(I) ELSE 0) = 0 THEN None
                             ELSE s[IF I # {} THEN Min(I) ELSE 0]
  BY DEF find_entity, find, SelectInSeq
<1>4. I # {}
  BY <1>3
<1>5. I \in SUBSET Nat
  BY <1>2
<1>6. Min(I) \in I
  BY <1>4, <1>5, LeastOf
<1>7. find_entity(s, k, n) = s[Min(I)]
  BY <1>3, <1>4
<1> QED BY <1>2, <1>6, <1>7

\* The two tables of names agree on every variant.
LEMMA TablesAgree == \A v \in Variants : class_to_string(v) = kind_of[v]
BY DEF Variants, class_to_string, class_name, kind_of

\* An entity of the class is found by the string of the class.
LEMMA ClassFound ==
  ASSUME NEW l \in Libraries,
         first_entity_of_kind(l.entities, class_to_string(l.class)) = None
  PROVE  first_vtable(l.entities, l.class) = None
<1> DEFINE s == l.entities
           k == class_to_string(l.class)
           I == {i \in 1..Len(s) : kind(s[i]) = k}
           J == {i \in 1..Len(s) : s[i].variant = l.class}
<1>1. s \in Seq(Entities) /\ l.class \in Variants /\ \A i \in DOMAIN s : s[i] # None
  BY LibrariesAreWhole
<1>2. Len(s) \in Nat /\ DOMAIN s = 1..Len(s)
  BY <1>1
<1>3. first_entity_of_kind(s, k) = IF (IF I # {} THEN Min(I) ELSE 0) = 0 THEN None
                                   ELSE s[IF I # {} THEN Min(I) ELSE 0]
  BY DEF first_entity_of_kind, find, SelectInSeq
<1>4. I = {}
  <2> SUFFICES ASSUME I # {} PROVE FALSE
    OBVIOUS
  <2>1. I \in SUBSET Nat
    BY <1>2
  <2>2. Min(I) \in I
    BY <2>1, LeastOf
  <2>3. Min(I) # 0 /\ Min(I) \in DOMAIN s
    BY <1>2, <2>2
  <2>4. first_entity_of_kind(s, k) = s[Min(I)]
    BY <1>3, <2>3
  <2> QED BY <1>1, <2>3, <2>4
<1>5. J = {}
  <2>1. \A i \in J : kind(s[i]) = k
    BY <1>1, TablesAgree DEF kind
  <2> QED BY <1>4, <2>1
<1>6. first_vtable(s, l.class) =
        LET e == IF (IF J # {} THEN Min(J) ELSE 0) = 0 THEN None
                 ELSE s[IF J # {} THEN Min(J) ELSE 0]
        IN IF e = None THEN None ELSE e.vtable
  BY DEF first_vtable, find, SelectInSeq
<1> HIDE DEF J
<1> QED BY <1>5, <1>6

\* Strategies that pass the check are not ambiguous, and those that do not are.
LEMMA ChecksAmbiguity ==
  ASSUME NEW ss \in Seq(WatchStrategies)
  PROVE  validate_watch_strategies(ss) <=> ~Ambiguous(ss)
<1>1. Len(ss) \in Nat /\ DOMAIN ss = 1..Len(ss)
  OBVIOUS
<1>2. ASSUME NEW i \in DOMAIN ss
      PROVE  ss[i].event_types \in Seq(EventTypes)
  <2>1. ss[i] \in WatchStrategies
    BY <1>1
  <2> QED BY <2>1 DEF WatchStrategies
<1> DEFINE kinds == [i \in DOMAIN ss |-> ss[i].kind]
<1>3. (\A i \in DOMAIN ss : Inserts(kinds, i)) <=>
        \A i, j \in DOMAIN ss : i # j => ss[i].kind # ss[j].kind
  <2>1. \A i \in DOMAIN ss : 1..(i - 1) \subseteq DOMAIN ss
    BY <1>1
  <2>2. \A i \in DOMAIN ss : Inserts(kinds, i) <=>
          \A j \in 1..(i - 1) : ss[j].kind # ss[i].kind
    BY <2>1 DEF Inserts
  <2>3. \A i, j \in DOMAIN ss : i # j => i \in 1..(j - 1) \/ j \in 1..(i - 1)
    BY <1>1
  <2>4. \A i \in DOMAIN ss : i \notin 1..(i - 1)
    BY <1>1
  <2> QED BY <2>1, <2>2, <2>3, <2>4
<1>4. ASSUME NEW i \in DOMAIN ss
      PROVE  LET types == ss[i].event_types
             IN ValidTypes(types) <=>
                  /\ \A m, n \in DOMAIN types : m # n => types[m] # types[n]
                  /\ \A m \in DOMAIN types : ValidName(types[m])
  <2> DEFINE types == ss[i].event_types
  <2>1. Len(types) \in Nat /\ DOMAIN types = 1..Len(types)
    BY <1>2
  <2> HIDE DEF types
  <2>2. \A m \in DOMAIN types : 1..(m - 1) \subseteq DOMAIN types
    BY <2>1
  <2>3. \A m, n \in DOMAIN types : m # n => m \in 1..(n - 1) \/ n \in 1..(m - 1)
    BY <2>1
  <2>4. \A m \in DOMAIN types : m \notin 1..(m - 1)
    BY <2>1
  <2>5. (\A m \in DOMAIN types : Inserts(types, m)) <=>
          \A m, n \in DOMAIN types : m # n => types[m] # types[n]
    BY <2>2, <2>3, <2>4 DEF Inserts
  <2>6. ValidTypes(types) <=>
          /\ \A m, n \in DOMAIN types : m # n => types[m] # types[n]
          /\ \A m \in DOMAIN types : ValidName(types[m])
    BY <2>5 DEF ValidTypes
  <2> QED BY <2>6 DEF types
<1>5. validate_watch_strategies(ss) <=>
        \A i \in DOMAIN ss : ss[i].kind # "" /\ Inserts(kinds, i) /\ ValidTypes(ss[i].event_types)
  BY DEF validate_watch_strategies
<1> HIDE DEF kinds
<1> QED BY <1>3, <1>4, <1>5 DEF Ambiguous

\* Each of them is the one its kind finds.
LEMMA KindFinds ==
  ASSUME NEW ss \in Seq(WatchStrategies), ~Ambiguous(ss), NEW i \in DOMAIN ss
  PROVE  watch_strategy(ss, ss[i].kind) = ss[i]
<1> DEFINE I == {j \in 1..Len(ss) : ss[j].kind = ss[i].kind}
<1>1. Len(ss) \in Nat /\ DOMAIN ss = 1..Len(ss)
  OBVIOUS
<1>2. \A j \in I : j = i
  BY <1>1 DEF Ambiguous
<1>3. I \in SUBSET Nat /\ I # {}
  BY <1>1
<1>4. Min(I) = i
  BY <1>2, <1>3, LeastOf
<1>5. watch_strategy(ss, ss[i].kind) =
        IF (IF I # {} THEN Min(I) ELSE 0) = 0 THEN None
        ELSE ss[IF I # {} THEN Min(I) ELSE 0]
  BY DEF watch_strategy, find, SelectInSeq
<1>6. i # 0
  BY <1>1
<1> HIDE DEF I
<1> QED BY <1>3, <1>4, <1>5, <1>6

\* What the operator names, and the class, are among the entities.
Bindable(l, c) ==
  /\ first_entity_of_kind(l.entities, class_to_string(l.class)) # None
  /\ \A w \in c.wanted : find_entity(l.entities, w[1], w[2]) # None

\* A refusal has its reason, and each phase what the checks before it found.
LoadInv ==
  /\ library \in Libraries /\ config \in Configs
  /\ reason = "watch_strategies" =>
       /\ library.descriptor # None
       /\ ~validate_watch_strategies(library.descriptor.watch_strategies)
  /\ reason = "entity" => ~Bindable(library, config)
  /\ phase = "probed" => library.descriptor = None
  /\ phase \in {"described", "bound", "serving"} /\ library.descriptor # None =>
       validate_watch_strategies(library.descriptor.watch_strategies)
  /\ phase \in {"bound", "serving"} =>
       /\ Bindable(library, config)
       /\ bound = [w \in config.wanted |-> find_entity(library.entities, w[1], w[2]).vtable]
  /\ phase = "serving" => instance = make(library, config.json) /\ instance # None

\* Nothing is loaded before the layout check.
LEMMA LoadInvInit == LoadInit => LoadInv
BY NoReasonIsApart DEF LoadInit, LoadInv, Reasons

\* Each stage of loading either proceeds or stops with a reason.
LEMMA LoadNextKeepsInv == LoadInv /\ [LoadNext]_loadVars => LoadInv'
<1> SUFFICES ASSUME LoadInv, [LoadNext]_loadVars PROVE LoadInv'
  OBVIOUS
<1>0. None \notin Reasons
  BY NoReasonIsApart
<1>1. CASE CheckLayout
  BY <1>0, <1>1 DEF CheckLayout, Proceed, LoadInv, Reasons
<1>2. CASE Register
  BY <1>0, <1>2 DEF Register, Proceed, LoadInv, Reasons
<1>3. CASE ReadDescriptor
  BY <1>0, <1>3 DEF ReadDescriptor, Proceed, LoadInv, Reasons
<1>4. CASE Probe
  BY <1>0, <1>4 DEF Probe, Proceed, LoadInv, Reasons
<1>5. CASE DropProbe
  BY <1>5 DEF DropProbe, LoadInv
<1>6. CASE Bind
  <2>1. UNCHANGED <<library, config>> /\ phase = "described"
    BY <1>6 DEF Bind
  <2>2. CASE Bindable(library, config)
    <3>1. /\ phase' = "bound" /\ reason' = None
          /\ bound' = [w \in config.wanted |-> find_entity(library.entities, w[1], w[2]).vtable]
      BY <1>6, <2>2 DEF Bind, Proceed, Bindable
    <3> QED BY <1>0, <2>1, <2>2, <3>1 DEF LoadInv, Reasons
  <2>3. CASE ~Bindable(library, config)
    <3>1. phase' = "refused" /\ reason' = "entity"
      BY <1>6, <2>3 DEF Bind, Proceed, Bindable
    <3> QED BY <2>1, <2>3, <3>1 DEF LoadInv
  <2> QED BY <2>2, <2>3
<1>7. CASE Make
  BY <1>0, <1>7 DEF Make, Proceed, LoadInv, Reasons
<1>8. CASE Stop
  BY <1>8 DEF Stop, LoadInv
<1>9. CASE UNCHANGED loadVars
  BY <1>9 DEF loadVars, LoadInv
<1> QED
  BY <1>1, <1>2, <1>3, <1>4, <1>5, <1>6, <1>7, <1>8, <1>9 DEF LoadNext

\* A real config is no probe, so a strict plugin makes no placeholder of it.
LEMMA RealIsConnected ==
  ASSUME NEW l \in Libraries, NEW c \in Configs, l.strict, make(l, c.json) # None
  PROVE  make(l, c.json) = "connected" /\ c.json.ok
<1>1. c.json \in [parses : {"object", "other", "error"}, empty : {FALSE}, ok : BOOLEAN]
  BY ConfigsAreReal
<1>2. ~is_manifest_probe_config(c.json)
  BY <1>1 DEF is_manifest_probe_config
<1> QED BY <1>2 DEF make

\* Whatever library and config: a refusal for strategies or entities is
\* deserved, what serves was made from the operator's config, each name is bound
\* to an entity of that kind and name, and strategies are told apart
\* (validate_watch_strategies, find_entity, is_manifest_probe_config).
THEOREM LoadedAsConfiguredAlways == LoadSpec => []LoadedAsConfigured
<1>1. LoadSpec => []LoadInv
  BY LoadInvInit, LoadNextKeepsInv, PTL DEF LoadSpec
<1>2. LoadInv => LoadedAsConfigured
  <2> SUFFICES ASSUME LoadInv PROVE LoadedAsConfigured
    OBVIOUS
  <2>1. StrategiesAreTold
    <3>1. library.descriptor # None => library.descriptor.watch_strategies \in Seq(WatchStrategies)
      BY LibrariesAreWhole DEF LoadInv
    <3> QED BY <3>1, ChecksAmbiguity, KindFinds DEF LoadInv, StrategiesAreTold
  <2>2. ProbeNeverServes
    BY RealIsConnected DEF LoadInv, ProbeNeverServes
  <2>3. BoundByName
    <3> SUFFICES ASSUME phase = "serving", NEW w \in DOMAIN bound
                 PROVE  \E i \in DOMAIN library.entities :
                          LET e == library.entities[i]
                          IN e.vtable = bound[w] /\ kind(e) = w[1] /\ e.inner_name = w[2]
      BY DEF BoundByName
    <3>1. /\ library \in Libraries
          /\ find_entity(library.entities, w[1], w[2]) # None
          /\ bound[w] = find_entity(library.entities, w[1], w[2]).vtable
      BY DEF LoadInv, Bindable
    <3> QED BY <3>1, EntityFound
  <2>4. ClassIsFound
    BY ClassFound DEF LoadInv, Bindable, ClassIsFound
  <2> QED BY <2>1, <2>2, <2>3, <2>4 DEF LoadedAsConfigured
<1> QED
  BY <1>1, <1>2, PTL

(***************************************************************************)
(* HostServices: nobody is inside memory that was freed                    *)
(***************************************************************************)

Alive == {"live", "dropping"}

\* A plugin with a call under way has its bridge, and its client where the call
\* is one of the coordinator's; the coordinator goes last.
UnderwayInv ==
  /\ \A p \in Plugins :
       /\ task[p] # "none" => plugin[p] \in Alive
       /\ plugin[p] \in Alive => p \in bridges
  /\ coordinator \in {"live", "gone"}
  /\ coordinator = "gone" => \A p \in Plugins : plugin[p] = "gone"

\* A callback is boxed as long as its plugin lives or it was unsubscribed, and
\* its id is its own.
BoxInv ==
  /\ \A s \in Subs : box[s] = "boxed" => plugin[Owner[s]] \in Alive /\ subId[s] # 0
  /\ \A s \in ended : box[s] # "none"
  /\ \A s, r \in Subs : subId[s] = subId[r] /\ subId[s] # 0 => s = r

\* The host's list holds boxed callbacks that were not unsubscribed, each under
\* the id its plugin has, and the callback that runs is one of them.
EntryInv ==
  /\ \A e \in entries : box[e.sub] = "boxed" /\ e.id = subId[e.sub] /\ e.sub \notin ended
  /\ firing # NoSub => \E e \in entries : e.sub = firing

ServicesInv ==
  /\ nextId \in Nat /\ ServicesTypeOK
  /\ UnderwayInv /\ BoxInv /\ EntryInv /\ HeldStaysSubscribed

\* No guard, handle or subscription exists before the plugin starts.
LEMMA ServicesInvInit == ServicesInit => ServicesInv
BY OwnersArePlugins DEF ServicesInit, ServicesInv, ServicesTypeOK, UnderwayInv, BoxInv,
   EntryInv, HeldStaysSubscribed, NoSub, Alive

\* The life of a plugin and of the coordinator.
LEMMA LifeKeepsInv ==
  ASSUME ServicesInv,
         \/ \E p \in Plugins : \/ make_instance(p) \/ DropInstance(p)
                               \/ Dropped(p) \/ FreeBridge(p)
         \/ DropCoordinator
  PROVE  ServicesInv'
<1> USE OwnersArePlugins DEF ServicesInv, Alive
<1>1. UNCHANGED <<task, client, box, subId, ended, entries, nextId, firing>>
  BY DEF make_instance, DropInstance, Dropped, FreeBridge, DropCoordinator
<1>2. EntryInv' /\ HeldStaysSubscribed'
  BY <1>1 DEF EntryInv, HeldStaysSubscribed
<1>3. ASSUME NEW p \in Plugins, make_instance(p) \/ DropInstance(p)
      PROVE  ServicesTypeOK' /\ UnderwayInv' /\ BoxInv'
  BY <1>1, <1>3 DEF make_instance, DropInstance, ServicesTypeOK, UnderwayInv, BoxInv
<1>4. ASSUME NEW p \in Plugins, Dropped(p)
      PROVE  ServicesTypeOK' /\ UnderwayInv' /\ BoxInv'
  <2>1. \A s \in Subs : box[s] = "boxed" => Owner[s] # p
    BY <1>4 DEF Dropped, Mine
  <2> QED BY <1>1, <1>4, <2>1 DEF Dropped, ServicesTypeOK, UnderwayInv, BoxInv
<1>5. ASSUME NEW p \in Plugins, FreeBridge(p)
      PROVE  ServicesTypeOK' /\ UnderwayInv' /\ BoxInv'
  BY <1>1, <1>5 DEF FreeBridge, ServicesTypeOK, UnderwayInv, BoxInv
<1>6. ASSUME DropCoordinator
      PROVE  ServicesTypeOK' /\ UnderwayInv' /\ BoxInv'
  BY <1>1, <1>6 DEF DropCoordinator, ServicesTypeOK, UnderwayInv, BoxInv
<1> QED BY <1>1, <1>2, <1>3, <1>4, <1>5, <1>6

\* A plugin's task.
LEMMA TaskKeepsInv ==
  ASSUME ServicesInv, NEW p \in Plugins,
         CallService(p) \/ cluster(p) \/ CallCluster(p) \/ Return(p)
  PROVE  ServicesInv'
<1> USE DEF ServicesInv, Alive
<1>1. UNCHANGED <<plugin, bridges, coordinator, box, subId, ended, entries, nextId, firing>>
  BY DEF CallService, cluster, CallCluster, Return
<1>2. BoxInv' /\ EntryInv' /\ HeldStaysSubscribed'
  BY <1>1 DEF BoxInv, EntryInv, HeldStaysSubscribed
<1>3. ServicesTypeOK' /\ UnderwayInv'
  BY <1>1 DEF CallService, cluster, CallCluster, Return, ServicesTypeOK, UnderwayInv
<1> QED BY <1>1, <1>2, <1>3

\* An id that is given out is new, so the entries under it are of one callback.
LEMMA SubscribeKeepsInv ==
  ASSUME ServicesInv, NEW s \in Subs, subscribe(s)
  PROVE  ServicesInv'
<1> USE OwnersArePlugins DEF ServicesInv, Alive
<1>1. UNCHANGED <<plugin, bridges, coordinator, task, client, ended, firing>>
  BY DEF subscribe
<1>2. UnderwayInv'
  BY <1>1 DEF UnderwayInv
<1>3. CASE box' = [box EXCEPT ![s] = "freed"] /\ UNCHANGED <<entries, subId, nextId>>
  BY <1>1, <1>2, <1>3 DEF subscribe, ServicesTypeOK, BoxInv, EntryInv, HeldStaysSubscribed
<1>4. CASE /\ entries' = entries \cup {[id |-> FreshId, sub |-> s]}
           /\ subId' = [subId EXCEPT ![s] = FreshId] /\ box' = [box EXCEPT ![s] = "boxed"]
           /\ nextId' = nextId + 1
  <2> DEFINE new == [id |-> FreshId, sub |-> s]
  <2>1. FreshId = nextId' /\ FreshId \notin 0..nextId /\ FreshId \in 1..nextId' /\ nextId' \in Nat
    BY <1>4 DEF FreshId
  <2>2. box[s] = "none" /\ s \notin ended /\ plugin[Owner[s]] = "live"
    BY DEF subscribe, BoxInv
  <2>3. \A e \in entries : e.sub # s /\ e.id # FreshId
    BY <2>1, <2>2 DEF EntryInv, ServicesTypeOK
  <2>4. subId' \in [Subs -> 0..nextId'] /\ box' \in [Subs -> {"none", "boxed", "freed"}]
    BY <1>4, <2>1 DEF ServicesTypeOK
  <2>5. entries' \subseteq [id : 1..nextId', sub : Subs]
    <3>1. new \in [id : 1..nextId', sub : Subs]
      BY <2>1
    <3>2. \A e \in entries : e \in [id : 1..nextId', sub : Subs]
      BY <1>4 DEF ServicesTypeOK
    <3> QED BY <1>4, <3>1, <3>2
  <2>6. \A e, f \in entries' : e.id = f.id => e = f
    BY <1>4, <2>3 DEF ServicesTypeOK
  <2>7. ServicesTypeOK'
    BY <1>1, <2>4, <2>5, <2>6 DEF ServicesTypeOK
  <2>8. BoxInv'
    <3>1. \A r \in Subs : /\ subId'[r] = IF r = s THEN FreshId ELSE subId[r]
                         /\ box'[r] = IF r = s THEN "boxed" ELSE box[r]
      BY <1>4 DEF ServicesTypeOK
    <3>2. \A r \in Subs : subId[r] # FreshId /\ FreshId # 0
      BY <2>1 DEF ServicesTypeOK
    <3> QED BY <1>1, <2>2, <3>1, <3>2 DEF BoxInv, ServicesTypeOK
  <2>9. EntryInv'
    <3>1. \A e \in entries : box'[e.sub] = "boxed" /\ e.id = subId'[e.sub] /\ e.sub \notin ended'
      BY <1>1, <1>4, <2>3 DEF EntryInv, ServicesTypeOK
    <3>2. box'[new.sub] = "boxed" /\ new.id = subId'[new.sub] /\ new.sub \notin ended'
      BY <1>1, <1>4, <2>2 DEF ServicesTypeOK
    <3> QED BY <1>1, <1>4, <3>1, <3>2 DEF EntryInv
  <2>10. HeldStaysSubscribed'
    <3> SUFFICES ASSUME NEW r \in Subs, box'[r] = "boxed", r \notin ended'
                 PROVE  \E e \in entries' : e.sub = r
      BY DEF HeldStaysSubscribed
    <3>1. CASE r = s
      <4>1. new \in entries' /\ new.sub = r
        BY <1>4, <3>1
      <4> QED BY <4>1
    <3>2. CASE r # s
      <4>1. box[r] = "boxed" /\ r \notin ended
        BY <1>1, <1>4, <3>2 DEF ServicesTypeOK
      <4> QED BY <1>4, <4>1 DEF HeldStaysSubscribed
    <3> QED BY <3>1, <3>2
  <2> QED BY <1>2, <2>1, <2>7, <2>8, <2>9, <2>10
<1> QED BY <1>3, <1>4 DEF subscribe

\* host_unsubscribe ends the subscription of its id and no other, whether it is
\* called again, late, or with 0.
LEMMA UnsubscribeKeepsInv ==
  ASSUME ServicesInv, NEW s \in Subs, host_unsubscribe(s)
  PROVE  ServicesInv'
<1> USE DEF ServicesInv, Alive, host_unsubscribe
<1>1. ServicesTypeOK' /\ UnderwayInv' /\ BoxInv'
  BY DEF ServicesTypeOK, UnderwayInv, BoxInv
<1>2. EntryInv'
  <2>1. \A e \in entries' : e \in entries /\ e.id # subId[s]
    OBVIOUS
  <2>2. \A e \in entries' : e.sub # s
    BY <2>1 DEF EntryInv
  <2> QED BY <2>1, <2>2 DEF EntryInv
<1>3. HeldStaysSubscribed'
  <2> SUFFICES ASSUME NEW r \in Subs, box'[r] = "boxed", r \notin ended'
               PROVE  \E e \in entries' : e.sub = r
    BY DEF HeldStaysSubscribed
  <2>1. PICK e \in entries : e.sub = r
    BY DEF HeldStaysSubscribed
  <2>2. e.id = subId[r] /\ e.id # 0
    BY <2>1 DEF EntryInv, ServicesTypeOK
  <2>3. e.id # subId[s]
    BY <2>2 DEF BoxInv
  <2> QED BY <2>1, <2>3
<1> QED BY <1>1, <1>2, <1>3

\* A box is freed once no entry stands for it; the broadcast thread enters only
\* what is in the list.
LEMMA CallbackKeepsInv ==
  ASSUME ServicesInv,
         \/ \E s \in Subs : FreeBox(s)
         \/ \E e \in entries : Fire(e)
         \/ Fired
  PROVE  ServicesInv'
<1> USE DEF ServicesInv, Alive
<1>1. UNCHANGED <<plugin, bridges, coordinator, task, client, subId, ended, entries, nextId>>
  BY DEF FreeBox, Fire, Fired
<1>2. UnderwayInv'
  BY <1>1 DEF UnderwayInv
<1>3. ASSUME NEW s \in Subs, FreeBox(s)
      PROVE  ServicesTypeOK' /\ BoxInv' /\ EntryInv' /\ HeldStaysSubscribed'
  BY <1>1, <1>3 DEF FreeBox, ServicesTypeOK, BoxInv, EntryInv, HeldStaysSubscribed
<1>4. ASSUME NEW e \in entries, Fire(e)
      PROVE  ServicesTypeOK' /\ BoxInv' /\ EntryInv' /\ HeldStaysSubscribed'
  BY <1>1, <1>4 DEF Fire, ServicesTypeOK, BoxInv, EntryInv, HeldStaysSubscribed
<1>5. ASSUME Fired
      PROVE  ServicesTypeOK' /\ BoxInv' /\ EntryInv' /\ HeldStaysSubscribed'
  BY <1>1, <1>5 DEF Fired, ServicesTypeOK, BoxInv, EntryInv, HeldStaysSubscribed, NoSub
<1> QED BY <1>1, <1>2, <1>3, <1>4, <1>5

\* Every step of a plugin and its host keeps the invariant.
LEMMA ServicesStep == ServicesInv /\ [ServicesNext]_serviceVars => ServicesInv'
<1> SUFFICES ASSUME ServicesInv, [ServicesNext]_serviceVars PROVE ServicesInv'
  OBVIOUS
<1>1. CASE UNCHANGED serviceVars
  BY <1>1 DEF serviceVars, ServicesInv, ServicesTypeOK, UnderwayInv, BoxInv, EntryInv,
     HeldStaysSubscribed
<1>2. CASE ServicesNext
  BY <1>2, LifeKeepsInv, TaskKeepsInv, SubscribeKeepsInv, UnsubscribeKeepsInv,
     CallbackKeepsInv DEF ServicesNext
<1> QED BY <1>1, <1>2

\* The inductive invariant of the host services.
LEMMA ServicesInvariant == ServicesSpec => []ServicesInv
BY ServicesInvInit, ServicesStep, PTL DEF ServicesSpec

\* The host's list holds one entry per id and the ids are those given out,
\* however often plugins subscribe and unsubscribe.
THEOREM ServicesTypeCorrect == ServicesSpec => []ServicesTypeOK
<1>1. ServicesInv => ServicesTypeOK
  BY DEF ServicesInv
<1> QED BY <1>1, ServicesInvariant, PTL

\* For any number of plugins and subscriptions: a service call has its bridge, a
\* coordinator call its coordinator, a running callback its box and its plugin,
\* and a repeated or late host_unsubscribe ends nobody else's subscription.
THEOREM LifetimesHoldAlways == ServicesSpec => []LifetimesHold
<1>1. ServicesInv => LifetimesHold
  <2> SUFFICES ASSUME ServicesInv PROVE LifetimesHold
    OBVIOUS
  <2>1. NoDanglingCall
    BY OwnersArePlugins DEF ServicesInv, ServicesTypeOK, UnderwayInv, BoxInv, EntryInv, Alive, NoDanglingCall
  <2>2. CoordinatorOutlivesClients
    BY DEF ServicesInv, ServicesTypeOK, UnderwayInv, CoordinatorOutlivesClients
  <2> QED BY <2>1, <2>2 DEF ServicesInv, LifetimesHold
<1> QED BY <1>1, ServicesInvariant, PTL

(***************************************************************************)
(* WatchEvents: nothing is lost and nothing stored twice                   *)
(***************************************************************************)

EventSet == {WatchEvent(p, gap) : p \in Positions, gap \in BOOLEAN}

\* The upstream log is read by position.
LEMMA PositionsOf == Positions = 1..Len(Upstream) /\ Len(Upstream) \in Nat
BY UpstreamIsBodies DEF Positions

\* What an event carries is what its position in the log says.
LEMMA EventFields ==
  \A e \in EventSet :
    /\ e.event_id \in Positions /\ e.upstream_cursor = e.event_id /\ e.gap \in BOOLEAN
    /\ e.data = event_body(Upstream[e.event_id])
BY DEF EventSet, WatchEvent

\* The types of what the model keeps: positions and handles, the queue of
\* published events, and acknowledgements of handles that were given out.
PositionTables ==
  /\ strategy \in {"log", "queue"}
  /\ published \in 0..Len(Upstream) /\ trimmed \in 0..published /\ cursor \in 0..published
  /\ acked \subseteq Positions /\ out \subseteq Positions /\ dropped \subseteq Positions
  /\ watches \in Nat /\ token \in 0..watches /\ next \in 1..(Len(Upstream) + 1)

QueueTables ==
  /\ queue \in Seq(EventSet) /\ Len(queue) <= QueueSize /\ stored \in Seq(EventSet)
  /\ \A i \in 1..Len(queue) : queue[i].event_id <= published

AckTables ==
  settled \in Seq(Nat \X Positions) /\ \A i \in 1..Len(settled) : settled[i][1] \in 1..watches

WatchTables == PositionTables /\ QueueTables /\ AckTables

\* Position p is dealt with, or will be by one of the first n events in the
\* queue: the event itself or a gap announced after it.
CoveredBy(p, n) ==
  \/ p \in StoredIds \cup Refused \cup dropped
  \/ \E q \in gaps : q > p
  \/ \E j \in 1..n :
       queue[j].event_id = p \/ (queue[j].gap /\ queue[j].event_id > p)

\* A log: everything up to the cursor is covered, everything up to an event in
\* the queue is covered by that event at the latest, and everything the watch
\* has passed by the whole queue.
CoverInv ==
  strategy = "log" =>
    /\ \A p \in 1..cursor : CoveredBy(p, 0)
    /\ \A i \in 1..Len(queue) : \A p \in 1..queue[i].event_id : CoveredBy(p, i)
    /\ token # 0 => \A p \in 1..(next - 1) : CoveredBy(p, Len(queue))

\* Acknowledgements under way are of events the host is done with.
AckInv == \A i \in 1..Len(settled) : settled[i][2] \in StoredIds \cup Refused

\* No event is stored twice.
DistinctInv ==
  \A i, j \in 1..Len(stored) : stored[i].event_id = stored[j].event_id => i = j

WatchInv ==
  WatchTables /\ CoverInv /\ AckInv /\ AckedIsSettled /\ DistinctInv

\* Before the first watch nothing is queued, stored or acknowledged.
LEMMA WatchInvInit == WatchInit => WatchInv
BY QueueHoldsSome, PositionsOf DEF WatchInit, WatchInv, WatchTables, PositionTables, QueueTables, AckTables, CoverInv, AckInv,
   AckedIsSettled, DistinctInv, NoResume, EventSet

\* What take_watch_resume reads is the cursor that was put in.
LEMMA ResumesAtCursor ==
  ASSUME NEW c \in Nat
  PROVE  take_watch_resume(SpecWith(c))[2] = c
BY DEF take_watch_resume, SpecWith, Spec0, Resume, WATCH_RESUME_SPEC_KEY, NoResume

\* Steps that leave the queue and what is stored alone.
LEMMA StandStill ==
  ASSUME WatchInv, UNCHANGED <<strategy, queue, stored, gaps, cursor>>,
         dropped \subseteq dropped' \/ strategy = "queue",
         token' # 0 => token' = token /\ next' = next
  PROVE  CoverInv' /\ DistinctInv' /\ StoredIds' = StoredIds
<1>1. StoredIds' = StoredIds
  BY DEF StoredIds
<1>2. DistinctInv'
  BY DEF WatchInv, DistinctInv
<1>3. CASE strategy = "queue"
  BY <1>1, <1>2, <1>3 DEF CoverInv
<1>4. CASE dropped \subseteq dropped'
  <2>1. \A p, n : CoveredBy(p, n) => CoveredBy(p, n)'
    BY <1>1, <1>4 DEF CoveredBy
  <2> QED BY <1>1, <1>2, <2>1 DEF WatchInv, CoverInv
<1> QED BY <1>3, <1>4

\* What the upstream does by itself changes nothing that is stored.
LEMMA UpstreamKeepsInv ==
  ASSUME WatchInv, Publish \/ Trim \/ \E p \in Positions : Redeliver(p)
  PROVE  WatchInv'
<1>1. CoverInv' /\ DistinctInv' /\ StoredIds' = StoredIds
  BY StandStill DEF Publish, Trim, Redeliver
<1>2. AckInv' /\ AckedIsSettled'
  BY <1>1 DEF Publish, Trim, Redeliver, WatchInv, AckInv, AckedIsSettled
<1>3. PositionTables'
  <2>1. CASE Publish
    BY <2>1, PositionsOf DEF Publish, WatchInv, WatchTables, PositionTables
  <2>2. CASE Trim
    BY <2>2, PositionsOf DEF Trim, WatchInv, WatchTables, PositionTables
  <2>3. ASSUME NEW p \in Positions, Redeliver(p)
        PROVE  PositionTables'
    BY <2>3 DEF Redeliver, WatchInv, WatchTables, PositionTables
  <2> QED BY <2>1, <2>2, <2>3
<1>4. QueueTables' /\ AckTables'
  <2>1. published' \in Nat /\ published \in Nat /\ published <= published'
    BY PositionsOf DEF Publish, Trim, Redeliver, WatchInv, WatchTables, PositionTables
  <2>2. UNCHANGED <<queue, stored, settled, watches>>
    BY DEF Publish, Trim, Redeliver
  <2>3. \A i \in 1..Len(queue) : queue[i].event_id \in Nat
    BY EventFields, PositionsOf DEF WatchInv, WatchTables, QueueTables
  <2> QED BY <2>1, <2>2, <2>3 DEF WatchInv, WatchTables, QueueTables, AckTables
<1> QED BY <1>1, <1>2, <1>3, <1>4 DEF WatchInv, WatchTables

\* A watch that ends, with or without the host's queue.
LEMMA RestartKeepsInv ==
  ASSUME WatchInv, cancel \/ Crash
  PROVE  WatchInv'
<1>1. UNCHANGED <<strategy, stored, gaps, cursor, dropped, acked>> /\ StoredIds' = StoredIds
  BY DEF cancel, Crash, StoredIds
<1>2. token' = 0 /\ settled' = <<>>
  BY DEF cancel, Crash
<1>3. AckInv' /\ AckedIsSettled' /\ DistinctInv'
  BY <1>1, <1>2 DEF WatchInv, AckInv, AckedIsSettled, DistinctInv
<1>4. WatchTables'
  <2>1. PositionTables' /\ AckTables'
    BY <1>1, <1>2 DEF cancel, Crash, WatchInv, WatchTables, PositionTables, AckTables
  <2>2. published' = published /\ (queue' = queue \/ queue' = <<>>)
    BY DEF cancel, Crash
  <2>3. QueueTables'
    <3>1. CASE queue' = queue
      BY <1>1, <2>2, <3>1 DEF WatchInv, WatchTables, QueueTables
    <3>2. CASE queue' = <<>>
      <4>1. queue' \in Seq(EventSet) /\ Len(queue') = 0
        BY <3>2
      <4>2. 0 <= QueueSize
        BY QueueHoldsSome
      <4> QED BY <1>1, <2>2, <4>1, <4>2 DEF WatchInv, WatchTables, QueueTables
    <3> QED BY <2>2, <3>1, <3>2
  <2> QED BY <2>1, <2>3 DEF WatchTables
<1>5. CASE cancel
  <2>1. CoverInv'
    BY <1>2, <1>5, StandStill DEF cancel
  <2> QED BY <1>3, <1>4, <2>1 DEF WatchInv
<1>6. CASE Crash
  <2>1. \A p : CoveredBy(p, 0) => CoveredBy(p, 0)'
    BY <1>1 DEF CoveredBy
  <2>2. CoverInv'
    BY <1>1, <1>2, <1>6, <2>1 DEF Crash, WatchInv, CoverInv
  <2> QED BY <1>3, <1>4, <2>2 DEF WatchInv
<1> QED BY <1>5, <1>6

\* A new watch goes on after the cursor, though older events may be queued.
LEMMA WatchKeepsInv ==
  ASSUME WatchInv, watch
  PROVE  WatchInv'
<1>1. UNCHANGED <<strategy, published, trimmed, acked, out, queue, stored, gaps,
                  cursor, settled, dropped>> /\ StoredIds' = StoredIds
  BY DEF watch, StoredIds
<1>2. next' = (IF strategy = "log" THEN cursor ELSE 0) + 1
  BY ResumesAtCursor, PositionsOf DEF watch, NoResume, WatchInv, WatchTables, PositionTables
<1>3. WatchTables'
  <2>1. PositionTables'
    BY <1>1, <1>2, PositionsOf DEF watch, WatchInv, WatchTables, PositionTables
  <2>2. watches' = watches + 1 /\ watches \in Nat
    BY DEF watch, WatchInv, WatchTables, PositionTables
  <2>3. QueueTables'
    BY <1>1 DEF WatchInv, WatchTables, QueueTables
  <2>4. AckTables'
    <3>1. \A i \in 1..Len(settled) : settled[i][1] \in 1..watches
      BY DEF WatchInv, WatchTables, AckTables
    <3>2. 1..watches \subseteq 1..(watches + 1)
      BY <2>2
    <3> QED BY <1>1, <2>2, <3>1, <3>2 DEF WatchInv, WatchTables, AckTables
  <2> QED BY <2>1, <2>3, <2>4 DEF WatchTables
<1>4. AckInv' /\ AckedIsSettled' /\ DistinctInv'
  BY <1>1 DEF WatchInv, AckInv, AckedIsSettled, DistinctInv
<1>5. CoverInv'
  <2>1. \A p, n : CoveredBy(p, n)' <=> CoveredBy(p, n)
    BY <1>1 DEF CoveredBy
  <2>2. \A p : CoveredBy(p, 0) => CoveredBy(p, Len(queue))
    BY DEF CoveredBy
  <2> QED BY <1>1, <1>2, <2>1, <2>2, PositionsOf DEF WatchInv, WatchTables, PositionTables, CoverInv
<1> QED BY <1>3, <1>4, <1>5 DEF WatchInv

\* Emitting: the event and a gap it announces cover what the watch passes, and
\* on a full queue all of it counts as dropped.
LEMMA EmitKeepsWatchInv ==
  ASSUME WatchInv, EmitLog \/ \E p \in Positions : EmitQueue(p)
  PROVE  WatchInv'
<1>1. UNCHANGED <<strategy, published, trimmed, acked, token, watches, stored, gaps,
                  cursor, settled>> /\ StoredIds' = StoredIds
  BY DEF EmitLog, EmitQueue, StoredIds
<1>2. AckInv' /\ AckedIsSettled' /\ DistinctInv'
  BY <1>1 DEF WatchInv, AckInv, AckedIsSettled, DistinctInv
<1>3. ASSUME NEW p \in Positions, NEW gap \in BOOLEAN, NEW first \in 1..p, p <= published,
             Offer(WatchEvent(p, gap), first)
      PROVE  /\ queue' \in Seq(EventSet) /\ Len(queue') <= QueueSize
             /\ \A i \in 1..Len(queue') : queue'[i].event_id <= published
             /\ dropped' \subseteq Positions /\ dropped \subseteq dropped'
             /\ \/ queue' = queue /\ first..p \subseteq dropped'
                \/ queue' = Append(queue, WatchEvent(p, gap))
  <2>1. WatchEvent(p, gap) \in EventSet /\ WatchEvent(p, gap).event_id = p
    BY DEF EventSet, WatchEvent
  <2>2. first..p \subseteq Positions
    BY PositionsOf
  <2> HIDE DEF EventSet
  <2>3. CASE Len(queue) < QueueSize
    <3>1. queue' = Append(queue, WatchEvent(p, gap)) /\ dropped' = dropped
      BY <1>3, <2>3 DEF Offer
    <3>2. queue \in Seq(EventSet) /\ dropped \subseteq Positions
      BY DEF WatchInv, WatchTables, QueueTables, PositionTables
    <3>3. queue' \in Seq(EventSet) /\ Len(queue') <= QueueSize
      BY <2>1, <2>3, <3>1, <3>2, QueueHoldsSome
    <3>4. \A i \in 1..Len(queue') :
            queue'[i] = IF i = Len(queue) + 1 THEN WatchEvent(p, gap) ELSE queue[i]
      BY <2>1, <3>1, <3>2
    <3>5. \A i \in 1..Len(queue') : i = Len(queue) + 1 \/ i \in 1..Len(queue)
      BY <2>1, <3>1, <3>2
    <3>6. \A i \in 1..Len(queue') : queue'[i].event_id <= published
      BY <1>3, <2>1, <3>4, <3>5 DEF WatchInv, WatchTables, QueueTables
    <3> QED BY <3>1, <3>2, <3>3, <3>6
  <2>4. CASE ~(Len(queue) < QueueSize)
    <3>1. queue' = queue /\ dropped' = dropped \cup first..p
      BY <1>3, <2>1, <2>4 DEF Offer
    <3> QED BY <2>2, <3>1 DEF WatchInv, WatchTables, QueueTables, PositionTables
  <2> QED BY <2>3, <2>4
<1>4. CASE EmitLog
  <2> DEFINE p == IF next > trimmed THEN next ELSE trimmed + 1
  <2>1. /\ strategy = "log" /\ token # 0 /\ p <= published /\ next' = p + 1 /\ out' = out
        /\ Offer(WatchEvent(p, p > next), next)
    BY <1>4 DEF EmitLog
  <2>2. p \in Positions /\ next \in 1..p /\ (p > next) \in BOOLEAN
    BY <2>1, PositionsOf DEF WatchInv, WatchTables, PositionTables
  <2> HIDE DEF p
  <2>3. /\ queue' \in Seq(EventSet) /\ Len(queue') <= QueueSize
        /\ \A i \in 1..Len(queue') : queue'[i].event_id <= published
        /\ dropped' \subseteq Positions /\ dropped \subseteq dropped'
        /\ \/ queue' = queue /\ next..p \subseteq dropped'
           \/ queue' = Append(queue, WatchEvent(p, p > next))
    BY <1>3, <2>1, <2>2
  <2>4. WatchTables'
    <3>1. PositionTables'
      BY <1>1, <2>1, <2>2, <2>3, PositionsOf DEF WatchInv, WatchTables, PositionTables
    <3> QED BY <1>1, <2>3, <3>1 DEF WatchInv, WatchTables, QueueTables, AckTables
  <2>5. CASE queue' = queue /\ next..p \subseteq dropped'
    <3>1. \A x, n : CoveredBy(x, n) => CoveredBy(x, n)'
      BY <1>1, <2>3, <2>5 DEF CoveredBy
    <3>2. \A x \in next..p : \A n : CoveredBy(x, n)'
      BY <2>5 DEF CoveredBy
    <3>3. \A x \in 1..p : x \in 1..(next - 1) \/ x \in next..p
      BY <2>2, PositionsOf
    <3>4. next' - 1 = p
      BY <2>1, <2>2, PositionsOf
    <3>5. \A x \in 1..(next' - 1) : CoveredBy(x, Len(queue))'
      BY <2>1, <2>5, <3>1, <3>2, <3>3, <3>4 DEF WatchInv, CoverInv
    <3>6. CoverInv'
      BY <1>1, <2>5, <3>1, <3>5 DEF WatchInv, CoverInv
    <3> QED BY <1>2, <2>4, <3>6 DEF WatchInv
  <2>6. CASE queue' = Append(queue, WatchEvent(p, p > next))
    <3>1. /\ Len(queue) \in Nat /\ Len(queue') = Len(queue) + 1
          /\ \A i \in 1..Len(queue) : queue'[i] = queue[i]
          /\ queue'[Len(queue')].event_id = p /\ queue'[Len(queue')].gap = (p > next)
      BY <2>6 DEF WatchInv, WatchTables, QueueTables, WatchEvent
    <3>2. \A n \in 0..Len(queue) : \A x : CoveredBy(x, n) => CoveredBy(x, n)'
      BY <1>1, <2>3, <3>1 DEF CoveredBy
    <3>3. \A x : CoveredBy(x, Len(queue)) => CoveredBy(x, Len(queue))'
      BY <1>1, <2>3, <3>1 DEF CoveredBy
    <3>4. \A x \in next..p : CoveredBy(x, Len(queue))'
      <4>1. Len(queue') \in 1..Len(queue')
        BY <3>1
      <4>2. \A x \in next..p : x = p \/ (p > next /\ p > x)
        BY <2>2, PositionsOf
      <4> QED BY <3>1, <4>1, <4>2 DEF CoveredBy
    <3>5. \A x \in 1..p : CoveredBy(x, Len(queue))'
      <4>1. \A x \in 1..p : x \in 1..(next - 1) \/ x \in next..p
        BY <2>2, PositionsOf
      <4> QED BY <2>1, <3>3, <3>4, <4>1 DEF WatchInv, CoverInv
    <3>6. \A i \in 1..Len(queue') : \A x \in 1..queue'[i].event_id : CoveredBy(x, i)'
      <4> SUFFICES ASSUME NEW i \in 1..Len(queue'), NEW x \in 1..queue'[i].event_id
                   PROVE  CoveredBy(x, i)'
        OBVIOUS
      <4>1. CASE i = Len(queue')
        BY <3>1, <3>5, <4>1
      <4>2. CASE i \in 1..Len(queue)
        <5>1. CoveredBy(x, i)
          BY <2>1, <3>1, <4>2 DEF WatchInv, CoverInv
        <5> QED BY <3>1, <3>2, <4>2, <5>1
      <4> QED BY <3>1, <4>1, <4>2
    <3>7. \A x \in 1..cursor : CoveredBy(x, 0)'
      BY <2>1, <3>1, <3>2 DEF WatchInv, CoverInv
    <3>8. next' - 1 = p
      BY <2>1, <2>2, PositionsOf
    <3>9. CoverInv'
      BY <1>1, <3>5, <3>6, <3>7, <3>8 DEF CoverInv
    <3> QED BY <1>2, <2>4, <3>9 DEF WatchInv
  <2> QED BY <2>3, <2>5, <2>6
<1>5. ASSUME NEW p \in Positions, EmitQueue(p)
      PROVE  WatchInv'
  <2>1. p <= published /\ Offer(WatchEvent(p, FALSE), p)
    BY <1>5, Zenon DEF EmitQueue
  <2>a. p \in 1..p
    BY PositionsOf
  <2>2. /\ queue' \in Seq(EventSet) /\ Len(queue') <= QueueSize
        /\ \A i \in 1..Len(queue') : queue'[i].event_id <= published
        /\ dropped' \subseteq Positions
    BY <1>3, <2>1, <2>a
  <2>3. WatchTables'
    <3>1. PositionTables'
      BY <1>1, <1>5, <2>2 DEF EmitQueue, WatchInv, WatchTables, PositionTables
    <3> QED BY <1>1, <2>2, <3>1 DEF WatchInv, WatchTables, QueueTables, AckTables
  <2>4. CoverInv'
    BY <1>1, <1>5 DEF EmitQueue, CoverInv
  <2> QED BY <1>2, <2>3, <2>4 DEF WatchInv
<1> QED BY <1>4, <1>5

\* Storing moves what the head of the queue covered to what is dealt with.
LEMMA StoreKeepsInv ==
  ASSUME WatchInv, Store
  PROVE  WatchInv'
<1> DEFINE e == Head(queue)
<1>1. /\ queue # <<>> /\ queue' = Tail(queue)
      /\ UNCHANGED <<strategy, published, trimmed, acked, token, watches, next, out, dropped>>
      /\ IF e.event_id \in Refused \cup StoredIds
         THEN UNCHANGED <<stored, cursor>>
         ELSE stored' = Append(stored, e) /\ cursor' = e.upstream_cursor
      /\ gaps' = IF e.gap THEN gaps \cup {e.event_id} ELSE gaps
      /\ settled' = IF token = 0 THEN settled ELSE Append(settled, <<token, e.upstream_cursor>>)
  BY DEF Store
<1>2. /\ queue \in Seq(EventSet) /\ stored \in Seq(EventSet) /\ Len(queue) \in Nat \ {0}
      /\ e = queue[1] /\ e \in EventSet /\ 1 \in 1..Len(queue)
  BY <1>1 DEF WatchInv, WatchTables, QueueTables
<1>3. /\ queue' \in Seq(EventSet) /\ Len(queue') = Len(queue) - 1
      /\ \A i \in 1..Len(queue') : i + 1 \in 1..Len(queue) /\ queue'[i] = queue[i + 1]
  BY <1>1, <1>2
<1>4. e.event_id \in Positions /\ e.upstream_cursor = e.event_id /\ e.gap \in BOOLEAN
  BY <1>2, EventFields
<1>5. e.event_id \in 1..published /\ e.event_id \in Nat
  BY <1>2, <1>4, PositionsOf DEF WatchInv, WatchTables, QueueTables, PositionTables
<1> HIDE DEF e
<1>6. StoredIds \subseteq StoredIds' /\ e.event_id \in StoredIds' \cup Refused
  <2>1. CASE e.event_id \in Refused \cup StoredIds
    BY <1>1, <2>1 DEF StoredIds
  <2>2. CASE e.event_id \notin Refused \cup StoredIds
    <3>1. stored' = Append(stored, e) /\ Len(stored) \in Nat
      BY <1>1, <1>2, <2>2
    <3>2. DOMAIN stored = 1..Len(stored) /\ DOMAIN stored' = 1..(Len(stored) + 1)
      BY <1>2, <3>1
    <3>3. stored'[Len(stored) + 1] = e /\ \A i \in 1..Len(stored) : stored'[i] = stored[i]
      BY <1>2, <3>1
    <3>4. Len(stored) + 1 \in DOMAIN stored' /\ DOMAIN stored \subseteq DOMAIN stored'
      BY <3>1, <3>2
    <3>5. StoredIds \subseteq StoredIds'
      BY <3>2, <3>3, <3>4 DEF StoredIds
    <3>6. e.event_id \in StoredIds'
      BY <3>3, <3>4 DEF StoredIds
    <3> QED BY <3>5, <3>6
  <2> QED BY <2>1, <2>2
<1>7. WatchTables'
  <2>1. stored' \in Seq(EventSet) /\ cursor' \in 0..published
    <3>1. stored' = stored \/ stored' = Append(stored, e)
      BY <1>1
    <3>2. cursor \in 0..published /\ (cursor' = cursor \/ cursor' = e.event_id)
      BY <1>1, <1>4 DEF WatchInv, WatchTables, PositionTables
    <3>3. stored' \in Seq(EventSet)
      BY <1>2, <3>1
    <3> QED BY <1>5, <3>2, <3>3
  <2>2. PositionTables'
    BY <1>1, <2>1 DEF WatchInv, WatchTables, PositionTables
  <2>3. QueueTables'
    BY <1>1, <1>2, <1>3, <2>1, QueueHoldsSome DEF WatchInv, WatchTables, QueueTables
  <2>4. CASE token = 0
    BY <1>1, <2>2, <2>3, <2>4 DEF WatchInv, WatchTables, AckTables
  <2>5. CASE token # 0
    <3>1. token \in 1..watches /\ token \in Nat
      BY <2>5 DEF WatchInv, WatchTables, PositionTables
    <3>2. settled \in Seq(Nat \X Positions) /\ settled' = Append(settled, <<token, e.event_id>>)
      BY <1>1, <1>4, <2>5 DEF WatchInv, WatchTables, AckTables
    <3>3. settled' \in Seq(Nat \X Positions)
      BY <1>4, <3>1, <3>2
    <3>4. \A i \in 1..Len(settled') :
            \/ i \in 1..Len(settled) /\ settled'[i] = settled[i]
            \/ settled'[i] = <<token, e.event_id>>
      BY <3>2
    <3>5. \A i \in 1..Len(settled') : settled'[i][1] \in 1..watches
      BY <3>1, <3>4 DEF WatchInv, WatchTables, AckTables
    <3> QED BY <1>1, <2>2, <2>3, <3>3, <3>5 DEF WatchTables, AckTables
  <2> QED BY <2>4, <2>5
<1>8. AckInv'
  <2>1. settled \in Seq(Nat \X Positions)
    BY DEF WatchInv, WatchTables, AckTables
  <2>2. \A i \in 1..Len(settled') :
          \/ i \in 1..Len(settled) /\ settled'[i] = settled[i]
          \/ settled'[i] = <<token, e.event_id>>
    BY <1>1, <1>4, <2>1
  <2> QED BY <1>6, <2>2 DEF WatchInv, AckInv
<1>9. AckedIsSettled'
  BY <1>1, <1>6 DEF WatchInv, AckedIsSettled
<1>10. DistinctInv'
  <2>1. CASE e.event_id \in Refused \cup StoredIds
    BY <1>1, <2>1 DEF WatchInv, DistinctInv
  <2>2. CASE e.event_id \notin Refused \cup StoredIds
    <3>1. stored' = Append(stored, e) /\ Len(stored) \in Nat
      BY <1>1, <1>2, <2>2
    <3>2. \A i \in 1..Len(stored') :
            \/ i \in 1..Len(stored) /\ stored'[i] = stored[i]
            \/ i = Len(stored) + 1 /\ stored'[i] = e
      BY <1>2, <3>1
    <3>3. \A i \in 1..Len(stored) : stored[i].event_id # e.event_id
      BY <1>2, <2>2 DEF StoredIds
    <3> QED BY <3>1, <3>2, <3>3 DEF WatchInv, DistinctInv
  <2> QED BY <2>1, <2>2
<1>11. CoverInv'
  <2> SUFFICES ASSUME strategy = "log" PROVE CoverInv'
    BY <1>1 DEF CoverInv
  <2>1. gaps \subseteq gaps' /\ (e.gap => e.event_id \in gaps')
    BY <1>1
  <2>2. \A n \in 1..Len(queue) : \A p : CoveredBy(p, n) =>
          p \in dropped' \/ CoveredBy(p, n - 1)'
    <3> SUFFICES ASSUME NEW n \in 1..Len(queue), NEW p, CoveredBy(p, n)
                 PROVE  CoveredBy(p, n - 1)'
      OBVIOUS
    <3>1. CASE p \in StoredIds \cup Refused \cup dropped \/ \E q \in gaps : q > p
      BY <1>1, <1>6, <2>1, <3>1 DEF CoveredBy
    <3>2. ASSUME NEW j \in 1..n, queue[j].event_id = p \/ (queue[j].gap /\ queue[j].event_id > p)
          PROVE  CoveredBy(p, n - 1)'
      <4>1. CASE j = 1
        BY <1>2, <1>6, <2>1, <3>2, <4>1 DEF CoveredBy
      <4>2. CASE j # 1
        <5>1. j - 1 \in 1..(n - 1) /\ j - 1 \in 1..Len(queue') /\ (j - 1) + 1 = j
          BY <1>2, <1>3, <3>2, <4>2
        <5>2. queue'[j - 1] = queue[j]
          BY <1>3, <5>1
        <5> QED BY <3>2, <5>1, <5>2 DEF CoveredBy
      <4> QED BY <4>1, <4>2
    <3> QED BY <3>1, <3>2 DEF CoveredBy
  <2>3. \A n : \A p \in dropped' : CoveredBy(p, n)'
    BY DEF CoveredBy
  <2>4. \A n \in 1..Len(queue) : \A p : CoveredBy(p, n) => CoveredBy(p, n - 1)'
    BY <2>2, <2>3
  <2>5. \A p : CoveredBy(p, 0) => CoveredBy(p, 1)
    BY DEF CoveredBy
  <2>6. \A p \in 1..cursor' : CoveredBy(p, 0)'
    <3>1. cursor' = cursor \/ cursor' = queue[1].event_id
      BY <1>1, <1>2, <1>4
    <3>2. \A p \in 1..cursor' : CoveredBy(p, 1)
      BY <1>2, <2>5, <3>1 DEF WatchInv, CoverInv
    <3> QED BY <1>2, <2>4, <3>2
  <2>7. \A i \in 1..Len(queue') : \A p \in 1..queue'[i].event_id : CoveredBy(p, i)'
    <3> SUFFICES ASSUME NEW i \in 1..Len(queue'), NEW p \in 1..queue'[i].event_id
                 PROVE  CoveredBy(p, i)'
      OBVIOUS
    <3>1. CoveredBy(p, i + 1)
      BY <1>3 DEF WatchInv, CoverInv
    <3> QED BY <1>3, <2>4, <3>1
  <2>8. ASSUME token # 0, NEW n, n = Len(queue) - 1
        PROVE  \A p \in 1..(next - 1) : CoveredBy(p, n)'
    <3>1. \A p \in 1..(next - 1) : CoveredBy(p, Len(queue))
      BY <2>8 DEF WatchInv, CoverInv
    <3>2. Len(queue) \in 1..Len(queue)
      BY <1>2
    <3> QED BY <2>4, <2>8, <3>1, <3>2
  <2>9. token' # 0 => \A p \in 1..(next' - 1) : CoveredBy(p, Len(queue))'
    BY <1>1, <1>3, <2>8
  <2> QED BY <1>1, <2>6, <2>7, <2>9 DEF CoverInv
<1> QED BY <1>7, <1>8, <1>9, <1>10, <1>11 DEF WatchInv

\* Only what the host is done with is acknowledged.
LEMMA AcknowledgeKeepsInv ==
  ASSUME WatchInv, acknowledge
  PROVE  WatchInv'
<1>1. CoverInv' /\ DistinctInv' /\ StoredIds' = StoredIds
  BY StandStill DEF acknowledge
<1>2. /\ settled # <<>> /\ settled' = Tail(settled)
      /\ UNCHANGED <<strategy, published, trimmed, token, watches, next, queue,
                     stored, gaps, cursor, dropped>>
      /\ acked' \subseteq acked \cup {Head(settled)[2]} /\ out' \subseteq out
  BY DEF acknowledge
<1>3. settled \in Seq(Nat \X Positions)
  BY DEF WatchInv, WatchTables, AckTables
<1>4. /\ Head(settled) = settled[1] /\ 1 \in 1..Len(settled) /\ settled[1] \in Nat \X Positions
      /\ settled' \in Seq(Nat \X Positions)
      /\ \A i \in 1..Len(settled') : i + 1 \in 1..Len(settled) /\ settled'[i] = settled[i + 1]
  BY <1>2, <1>3
<1>5. AckInv' /\ AckedIsSettled'
  BY ZenonT(60), <1>1, <1>2, <1>4 DEF WatchInv, AckInv, AckedIsSettled
<1>6. PositionTables'
  BY <1>2, <1>4 DEF WatchInv, WatchTables, PositionTables
<1>7. QueueTables' /\ AckTables'
  BY <1>2, <1>4 DEF WatchInv, WatchTables, QueueTables, AckTables
<1> QED BY <1>1, <1>5, <1>6, <1>7 DEF WatchInv, WatchTables

\* Every step of a watch keeps the invariant.
LEMMA WatchStep == WatchInv /\ [WatchNext]_watchVars => WatchInv'
<1> SUFFICES ASSUME WatchInv, [WatchNext]_watchVars PROVE WatchInv'
  OBVIOUS
<1>1. CASE UNCHANGED watchVars
  <2>1. CoverInv' /\ DistinctInv' /\ StoredIds' = StoredIds
    BY <1>1, StandStill DEF watchVars
  <2> QED
    BY <1>1, <2>1 DEF watchVars, WatchInv, WatchTables, PositionTables, QueueTables,
       AckTables, AckInv, AckedIsSettled
<1>2. CASE WatchNext
  BY <1>2, UpstreamKeepsInv, RestartKeepsInv, WatchKeepsInv, EmitKeepsWatchInv,
     StoreKeepsInv, AcknowledgeKeepsInv DEF WatchNext
<1> QED BY <1>1, <1>2

\* The inductive invariant of the watch.
LEMMA WatchInvariant == WatchSpec => []WatchInv
BY WatchInvInit, WatchStep, PTL DEF WatchSpec

\* event_body tells any two messages apart.
LEMMA BodiesDiffer ==
  ASSUME NEW p \in Positions, NEW q \in Positions,
         event_body(Upstream[p]) = event_body(Upstream[q])
  PROVE  Upstream[p] = Upstream[q]
<1>1. /\ Upstream[p] = Body(Upstream[p].form, Upstream[p].content)
      /\ Upstream[q] = Body(Upstream[q].form, Upstream[q].content)
      /\ {Upstream[p].form, Upstream[q].form} \subseteq {"json", "text", "bytes"}
  BY UpstreamIsBodies
<1>2. Upstream[p].form = Upstream[q].form
  BY <1>1 DEF event_body, JSON, TEXT, BASE64
<1>3. Upstream[p].content = Upstream[q].content
  BY <1>1, <1>2, Base64IsExact DEF event_body, JSON, TEXT, BASE64
<1> QED BY <1>1, <1>2, <1>3

\* As many ids as events are stored.
LEMMA DistinctAreCounted ==
  ASSUME WatchTables, DistinctInv
  PROVE  StoredOnce
<1> DEFINE f == [i \in 1..Len(stored) |-> stored[i].event_id]
<1>1. Len(stored) \in Nat /\ DOMAIN stored = 1..Len(stored)
  BY DEF WatchTables, QueueTables
<1>2. f \in Surjection(1..Len(stored), StoredIds)
  BY <1>1 DEF StoredIds, Surjection
<1>3. f \in Injection(1..Len(stored), StoredIds)
  BY <1>2 DEF DistinctInv, Injection, IsInjective, Surjection
<1>4. IsFiniteSet(1..Len(stored)) /\ Cardinality(1..Len(stored)) = Len(stored)
  <2>1. /\ IsFiniteSet(1..Len(stored))
        /\ Cardinality(1..Len(stored)) = IF 1 > Len(stored) THEN 0 ELSE Len(stored) - 1 + 1
    BY <1>1, FS_Interval
  <2> QED BY <1>1, <2>1
<1> QED BY <1>2, <1>3, <1>4, FS_Surjection DEF StoredOnce

\* For any upstream, queue size and number of crashes, cancels and trims: what
\* the upstream was told is done is stored or refused, everything up to the
\* stored cursor of a log is accounted for, no event is stored twice, and no
\* two messages are stored alike.
THEOREM StoredExactlyHolds == WatchSpec => []StoredExactly
<1>1. WatchInv => StoredExactly
  <2> SUFFICES ASSUME WatchInv PROVE StoredExactly
    OBVIOUS
  <2>1. RestartLosesNothing
    BY DEF WatchInv, CoverInv, CoveredBy, RestartLosesNothing
  <2>2. StoredOnce
    BY DistinctAreCounted DEF WatchInv
  <2>3. BodiesNeverReadAlike
    <3>1. \A i \in DOMAIN stored : stored[i] \in EventSet
      BY DEF WatchInv, WatchTables, QueueTables
    <3> QED BY <3>1, EventFields, BodiesDiffer DEF BodiesNeverReadAlike
  <2> QED BY <2>1, <2>2, <2>3 DEF WatchInv, StoredExactly
<1> QED BY <1>1, WatchInvariant, PTL

\* The invariant has the types of a source, its server and its client.
LEMMA WatchTypes == WatchInv => WatchTypeOK
BY DEF WatchInv, WatchTables, PositionTables, QueueTables, AckTables, WatchTypeOK

\* The queue never holds more than its size, and cursors, handles and
\* acknowledgements are of what was published and given out.
THEOREM WatchTypeCorrect == WatchSpec => []WatchTypeOK
BY WatchTypes, WatchInvariant, PTL

(***************************************************************************)
(* UriProviders: a consumer is never behind what it holds                  *)
(***************************************************************************)

\* What an event brings, and whether the consumer leaves its section alone.
Brought(e) == IF doc_kind = "secret" THEN e.new_value ELSE e.snapshot
Part(v) == Contents(v)[Used]
Skipped(e) == doc_kind = "config" /\ e.changed_paths \cap {Used, "/"} = {}

\* A value of the document, as it is or was.
IsValue(v) == Contents(v) \in [Sections -> 1..version]

SecretValues ==
  {from_wire(to_wire(SecretValue(d, Just(v), x))) :
     d \in [Sections -> 0..MaxVersion], v \in 0..MaxVersion, x \in {NoValue, Just("t")}}
Snapshots ==
  {ConfigSnapshot(v, d, r) : v \in 0..MaxVersion, d \in [Sections -> 0..MaxVersion], r \in References}
UriEvents ==
  {SecretRotation(v) : v \in SecretValues}
    \cup {ConfigDelta(f, t, paths, new) : f \in 0..MaxVersion, t \in 0..MaxVersion,
            paths \in SUBSET (Sections \cup {"/"}), new \in Snapshots}

UriTables ==
  /\ supported_schemes \in Advertised /\ doc_kind \in {"secret", "config"}
  /\ expiring \in BOOLEAN /\ reference \in References
  /\ version \in 0..MaxVersion /\ doc \in [Sections -> 0..version]
  /\ version > 0 => doc \in [Sections -> 1..version]
  /\ emitted \in 0..version /\ faults \in 0..MaxFaults
  /\ bindings \in [Schemes -> {NoValue} \cup {Just(p) : p \in Providers}]
  /\ fault \in {NoValue} \cup {Just(f) : f \in Faults(doc_kind)}
  /\ step \in {"boot", "open", "fetch", "answered", "listen", "poll", "stopped"}
  /\ applied \in 0..version /\ watching \in BOOLEAN /\ polling \in BOOLEAN
  /\ events \in Seq(UriEvents)

\* Events come of a watch: none are on their way before it is opened, or when
\* there is none.
StreamInv ==
  /\ polling => step \in {"fetch", "answered", "poll"}
  /\ polling \/ step \in {"boot", "open", "stopped"} => ~watching /\ events = <<>>

\* What a fetch brought is a value; an absence is not told to a consumer that
\* has had one.
AnswerInv ==
  /\ fetched.ok # NoValue =>
       fetched.ok = Just(fetched.ok[1]) /\ IsValue(fetched.ok[1]) /\ fetched.err = NoValue
  /\ step = "answered" /\ fetched.ok = NoValue /\ fetched.err = Just("not_found") => applied = 0

HeldInv ==
  /\ held # NoValue => held = Just(held[1]) /\ IsValue(held[1])
  /\ HintHidesNothing

\* The events on their way bring values in order: one that leaves the section
\* alone brings what the one before it brought, and what has changed since the
\* last is still to be reported.
EventsInv ==
  /\ \A i \in 1..Len(events) : IsValue(Brought(events[i])) /\ Part(Brought(events[i])) <= doc[Used]
  /\ \A i \in 1..(Len(events) - 1) :
       Skipped(events[i + 1]) => Part(Brought(events[i + 1])) <= Part(Brought(events[i]))
  /\ events # <<>> =>
       doc[Used] <= Part(Brought(events[Len(events)])) \/ doc[Used] > emitted

\* A consumer that listens, or is about to: the next event may be skipped only
\* if it brings nothing newer than what the consumer acts on.
Settled ==
  \/ step = "listen"
  \/ step = "answered" /\ (fetched.ok # NoValue \/ fetched.err = Just("not_found"))
Has == IF step = "listen" THEN applied
       ELSE IF fetched.ok # NoValue THEN Part(fetched.ok[1]) ELSE 0
AheadInv ==
  Settled /\ ~polling =>
    /\ events # <<>> => (Skipped(events[1]) => Part(Brought(events[1])) <= Has)
    /\ events = <<>> => doc[Used] <= Has \/ doc[Used] > emitted

\* Who is turned away had no scheme, or nothing is bound.
RouteInv ==
  /\ step = "boot" => \A s \in Schemes : bindings[s] = NoValue
  /\ step = "stopped" => Scheme = NoValue \/ \A s \in Schemes : bindings[s] = NoValue

UriInv == UriTables /\ StreamInv /\ AnswerInv /\ HeldInv /\ EventsInv /\ AheadInv /\ RouteInv


\* The delimiter of a reference as a sequence of three characters.
LEMMA ThreeOf ==
  ASSUME NEW S, NEW a \in S, NEW b \in S, NEW c \in S
  PROVE  <<a, b, c>> \in Seq(S) /\ Len(<<a, b, c>>) = 3
OBVIOUS

\* Where the elements of a concatenation come from.
LEMMA JoinedOf ==
  ASSUME NEW S, NEW s \in Seq(S), NEW r \in Seq(S)
  PROVE  /\ s \o r \in Seq(S) /\ Len(s \o r) = Len(s) + Len(r)
         /\ \A i \in 1..Len(s) : (s \o r)[i] = s[i]
         /\ \A i \in 1..Len(r) : (s \o r)[Len(s) + i] = r[i]
<1>1. s \o r \in Seq(S)
  OBVIOUS
<1>2. Len(s \o r) = Len(s) + Len(r)
  OBVIOUS
<1> QED
  BY <1>1, <1>2

\* A reference that begins with a scheme and the delimiter is routed by it.
LEMMA SchemeOf ==
  ASSUME NEW s \in Seq(Characters \ {":"}), s # <<>>,
         NEW ref \in Seq(Characters), IsPrefix(s \o Delimiter, ref)
  PROVE  parse_secret_ref(ref) # NoValue /\ parse_secret_ref(ref)[1][1] = s
<1> DEFINE d == s \o Delimiter
           n == Len(s)
           At == DelimiterAt(ref)
<1> s \in Seq(Characters) /\ \A i \in 1..Len(s) : s[i] # ":"
  OBVIOUS
<1>0. /\ Delimiter \in Seq(Characters) /\ Len(Delimiter) = 3
      /\ Delimiter[1] = ":" /\ Delimiter[2] = "/" /\ Delimiter[3] = "/"
  <2>1. ":" \in Characters /\ "/" \in Characters
    BY ReferencesAreTexts
  <2>2. Delimiter \in Seq(Characters) /\ Len(Delimiter) = 3
    BY <2>1, ThreeOf, Zenon DEF Delimiter
  <2>3. Delimiter[1] = ":" /\ Delimiter[2] = "/" /\ Delimiter[3] = "/"
    BY DEF Delimiter
  <2> QED BY <2>2, <2>3
<1>1. n \in Nat \ {0} /\ Len(d) = n + 3 /\ d \in Seq(Characters)
  <2>1. n \in Nat \ {0}
    OBVIOUS
  <2>2. d \in Seq(Characters) /\ Len(d) = n + Len(Delimiter)
    BY <1>0, JoinedOf, Zenon
  <2> QED BY <1>0, <2>1, <2>2
<1>2. /\ \A i \in 1..n : d[i] = s[i]
      /\ d[n + 1] = ":" /\ d[n + 2] = "/" /\ d[n + 3] = "/"
  BY <1>0, <1>1, JoinedOf
<1>3. n + 3 <= Len(ref) /\ \A i \in 1..(n + 3) : ref[i] = d[i]
  <2>1. Len(ref) \in Nat /\ n + 3 <= Len(ref) /\ SubSeq(d, 1, n + 3) = SubSeq(ref, 1, n + 3)
    BY <1>1 DEF IsPrefix
  <2> HIDE DEF d
  <2>2. ASSUME NEW i \in 1..(n + 3) PROVE ref[i] = d[i]
    <3>1. SubSeq(d, 1, n + 3)[i] = d[i]
      BY <1>1
    <3>2. SubSeq(ref, 1, n + 3)[i] = ref[i]
      BY <1>1, <2>1
    <3> QED BY <2>1, <3>1, <3>2
  <2> QED BY <2>1, <2>2
<1> HIDE DEF d
<1>4. n + 1 \in At
  <2>1. n + 1 \in 1..(Len(ref) - 2)
    BY <1>1, <1>3
  <2>2. ref[n + 1] = ":" /\ ref[n + 2] = "/" /\ ref[n + 3] = "/"
    BY <1>1, <1>2, <1>3
  <2>3. SubSeq(ref, n + 1, n + 3) = Delimiter
    <3> DEFINE p == SubSeq(ref, n + 1, n + 3)
    <3>1. p \in Seq(Characters) /\ Len(p) = 3
      BY <1>1, <1>3
    <3>2. p[1] = ref[n + 1] /\ p[2] = ref[n + 2] /\ p[3] = ref[n + 3]
      BY <1>1, <1>3
    <3> HIDE DEF p
    <3>3. \A i \in 1..3 : p[i] = Delimiter[i]
      BY <1>0, <2>2, <3>2
    <3>4. p = Delimiter
      BY SMTT(40), <1>0, <3>1, <3>3
    <3> QED BY <3>4 DEF p
  <2>4. n + 1 + 2 = n + 3
    BY <1>1
  <2> QED BY <2>1, <2>3, <2>4 DEF DelimiterAt
<1>5. ASSUME NEW i \in At PROVE n + 1 <= i /\ i \in Int
  <2>1. i \in 1..(Len(ref) - 2) /\ SubSeq(ref, i, i + 2) = Delimiter
    BY DEF DelimiterAt
  <2>2. ref[i] = ":"
    <3>1. SubSeq(ref, i, i + 2)[1] = ref[i]
      BY <2>1
    <3> QED BY <1>0, <2>1, <3>1
  <2>3. i \notin 1..n
    BY <1>1, <1>2, <1>3, <2>2
  <2> QED BY <1>1, <2>1, <2>3
<1>6. Min(At) = n + 1
  BY <1>1, <1>4, <1>5 DEF Min
<1>7. At # {} /\ 1 \notin At
  BY <1>1, <1>4, <1>5
<1>8. SubSeq(ref, 1, n) = s
  <2>1. SubSeq(ref, 1, n) \in Seq(Characters) /\ Len(SubSeq(ref, 1, n)) = n
    BY <1>1, <1>3
  <2>2. \A i \in 1..n : SubSeq(ref, 1, n)[i] = s[i]
    BY <1>1, <1>2, <1>3
  <2> QED BY <1>1, <2>1, <2>2
<1> QED
  BY <1>1, <1>6, <1>7, <1>8 DEF parse_secret_ref, NoValue, Just

\* What a provider hands over, as it arrives.
LEMMA ArrivesWhole ==
  ASSUME doc_kind \in {"secret", "config"}
  PROVE  /\ Contents(Fetched) = doc
         /\ doc_kind = "secret" =>
              /\ rotation_from_wire(rotation_to_wire(SecretRotation(Current))) = SecretRotation(Fetched)
              /\ Contents(SecretRotation(Fetched).new_value) = doc
         /\ doc_kind = "config" => Fetched = Current
<1>1. doc_kind = "secret" => Fetched.bytes = doc
  BY DEF Fetched, Current, SecretValue, from_wire, to_wire
<1> QED
  BY <1>1 DEF Contents, Fetched, Current, ConfigSnapshot, SecretRotation, rotation_from_wire,
     rotation_to_wire


\* The setup is fixed, and with it how values and events are read.
LEMMA SetupOf ==
  ASSUME UNCHANGED setup
  PROVE  /\ Scheme' = Scheme /\ Schemes' = Schemes /\ doc_kind' = doc_kind
         /\ \A v : Contents(v)' = Contents(v) /\ Part(v)' = Part(v)
         /\ \A e : (Brought(e)' = Brought(e)) /\ (Skipped(e)' <=> Skipped(e))
<1>1. /\ supported_schemes' = supported_schemes /\ doc_kind' = doc_kind /\ reference' = reference
  BY DEF setup
<1>2. Scheme' = Scheme
  BY <1>1 DEF Scheme
<1>3. Schemes' = Schemes
  BY <1>1 DEF Schemes
<1>4. \A v : Contents(v)' = Contents(v) /\ Part(v)' = Part(v)
  BY <1>1 DEF Contents, Part
<1>5. \A e : (Brought(e)' = Brought(e)) /\ (Skipped(e)' <=> Skipped(e))
  BY <1>1 DEF Brought, Skipped
<1> QED
  BY <1>1, <1>2, <1>3, <1>4, <1>5

\* A value stays one as the document goes on.
LEMMA ValuesStay ==
  ASSUME UriTables, UNCHANGED setup, version' \in Nat, version <= version'
  PROVE  \A v : IsValue(v) => IsValue(v)'
<1> SUFFICES ASSUME NEW v, IsValue(v) PROVE IsValue(v)'
  OBVIOUS
<1>1. Contents(v) \in [Sections -> 1..version] /\ Contents(v)' = Contents(v) /\ version \in Nat
  BY SetupOf, UriIsBounded DEF IsValue, UriTables
<1>2. 1..version \subseteq 1..version'
  BY <1>1
<1> QED
  BY <1>1, <1>2 DEF IsValue

\* The section of a value.
LEMMA PartOf ==
  ASSUME UriTables, NEW v, IsValue(v)
  PROVE  Part(v) \in 1..version /\ Part(v) \in Nat /\ Part(v) > 0
BY UsedIsASection, UriIsBounded DEF IsValue, Part, UriTables

\* Steps that neither the consumer, the document nor its events notice.
LEMMA UnnoticedKeepsInv ==
  ASSUME UriInv, UNCHANGED <<setup, document, emitted, events, consumer>>
  PROVE  AnswerInv' /\ HeldInv' /\ EventsInv' /\ AheadInv'
<1>1. /\ version' = version /\ doc' = doc /\ emitted' = emitted /\ events' = events /\ step' = step
      /\ polling' = polling /\ fetched' = fetched /\ held' = held /\ applied' = applied
  BY DEF document, consumer
<1>2. \A v : IsValue(v) => IsValue(v)'
  BY <1>1, ValuesStay, UriIsBounded DEF UriInv, UriTables
<1>3. AnswerInv'
  BY <1>1, <1>2 DEF UriInv, AnswerInv
<1>4. HeldInv'
  BY <1>1, <1>2, SetupOf DEF UriInv, HeldInv, HintHidesNothing
<1>5. EventsInv'
  BY <1>1, <1>2, SetupOf DEF UriInv, EventsInv
<1>6. AheadInv'
  BY <1>1, SetupOf DEF UriInv, AheadInv, Settled, Has
<1> QED
  BY <1>3, <1>4, <1>5, <1>6

\* Before the host binds schemes to providers nothing is fetched or held.
LEMMA UriInvInit == UriInit => UriInv
<1> SUFFICES ASSUME UriInit PROVE UriInv
  OBVIOUS
<1>1. UriTables
  <2>1. version = 0 /\ emitted = 0 /\ faults = 0 /\ applied = 0 /\ events = <<>> /\ fault = NoValue
    BY DEF UriInit
  <2>2. 0 \in 0..MaxVersion /\ 0 \in 0..MaxFaults /\ 0 \in 0..0 /\ ~(0 > 0)
    BY UriIsBounded
  <2>3. doc \in [Sections -> 0..0]
    BY DEF UriInit
  <2>4. bindings \in [Schemes -> {NoValue} \cup {Just(p) : p \in Providers}]
    BY DEF UriInit
  <2>5. <<>> \in Seq(UriEvents)
    OBVIOUS
  <2>6. /\ supported_schemes \in Advertised /\ doc_kind \in {"secret", "config"}
        /\ expiring \in BOOLEAN /\ reference \in References
        /\ step = "boot" /\ watching = FALSE /\ polling = FALSE
    BY DEF UriInit
  <2> QED
    BY <2>1, <2>2, <2>3, <2>4, <2>5, <2>6 DEF UriTables
<1>2. StreamInv /\ AnswerInv /\ HeldInv
  BY DEF UriInit, StreamInv, AnswerInv, HeldInv, HintHidesNothing, Err, NoValue
<1>3. EventsInv /\ AheadInv
  BY DEF UriInit, EventsInv, AheadInv, Settled, Err, NoValue, Just
<1>4. RouteInv
  BY DEF UriInit, RouteInv
<1> QED
  BY <1>1, <1>2, <1>3, <1>4 DEF UriInv

\* The gateway, and faults.
LEMMA GatewayKeepsUriInv ==
  ASSUME UriInv, Boot \/ Unbind \/ Rebind \/ Fail \/ Recover \/ Break
  PROVE  UriInv'
<1>1. UNCHANGED setup /\ UNCHANGED <<version, doc, emitted, events, polling, fetched, held, applied>>
  BY DEF Boot, Unbind, Rebind, Fail, Recover, Break, document, consumer
<1>2. UriTables'
  <2>1. Schemes' = Schemes /\ supported_schemes' = supported_schemes /\ doc_kind' = doc_kind
        /\ expiring' = expiring /\ reference' = reference
    BY <1>1, SetupOf DEF setup
  <2>2. bindings' \in [Schemes -> {NoValue} \cup {Just(p) : p \in Providers}]
    <3>1. CASE Boot
      <4>1. \A s \in Schemes : Claimants(s) # {} /\ Claimants(s) \subseteq Providers
        BY DEF Schemes, Claimants
      <4>2. \A s \in Schemes : (CHOOSE p \in Claimants(s) : TRUE) \in Providers
        BY <4>1
      <4> QED BY <3>1, <4>2 DEF Boot, UriInv, UriTables
    <3>2. CASE Rebind
      <4>1. Scheme[1] \in Schemes => Claimants(Scheme[1]) # {} /\ Claimants(Scheme[1]) \subseteq Providers
        BY DEF Schemes, Claimants
      <4>2. Scheme[1] \in Schemes => (CHOOSE p \in Claimants(Scheme[1]) : TRUE) \in Providers
        BY <4>1
      <4> QED BY <3>2, <4>2 DEF Rebind, UriInv, UriTables
    <3>3. CASE Unbind
      BY <3>3 DEF Unbind, UriInv, UriTables
    <3>4. CASE Fail \/ Recover \/ Break
      BY <3>4 DEF Fail, Recover, Break, UriInv, UriTables
    <3> QED BY <3>1, <3>2, <3>3, <3>4
  <2>3. faults' \in 0..MaxFaults
    BY UriIsBounded DEF Boot, Unbind, Rebind, Fail, Recover, Break, UriInv, UriTables
  <2>4. fault' \in {NoValue} \cup {Just(f) : f \in Faults(doc_kind)}
    BY DEF Boot, Unbind, Rebind, Fail, Recover, Break, UriInv, UriTables
  <2>5. step' \in {"boot", "open", "fetch", "answered", "listen", "poll", "stopped"}
        /\ watching' \in BOOLEAN
    BY DEF Boot, Unbind, Rebind, Fail, Recover, Break, UriInv, UriTables, consumer
  <2>6. Faults(doc_kind)' = Faults(doc_kind)
    BY <2>1 DEF Faults
  <2> QED BY <1>1, <2>1, <2>2, <2>3, <2>4, <2>5, <2>6 DEF UriInv, UriTables
<1>3. StreamInv'
  BY <1>1 DEF Boot, Unbind, Rebind, Fail, Recover, Break, UriInv, StreamInv, consumer
<1>4. AnswerInv' /\ HeldInv' /\ EventsInv' /\ AheadInv'
  <2>1. CASE ~Boot
    <3>1. UNCHANGED <<setup, document, emitted, events, consumer>>
      BY <1>1, <2>1 DEF Unbind, Rebind, Fail, Recover, Break, document, consumer
    <3> QED BY <3>1, UnnoticedKeepsInv
  <2>2. CASE Boot
    <3>1. step' \in {"open", "stopped"}
      BY <2>2 DEF Boot
    <3>2. \A v : IsValue(v) => IsValue(v)'
      BY <1>1, ValuesStay, UriIsBounded DEF UriInv, UriTables
    <3>3. AnswerInv' /\ AheadInv'
      BY <1>1, <3>1, <3>2 DEF UriInv, AnswerInv, AheadInv, Settled
    <3>4. HeldInv'
      BY <1>1, <3>2, SetupOf DEF UriInv, HeldInv, HintHidesNothing
    <3>5. EventsInv'
      BY <1>1, <3>2, SetupOf DEF UriInv, EventsInv
    <3> QED BY <3>3, <3>4, <3>5
  <2> QED BY <2>1, <2>2
<1>5. RouteInv'
  <2>1. Scheme' = Scheme /\ Schemes' = Schemes
    BY <1>1, SetupOf
  <2>2. CASE Boot
    BY <2>1, <2>2 DEF Boot, UriInv, RouteInv
  <2>3. CASE Unbind \/ Rebind
    <3>1. step' = step /\ step # "boot" /\ (step = "stopped" => Scheme = NoValue)
      BY <2>3 DEF Unbind, Rebind, IsBound, UriInv, RouteInv, consumer
    <3> QED BY <2>1, <3>1 DEF RouteInv
  <2>4. CASE Fail \/ Recover \/ Break
    BY <2>1, <2>4 DEF Fail, Recover, Break, UriInv, RouteInv, consumer
  <2> QED BY <2>2, <2>3, <2>4
<1> QED
  BY <1>2, <1>3, <1>4, <1>5 DEF UriInv


\* The document changes: what it holds is newer than anything on its way.
LEMMA ChangeKeepsInv ==
  ASSUME UriInv, Change
  PROVE  UriInv'
<1>1. /\ UNCHANGED setup /\ version' = version + 1
      /\ UNCHANGED <<bindings, fault, faults, watching, emitted, events>>
      /\ UNCHANGED <<step, polling, fetched, held, applied>>
  BY DEF Change, consumer
<1>2. version \in Nat /\ version < MaxVersion /\ MaxVersion \in Nat /\ emitted \in 0..version
  BY UriIsBounded DEF Change, UriInv, UriTables
<1>3. PICK S \in SUBSET Sections :
        /\ doc' = [s \in Sections |-> IF s \in S THEN version + 1 ELSE doc[s]]
        /\ version = 0 => S = Sections
  BY DEF Change
<1>4. doc' \in [Sections -> 1..(version + 1)]
  <2> SUFFICES ASSUME NEW s \in Sections, s \notin S PROVE doc[s] \in 1..(version + 1)
    BY <1>2, <1>3
  <2>1. version > 0
    BY <1>2, <1>3
  <2>2. doc[s] \in 1..version
    BY <2>1 DEF UriInv, UriTables
  <2> QED BY <1>2, <2>2
<1>5. doc[Used] \in 0..version /\ (doc'[Used] = doc[Used] \/ doc'[Used] = version + 1)
  BY <1>3, UsedIsASection DEF UriInv, UriTables
<1>6. \A v : IsValue(v) => IsValue(v)'
  BY <1>1, <1>2, ValuesStay DEF UriInv
<1>7. UriTables'
  <2>1. Schemes' = Schemes /\ supported_schemes' = supported_schemes /\ doc_kind' = doc_kind
        /\ expiring' = expiring /\ reference' = reference
    BY <1>1, SetupOf DEF setup
  <2>2. version' \in 0..MaxVersion /\ 0..version \subseteq 0..version'
    BY <1>1, <1>2
  <2>3. doc' \in [Sections -> 0..version'] /\ doc' \in [Sections -> 1..version']
    BY <1>1, <1>2, <1>4
  <2>4. Faults(doc_kind)' = Faults(doc_kind)
    BY <2>1 DEF Faults
  <2>5. emitted' \in 0..version' /\ applied' \in 0..version'
    BY <1>1, <2>2 DEF UriInv, UriTables
  <2> QED BY <1>1, <2>1, <2>2, <2>3, <2>4, <2>5 DEF UriInv, UriTables
<1>8. StreamInv' /\ AnswerInv'
  BY <1>1, <1>6 DEF UriInv, StreamInv, AnswerInv
<1>9. HeldInv'
  BY <1>1, <1>6, SetupOf DEF UriInv, HeldInv, HintHidesNothing
<1>10. EventsInv'
  <2>1. \A j \in 1..Len(events) : Part(Brought(events[j])) \in Nat
    BY PartOf DEF UriInv, EventsInv
  <2>2. \A j \in 1..Len(events) : Part(Brought(events[j])) <= doc'[Used]
    BY <1>2, <1>5, <2>1 DEF UriInv, EventsInv
  <2>3. events # <<>> =>
          doc'[Used] <= Part(Brought(events[Len(events)])) \/ doc'[Used] > emitted
    BY <1>2, <1>5 DEF UriInv, EventsInv
  <2> QED BY <1>1, <1>6, <2>2, <2>3, SetupOf DEF UriInv, EventsInv
<1>11. AheadInv'
  <2>1. Has' = Has /\ (Settled' <=> Settled)
    BY <1>1, SetupOf DEF Has, Settled
  <2>2. doc[Used] <= Has \/ doc[Used] > emitted => doc'[Used] <= Has \/ doc'[Used] > emitted
    BY <1>2, <1>5
  <2> QED BY <1>1, <2>1, <2>2, SetupOf DEF UriInv, AheadInv
<1>12. RouteInv'
  BY <1>1, SetupOf DEF UriInv, RouteInv
<1> QED
  BY <1>7, <1>8, <1>9, <1>10, <1>11, <1>12 DEF UriInv

\* The event that reports the document as it is.
LEMMA EmittedOf ==
  ASSUME UriInv, EmitChange
  PROVE  \E e \in UriEvents :
           /\ events' = Append(events, e) /\ Contents(Brought(e)) = doc
           /\ Skipped(e) => doc[Used] <= emitted
<1>0. /\ doc_kind \in {"secret", "config"} /\ version \in 0..MaxVersion /\ emitted \in 0..version
      /\ doc \in [Sections -> 0..MaxVersion] /\ expiring \in BOOLEAN /\ reference \in References
      /\ emitted \in 0..MaxVersion
  BY UriIsBounded DEF UriInv, UriTables
<1>1. CASE doc_kind = "secret"
  <2> DEFINE e == SecretRotation(Fetched)
  <2>1. events' = Append(events, e) /\ Contents(e.new_value) = doc
    BY <1>0, <1>1, ArrivesWhole DEF EmitChange
  <2>2. Fetched \in SecretValues
    BY <1>0, <1>1 DEF SecretValues, Fetched, Current
  <2>3. e \in UriEvents
    BY <2>2 DEF UriEvents
  <2>4. Contents(Brought(e)) = doc /\ ~Skipped(e)
    BY <1>1, <2>1 DEF Brought, Skipped
  <2> HIDE DEF e
  <2> QED BY <2>1, <2>3, <2>4
<1>2. CASE doc_kind = "config"
  <2>1. PICK paths \in ChangedPaths(emitted) :
          events' = Append(events, ConfigDelta(emitted, version, paths, Current))
    BY <1>2 DEF EmitChange
  <2> DEFINE e == ConfigDelta(emitted, version, paths, Current)
  <2>2. Current \in Snapshots /\ Contents(Current) = doc
    BY <1>0, <1>2 DEF Snapshots, Current, Contents, ConfigSnapshot
  <2>3. paths \in SUBSET (Sections \cup {"/"})
    BY DEF ChangedPaths
  <2>4. e \in UriEvents
    BY <1>0, <2>2, <2>3 DEF UriEvents
  <2>5. e.snapshot = Current /\ e.changed_paths = paths
    BY DEF ConfigDelta
  <2>6. Contents(Brought(e)) = doc
    BY <1>2, <2>2, <2>5 DEF Brought
  <2>7. Skipped(e) => doc[Used] <= emitted
    <3> SUFFICES ASSUME Used \notin paths, "/" \notin paths PROVE doc[Used] <= emitted
      BY <2>5 DEF Skipped
    <3>1. Used \notin {s \in Sections : doc[s] > emitted}
      BY DEF ChangedPaths
    <3>2. doc[Used] \in Nat /\ emitted \in Nat
      BY <1>0, UsedIsASection, UriIsBounded
    <3> QED BY <3>1, <3>2, UsedIsASection
  <2> HIDE DEF e
  <2>8. events' = Append(events, e)
    BY <2>1 DEF e
  <2> QED BY <2>4, <2>6, <2>7, <2>8
<1> QED
  BY <1>0, <1>1, <1>2

\* Where the elements of a queue are after one is added.
LEMMA AppendedOf ==
  ASSUME NEW S, NEW q \in Seq(S), NEW e \in S
  PROVE  /\ Append(q, e) \in Seq(S) /\ Len(Append(q, e)) = Len(q) + 1 /\ Len(q) \in Nat
         /\ \A i \in 1..Len(q) : Append(q, e)[i] = q[i]
         /\ Append(q, e)[Len(q) + 1] = e /\ Append(q, e) # <<>>
         /\ q = <<>> <=> Len(q) = 0
OBVIOUS

\* The provider reports a change.
LEMMA EmitKeepsUriInv ==
  ASSUME UriInv, EmitChange
  PROVE  UriInv'
<1>1. /\ UNCHANGED setup /\ emitted' = version /\ watching /\ emitted < version
      /\ UNCHANGED <<bindings, version, doc, fault, faults, watching>>
      /\ UNCHANGED <<step, polling, fetched, held, applied>>
  BY DEF EmitChange, document, consumer
<1>2. PICK e \in UriEvents :
        /\ events' = Append(events, e) /\ Contents(Brought(e)) = doc
        /\ Skipped(e) => doc[Used] <= emitted
  BY EmittedOf
<1>3. version \in Nat /\ version > 0 /\ emitted \in 0..version /\ events \in Seq(UriEvents)
  BY <1>1, UriIsBounded DEF UriInv, UriTables
<1>4. IsValue(Brought(e)) /\ Part(Brought(e)) = doc[Used] /\ doc[Used] \in 1..version
  BY <1>2, <1>3, UsedIsASection DEF UriInv, UriTables, IsValue, Part
<1>5. \A v : IsValue(v) => IsValue(v)'
  BY <1>1, <1>3, ValuesStay DEF UriInv
<1> DEFINE n == Len(events)
<1>6. /\ n \in Nat /\ events' \in Seq(UriEvents) /\ Len(events') = n + 1
      /\ \A i \in 1..n : events'[i] = events[i]
      /\ events'[n + 1] = e /\ events' # <<>> /\ (events = <<>> <=> n = 0)
  BY <1>2, <1>3, AppendedOf
<1> HIDE DEF n
<1>7. UriTables'
  <2>1. Schemes' = Schemes /\ supported_schemes' = supported_schemes /\ doc_kind' = doc_kind
        /\ expiring' = expiring /\ reference' = reference
    BY <1>1, SetupOf DEF setup
  <2>2. Faults(doc_kind)' = Faults(doc_kind)
    BY <2>1 DEF Faults
  <2>3. emitted' \in 0..version'
    BY <1>1, <1>3
  <2> QED BY <1>1, <1>6, <2>1, <2>2, <2>3 DEF UriInv, UriTables
<1>8. StreamInv' /\ AnswerInv'
  BY <1>1, <1>5 DEF UriInv, StreamInv, AnswerInv
<1>9. HeldInv'
  BY <1>1, <1>5, SetupOf DEF UriInv, HeldInv, HintHidesNothing
<1>10. EventsInv'
  <2>1. \A j \in 1..Len(events') :
          IsValue(Brought(events'[j])) /\ Part(Brought(events'[j])) <= doc[Used]
    <3> SUFFICES ASSUME NEW j \in 1..(n + 1)
                 PROVE  IsValue(Brought(events'[j])) /\ Part(Brought(events'[j])) <= doc[Used]
      BY <1>6
    <3>1. CASE j \in 1..n
      BY <1>6, <3>1 DEF UriInv, EventsInv, n
    <3>2. CASE j = n + 1
      BY <1>3, <1>4, <1>6, <3>2
    <3> QED BY <1>6, <3>1, <3>2
  <2>2. \A j \in 1..(Len(events') - 1) :
          Skipped(events'[j + 1]) => Part(Brought(events'[j + 1])) <= Part(Brought(events'[j]))
    <3> SUFFICES ASSUME NEW j \in 1..n, Skipped(events'[j + 1])
                 PROVE  Part(Brought(events'[j + 1])) <= Part(Brought(events'[j]))
      BY <1>6
    <3>1. CASE j + 1 \in 1..n
      <4>1. j \in 1..(n - 1) /\ events'[j + 1] = events[j + 1] /\ events'[j] = events[j]
        BY <1>6, <3>1
      <4> QED BY <4>1 DEF UriInv, EventsInv, n
    <3>2. CASE j = n
      <4>1. events'[j + 1] = e /\ events'[j] = events[n] /\ events # <<>>
        BY <1>6, <3>2
      <4>2. doc[Used] <= Part(Brought(events[n])) \/ doc[Used] > emitted
        BY <4>1 DEF UriInv, EventsInv, n
      <4>3. doc[Used] <= emitted
        BY <1>2, <4>1
      <4>4. ~(doc[Used] > emitted)
        BY <1>3, <1>4, <4>3
      <4> QED BY <1>4, <4>1, <4>2, <4>4
    <3> QED BY <1>6, <3>1, <3>2
  <2>3. doc[Used] <= Part(Brought(events'[Len(events')]))
    BY <1>3, <1>4, <1>6
  <2> QED BY <1>1, <1>5, <2>1, <2>2, <2>3, SetupOf DEF EventsInv
<1>11. AheadInv'
  <2>1. Has' = Has /\ (Settled' <=> Settled)
    BY <1>1, SetupOf DEF Has, Settled
  <2>2. ASSUME Settled, ~polling, Skipped(events'[1]) PROVE Part(Brought(events'[1])) <= Has
    <3>1. CASE n = 0
      <4>1. events'[1] = e /\ events = <<>>
        BY <1>6, <3>1
      <4>2. doc[Used] <= Has \/ doc[Used] > emitted
        BY <2>2, <4>1 DEF UriInv, AheadInv
      <4>3. ~(doc[Used] > emitted)
        BY <1>2, <1>3, <1>4, <2>2, <4>1
      <4> QED BY <1>4, <4>1, <4>2, <4>3
    <3>2. CASE n # 0
      <4>1. events'[1] = events[1] /\ events # <<>>
        BY <1>6, <3>2
      <4> QED BY <2>2, <4>1 DEF UriInv, AheadInv
    <3> QED BY <3>1, <3>2
  <2> QED BY <1>1, <1>6, <2>1, <2>2, SetupOf DEF AheadInv
<1>12. RouteInv'
  BY <1>1, SetupOf DEF UriInv, RouteInv
<1> QED
  BY <1>7, <1>8, <1>9, <1>10, <1>11, <1>12 DEF UriInv


\* How a consumer comes out of asking for the watch.
LEMMA OpenOf ==
  ASSUME UriInv, Open
  PROVE  \/ watching' = TRUE /\ emitted' = version /\ step' = "fetch" /\ polling' = polling
         \/ polling' = TRUE /\ step' = "fetch" /\ watching' = watching /\ emitted' = emitted
         \/ /\ step' = "stopped" /\ Scheme = NoValue
            /\ watching' = watching /\ emitted' = emitted /\ polling' = polling
<1>1. fault = NoValue \/ fault[1] \in {"permission_denied", "backend", "parse_error"}
  BY DEF UriInv, UriTables, Faults, Just
<1>2. \/ watch_slot = Ok(version)
      \/ watch_slot = UnsupportedScheme(WatchScheme)
      \/ Scheme # NoValue /\ watch_slot = UnsupportedScheme(Scheme[1])
      \/ Scheme = NoValue /\ watch_slot = Err("invalid_reference")
      \/ fault # NoValue /\ watch_slot = Err(fault[1])
  BY DEF watch_slot, Unroutable
<1>3. CASE watch_slot = Ok(version)
  <2>1. watch_slot.ok # NoValue
    BY <1>3 DEF Ok, NoValue, Just
  <2>2. watch_slot.scheme # Just(WatchScheme) /\ watch_slot.err # Just("invalid_reference")
    BY <1>3 DEF Ok, NoValue, Just
  <2> QED BY <2>1, <2>2 DEF Open
<1>4. ASSUME NEW x, watch_slot = UnsupportedScheme(x)
      PROVE  polling' = TRUE /\ step' = "fetch" /\ watching' = watching /\ emitted' = emitted
  <2>1. watch_slot.ok = NoValue /\ watch_slot.err = Just("unsupported_scheme")
    BY <1>4 DEF UnsupportedScheme
  <2>2. watch_slot.err # Just("invalid_reference")
    BY <2>1 DEF Just
  <2> QED BY <2>1, <2>2 DEF Open
<1>5. CASE Scheme = NoValue /\ watch_slot = Err("invalid_reference")
  <2>1. watch_slot.ok = NoValue /\ watch_slot.scheme = NoValue
        /\ watch_slot.err = Just("invalid_reference")
    BY <1>5 DEF Err
  <2>2. watch_slot.scheme # Just(WatchScheme)
    BY <2>1 DEF NoValue, Just
  <2> QED BY <1>5, <2>1, <2>2 DEF Open
<1>6. CASE fault # NoValue /\ watch_slot = Err(fault[1])
  <2>1. watch_slot.ok = NoValue /\ watch_slot.scheme = NoValue /\ watch_slot.err = Just(fault[1])
    BY <1>6 DEF Err
  <2>2. watch_slot.scheme # Just(WatchScheme) /\ watch_slot.err # Just("invalid_reference")
    BY <1>1, <1>6, <2>1 DEF NoValue, Just
  <2> QED BY <2>1, <2>2 DEF Open
<1> QED
  BY <1>2, <1>3, <1>4, <1>5, <1>6

\* The consumer opens its watch, for the first time or again.
LEMMA OpenKeepsInv ==
  ASSUME UriInv, Open \/ Reopen
  PROVE  UriInv'
<1>1. /\ UNCHANGED setup
      /\ UNCHANGED <<bindings, version, doc, fault, faults, events, fetched, held, applied>>
      /\ step \in {"open", "listen"}
  BY DEF Open, Reopen, document
<1>2. \/ /\ step = "open" /\ watching' = TRUE /\ emitted' = version /\ step' = "fetch"
         /\ polling' = polling
      \/ /\ step = "open" /\ polling' = TRUE /\ step' = "fetch"
         /\ watching' = watching /\ emitted' = emitted
      \/ /\ step' = "stopped" /\ Scheme = NoValue /\ step = "open"
         /\ watching' = watching /\ emitted' = emitted /\ polling' = polling
      \/ /\ step' = "open" /\ ~watching /\ events = <<>>
         /\ watching' = watching /\ emitted' = emitted /\ polling' = polling
  BY OpenOf DEF Open, Reopen
<1>3. version \in Nat /\ emitted \in 0..version /\ version \in 0..version
      /\ watching \in BOOLEAN /\ polling \in BOOLEAN
  BY UriIsBounded DEF UriInv, UriTables
<1>4. \A v : IsValue(v) => IsValue(v)'
  BY <1>1, <1>3, ValuesStay DEF UriInv
<1>5. ~polling
  BY <1>1 DEF UriInv, StreamInv
<1>6. UriTables'
  <2>1. Schemes' = Schemes /\ supported_schemes' = supported_schemes /\ doc_kind' = doc_kind
        /\ expiring' = expiring /\ reference' = reference
    BY <1>1, SetupOf DEF setup
  <2>2. Faults(doc_kind)' = Faults(doc_kind)
    BY <2>1 DEF Faults
  <2>3. emitted' \in 0..version' /\ watching' \in BOOLEAN /\ polling' \in BOOLEAN
        /\ step' \in {"fetch", "stopped", "open"}
    BY <1>1, <1>2, <1>3
  <2> QED BY <1>1, <2>1, <2>2, <2>3 DEF UriInv, UriTables
<1>7. StreamInv'
  BY <1>1, <1>2, <1>5 DEF UriInv, StreamInv
<1>8. AnswerInv' /\ AheadInv'
  BY <1>1, <1>2, <1>4 DEF UriInv, AnswerInv, AheadInv, Settled
<1>9. HeldInv'
  BY <1>1, <1>4, SetupOf DEF UriInv, HeldInv, HintHidesNothing
<1>10. EventsInv'
  <2>1. events = <<>>
    BY <1>1, <1>2 DEF UriInv, StreamInv
  <2>2. 1..Len(events) = {} /\ 1..(Len(events) - 1) = {}
    BY <2>1
  <2> QED BY <1>1, <2>1, <2>2 DEF EventsInv
<1>11. RouteInv'
  BY <1>1, <1>2, SetupOf DEF UriInv, RouteInv
<1> QED
  BY <1>6, <1>7, <1>8, <1>9, <1>10, <1>11 DEF UriInv

\* What a fetch comes back with.
LEMMA GetOf ==
  ASSUME UriInv
  PROVE  \/ /\ get.ok = Just(Fetched) /\ get.ok # NoValue /\ get.ok[1] = Fetched
            /\ get.err = NoValue /\ version > 0
         \/ get.ok = NoValue /\ (get.err = Just("not_found") => version = 0)
<1>1. fault = NoValue \/ fault[1] \in {"permission_denied", "backend", "parse_error"}
  BY DEF UriInv, UriTables, Faults, Just
<1>2. \/ get = Ok(Fetched) /\ version # 0
      \/ get = Err("not_found") /\ version = 0
      \/ \E x : get = UnsupportedScheme(x)
      \/ get = Err("invalid_reference")
      \/ fault # NoValue /\ get = Err(fault[1])
  BY DEF get, Unroutable
<1>3. version \in Nat
  BY UriIsBounded DEF UriInv, UriTables
<1>4. CASE get = Ok(Fetched) /\ version # 0
  BY <1>3, <1>4 DEF Ok, Just, NoValue
<1>5. CASE get = Err("not_found") /\ version = 0
  BY <1>5 DEF Err
<1>6. CASE \E x : get = UnsupportedScheme(x)
  <2>1. get.ok = NoValue /\ get.err = Just("unsupported_scheme")
    BY <1>6 DEF UnsupportedScheme
  <2> QED BY <2>1 DEF Just
<1>7. CASE get = Err("invalid_reference")
  <2>1. get.ok = NoValue /\ get.err = Just("invalid_reference")
    BY <1>7 DEF Err
  <2> QED BY <2>1 DEF Just
<1>8. CASE fault # NoValue /\ get = Err(fault[1])
  <2>1. get.ok = NoValue /\ get.err = Just(fault[1])
    BY <1>8 DEF Err
  <2> QED BY <1>1, <1>8, <2>1 DEF Just
<1> QED
  BY <1>2, <1>4, <1>5, <1>6, <1>7, <1>8

\* The consumer fetches: what it gets is as new as every event on its way.
LEMMA FetchKeepsInv ==
  ASSUME UriInv, Fetch
  PROVE  UriInv'
<1>1. /\ UNCHANGED setup /\ fetched' = get /\ step' = "answered" /\ step \in {"fetch", "poll"}
      /\ UNCHANGED <<bindings, version, doc, fault, faults, watching, emitted, events, polling,
                     held, applied>>
  BY DEF Fetch, document
<1>2. version \in Nat /\ doc_kind \in {"secret", "config"} /\ applied \in 0..version
      /\ doc \in [Sections -> 0..version] /\ (version > 0 => doc \in [Sections -> 1..version])
  BY UriIsBounded DEF UriInv, UriTables
<1>3. Contents(Fetched) = doc /\ Part(Fetched) = doc[Used] /\ (version > 0 => IsValue(Fetched))
  BY <1>2, ArrivesWhole DEF Part, IsValue
<1>4. \A v : IsValue(v) => IsValue(v)'
  BY <1>1, <1>2, ValuesStay DEF UriInv
<1> PICK x : x = Fetched
  OBVIOUS
<1>5. UriTables'
  <2>1. Schemes' = Schemes /\ supported_schemes' = supported_schemes /\ doc_kind' = doc_kind
        /\ expiring' = expiring /\ reference' = reference
    BY <1>1, SetupOf DEF setup
  <2>2. Faults(doc_kind)' = Faults(doc_kind)
    BY <2>1 DEF Faults
  <2> QED BY <1>1, <2>1, <2>2 DEF UriInv, UriTables
<1>6. StreamInv'
  BY <1>1 DEF UriInv, StreamInv
<1>7. AnswerInv'
  <2>1. fetched'.ok # NoValue => /\ fetched'.ok = Just(x) /\ fetched'.ok[1] = x
                                /\ fetched'.err = NoValue /\ IsValue(x)'
    BY <1>1, <1>3, <1>4, GetOf
  <2>2. get.ok = NoValue /\ get.err = Just("not_found") => applied = 0
    BY <1>2, GetOf
  <2> QED BY <1>1, <2>1, <2>2 DEF AnswerInv
<1>8. HeldInv'
  BY <1>1, <1>4, SetupOf DEF UriInv, HeldInv, HintHidesNothing
<1>9. EventsInv'
  BY <1>1, <1>4, SetupOf DEF UriInv, EventsInv
<1>10. AheadInv'
  <2> SUFFICES ASSUME Settled'
               PROVE  /\ events # <<>> => Part(Brought(events[1])) <= Has'
                      /\ doc[Used] <= Has'
    BY <1>1, SetupOf DEF AheadInv
  <2>1. Has' = doc[Used]
    <3>1. CASE get.ok # NoValue
      <4>1. fetched'.ok # NoValue /\ fetched'.ok[1] = x
        BY <1>1, <3>1, GetOf
      <4>2. Has' = Part(x)'
        BY <1>1, <4>1 DEF Has
      <4> QED BY <1>1, <1>3, <4>2, SetupOf
    <3>2. CASE get.ok = NoValue
      <4>1. version = 0
        BY <1>1, <3>2, GetOf DEF Settled
      <4>2. doc[Used] = 0
        BY <1>2, <4>1, UsedIsASection
      <4> QED BY <1>1, <3>2, <4>2 DEF Has
    <3> QED BY <3>1, <3>2
  <2>2. doc[Used] \in Nat
    BY <1>2, UsedIsASection
  <2>3. events # <<>> => 1 \in 1..Len(events)
    BY DEF UriInv, UriTables
  <2> QED BY <2>1, <2>2, <2>3 DEF UriInv, EventsInv
<1>11. RouteInv'
  BY <1>1, SetupOf DEF UriInv, RouteInv
<1> QED
  BY <1>5, <1>6, <1>7, <1>8, <1>9, <1>10, <1>11 DEF UriInv


\* How a consumer takes an answer: a value, an absence, or neither.
LEMMA TakeOf ==
  ASSUME UriInv, Take
  PROVE  \/ /\ fetched.ok # NoValue /\ held' = fetched.ok /\ applied' = Part(fetched.ok[1])
            /\ step' = IF polling THEN "poll" ELSE "listen"
         \/ /\ fetched.ok = NoValue /\ fetched.err = Just("not_found")
            /\ held' = NoValue /\ applied' = 0 /\ step' = IF polling THEN "poll" ELSE "listen"
         \/ /\ fetched.ok = NoValue /\ fetched.err # Just("not_found")
            /\ held' = held /\ applied' = applied
            /\ step' = IF polling THEN "poll" ELSE "fetch"
<1>0. polling \in BOOLEAN
  BY DEF UriInv, UriTables
<1>1. ~(fetched.ok # NoValue /\ fetched.err = Just("not_found"))
  BY DEF UriInv, AnswerInv, NoValue, Just
<1>2. CASE fetched.ok # NoValue /\ fetched.err # Just("not_found")
  BY <1>0, <1>2 DEF Take, Part
<1>3. CASE fetched.ok = NoValue /\ fetched.err = Just("not_found")
  BY <1>0, <1>3 DEF Take
<1>4. CASE fetched.ok = NoValue /\ fetched.err # Just("not_found")
  BY <1>0, <1>4 DEF Take
<1> QED
  BY <1>1, <1>2, <1>3, <1>4

\* The consumer takes an answer.
LEMMA TakeKeepsInv ==
  ASSUME UriInv, Take
  PROVE  UriInv' /\ (applied > 0 => applied' > 0)
<1>1. /\ UNCHANGED setup /\ step = "answered"
      /\ UNCHANGED <<bindings, version, doc, fault, faults, watching, emitted, events, polling,
                     fetched>>
  BY DEF Take, document
<1>2. version \in Nat /\ applied \in 0..version /\ polling \in BOOLEAN
  BY UriIsBounded DEF UriInv, UriTables
<1>3. \A v : IsValue(v) => IsValue(v)'
  BY <1>1, <1>2, ValuesStay DEF UriInv
<1>4. fetched.ok # NoValue =>
        /\ fetched.ok = Just(fetched.ok[1]) /\ IsValue(fetched.ok[1])
        /\ Part(fetched.ok[1]) \in 1..version
  BY PartOf DEF UriInv, AnswerInv
<1>5. applied' \in 0..version /\ step' \in {"poll", "listen", "fetch"}
      /\ (polling => step' = "poll") /\ (~polling => step' # "poll")
      /\ (applied > 0 => applied' > 0)
  <2>1. fetched.ok = NoValue /\ fetched.err = Just("not_found") => applied = 0
    BY <1>1 DEF UriInv, AnswerInv
  <2> QED BY <1>2, <1>4, <2>1, TakeOf
<1>6. UriTables'
  <2>1. Schemes' = Schemes /\ supported_schemes' = supported_schemes /\ doc_kind' = doc_kind
        /\ expiring' = expiring /\ reference' = reference
    BY <1>1, SetupOf DEF setup
  <2>2. Faults(doc_kind)' = Faults(doc_kind)
    BY <2>1 DEF Faults
  <2> QED BY <1>1, <1>5, <2>1, <2>2 DEF UriInv, UriTables
<1>7. StreamInv' /\ AnswerInv'
  BY <1>1, <1>3, <1>5 DEF UriInv, StreamInv, AnswerInv
<1>8. HeldInv'
  <2>1. CASE fetched.ok # NoValue
    <3> PICK x : x = fetched.ok[1]
      OBVIOUS
    <3>1. held' = Just(x) /\ held'[1] = x /\ applied' = Part(x) /\ Part(x) \in 1..version
          /\ IsValue(x)
      BY <1>4, <2>1, TakeOf
    <3>2. IsValue(x)' /\ Part(x)' = Part(x) /\ applied' >= Part(x)
      BY <1>1, <1>2, <1>3, <3>1, SetupOf
    <3> QED BY <3>1, <3>2 DEF HeldInv, HintHidesNothing, Part
  <2>2. CASE fetched.ok = NoValue /\ fetched.err = Just("not_found")
    BY <2>2, TakeOf DEF HeldInv, HintHidesNothing
  <2>3. CASE fetched.ok = NoValue /\ fetched.err # Just("not_found")
    BY <1>1, <1>3, <2>3, TakeOf, SetupOf DEF UriInv, HeldInv, HintHidesNothing
  <2> QED BY <2>1, <2>2, <2>3
<1>9. EventsInv'
  BY <1>1, <1>3, SetupOf DEF UriInv, EventsInv
<1>10. AheadInv'
  <2> SUFFICES ASSUME Settled', ~polling
               PROVE  Settled /\ Has' = Has
    BY <1>1, SetupOf DEF UriInv, AheadInv
  <2>1. step' = "listen" /\ Has' = applied'
    BY <1>5 DEF Settled, Has
  <2>2. \/ fetched.ok # NoValue /\ applied' = Part(fetched.ok[1])
        \/ fetched.ok = NoValue /\ fetched.err = Just("not_found") /\ applied' = 0
    BY <2>1, TakeOf
  <2> QED BY <1>1, <2>1, <2>2 DEF Settled, Has
<1>11. RouteInv'
  BY <1>1, <1>5, SetupOf DEF UriInv, RouteInv
<1> QED
  BY <1>5, <1>6, <1>7, <1>8, <1>9, <1>10, <1>11 DEF UriInv

\* Where the elements of a queue are after its head is taken.
LEMMA TailOf ==
  ASSUME NEW S, NEW q \in Seq(S), q # <<>>
  PROVE  /\ Tail(q) \in Seq(S) /\ Len(Tail(q)) = Len(q) - 1 /\ Len(q) \in Nat \ {0}
         /\ Head(q) = q[1] /\ \A i \in 1..(Len(q) - 1) : Tail(q)[i] = q[i + 1]
         /\ Tail(q) = <<>> <=> Len(q) = 1
<1>1. Len(q) \in Nat \ {0} /\ Head(q) = q[1]
  OBVIOUS
<1>2. Tail(q) \in Seq(S) /\ Len(Tail(q)) = Len(q) - 1
  BY <1>1
<1>3. \A i \in 1..(Len(q) - 1) : Tail(q)[i] = q[i + 1]
  BY <1>1
<1>4. Tail(q) = <<>> <=> Len(q) = 1
  <2>1. \A t \in Seq(S) : t = <<>> <=> Len(t) = 0
    OBVIOUS
  <2>2. Tail(q) = <<>> <=> Len(q) - 1 = 0
    BY <1>2, <2>1, Zenon
  <2> QED BY <1>1, <2>2
<1> QED
  BY <1>1, <1>2, <1>3, <1>4

\* The consumer takes an event: one it skips brings nothing newer.
LEMMA ListenKeepsInv ==
  ASSUME UriInv, Listen
  PROVE  UriInv' /\ (applied > 0 => applied' > 0)
<1>1. /\ UNCHANGED setup /\ step = "listen" /\ step' = "listen" /\ events # <<>>
      /\ events' = Tail(events)
      /\ UNCHANGED <<bindings, version, doc, fault, faults, watching, emitted, polling, fetched>>
  BY DEF Listen, document
<1>2. /\ version \in Nat /\ applied \in 0..version /\ emitted \in 0..version
      /\ events \in Seq(UriEvents) /\ doc_kind \in {"secret", "config"} /\ ~polling
      /\ doc[Used] \in 0..version
  BY <1>1, UriIsBounded, UsedIsASection DEF UriInv, UriTables, StreamInv
<1>3. \A v : IsValue(v) => IsValue(v)'
  BY <1>1, <1>2, ValuesStay DEF UriInv
<1> DEFINE n == Len(events)
<1>4. /\ n \in Nat \ {0} /\ events' \in Seq(UriEvents) /\ Len(events') = n - 1
      /\ Head(events) = events[1] /\ \A i \in 1..(n - 1) : events'[i] = events[i + 1]
      /\ events' = <<>> <=> n = 1
  BY <1>1, <1>2, TailOf
<1> PICK x : x = Brought(events[1])
  OBVIOUS
<1> HIDE DEF n
<1>5. IsValue(x) /\ Part(x) \in 1..version
  <2>1. 1 \in 1..Len(events)
    BY <1>4 DEF n
  <2> QED BY <2>1, PartOf DEF UriInv, EventsInv
<1>6. held' = Just(x) /\ held'[1] = x /\ applied' = IF Skipped(events[1]) THEN applied ELSE Part(x)
  BY <1>2, <1>4 DEF Listen, Brought, Skipped, Part, Just
<1>7. Skipped(events[1]) => Part(x) <= applied
  BY <1>1, <1>2 DEF UriInv, AheadInv, Settled, Has
<1>8. applied' \in 0..version /\ applied' >= Part(x) /\ (applied > 0 => applied' > 0)
  BY <1>2, <1>5, <1>6, <1>7
<1>9. UriTables'
  <2>1. Schemes' = Schemes /\ supported_schemes' = supported_schemes /\ doc_kind' = doc_kind
        /\ expiring' = expiring /\ reference' = reference
    BY <1>1, SetupOf DEF setup
  <2>2. Faults(doc_kind)' = Faults(doc_kind)
    BY <2>1 DEF Faults
  <2> QED BY <1>1, <1>4, <1>8, <2>1, <2>2 DEF UriInv, UriTables
<1>10. StreamInv' /\ AnswerInv'
  BY <1>1, <1>2, <1>3 DEF UriInv, StreamInv, AnswerInv
<1>11. HeldInv'
  <2>1. IsValue(x)' /\ Part(x)' = Part(x)
    BY <1>1, <1>3, <1>5, SetupOf
  <2> QED BY <1>6, <1>8, <2>1 DEF HeldInv, HintHidesNothing, Part
<1>12. EventsInv'
  <2>1. ASSUME NEW j \in 1..(n - 1)
        PROVE  /\ j + 1 \in 1..n /\ events'[j] = events[j + 1]
               /\ IsValue(Brought(events'[j])) /\ Part(Brought(events'[j])) <= doc[Used]
    <3>1. j + 1 \in 1..n /\ events'[j] = events[j + 1]
      BY <1>4
    <3> QED BY <3>1 DEF UriInv, EventsInv, n
  <2>2. ASSUME NEW j \in 1..(n - 1 - 1), Skipped(events'[j + 1])
        PROVE  Part(Brought(events'[j + 1])) <= Part(Brought(events'[j]))
    <3>1. j + 1 \in 1..(n - 1) /\ events'[j] = events[j + 1] /\ events'[j + 1] = events[j + 1 + 1]
      BY <1>4
    <3> QED BY <2>2, <3>1 DEF UriInv, EventsInv, n
  <2>3. ASSUME events' # <<>>
        PROVE  doc[Used] <= Part(Brought(events'[Len(events')])) \/ doc[Used] > emitted
    <3>1. events'[Len(events')] = events[n]
      BY <1>4, <2>3
    <3> QED BY <1>1, <3>1 DEF UriInv, EventsInv, n
  <2> QED BY <1>1, <1>3, <1>4, <2>1, <2>2, <2>3, SetupOf DEF EventsInv
<1>13. AheadInv'
  <2>1. Has' = applied'
    BY <1>1 DEF Has
  <2>2. ASSUME events' # <<>>, Skipped(events'[1]) PROVE Part(Brought(events'[1])) <= applied'
    <3>1. 1 \in 1..(n - 1) /\ events'[1] = events[1 + 1] /\ 1 + 1 \in 1..n
      BY <1>4, <2>2
    <3>2. Part(Brought(events[1 + 1])) <= Part(x)
      BY <2>2, <3>1 DEF UriInv, EventsInv, n
    <3>3. Part(Brought(events[1 + 1])) \in Nat
      BY <3>1, PartOf DEF UriInv, EventsInv, n
    <3> QED BY <1>2, <1>5, <1>8, <3>1, <3>2, <3>3
  <2>3. ASSUME events' = <<>> PROVE doc[Used] <= applied' \/ doc[Used] > emitted
    <3>1. n = 1
      BY <1>4, <2>3
    <3>2. doc[Used] <= Part(x) \/ doc[Used] > emitted
      BY <1>1, <3>1 DEF UriInv, EventsInv, n
    <3> QED BY <1>2, <1>5, <1>8, <3>2
  <2> QED BY <1>1, <2>1, <2>2, <2>3, SetupOf DEF AheadInv
<1>14. RouteInv'
  BY <1>1, SetupOf DEF UriInv, RouteInv
<1> QED
  BY <1>8, <1>9, <1>10, <1>11, <1>12, <1>13, <1>14 DEF UriInv

\* Only an answer or an event changes what a consumer acts on.
LEMMA UriNextKeepsInv ==
  ASSUME UriInv, [UriNext]_uriVars
  PROVE  UriInv' /\ [applied > 0 => applied' > 0]_uriVars
<1>1. CASE Boot \/ Unbind \/ Rebind \/ Fail \/ Recover \/ Break
  BY <1>1, GatewayKeepsUriInv DEF Boot, Unbind, Rebind, Fail, Recover, Break, consumer
<1>2. CASE Change
  BY <1>2, ChangeKeepsInv DEF Change, consumer
<1>3. CASE EmitChange
  BY <1>3, EmitKeepsUriInv DEF EmitChange, consumer
<1>4. CASE Open \/ Reopen
  BY <1>4, OpenKeepsInv DEF Open, Reopen
<1>5. CASE Fetch
  BY <1>5, FetchKeepsInv DEF Fetch
<1>6. CASE Take
  BY <1>6, TakeKeepsInv
<1>7. CASE Listen
  BY <1>7, ListenKeepsInv
<1>8. CASE UNCHANGED uriVars
  <2>1. /\ UNCHANGED <<setup, document, emitted, events, consumer>>
        /\ UNCHANGED <<supported_schemes, doc_kind, expiring, reference, bindings, version, doc>>
        /\ UNCHANGED <<fault, faults, watching, emitted, events, step, polling, applied>>
    BY <1>8 DEF uriVars, setup, document, consumer
  <2>2. Schemes' = Schemes /\ Scheme' = Scheme /\ Faults(doc_kind)' = Faults(doc_kind)
    BY <2>1, SetupOf DEF Faults
  <2>3. UriTables' /\ StreamInv' /\ RouteInv'
    BY <2>1, <2>2 DEF UriInv, UriTables, StreamInv, RouteInv
  <2> QED BY <1>8, <2>1, <2>3, UnnoticedKeepsInv DEF UriInv
<1> QED
  BY <1>1, <1>2, <1>3, <1>4, <1>5, <1>6, <1>7, <1>8 DEF UriNext

\* A consumer of a reference whose scheme is bound is never turned away.
LEMMA UriInvServes ==
  ASSUME UriInv
  PROVE  AdvertisedIsServed
<1> SUFFICES ASSUME NEW s \in Schemes, IsPrefix(s \o Delimiter, reference), bindings[s] # NoValue
             PROVE  IsBound /\ step # "stopped"
  BY DEF AdvertisedIsServed
<1>1. s \in Seq(Characters \ {":"}) /\ s # <<>> /\ reference \in Seq(Characters)
  BY SchemesAreNames, ReferencesAreTexts DEF UriInv, UriTables, Schemes
<1>2. parse_secret_ref(reference) # NoValue /\ parse_secret_ref(reference)[1][1] = s
  BY <1>1, SchemeOf
<1>3. Scheme # NoValue /\ Scheme[1] = s
  BY <1>2 DEF Scheme, parse_config_ref, NoValue, Just
<1> QED
  BY <1>3 DEF IsBound, UriInv, RouteInv

\* For any providers, documents and references, and however fetches, events,
\* outages, rebindings and broken streams interleave: a consumer that skips by
\* changed_paths is never behind the snapshot it holds, one whose scheme is
\* bound is routed to it (parse_secret_ref), and an outage never takes back a
\* value it has had.
THEOREM FollowsTheDocumentSafely ==
  UriSpec => [](HintHidesNothing /\ AdvertisedIsServed) /\ OutageKeepsValue
<1>1. UriSpec => []UriInv
  BY UriInvInit, UriNextKeepsInv, PTL DEF UriSpec
<1>2. UriInv => HintHidesNothing /\ AdvertisedIsServed
  BY UriInvServes DEF UriInv, HeldInv
<1> QED
  BY <1>1, <1>2, UriNextKeepsInv, PTL DEF UriSpec, OutageKeepsValue

\* The invariant has the types of a consumer and its provider.
LEMMA UriTypes == UriInv => UriTypeOK
BY DEF UriInv, UriTables, HeldInv, IsValue, UriTypeOK

\* Every state of a consumer and its provider is of its type.
THEOREM UriTypeCorrect == UriSpec => []UriTypeOK
<1>1. UriSpec => []UriInv
  BY UriInvInit, UriNextKeepsInv, PTL DEF UriSpec
<1> QED BY <1>1, UriTypes, PTL

(***************************************************************************)
(* BackendCalls: the answer is what the backend did                        *)
(***************************************************************************)

\* An envelope gives back the result and the usage it was made of.
LEMMA SplitOfWrap ==
  ASSUME NEW usage, NEW result
  PROVE  split(wrap(usage, result)) = <<result, usage>>
<1> DEFINE m == [k \in {USAGE_KEY, USAGE_VALUE_KEY} |->
                   IF k = USAGE_KEY THEN UsageJson(usage) ELSE result]
<1>1. /\ DOMAIN m = {USAGE_KEY, USAGE_VALUE_KEY}
      /\ m[USAGE_KEY] = UsageJson(usage) /\ m[USAGE_VALUE_KEY] = result
  BY DEF USAGE_KEY, USAGE_VALUE_KEY
<1>2. Cardinality({USAGE_KEY, USAGE_VALUE_KEY}) = 2
  <2>1. IsFiniteSet({USAGE_KEY}) /\ Cardinality({USAGE_KEY}) = 1
    BY FS_Singleton
  <2>2. USAGE_VALUE_KEY \notin {USAGE_KEY}
    BY DEF USAGE_KEY, USAGE_VALUE_KEY
  <2>3. Cardinality({USAGE_KEY} \cup {USAGE_VALUE_KEY}) = Cardinality({USAGE_KEY}) + 1
    BY <2>1, <2>2, FS_AddElement
  <2>4. {USAGE_KEY} \cup {USAGE_VALUE_KEY} = {USAGE_KEY, USAGE_VALUE_KEY}
    OBVIOUS
  <2> QED BY <2>1, <2>3, <2>4
<1>3. wrap(usage, result) = [t |-> "object", m |-> m]
  BY DEF wrap, Envelope, Object
<1> HIDE DEF m
<1>4. wrap(usage, result).t = "object" /\ wrap(usage, result).m = m
  BY <1>3
<1> QED BY <1>1, <1>2, <1>4 DEF split, UsageJson

\* What the plugin sends is an envelope exactly when the host opens one.
LEMMA ServedAsSent ==
  ASSUME backend \in Backends, host \in Hosts, NEW result, NEW usage
  PROVE  Served(serialize(Payload(result, usage))) =
           [status |-> 200, result |-> result,
            charged |-> IF host.takes_usage /\ backend.reports_usage THEN usage ELSE NoUsage]
<1>1. accepted_by(headers) <=> host.takes_usage
  <2>1. Header("traceparent", FALSE).name # ACCEPT_USAGE_HEADER
    BY DEF Header, ACCEPT_USAGE_HEADER
  <2>2. Header(ACCEPT_USAGE_HEADER, host.recased).name = ACCEPT_USAGE_HEADER
    BY DEF Header
  <2>3. host.takes_usage \in BOOLEAN
    BY DEF Hosts
  <2>4. CASE host.takes_usage
    BY <2>2, <2>4 DEF accepted_by, headers
  <2>5. CASE ~host.takes_usage
    <3>1. headers = {Header("traceparent", FALSE)}
      BY <2>5 DEF headers
    <3> QED BY <2>1, <2>5, <3>1 DEF accepted_by
  <2> QED BY <2>3, <2>4, <2>5
<1>2. deserialize(serialize(Payload(result, usage))).payload = Payload(result, usage)
  BY DEF deserialize, serialize
<1>3. CASE host.takes_usage /\ backend.reports_usage
  <2>1. Payload(result, usage) = wrap(usage, result)
    BY <1>1, <1>3 DEF Payload
  <2>2. split(Payload(result, usage)) = <<result, usage>>
    BY <2>1, SplitOfWrap
  <2> QED BY <1>2, <1>3, <2>2 DEF Served
<1>4. CASE ~(host.takes_usage /\ backend.reports_usage)
  <2>1. Payload(result, usage) = result
    BY <1>1, <1>4 DEF Payload
  <2> QED BY <1>2, <1>4, <2>1 DEF Served
<1> QED BY <1>3, <1>4

Failures == {"profile_not_found", "timeout", "transport"}

\* A failure is told alike to the gateway's client and to another backend.
LEMMA StatusOfFailure ==
  ASSUME NEW e \in Failures
  PROVE  /\ host_http_status([error |-> "backend", cause |-> e]) = http_status(e)
         /\ http_status(e) # 0
BY DEF host_http_status, http_status, Failures

\* The calls, and the chunks a plugin's own stream sends before its end.
Calls == [name : Names, mode : {"execute", "stream"}, child : BOOLEAN,
          state : {"running", "ended"}, chunks : Nat]
AdvisoryChunks == {Chunk(type, serialize(Text("progress"))) : type \in Advisory}

\* What a plugin's execute may come to.
IsOutcome(o) ==
  \/ o.outcome = "ok"
  \/ o.outcome = "error" /\ o.error \in Failures

\* The chunk that ends a call with an outcome.
LastChunk(o) == IF o.outcome = "ok" THEN Chunk("done", Wire(o)) ELSE ErrorChunk(o.error)

\* A call under way has sent advisory chunks, and once it ended the chunk of
\* what it came to is behind them; nothing is left for the next call.
CallInv ==
  \/ /\ call = NoCall /\ stream = <<>>
     /\ reply = NoReply => truth = NoTruth
     /\ truth = NoTruth \/ IsOutcome(truth)
  \/ /\ call \in Calls /\ call.state = "running" /\ stream \in Seq(AdvisoryChunks)
     /\ reply = NoReply /\ truth = NoTruth
  \/ /\ call \in Calls /\ call.state = "ended" /\ reply = NoReply /\ IsOutcome(truth)
     /\ \E sent \in Seq(AdvisoryChunks) : stream = Append(sent, LastChunk(truth))

BackendInv == backend \in Backends /\ host \in Hosts /\ CallInv /\ AnswersAreTrue

\* A call in flight is told apart from no call.
LEMMA NotNoCall == \A c \in Calls : c # NoCall
BY DEF Calls, NoCall

\* Before any profile is registered there is nothing to answer.
LEMMA BackendInvInit == BackendInit => BackendInv
BY DEF BackendInit, BackendInv, CallInv, AnswersAreTrue, ServedIsResult, ChargedIsUsed,
   FailureKeepsItsCause, NoTruth, IsOutcome

\* An answer that has not been given, or has nothing to be held to, is not
\* false.
LEMMA NoReplyIsTrue ==
  ASSUME reply = NoReply \/ truth = NoTruth
  PROVE  AnswersAreTrue
BY DEF AnswersAreTrue, ServedIsResult, ChargedIsUsed, FailureKeepsItsCause, NoTruth

\* Steps outside a call.
LEMMA IdleKeepsInv ==
  ASSUME BackendInv,
         \/ \E n \in Names, valid \in BOOLEAN : register_profile(n, valid)
         \/ \E n \in Names, mode \in {"execute", "stream"}, child \in BOOLEAN :
              Dispatch(n, mode, child)
         \/ \E e \in BackendHostError : Refuse(e)
         \/ \E op \in DOMAIN DefaultAnswer : AskOptional(op)
  PROVE  BackendInv'
<1>1. /\ call = NoCall /\ stream = <<>> /\ reply = NoReply /\ truth = NoTruth
      /\ UNCHANGED <<backend, host, stream>> /\ truth' = NoTruth
  <2>1. call = NoCall /\ reply = NoReply /\ UNCHANGED <<backend, host, stream>>
        /\ (truth' = truth \/ truth' = NoTruth)
    BY DEF register_profile, Dispatch, Refuse, AskOptional, Idle
  <2> QED BY <2>1, NotNoCall DEF BackendInv, CallInv
<1>2. AnswersAreTrue'
  BY <1>1, NoReplyIsTrue DEF AnswersAreTrue, ServedIsResult, ChargedIsUsed,
     FailureKeepsItsCause, NoTruth
<1>3. CASE call' = call
  BY <1>1, <1>2, <1>3 DEF BackendInv, CallInv
<1>4. ASSUME NEW n \in Names, NEW mode \in {"execute", "stream"}, NEW child \in BOOLEAN,
             Dispatch(n, mode, child)
      PROVE  BackendInv'
  <2>1. call' \in Calls /\ call'.state = "running" /\ reply' = NoReply
    BY <1>1, <1>4 DEF Dispatch, Calls
  <2>2. stream' \in Seq(AdvisoryChunks)
    BY <1>1
  <2> QED BY <1>1, <1>2, <2>1, <2>2 DEF BackendInv, CallInv
<1> QED BY <1>3, <1>4 DEF register_profile, Refuse, AskOptional

\* The plugin ends a call, with or without a stream of its own.
LEMMA EndKeepsInv ==
  ASSUME BackendInv, EndCall
  PROVE  BackendInv'
<1>1. PICK o \in BackendOutcomes : execute(o) \/ execute_streaming(o) \/ EndStream(o)
  BY DEF EndCall
<1>2. IsOutcome(o)
  BY DEF BackendOutcomes, IsOutcome, Failures
<1>3. /\ call \in Calls /\ call.state = "running" /\ stream \in Seq(AdvisoryChunks)
      /\ reply = NoReply
  BY NotNoCall DEF EndCall, Running, BackendInv, CallInv
<1>4. /\ UNCHANGED <<backend, host, reply>> /\ truth' = o
      /\ call' = [call EXCEPT !.state = "ended"]
      /\ stream' = <<LastChunk(o)>> \/ stream' = Append(stream, LastChunk(o))
  BY <1>1 DEF execute, execute_streaming, EndStream, LastChunk
<1>5. call' \in Calls /\ call'.state = "ended"
  BY <1>3, <1>4 DEF Calls
<1>6. LastChunk(truth)' = LastChunk(o)
  BY <1>4 DEF LastChunk, Wire, Payload, headers
<1>7. \E sent \in Seq(AdvisoryChunks) : stream' = Append(sent, LastChunk(o))
  <2>1. <<>> \in Seq(AdvisoryChunks) /\ <<LastChunk(o)>> = Append(<<>>, LastChunk(o))
    OBVIOUS
  <2> QED BY <1>3, <1>4, <2>1
<1>8. IsOutcome(truth)'
  BY <1>2, <1>4 DEF IsOutcome
<1>9. AnswersAreTrue'
  BY <1>3, <1>4, NoReplyIsTrue DEF AnswersAreTrue, ServedIsResult, ChargedIsUsed,
     FailureKeepsItsCause
<1>10. CallInv'
  BY <1>3, <1>4, <1>5, <1>6, <1>7, <1>8 DEF CallInv
<1> QED BY <1>4, <1>9, <1>10 DEF BackendInv

\* The backend sends an advisory chunk: the call stays unanswered.
LEMMA EmitKeepsInv ==
  ASSUME BackendInv, NEW type \in Advisory, Emit(type)
  PROVE  BackendInv'
<1>1. /\ call \in Calls /\ call.state = "running" /\ stream \in Seq(AdvisoryChunks)
      /\ reply = NoReply /\ truth = NoTruth
  BY NotNoCall DEF Emit, Running, BackendInv, CallInv
<1>2. /\ UNCHANGED <<backend, host, reply, truth>>
      /\ call' = [call EXCEPT !.chunks = @ + 1]
      /\ stream' = Append(stream, Chunk(type, serialize(Text("progress"))))
  BY DEF Emit
<1>3. call' \in Calls /\ call'.state = "running"
  BY <1>1, <1>2 DEF Calls
<1>4. Chunk(type, serialize(Text("progress"))) \in AdvisoryChunks
  BY DEF AdvisoryChunks
<1>5. stream' \in Seq(AdvisoryChunks)
  BY <1>1, <1>2, <1>4
<1>6. AnswersAreTrue'
  BY <1>1, <1>2 DEF AnswersAreTrue, ServedIsResult, ChargedIsUsed, FailureKeepsItsCause
<1> QED BY <1>1, <1>2, <1>3, <1>5, <1>6 DEF BackendInv, CallInv

\* The host reads a chunk: an advisory one leaves the answer to come, the last
\* one is the answer.
LEMMA ReadKeepsInv ==
  ASSUME BackendInv, ReadChunk
  PROVE  BackendInv'
<1>1. /\ call # NoCall /\ stream # <<>> /\ stream' = Tail(stream)
      /\ UNCHANGED <<backend, host, truth>>
      /\ IF Head(stream).type \in Advisory THEN UNCHANGED <<call, reply>>
         ELSE /\ call' = NoCall
              /\ reply' = IF Head(stream).type = "done" THEN Served(Head(stream).wire)
                          ELSE [status |-> IF call.child
                                 THEN host_http_status([error |-> "backend",
                                                        cause |-> Head(stream).error])
                                 ELSE http_status(Head(stream).error)]
  BY DEF ReadChunk
<1>2. \A c \in AdvisoryChunks : c.type \in Advisory
  BY DEF AdvisoryChunks, Chunk
<1>3. call \in Calls /\ reply = NoReply
  BY <1>1 DEF BackendInv, CallInv
<1>4. CASE call.state = "running"
  <2>1. stream \in Seq(AdvisoryChunks) /\ truth = NoTruth
    BY <1>1, <1>4 DEF BackendInv, CallInv
  <2>2. Head(stream) \in AdvisoryChunks /\ stream' \in Seq(AdvisoryChunks)
    BY <1>1, <2>1
  <2>3. UNCHANGED <<call, reply>>
    BY <1>1, <1>2, <2>2
  <2>4. AnswersAreTrue'
    BY <1>1, <1>3, <2>3 DEF AnswersAreTrue, ServedIsResult, ChargedIsUsed, FailureKeepsItsCause
  <2> QED BY <1>1, <1>3, <1>4, <2>1, <2>2, <2>3, <2>4 DEF BackendInv, CallInv
<1>5. CASE call.state = "ended"
  <2>1. PICK sent \in Seq(AdvisoryChunks) : stream = Append(sent, LastChunk(truth))
    BY <1>1, <1>5 DEF BackendInv, CallInv
  <2>2. IsOutcome(truth)
    BY <1>1, <1>5 DEF BackendInv, CallInv
  <2>3. CASE sent # <<>>
    <3>1. /\ Head(stream) = Head(sent) /\ Head(sent) \in AdvisoryChunks
          /\ Tail(sent) \in Seq(AdvisoryChunks)
      BY <2>1, <2>3
    <3>2. stream' = Append(Tail(sent), LastChunk(truth))
      BY <1>1, <2>1, <2>3
    <3>3. UNCHANGED <<call, reply>>
      BY <1>1, <1>2, <3>1
    <3>4. LastChunk(truth)' = LastChunk(truth)
      BY <1>1 DEF LastChunk, Wire, Payload, headers
    <3>5. AnswersAreTrue'
      BY <1>1, <1>3, <3>3 DEF AnswersAreTrue, ServedIsResult, ChargedIsUsed, FailureKeepsItsCause
    <3>6. IsOutcome(truth)'
      BY <1>1, <2>2 DEF IsOutcome
    <3>7. \E s \in Seq(AdvisoryChunks) : stream' = Append(s, LastChunk(truth)')
      BY <3>1, <3>2, <3>4
    <3>8. CallInv'
      BY <1>1, <1>3, <1>5, <3>3, <3>6, <3>7 DEF CallInv
    <3> QED BY <1>1, <3>5, <3>8 DEF BackendInv
  <2>4. CASE sent = <<>>
    <3>1. Head(stream) = LastChunk(truth) /\ stream' = <<>>
      BY <1>1, <2>1, <2>4
    <3>2. CASE truth.outcome = "ok"
      <4>1. Head(stream).type = "done" /\ Head(stream).wire = Wire(truth)
        BY <3>1, <3>2 DEF LastChunk, Chunk
      <4>2. call' = NoCall /\ reply' = Served(Wire(truth))
        BY <1>1, <4>1 DEF Advisory
      <4>3. reply' = [status |-> 200, result |-> truth.result,
                      charged |-> IF host.takes_usage /\ backend.reports_usage
                                  THEN truth.usage ELSE NoUsage]
        BY <4>2, ServedAsSent DEF Wire, BackendInv
      <4>4. reply' # NoReply
        BY <4>3 DEF NoReply
      <4>5. AnswersAreTrue'
        BY <1>1, <3>2, <4>3 DEF AnswersAreTrue, ServedIsResult, ChargedIsUsed,
           FailureKeepsItsCause
      <4> QED BY <1>1, <2>2, <3>1, <4>2, <4>4, <4>5 DEF BackendInv, CallInv, IsOutcome
    <3>3. CASE truth.outcome # "ok"
      <4>1. truth.outcome = "error" /\ truth.error \in Failures
        BY <2>2, <3>3 DEF IsOutcome
      <4>2. Head(stream).type = "error" /\ Head(stream).error = truth.error
        BY <3>1, <3>3 DEF LastChunk, ErrorChunk
      <4>3. call' = NoCall /\ reply' = [status |-> http_status(truth.error)]
        BY <1>1, <4>1, <4>2, StatusOfFailure DEF Advisory
      <4>4. reply'.status = http_status(truth.error) /\ reply' # NoReply
        BY <4>1, <4>3, StatusOfFailure DEF NoReply
      <4>5. AnswersAreTrue'
        <5>1. truth' = truth
          BY <1>1
        <5>2. /\ http_status(truth.error) = 504 <=> truth.error = "timeout"
              /\ http_status(truth.error) = 502 <=> truth.error = "transport"
              /\ http_status(truth.error) = 500 <=> truth.error = "profile_not_found"
          BY <4>1 DEF Failures, http_status
        <5>3. FailureKeepsItsCause'
          BY <4>4, <5>1, <5>2 DEF FailureKeepsItsCause
        <5> QED BY <3>3, <5>1, <5>3 DEF AnswersAreTrue, ServedIsResult, ChargedIsUsed
      <4> QED BY <1>1, <2>2, <3>1, <4>3, <4>4, <4>5 DEF BackendInv, CallInv, IsOutcome
    <3> QED BY <3>2, <3>3
  <2> QED BY <2>3, <2>4
<1> QED BY <1>3, <1>4, <1>5 DEF Calls

\* The caller takes the answer; the next call starts with none.
LEMMA DeliverKeepsInv ==
  ASSUME BackendInv, Deliver
  PROVE  BackendInv'
<1>1. /\ reply' = NoReply /\ truth' = NoTruth /\ reply # NoReply
      /\ UNCHANGED <<backend, host, call, stream>>
  BY DEF Deliver
<1>2. AnswersAreTrue'
  BY <1>1 DEF AnswersAreTrue, ServedIsResult, ChargedIsUsed, FailureKeepsItsCause
<1>3. call = NoCall /\ stream = <<>>
  BY <1>1 DEF BackendInv, CallInv
<1>4. CallInv'
  BY <1>1, <1>3 DEF CallInv
<1> QED BY <1>1, <1>2, <1>4 DEF BackendInv

\* Every step of a call keeps the invariant.
LEMMA BackendStep == BackendInv /\ [BackendNext]_backendVars => BackendInv'
<1> SUFFICES ASSUME BackendInv, [BackendNext]_backendVars PROVE BackendInv'
  OBVIOUS
<1>1. CASE UNCHANGED backendVars
  <2>1. UNCHANGED <<backend, host, call, stream, reply, truth>>
    BY <1>1 DEF backendVars
  <2>2. LastChunk(truth)' = LastChunk(truth)
    BY <2>1 DEF LastChunk, Wire, Payload, headers
  <2>3. IsOutcome(truth)' <=> IsOutcome(truth)
    BY <2>1 DEF IsOutcome
  <2>4. CallInv'
    BY <2>1, <2>2, <2>3 DEF BackendInv, CallInv
  <2>5. AnswersAreTrue'
    BY <2>1 DEF BackendInv, AnswersAreTrue, ServedIsResult, ChargedIsUsed,
       FailureKeepsItsCause
  <2> QED BY <2>1, <2>4, <2>5 DEF BackendInv
<1>2. CASE BackendNext
  BY <1>2, IdleKeepsInv, EndKeepsInv, EmitKeepsInv, ReadKeepsInv, DeliverKeepsInv
     DEF BackendNext
<1> QED BY <1>1, <1>2

\* The inductive invariant of a backend's calls.
LEMMA BackendInvariant == BackendSpec => []BackendInv
BY BackendInvInit, BackendStep, PTL DEF BackendSpec

\* What is registered has a name, and what is answered a status of the tables.
StatusInv ==
  /\ profiles \subseteq Names
  /\ reply.status \in {0, 200, 403, 404, 500, 501, 502, 504, 508}

\* Every error of a backend or a host has a status.
LEMMA StatusOf ==
  /\ \A e \in BackendError : http_status(e) \in {500, 502, 504}
  /\ \A e \in BackendHostError :
       e.error # "backend" => host_http_status(e) \in {403, 404, 501, 508}
BY DEF BackendError, http_status, BackendHostError, host_http_status

\* Before any call.
LEMMA StatusInvInit == BackendInit => StatusInv
BY DEF BackendInit, StatusInv, NoReply

\* An answer is a result, or the status of an error in the tables.
LEMMA StatusStep ==
  ASSUME BackendInv, StatusInv, [BackendNext]_backendVars
  PROVE  StatusInv'
<1> DEFINE Statuses == {0, 200, 403, 404, 500, 501, 502, 504, 508}
<1>1. ASSUME NEW n \in Names, NEW valid \in BOOLEAN, register_profile(n, valid)
      PROVE  StatusInv'
  BY <1>1, StatusOf DEF register_profile, StatusInv, NoReply, BackendError
<1>2. ASSUME NEW e \in BackendHostError, Refuse(e)
      PROVE  StatusInv'
  BY <1>2, StatusOf DEF Refuse, StatusInv
<1>3. ASSUME NEW op \in DOMAIN DefaultAnswer, AskOptional(op)
      PROVE  StatusInv'
  BY <1>3, StatusOf DEF AskOptional, StatusInv
<1>4. CASE Deliver
  BY <1>4 DEF Deliver, StatusInv, NoReply
<1>5. CASE ReadChunk
  <2> DEFINE c == Head(stream)
  <2>1. /\ call # NoCall /\ stream # <<>> /\ profiles' = profiles
        /\ \/ reply' = reply
           \/ c.type \notin Advisory /\ c.type = "done" /\ reply' = Served(c.wire)
           \/ /\ c.type \notin Advisory /\ c.type # "done"
              /\ reply' = [status |-> IF call.child
                                     THEN host_http_status([error |-> "backend", cause |-> c.error])
                                     ELSE http_status(c.error)]
    BY <1>5 DEF ReadChunk
  <2>2. CASE reply' = reply
    BY <2>1, <2>2 DEF StatusInv
  <2>3. CASE reply' = Served(c.wire)
    <3>1. reply'.status = 200
      BY <2>3 DEF Served
    <3> QED BY <2>1, <3>1 DEF StatusInv
  <2>4. CASE c.type \notin Advisory /\ c.type # "done" /\ reply' # reply /\ reply' # Served(c.wire)
    <3>1. \A x \in AdvisoryChunks : x.type \in Advisory
      BY DEF AdvisoryChunks, Chunk
    <3>2. ~(stream \in Seq(AdvisoryChunks))
      BY <2>1, <2>4, <3>1
    <3>3. /\ IsOutcome(truth)
          /\ \E sent \in Seq(AdvisoryChunks) : stream = Append(sent, LastChunk(truth))
      BY <2>1, <3>2 DEF BackendInv, CallInv
    <3>4. PICK sent \in Seq(AdvisoryChunks) : stream = Append(sent, LastChunk(truth))
      BY <3>3
    <3>5. CASE sent # <<>>
      <4>1. c = Head(sent) /\ Head(sent) \in AdvisoryChunks
        BY <3>4, <3>5
      <4> QED BY <2>4, <3>1, <4>1
    <3>6. CASE sent = <<>>
      <4>1. c = LastChunk(truth)
        BY <3>4, <3>6
      <4>2. truth.outcome # "ok"
        BY <2>4, <4>1 DEF LastChunk, Chunk
      <4>3. truth.error \in Failures /\ c.error = truth.error
        BY <3>3, <4>1, <4>2 DEF IsOutcome, LastChunk, ErrorChunk
      <4>4. reply' = [status |-> http_status(c.error)]
        BY <2>1, <2>4, <4>3, StatusOfFailure
      <4>5. http_status(c.error) \in {500, 502, 504}
        BY <4>3, StatusOf DEF Failures, BackendError
      <4>6. reply'.status \in {500, 502, 504}
        BY <4>4, <4>5
      <4> QED BY <2>1, <4>6 DEF StatusInv
    <3> QED BY <3>5, <3>6
  <2> QED BY <2>1, <2>2, <2>3, <2>4
<1>6. CASE UNCHANGED <<profiles, reply>>
  BY <1>6 DEF StatusInv
<1> QED
  BY <1>1, <1>2, <1>3, <1>4, <1>5, <1>6 DEF BackendNext, backendVars, Dispatch, EndCall, execute,
     execute_streaming, EndStream, Emit

\* The two invariants have the types of a backend's calls.
LEMMA BackendTypes == BackendInv /\ StatusInv => BackendTypeOK
<1> SUFFICES ASSUME BackendInv, StatusInv PROVE BackendTypeOK
  OBVIOUS
<1>1. call.name \in Names \cup {"none"}
  BY DEF BackendInv, CallInv, Calls, NoCall
<1>2. \A c \in AdvisoryChunks : c.type \in Advisory
  BY DEF AdvisoryChunks, Chunk
<1>3. LastChunk(truth).type \in {"done", "error"}
  BY DEF LastChunk, Chunk, ErrorChunk
<1>4. \A i \in DOMAIN stream : stream[i].type \in Advisory \cup {"done", "error"}
  <2>1. CASE stream \in Seq(AdvisoryChunks)
    BY <1>2, <2>1
  <2>2. CASE \E sent \in Seq(AdvisoryChunks) : stream = Append(sent, LastChunk(truth))
    <3>1. PICK sent \in Seq(AdvisoryChunks) : stream = Append(sent, LastChunk(truth))
      BY <2>2
    <3>2. \A i \in DOMAIN stream : stream[i] \in AdvisoryChunks \/ stream[i] = LastChunk(truth)
      BY <3>1
    <3> QED BY <1>2, <1>3, <3>2
  <2>3. stream = <<>> => stream \in Seq(AdvisoryChunks)
    OBVIOUS
  <2> QED BY <2>1, <2>2, <2>3 DEF BackendInv, CallInv
<1> QED BY <1>1, <1>4 DEF BackendInv, StatusInv, BackendTypeOK

\* BackendPlugin: for any profiles, results and errors, a chunk is an advisory one
\* or ends the stream, and every answer has a status of the error tables.
THEOREM BackendTypeCorrect == BackendSpec => []BackendTypeOK
<1>1. BackendSpec => []StatusInv
  BY BackendInvariant, StatusInvInit, StatusStep, PTL DEF BackendSpec
<1> QED BY <1>1, BackendTypes, BackendInvariant, PTL

\* For any results, usages and ages of host and plugin: the caller is served the
\* backend's own result and charged its own usage, or told its failure by the
\* status of its cause, by execute and by either kind of stream.
THEOREM AnswersAreTrueAlways == BackendSpec => []AnswersAreTrue
<1>1. BackendInv => AnswersAreTrue
  BY DEF BackendInv
<1> QED BY <1>1, BackendInvariant, PTL

(***************************************************************************)
(* HttpStreams: the client gets the body that was meant                    *)
(***************************************************************************)

\* What the adapter pushes of a stream: the handler's chunks, and End.
Full ==
  IF \E i \in DOMAIN response.body : IsEnd(response.body[i])
  THEN response.body ELSE Append(response.body, End)

FullChunks == {Full[i] : i \in DOMAIN Full}

\* How many of them the adapter's task has taken up.
Emitted == IF emitter = "off" THEN 0 ELSE Len(Full) - Len(source)

IsChunk(c) == c \in {Data(c.data), Event(c.name, c.data), End}

\* s holds, in order and once, chunks among the first k of the stream, and all
\* that carry bytes or end it.
Placed(s, k) ==
  \E at \in [1..Len(s) -> 1..k] :
    /\ \A i, j \in 1..Len(s) : i < j => at[i] < at[j]
    /\ \A i \in 1..Len(s) : s[i] = Full[at[i]]
    /\ \A x \in 1..k : Full[x].data # <<>> \/ IsEnd(Full[x]) => \E i \in 1..Len(s) : at[i] = x

\* Where the host is, where the slot is, and what was checked before either.
Passed ==
  /\ route.requires_identity => request.identity # Nothing
  /\ Len(request.body) <= MaxBody

PlaceInv ==
  /\ request \in Requests /\ response \in Responses
  /\ pc \in {"check", "call", "wait", "serve", "cancel", "done"}
  /\ handler \in {"idle", "running", "returned"} /\ path \in {"sink", "bytes_sink"}
  /\ emitter \in {"off", "on", "ended", "cancelled"} /\ gone \in BOOLEAN
  /\ pc \in {"check", "call"} => handler = "idle"
  /\ pc = "wait" => handler # "idle"
  /\ pc \in {"serve", "cancel"} => handler = "returned"
  /\ pc = "done" => handler # "running"
  /\ handler = "idle" => emitter = "off"
  /\ bridge = "freed" => pc = "done" /\ emitter # "on"
  /\ bridge \in {"live", "freed"}

SeenInv ==
  /\ pc = "call" \/ handler # "idle" => Passed
  /\ seen # Nothing => handler # "idle" /\ seen = Some(request)

\* What the slot returned tells its cause, and so does the status.
Broken == panicked \/ (~route.streaming /\ response.tag = "stream")

ResultInv ==
  /\ panicked \in BOOLEAN /\ (panicked => handler = "returned")
  /\ handler = "returned" =>
       /\ slot_result[1].head = Nothing <=> Broken
       /\ ~Broken /\ response.tag = "stream" => slot_result[1].handle # 0
  /\ pc \in {"check", "call", "wait"} => status = 0
  /\ pc \in {"serve", "cancel", "done"} =>
       \/ handler = "idle" /\ pc = "done" /\ status \in {401, 413}
       \/ handler = "returned" /\ status = IF Broken THEN 500 ELSE 200
  /\ pc = "serve" => ~Broken

\* The stream still to be pushed is the rest of what was meant to be.
SourceInv ==
  /\ emitter = "off" => source = <<>> /\ inbox = <<>>
  /\ emitter # "off" =>
       /\ response.tag = "stream" /\ source \in Seq(FullChunks) /\ Len(source) <= Len(Full)
       /\ \A i \in 1..Len(source) : source[i] = Full[Len(Full) - Len(source) + i]
       /\ path = "bytes_sink" => \A i \in DOMAIN response.body : response.body[i].kind # "event"

\* Until the host has read End, what it has served and what waits are the chunks
\* pushed; then what it has served is the body that was meant.
BodyInv ==
  response.tag = "stream" =>
    /\ body \in Seq(FullChunks) /\ inbox \in Seq(FullChunks)
    /\ pc \in {"check", "call", "wait"} => body = <<>>
    /\ pc \in {"check", "call", "wait", "serve"} =>
         Placed(body \o inbox, Emitted) /\ \A i \in 1..Len(body) : ~IsEnd(body[i])
    /\ pc \in {"cancel", "done"} /\ ~gone /\ status = 200 => Thins(body, Meant)

HttpInv == PlaceInv /\ SeenInv /\ ResultInv /\ SourceInv /\ BodyInv

\* A stream that is pushed ends, and holds chunks only.
LEMMA FullShape ==
  ASSUME response \in Responses, response.tag = "stream"
  PROVE  /\ response.body \in Seq({response.body[i] : i \in DOMAIN response.body})
         /\ Full \in Seq(FullChunks) /\ Len(Full) \in Nat /\ DOMAIN Full = 1..Len(Full)
         /\ \A c \in FullChunks : IsChunk(c)
         /\ \A i \in DOMAIN Full : IsEnd(Full[i]) \/ (i \in DOMAIN response.body /\ Full[i] = response.body[i])
<1>1. /\ response.body \in Seq({response.body[i] : i \in DOMAIN response.body})
      /\ \A i \in DOMAIN response.body : IsChunk(response.body[i])
  <2>1. \A d : Bytes(d).tag # "stream"
    BY DEF Bytes
  <2>2. response # Bytes(response.body)
    BY <2>1
  <2> QED BY <2>2, ResponsesAreWhole DEF IsChunk
<1>2. CASE \E i \in DOMAIN response.body : IsEnd(response.body[i])
  BY <1>1, <1>2 DEF Full, FullChunks
<1>3. CASE ~\E i \in DOMAIN response.body : IsEnd(response.body[i])
  <2>1. Full = Append(response.body, End)
    BY <1>3 DEF Full
  <2>2. /\ Len(Full) = Len(response.body) + 1 /\ Len(response.body) \in Nat
        /\ DOMAIN Full = 1..Len(Full) /\ DOMAIN response.body = 1..Len(response.body)
        /\ Full[Len(Full)] = End
        /\ \A i \in 1..Len(response.body) : Full[i] = response.body[i]
    BY <1>1, <2>1
  <2>3. \A i \in DOMAIN Full : Full[i] = End \/ (i \in DOMAIN response.body /\ Full[i] = response.body[i])
    BY <2>2
  <2>4. IsEnd(End) /\ IsChunk(End)
    BY DEF IsEnd, End, IsChunk
  <2>5. \A c \in FullChunks : IsChunk(c)
    BY <1>1, <2>3, <2>4 DEF FullChunks
  <2>6. Full \in Seq(FullChunks)
    <3>1. Full = [i \in 1..Len(Full) |-> Full[i]]
      BY <1>1, <2>1
    <3>2. \A i \in 1..Len(Full) : Full[i] \in FullChunks
      BY <2>2 DEF FullChunks
    <3> QED BY <2>2, <3>1, <3>2, IsASeq
  <2> QED BY <1>1, <2>2, <2>3, <2>4, <2>5, <2>6
<1> QED BY <1>2, <1>3

\* Either sink hands the host the chunk that was pushed.
LEMMA ReadIsExact ==
  ASSUME NEW c, IsChunk(c), path \in {"sink", "bytes_sink"}, Pushed(c),
         path = "bytes_sink" => c.kind # "event"
  PROVE  Read(c) = c
<1>1. ASSUME NEW d, c = Data(d)
      PROVE  Read(c) = c
  <2>1. c.kind = "data" /\ c.data = d /\ ~IsEnd(c)
    BY <1>1 DEF Data, IsEnd
  <2>2. chunk_from_wire(chunk_to_wire(c)) = c
    BY <1>1, <2>1 DEF chunk_from_wire, chunk_to_wire
  <2> QED BY <1>1, <2>1, <2>2 DEF Read, Pushed
<1>2. ASSUME NEW n, NEW d, c = Event(n, d)
      PROVE  Read(c) = c
  <2>1. c.kind = "event" /\ c.name = n /\ c.data = d
    BY <1>2 DEF Event
  <2>2. chunk_from_wire(chunk_to_wire(c)) = c
    BY <1>2, <2>1 DEF chunk_from_wire, chunk_to_wire
  <2> QED BY <2>1, <2>2 DEF Read
<1>3. CASE c = End
  <2>1. c.kind = "end" /\ c.data = <<>>
    BY <1>3 DEF End
  <2>2. chunk_from_wire(chunk_to_wire(c)) = c
    BY <1>3, <2>1 DEF chunk_from_wire, chunk_to_wire
  <2> QED BY <1>3, <2>1, <2>2 DEF Read
<1> QED BY <1>1, <1>2, <1>3 DEF IsChunk

\* What a client should see ends before the first End.
LEMMA MeantIsPrefix ==
  ASSUME response \in Responses, response.tag = "stream",
         NEW e \in DOMAIN Full, IsEnd(Full[e]), \A i \in 1..(e - 1) : ~IsEnd(Full[i])
  PROVE  DOMAIN Meant = 1..(e - 1) /\ \A i \in 1..(e - 1) : Meant[i] = Full[i]
<1> DEFINE ends == {i \in DOMAIN response.body : IsEnd(response.body[i])}
<1>1. /\ response.body \in Seq({response.body[i] : i \in DOMAIN response.body})
      /\ DOMAIN Full = 1..Len(Full)
  BY FullShape
<1>2. /\ Len(response.body) \in Nat /\ DOMAIN response.body = 1..Len(response.body)
  BY <1>1
<1>3. CASE ends = {}
  <2>1. Full = Append(response.body, End) /\ Meant = response.body
    BY <1>3 DEF Full, Meant
  <2>2. /\ \A i \in 1..Len(response.body) : Full[i] = response.body[i]
        /\ DOMAIN Full = 1..(Len(response.body) + 1)
    BY <1>1, <1>2, <2>1
  <2>3. e = Len(response.body) + 1
    BY <1>2, <1>3, <2>2
  <2> QED BY <1>2, <2>1, <2>2, <2>3
<1>4. CASE ends # {}
  <2>1. Full = response.body
    BY <1>4 DEF Full
  <2>2. e \in ends /\ \A j \in ends : e <= j
    BY <1>2, <2>1
  <2>3. \A i \in ends : (\A j \in ends : i <= j) => i = e
    BY <1>2, <2>2
  <2>4. (CHOOSE i \in ends : \A j \in ends : i <= j) = e
    BY <2>2, <2>3
  <2>5. Meant = SubSeq(response.body, 1, e - 1)
    BY <1>4, <2>4 DEF Meant
  <2> QED BY <1>1, <1>2, <2>1, <2>2, <2>5
<1> QED BY <1>3, <1>4

\* One more chunk is pushed, or passed over because it carries nothing.
LEMMA PlacedGrows ==
  ASSUME NEW S, NEW s \in Seq(S), NEW k \in Nat, Placed(s, k)
  PROVE  /\ Placed(Append(s, Full[k + 1]), k + 1)
         /\ Full[k + 1].data = <<>> /\ ~IsEnd(Full[k + 1]) => Placed(s, k + 1)
<1>1. PICK at \in [1..Len(s) -> 1..k] :
        /\ \A i, j \in 1..Len(s) : i < j => at[i] < at[j]
        /\ \A i \in 1..Len(s) : s[i] = Full[at[i]]
        /\ \A x \in 1..k : Full[x].data # <<>> \/ IsEnd(Full[x]) =>
             \E i \in 1..Len(s) : at[i] = x
  BY DEF Placed
<1>2. Len(s) \in Nat
  OBVIOUS
<1>3. Placed(Append(s, Full[k + 1]), k + 1)
  <2> DEFINE t == Append(s, Full[k + 1])
             n == Len(s) + 1
             to == [i \in 1..n |-> IF i = n THEN k + 1 ELSE at[i]]
  <2>1. Len(t) = n /\ \A i \in 1..Len(s) : t[i] = s[i] /\ t[n] = Full[k + 1]
    <3>1. s \in Seq(S \cup {Full[k + 1]}) /\ Full[k + 1] \in S \cup {Full[k + 1]}
      OBVIOUS
    <3> QED BY <3>1
  <2>2. t[n] = Full[k + 1]
    <3>1. s \in Seq(S \cup {Full[k + 1]}) /\ Full[k + 1] \in S \cup {Full[k + 1]}
      OBVIOUS
    <3> QED BY <3>1
  <2> HIDE DEF t
  <2>3. to \in [1..n -> 1..(k + 1)]
    BY <1>1, <1>2
  <2>4. \A i, j \in 1..n : i < j => to[i] < to[j]
    <3> SUFFICES ASSUME NEW i \in 1..n, NEW j \in 1..n, i < j PROVE to[i] < to[j]
      OBVIOUS
    <3>1. i \in 1..Len(s) /\ to[i] = at[i] /\ at[i] \in 1..k
      BY <1>2
    <3>2. j = n \/ (j \in 1..Len(s) /\ to[j] = at[j])
      BY <1>2
    <3> QED BY <1>1, <3>1, <3>2
  <2>5. \A i \in 1..n : t[i] = Full[to[i]]
    BY <1>1, <1>2, <2>1, <2>2
  <2>6. \A x \in 1..(k + 1) : Full[x].data # <<>> \/ IsEnd(Full[x]) => \E i \in 1..n : to[i] = x
    <3> SUFFICES ASSUME NEW x \in 1..(k + 1), Full[x].data # <<>> \/ IsEnd(Full[x])
                 PROVE  \E i \in 1..n : to[i] = x
      OBVIOUS
    <3>1. CASE x = k + 1
      <4>1. n \in 1..n /\ to[n] = k + 1
        BY <1>2
      <4> QED BY <3>1, <4>1
    <3>2. CASE x \in 1..k
      <4>1. PICK i \in 1..Len(s) : at[i] = x
        BY <1>1, <3>2
      <4>2. i \in 1..n /\ to[i] = x
        BY <1>2, <4>1
      <4> QED BY <4>2
    <3> QED BY <3>1, <3>2
  <2>7. Placed(t, k + 1)
    <3> HIDE DEF to, n
    <3>1. n = Len(t)
      BY <2>1
    <3>2. to \in [1..Len(t) -> 1..(k + 1)]
      BY <2>3, <3>1
    <3>3. /\ \A i, j \in 1..Len(t) : i < j => to[i] < to[j]
          /\ \A i \in 1..Len(t) : t[i] = Full[to[i]]
          /\ \A x \in 1..(k + 1) : Full[x].data # <<>> \/ IsEnd(Full[x]) => \E i \in 1..Len(t) : to[i] = x
      BY <2>4, <2>5, <2>6, <3>1, Zenon
    <3> QED BY <3>2, <3>3, Zenon DEF Placed
  <2> QED BY <2>7 DEF t
<1>4. ASSUME Full[k + 1].data = <<>>, ~IsEnd(Full[k + 1])
      PROVE  Placed(s, k + 1)
  <2>1. at \in [1..Len(s) -> 1..(k + 1)]
    BY <1>1
  <2>2. \A x \in 1..(k + 1) : Full[x].data # <<>> \/ IsEnd(Full[x]) =>
          \E i \in 1..Len(s) : at[i] = x
    BY <1>1, <1>4
  <2> QED BY <1>1, <2>1, <2>2 DEF Placed
<1> QED BY <1>3, <1>4

\* When the host reads End, what it served is what was meant.
LEMMA EndedIsWhole ==
  ASSUME response \in Responses, response.tag = "stream",
         NEW b \in Seq(FullChunks), NEW x \in Seq(FullChunks), x # <<>>, IsEnd(x[1]),
         \A i \in 1..Len(b) : ~IsEnd(b[i]), NEW k \in 0..Len(Full), Placed(b \o x, k)
  PROVE  Thins(b, Meant)
<1> DEFINE s == b \o x
           n == Len(b) + 1
<1>1. /\ Len(b) \in Nat /\ DOMAIN b = 1..Len(b) /\ n \in 1..Len(s) /\ s[n] = x[1]
      /\ \A i \in 1..Len(b) : i \in 1..Len(s) /\ s[i] = b[i]
  OBVIOUS
<1>2. Len(s) \in Nat /\ Len(Full) \in Nat /\ DOMAIN Full = 1..Len(Full)
  BY FullShape
<1>3. PICK at \in [1..Len(s) -> 1..k] :
        /\ \A i, j \in 1..Len(s) : i < j => at[i] < at[j]
        /\ \A i \in 1..Len(s) : s[i] = Full[at[i]]
        /\ \A y \in 1..k : Full[y].data # <<>> \/ IsEnd(Full[y]) =>
             \E i \in 1..Len(s) : at[i] = y
  BY DEF Placed
<1> HIDE DEF s
<1> DEFINE e == at[n]
<1>4. e \in 1..k /\ e \in DOMAIN Full /\ IsEnd(Full[e])
  BY <1>1, <1>2, <1>3
<1>5. \A j \in 1..Len(s) : at[j] < e => j \in 1..Len(b)
  <2> SUFFICES ASSUME NEW j \in 1..Len(s), at[j] < e, ~(j \in 1..Len(b)) PROVE FALSE
    OBVIOUS
  <2>1. j = n \/ n < j
    BY <1>1, <1>2
  <2> QED BY <1>1, <1>2, <1>3, <2>1
<1>6. \A y \in 1..(e - 1) : ~IsEnd(Full[y])
  <2> SUFFICES ASSUME NEW y \in 1..(e - 1), IsEnd(Full[y]) PROVE FALSE
    OBVIOUS
  <2>1. y \in 1..k /\ y < e
    BY <1>4
  <2>2. PICK j \in 1..Len(s) : at[j] = y
    BY <1>3, <2>1
  <2>3. j \in 1..Len(b)
    BY <1>5, <2>1, <2>2
  <2> QED BY <1>1, <1>3, <2>2, <2>3
<1>7. DOMAIN Meant = 1..(e - 1) /\ \A i \in 1..(e - 1) : Meant[i] = Full[i]
  BY <1>4, <1>6, MeantIsPrefix
<1> DEFINE to == [i \in 1..Len(b) |-> at[i]]
<1>8. \A i \in 1..Len(b) : at[i] \in 1..(e - 1)
  <2> SUFFICES ASSUME NEW i \in 1..Len(b) PROVE at[i] \in 1..(e - 1)
    OBVIOUS
  <2>1. i \in 1..Len(s) /\ n \in 1..Len(s) /\ i < n
    BY <1>1
  <2>2. at[i] < e /\ at[i] \in 1..k
    BY <1>3, <2>1
  <2> QED BY <1>4, <2>2
<1>9. to \in [DOMAIN b -> DOMAIN Meant]
  BY <1>1, <1>7, <1>8
<1>10. \A i, j \in DOMAIN b : i < j => to[i] < to[j]
  BY <1>1, <1>3
<1>11. \A i \in DOMAIN b : b[i] = Meant[to[i]]
  BY SMTT(40), <1>1, <1>3, <1>7, <1>8
<1>12. \A y \in DOMAIN Meant : Meant[y].data # <<>> => \E i \in DOMAIN b : to[i] = y
  <2> SUFFICES ASSUME NEW y \in 1..(e - 1), Full[y].data # <<>>
               PROVE  \E i \in 1..Len(b) : at[i] = y
    BY <1>1, <1>7
  <2>1. y \in 1..k /\ y < e
    BY <1>4
  <2>2. PICK j \in 1..Len(s) : at[j] = y
    BY <1>3, <2>1
  <2> QED BY <1>5, <2>1, <2>2
<1> QED BY <1>9, <1>10, <1>11, <1>12 DEF Thins

\* The stream that is meant is the same all along.
LEMMA StreamFrame ==
  ASSUME response' = response
  PROVE  /\ Full' = Full /\ FullChunks' = FullChunks /\ Meant' = Meant
         /\ \A s, k : Placed(s, k)' <=> Placed(s, k)
<1>1. Full' = Full
  BY DEF Full
<1>2. FullChunks' = FullChunks
  BY <1>1 DEF FullChunks
<1>3. Meant' = Meant
  BY DEF Meant
<1>4. ASSUME NEW s, NEW k
      PROVE  Placed(s, k)' <=> Placed(s, k)
  BY <1>1 DEF Placed
<1> QED BY <1>1, <1>2, <1>3, <1>4

\* A step that leaves the response alone keeps the places of its chunks.
LEMMA PlacedNext ==
  ASSUME response' = response, NEW s, NEW k, Placed(s, k), (body \o inbox)' = s, Emitted' = k
  PROVE  Placed(body \o inbox, Emitted)'
<1>1. Full' = Full
  BY StreamFrame
<1>2. PICK at \in [1..Len(s) -> 1..k] :
        /\ \A i, j \in 1..Len(s) : i < j => at[i] < at[j]
        /\ \A i \in 1..Len(s) : s[i] = Full[at[i]]
        /\ \A x \in 1..k : Full[x].data # <<>> \/ IsEnd(Full[x]) =>
             \E i \in 1..Len(s) : at[i] = x
  BY DEF Placed
<1>3. \E a \in [1..Len(s) -> 1..k] :
        /\ \A i, j \in 1..Len(s) : i < j => a[i] < a[j]
        /\ \A i \in 1..Len(s) : s[i] = Full'[a[i]]
        /\ \A x \in 1..k : Full'[x].data # <<>> \/ IsEnd(Full'[x]) =>
             \E i \in 1..Len(s) : a[i] = x
  BY <1>1, <1>2
<1>4. Placed(s, k)'
  BY <1>3 DEF Placed
<1> HIDE DEF Placed
<1> QED BY <1>4

\* Before a request comes in no body, result or stream exists.
LEMMA HttpInvInit == HttpInit => HttpInv
<1> SUFFICES ASSUME HttpInit PROVE HttpInv
  OBVIOUS
<1>1. PlaceInv /\ SeenInv /\ ResultInv /\ SourceInv
  BY DEF HttpInit, PlaceInv, SeenInv, ResultInv, SourceInv, Nothing
<1>2. BodyInv
  <2> SUFFICES ASSUME response.tag = "stream"
               PROVE  Placed(body \o inbox, Emitted) /\ body \in Seq(FullChunks) /\ inbox \in Seq(FullChunks)
    BY DEF HttpInit, BodyInv
  <2>1. body \o inbox = <<>> /\ Len(<<>>) = 0 /\ Emitted = 0
    BY DEF HttpInit, Emitted
  <2>2. Placed(<<>>, 0)
    <3>1. 1..0 = {} /\ Len(<<>>) = 0
      OBVIOUS
    <3>2. [i \in {} |-> 0] \in [{} -> {}]
      OBVIOUS
    <3> QED BY <3>1, <3>2 DEF Placed
  <2> QED BY <2>1, <2>2 DEF HttpInit
<1> QED BY <1>1, <1>2 DEF HttpInv

\* A step that leaves the stream and its chunks alone keeps what is known of them.
LEMMA BodyFrame ==
  ASSUME HttpInv, UNCHANGED <<response, source, emitter, path, inbox, body>>,
         pc' \in {"check", "call", "wait"} => pc \in {"check", "call", "wait"},
         pc' \in {"check", "call", "wait", "serve"} => pc \in {"check", "call", "wait", "serve"},
         response.tag = "stream" /\ pc' \in {"cancel", "done"} /\ ~gone' /\ status' = 200 =>
           pc \in {"cancel", "done"} /\ ~gone /\ status = 200
  PROVE  SourceInv' /\ BodyInv'
<1>1. /\ Full' = Full /\ FullChunks' = FullChunks /\ Meant' = Meant
      /\ \A s, k : Placed(s, k)' <=> Placed(s, k)
  BY StreamFrame
<1>2. SourceInv'
  BY <1>1 DEF HttpInv, SourceInv
<1>3. Emitted' = Emitted
  BY <1>1 DEF Emitted
<1>4. Placed(body \o inbox, Emitted) => Placed(body \o inbox, Emitted)'
  BY <1>1, <1>3 DEF Placed
<1>5. Thins(body, Meant) => Thins(body, Meant)'
  BY <1>1 DEF Thins
<1>6. BodyInv'
  <2> SUFFICES ASSUME response.tag = "stream"
               PROVE  /\ body \in Seq(FullChunks) /\ inbox \in Seq(FullChunks)
                      /\ pc' \in {"check", "call", "wait"} => body = <<>>
                      /\ pc' \in {"check", "call", "wait", "serve"} =>
                            Placed(body \o inbox, Emitted)' /\ \A i \in 1..Len(body) : ~IsEnd(body[i])
                      /\ pc' \in {"cancel", "done"} /\ ~gone' /\ status' = 200 => Thins(body, Meant)'
    BY <1>1 DEF BodyInv, IsEnd
  <2>1. /\ body \in Seq(FullChunks) /\ inbox \in Seq(FullChunks)
        /\ pc' \in {"check", "call", "wait"} => body = <<>>
    BY DEF HttpInv, BodyInv
  <2>2. pc' \in {"check", "call", "wait", "serve"} =>
          Placed(body \o inbox, Emitted)' /\ \A i \in 1..Len(body) : ~IsEnd(body[i])
    BY <1>4 DEF HttpInv, BodyInv
  <2>3. pc' \in {"cancel", "done"} /\ ~gone' /\ status' = 200 => Thins(body, Meant)'
    BY <1>5 DEF HttpInv, BodyInv
  <2> QED BY <2>1, <2>2, <2>3
<1> QED BY <1>2, <1>6

\* The host measures the request against the route before it calls.
LEMMA CheckHttp == HttpInv /\ Check => HttpInv'
<1> SUFFICES ASSUME HttpInv, Check PROVE HttpInv'
  OBVIOUS
<1>1. PlaceInv' /\ SeenInv' /\ ResultInv'
  BY DEF HttpInv, PlaceInv, SeenInv, ResultInv, Check, given, Passed, MaxBody, Broken
<1>2. SourceInv' /\ BodyInv'
  BY BodyFrame DEF HttpInv, PlaceInv, ResultInv, Check, given
<1> QED BY <1>1, <1>2 DEF HttpInv

\* The request crosses to the handler whole.
LEMMA CallHttp == HttpInv /\ Call => HttpInv'
<1> SUFFICES ASSUME HttpInv, Call PROVE HttpInv'
  OBVIOUS
<1>1. request_from_wire(request_to_wire(request)) = request
  BY RequestsAreWhole DEF HttpInv, PlaceInv, request_from_wire, request_to_wire, HttpRouteRequest
<1>2. PlaceInv' /\ ResultInv'
  BY DEF HttpInv, PlaceInv, ResultInv, Call, given, Broken
<1>3. SeenInv'
  BY <1>1 DEF HttpInv, PlaceInv, SeenInv, Call, given, Passed, MaxBody
<1>4. SourceInv' /\ BodyInv'
  BY BodyFrame DEF HttpInv, Call, given
<1> QED BY <1>2, <1>3, <1>4 DEF HttpInv

\* The slot returns, one way or the other.
LEMMA ReturnHttp ==
  HttpInv /\ (Panic \/ ReturnFromHandle \/ ReturnFromStreaming) => HttpInv'
<1> SUFFICES ASSUME HttpInv, Panic \/ ReturnFromHandle \/ ReturnFromStreaming PROVE HttpInv'
  OBVIOUS
<1>1. UNCHANGED <<route, request, response, pc, status, seen, path, source, emitter, bridge,
                  inbox, body, gone>>
  BY DEF Panic, ReturnFromHandle, ReturnFromStreaming, given
<1>2. handler = "running" /\ handler' = "returned" /\ pc = "wait" /\ panicked = FALSE
  BY DEF Panic, ReturnFromHandle, ReturnFromStreaming, HttpInv, PlaceInv, ResultInv
<1>3. PlaceInv' /\ SeenInv'
  BY <1>1, <1>2 DEF HttpInv, PlaceInv, SeenInv, Passed, MaxBody
<1>4. panicked' \in BOOLEAN /\ (slot_result'[1].head = Nothing <=> Broken')
      /\ (~Broken' /\ response.tag = "stream" => slot_result'[1].handle # 0)
  <2>1. \A h, x : HttpHandleResult(h, x).head # Nothing /\ HttpHandleResult(h, x).handle = h
    BY DEF HttpHandleResult, Some, Nothing
  <2>2. NoResult.head = Nothing
    BY DEF NoResult
  <2>3. CASE Panic
    BY <2>2, <2>3 DEF Panic, Broken, Some
  <2>4. CASE ReturnFromHandle
    <3>1. response.tag # "bytes" => response.tag = "stream"
      <4>1. \A d : Bytes(d).tag = "bytes" /\ Stream(d).tag = "stream"
        BY DEF Bytes, Stream
      <4>2. response = Bytes(response.body) \/ response = Stream(response.body)
        BY ResponsesAreWhole DEF HttpInv, PlaceInv
      <4> QED BY <4>1, <4>2
    <3>2. response_to_wire(response) = Nothing <=> response.tag = "stream"
      BY <3>1 DEF response_to_wire, Some, Nothing
    <3>3. ~route.streaming /\ UNCHANGED panicked
      BY <2>4 DEF ReturnFromHandle
    <3>4. slot_result'[1] = IF response_to_wire(response) = Nothing THEN NoResult
                            ELSE HttpHandleResult(0, response_to_wire(response)[1])
      BY <2>4 DEF ReturnFromHandle, Some
    <3>5. panicked' = FALSE /\ (Broken' <=> response.tag = "stream")
      BY <1>1, <1>2, <3>3 DEF Broken
    <3>6. slot_result'[1].head = Nothing <=> response.tag = "stream"
      BY <2>1, <2>2, <3>2, <3>4
    <3> QED BY <3>5, <3>6
  <2>5. CASE ReturnFromStreaming
    <3>1. route.streaming /\ UNCHANGED panicked
      BY <2>5 DEF ReturnFromStreaming
    <3>2. slot_result'[1] = IF response.tag = "stream" THEN HttpHandleResult(1, "head")
                            ELSE HttpHandleResult(0, response.body)
      BY <2>5 DEF ReturnFromStreaming, Some
    <3>3. panicked' = FALSE /\ ~Broken'
      BY <1>1, <1>2, <3>1 DEF Broken
    <3>4. slot_result'[1].head # Nothing /\ (response.tag = "stream" => slot_result'[1].handle # 0)
      BY <2>1, <3>2
    <3> QED BY <3>3, <3>4
  <2> QED BY <2>3, <2>4, <2>5
<1>5. ResultInv'
  BY <1>1, <1>2, <1>4 DEF HttpInv, ResultInv
<1>6. SourceInv' /\ BodyInv'
  BY <1>1, BodyFrame
<1> QED BY <1>3, <1>5, <1>6 DEF HttpInv

\* The handler starts its emitter for a streamed response.
LEMMA StartStreamHttp == HttpInv /\ StartStream => HttpInv'
<1> SUFFICES ASSUME HttpInv, StartStream PROVE HttpInv'
  OBVIOUS
<1>1. PlaceInv' /\ SeenInv' /\ ResultInv'
  BY DEF HttpInv, PlaceInv, SeenInv, ResultInv, StartStream, given, Passed, MaxBody, Broken
<1>2. response \in Responses /\ response.tag = "stream" /\ emitter = "off" /\ response' = response
      /\ pc = "wait" /\ UNCHANGED <<pc, inbox, body>>
  BY DEF HttpInv, PlaceInv, StartStream, given
<1>3. /\ Full' = Full /\ FullChunks' = FullChunks /\ \A s, k : Placed(s, k)' <=> Placed(s, k)
  BY <1>2, StreamFrame
<1>4. Full \in Seq(FullChunks) /\ Len(Full) \in Nat
  BY <1>2, FullShape
<1>5. source' = Full /\ emitter' = "on"
  BY DEF StartStream, Full
<1>6. SourceInv'
  <2>1. path' = "bytes_sink" => \A i \in DOMAIN response.body : response.body[i].kind # "event"
    BY DEF StartStream
  <2>2. \A i \in 1..Len(Full) : Full[i] = Full[Len(Full) - Len(Full) + i]
    BY <1>4
  <2> QED BY <1>2, <1>3, <1>4, <1>5, <2>1, <2>2 DEF SourceInv
<1>7. BodyInv'
  <2>1. Emitted = 0 /\ Emitted' = 0
    BY <1>2, <1>3, <1>4, <1>5 DEF Emitted
  <2>2. /\ Placed(body \o inbox, Emitted) /\ body \in Seq(FullChunks) /\ inbox \in Seq(FullChunks)
        /\ body = <<>>
    BY <1>2 DEF HttpInv, BodyInv
  <2>3. Placed(body \o inbox, Emitted)'
    BY <1>2, <1>3, <2>1, <2>2 DEF Placed
  <2>4. \A i \in 1..Len(body) : ~IsEnd(body[i])
    BY <2>2
  <2> QED BY <1>2, <1>3, <2>2, <2>3, <2>4 DEF BodyInv
<1> QED BY <1>1, <1>6, <1>7 DEF HttpInv

\* The host takes the result the handler left in its slot.
LEMMA ReturnedHttp == HttpInv /\ Returned => HttpInv'
<1> SUFFICES ASSUME HttpInv, Returned PROVE HttpInv'
  OBVIOUS
<1>1. PlaceInv' /\ SeenInv'
  BY DEF HttpInv, PlaceInv, SeenInv, Returned, given, Passed, MaxBody
<1>2. UNCHANGED <<route, panicked, slot_result, handler, response, source, emitter, path, inbox, gone>>
      /\ pc = "wait" /\ handler = "returned"
  BY DEF Returned, given
<1>3. slot_result[1].head = Nothing <=> Broken
  BY <1>2 DEF HttpInv, ResultInv
<1>4. CASE Broken
  <2>1. status' = 500 /\ pc' = "cancel" /\ body' = body
    BY <1>3, <1>4 DEF Returned
  <2>2. ResultInv'
    BY <1>2, <1>4, <2>1 DEF HttpInv, ResultInv, Broken
  <2>3. SourceInv' /\ BodyInv'
    BY <1>2, <2>1, BodyFrame
  <2> QED BY <1>1, <2>2, <2>3 DEF HttpInv
<1>5. CASE ~Broken /\ slot_result[1].handle = 0
  <2>1. status' = 200 /\ pc' = "cancel"
    BY <1>3, <1>5 DEF Returned
  <2>2. response.tag # "stream"
    BY <1>2, <1>5 DEF HttpInv, ResultInv
  <2>3. ResultInv'
    BY <1>2, <1>5, <2>1 DEF HttpInv, ResultInv, Broken
  <2>4. SourceInv'
    BY <1>2, <2>2 DEF HttpInv, SourceInv
  <2>5. BodyInv'
    BY <1>2, <2>2 DEF BodyInv
  <2> QED BY <1>1, <2>3, <2>4, <2>5 DEF HttpInv
<1>6. CASE ~Broken /\ slot_result[1].handle # 0
  <2>1. status' = 200 /\ pc' = "serve" /\ body' = body
    BY <1>3, <1>6 DEF Returned
  <2>2. ResultInv'
    BY <1>2, <1>6, <2>1 DEF HttpInv, ResultInv, Broken
  <2>3. SourceInv' /\ BodyInv'
    BY <1>2, <2>1, BodyFrame
  <2> QED BY <1>1, <2>2, <2>3 DEF HttpInv
<1> QED BY <1>4, <1>5, <1>6

\* The next chunk of the stream is pushed, or passed over.
LEMMA EmitHttp == HttpInv /\ EmitChunk => HttpInv'
<1> SUFFICES ASSUME HttpInv, EmitChunk PROVE HttpInv'
  OBVIOUS
<1> DEFINE k == Len(Full) - Len(source)
           c == Head(source)
           s == body \o inbox
<1>1. PlaceInv' /\ SeenInv' /\ ResultInv'
  BY DEF HttpInv, PlaceInv, SeenInv, ResultInv, EmitChunk, given, Passed, MaxBody, Broken
<1>2. /\ emitter = "on" /\ source # <<>> /\ source' = Tail(source) /\ emitter' # "off"
      /\ inbox' = IF Pushed(c) THEN Append(inbox, Read(c)) ELSE inbox
      /\ UNCHANGED <<response, pc, status, path, body, gone>>
  BY DEF EmitChunk, given
<1>3. /\ response \in Responses /\ path \in {"sink", "bytes_sink"} /\ response.tag = "stream"
      /\ source \in Seq(FullChunks) /\ Len(source) <= Len(Full)
      /\ \A i \in 1..Len(source) : source[i] = Full[k + i]
      /\ path = "bytes_sink" => \A i \in DOMAIN response.body : response.body[i].kind # "event"
      /\ body \in Seq(FullChunks) /\ inbox \in Seq(FullChunks)
  BY <1>2 DEF HttpInv, PlaceInv, SourceInv, BodyInv
<1>4. /\ Full' = Full /\ FullChunks' = FullChunks /\ Meant' = Meant
      /\ \A t, n : Placed(t, n)' <=> Placed(t, n)
  BY <1>2, StreamFrame
<1>5. /\ Full \in Seq(FullChunks) /\ Len(Full) \in Nat /\ DOMAIN Full = 1..Len(Full)
      /\ \A x \in FullChunks : IsChunk(x)
      /\ \A i \in DOMAIN Full : IsEnd(Full[i]) \/ (i \in DOMAIN response.body /\ Full[i] = response.body[i])
  BY <1>3, FullShape
<1>6. /\ Len(source) \in Nat /\ Len(source) > 0 /\ k \in Nat /\ k + 1 \in DOMAIN Full
      /\ Tail(source) \in Seq(FullChunks) /\ Len(Tail(source)) = Len(source) - 1
      /\ \A i \in 1..Len(Tail(source)) : Tail(source)[i] = source[i + 1]
  BY <1>2, <1>3, <1>5
<1>7. c = Full[k + 1] /\ c \in FullChunks
  <2>1. c = source[1] /\ 1 \in 1..Len(source)
    BY <1>2, <1>3, <1>6
  <2> QED BY <1>3, <2>1
<1>8. SourceInv'
  <2>1. \A i \in 1..Len(Tail(source)) : Tail(source)[i] = Full[Len(Full) - Len(Tail(source)) + i]
    <3> SUFFICES ASSUME NEW i \in 1..Len(Tail(source))
                 PROVE  Tail(source)[i] = Full[Len(Full) - Len(Tail(source)) + i]
      OBVIOUS
    <3>1. i + 1 \in 1..Len(source) /\ Len(Full) - Len(Tail(source)) + i = k + (i + 1)
      BY <1>5, <1>6
    <3> QED BY <1>3, <1>6, <3>1
  <2> QED BY <1>2, <1>3, <1>4, <1>5, <1>6, <2>1 DEF SourceInv
<1>9. Emitted = k /\ Emitted' = k + 1
  BY <1>2, <1>4, <1>5, <1>6 DEF Emitted
<1>10. Pushed(c) => Read(c) = c
  <2>1. path = "bytes_sink" => c.kind # "event"
    BY <1>3, <1>5, <1>6, <1>7 DEF IsEnd
  <2> QED BY <1>3, <1>5, <1>7, <2>1, ReadIsExact
<1> HIDE DEF k, c
<1>11. BodyInv'
  <2>1. body \in Seq(FullChunks) /\ inbox' \in Seq(FullChunks)
    BY <1>2, <1>3, <1>7, <1>10
  <2>2. pc \in {"check", "call", "wait"} => body = <<>>
    BY <1>3 DEF HttpInv, BodyInv
  <2>3. pc \in {"cancel", "done"} /\ ~gone /\ status = 200 => Thins(body, Meant)
    BY <1>3 DEF HttpInv, BodyInv
  <2>4. Thins(body, Meant) => Thins(body, Meant)'
    BY <1>2, <1>4 DEF Thins
  <2>5. ASSUME pc \in {"check", "call", "wait", "serve"}
        PROVE  Placed(body \o inbox, Emitted)' /\ \A i \in 1..Len(body) : ~IsEnd(body[i])
    <3>1. Placed(s, k) /\ \A i \in 1..Len(body) : ~IsEnd(body[i])
      BY <1>3, <1>9, <2>5 DEF HttpInv, BodyInv
    <3>2. s \in Seq(FullChunks)
      BY <1>3
    <3>3. CASE Pushed(c)
      <4>1. Placed(Append(s, c), k + 1)
        <5> HIDE DEF s
        <5> QED BY <1>6, <1>7, <3>1, <3>2, PlacedGrows
      <4>2. body \o inbox' = Append(s, c)
        BY <1>2, <1>3, <1>7, <1>10, <3>3
      <4> HIDE DEF s
      <4> QED BY <1>2, <1>9, <3>1, <4>1, <4>2, PlacedNext
    <3>4. CASE ~Pushed(c)
      <4>1. c.data = <<>> /\ ~IsEnd(c)
        BY <3>4 DEF Pushed
      <4>2. Placed(s, k + 1)
        <5> HIDE DEF s
        <5> QED BY <1>6, <1>7, <3>1, <3>2, <4>1, PlacedGrows
      <4>3. (body \o inbox)' = s
        BY <1>2, <3>4
      <4> HIDE DEF s
      <4> QED BY <1>2, <1>9, <3>1, <4>2, <4>3, PlacedNext
    <3> QED BY <3>3, <3>4
  <2>6. response'.tag = "stream" /\ UNCHANGED <<pc, gone, status, body>> /\ FullChunks' = FullChunks
    BY <1>2, <1>3, <1>4
  <2> QED BY <2>1, <2>2, <2>3, <2>4, <2>5, <2>6 DEF BodyInv, IsEnd
<1> QED BY <1>1, <1>8, <1>11 DEF HttpInv

\* A chunk goes from what waits to what was served, or is the End.
LEMMA ServeHttp == HttpInv /\ Serve => HttpInv'
<1> SUFFICES ASSUME HttpInv, Serve PROVE HttpInv'
  OBVIOUS
<1> DEFINE c == Head(inbox)
<1>1. PlaceInv' /\ SeenInv' /\ ResultInv'
  BY DEF HttpInv, PlaceInv, SeenInv, ResultInv, Serve, given, Passed, MaxBody, Broken
<1>2. /\ pc = "serve" /\ inbox # <<>> /\ inbox' = Tail(inbox)
      /\ IF IsEnd(c) THEN pc' = "cancel" /\ body' = body
         ELSE body' = Append(body, c) /\ pc' = pc
      /\ UNCHANGED <<response, status, path, source, emitter, gone>>
  BY DEF Serve, given
<1>3. response \in Responses /\ response.tag = "stream" /\ emitter # "off"
  BY <1>2 DEF HttpInv, PlaceInv, SourceInv
<1>4. /\ Full' = Full /\ FullChunks' = FullChunks /\ Meant' = Meant
      /\ \A t, n : Placed(t, n)' <=> Placed(t, n)
  BY <1>2, StreamFrame
<1>5. SourceInv'
  BY <1>2, <1>3, <1>4 DEF HttpInv, SourceInv
<1>6. Emitted' = Emitted /\ Emitted \in 0..Len(Full)
  BY <1>2, <1>3, <1>4, FullShape DEF Emitted, HttpInv, SourceInv
<1>7. /\ body \in Seq(FullChunks) /\ inbox \in Seq(FullChunks) /\ Placed(body \o inbox, Emitted)
      /\ \A i \in 1..Len(body) : ~IsEnd(body[i])
  BY <1>2, <1>3 DEF HttpInv, BodyInv
<1>8. c = inbox[1] /\ c \in FullChunks /\ Tail(inbox) \in Seq(FullChunks)
  BY <1>2, <1>7
<1>9. CASE IsEnd(c)
  <2>1. Thins(body, Meant)
    BY <1>2, <1>3, <1>6, <1>7, <1>8, <1>9, EndedIsWhole
  <2>2. Thins(body, Meant)'
    BY <1>2, <1>4, <1>9, <2>1 DEF Thins
  <2>3. BodyInv'
    BY <1>2, <1>4, <1>7, <1>8, <1>9, <2>2 DEF BodyInv
  <2> QED BY <1>1, <1>5, <2>3 DEF HttpInv
<1>10. CASE ~IsEnd(c)
  <2>1. Append(body, c) \o Tail(inbox) = body \o inbox
    BY <1>2, <1>7, <1>8
  <2>2. Placed(body \o inbox, Emitted)'
    <3> DEFINE s == body \o inbox
    <3>1. (body \o inbox)' = s /\ Placed(s, Emitted) /\ response' = response
      BY <1>2, <1>7, <1>10, <2>1
    <3> HIDE DEF s
    <3> QED BY <1>6, <3>1, PlacedNext
  <2>3. body' \in Seq(FullChunks) /\ \A i \in 1..Len(body') : ~IsEnd(body'[i])
    <3>1. body' = Append(body, c)
      BY <1>2, <1>10
    <3> HIDE DEF c
    <3>2. body' \in Seq(FullChunks) /\ \A i \in 1..Len(body') : body'[i] = c \/ (i \in 1..Len(body) /\ body'[i] = body[i])
      BY <1>7, <1>8, <3>1
    <3> QED BY <1>7, <1>10, <3>2
  <2>4. BodyInv'
    BY <1>2, <1>4, <1>8, <1>10, <2>2, <2>3 DEF BodyInv, IsEnd
  <2> QED BY <1>1, <1>5, <2>4 DEF HttpInv
<1> QED BY <1>9, <1>10

\* The client leaves, or the host abandons the response.
LEMMA LeaveHttp == HttpInv /\ (Disconnect \/ Abandon) => HttpInv'
<1> SUFFICES ASSUME HttpInv, Disconnect \/ Abandon PROVE HttpInv'
  OBVIOUS
<1>1. PlaceInv' /\ SeenInv' /\ ResultInv'
  <2>1. PlaceInv'
    BY DEF HttpInv, PlaceInv, Disconnect, Abandon, given
  <2>2. UNCHANGED <<route, request, response, panicked, seen, handler, status, slot_result>>
        /\ (pc' = pc \/ (pc = "serve" /\ pc' = "cancel"))
    BY DEF Disconnect, Abandon, given
  <2>3. SeenInv'
    BY <2>2 DEF HttpInv, SeenInv, Passed, MaxBody
  <2>4. ResultInv'
    BY <2>2 DEF HttpInv, ResultInv, Broken
  <2> QED BY <2>1, <2>3, <2>4
<1>2. SourceInv' /\ BodyInv'
  BY BodyFrame DEF Disconnect, Abandon, given
<1> QED BY <1>1, <1>2 DEF HttpInv

\* The task is stopped before the context is freed.
LEMMA CancelHttp == HttpInv /\ cancel_stream => HttpInv'
<1> SUFFICES ASSUME HttpInv, cancel_stream PROVE HttpInv'
  OBVIOUS
<1>1. PlaceInv' /\ SeenInv' /\ ResultInv'
  BY DEF HttpInv, PlaceInv, SeenInv, ResultInv, cancel_stream, given, Passed, MaxBody, Broken
<1>2. /\ pc = "cancel" /\ pc' = "done" /\ (emitter' = "off" <=> emitter = "off")
      /\ UNCHANGED <<response, status, path, source, inbox, body, gone>>
  BY DEF HttpInv, PlaceInv, cancel_stream, given
<1>3. /\ Full' = Full /\ FullChunks' = FullChunks /\ Meant' = Meant
  BY <1>2, StreamFrame
<1>4. SourceInv'
  BY <1>2, <1>3 DEF HttpInv, SourceInv
<1>5. BodyInv'
  <2>1. Thins(body, Meant) => Thins(body, Meant)'
    BY <1>2, <1>3 DEF Thins
  <2> QED BY <1>2, <1>3, <2>1 DEF HttpInv, BodyInv
<1> QED BY <1>1, <1>4, <1>5 DEF HttpInv

\* Every step of a request keeps the invariant.
LEMMA HttpStep == HttpInv /\ [HttpNext]_httpVars => HttpInv'
<1> SUFFICES ASSUME HttpInv, [HttpNext]_httpVars PROVE HttpInv'
  OBVIOUS
<1>1. CASE UNCHANGED httpVars
  <2>1. PlaceInv' /\ SeenInv' /\ ResultInv'
    BY <1>1 DEF HttpInv, PlaceInv, SeenInv, ResultInv, httpVars, Passed, MaxBody, Broken
  <2>2. SourceInv' /\ BodyInv'
    BY <1>1, BodyFrame DEF httpVars
  <2> QED BY <2>1, <2>2 DEF HttpInv
<1> QED BY <1>1, CheckHttp, CallHttp, ReturnHttp, StartStreamHttp, ReturnedHttp, EmitHttp, ServeHttp,
           LeaveHttp, CancelHttp DEF HttpNext

\* The inductive invariant of a request.
LEMMA HttpInvariant == HttpSpec => []HttpInv
BY HttpInvInit, HttpStep, PTL DEF HttpSpec

\* HttpRouteVTable::cancel_stream: when the host frees the context of a sink no
\* task of the plugin still pushes into it, for all routes, requests and streams.
THEOREM FreedSinkIsSilentAlways == HttpSpec => []FreedSinkIsSilent
<1>1. HttpInv => FreedSinkIsSilent
  BY DEF HttpInv, PlaceInv, FreedSinkIsSilent
<1> QED BY <1>1, HttpInvariant, PTL

\* http_route.rs: whatever the routes, the requests and the streams of a plugin,
\* what it sees is what was checked, an error has its cause, and a body served to
\* its end is the stream up to End, over either sink and however its chunks race
\* the head.
THEOREM ServedFaithfullyAlways == HttpSpec => []ServedFaithfully
<1>1. HttpInv => BodyIsWhole
  BY DEF HttpInv, BodyInv, BodyIsWhole
<1>2. HttpInv => HttpFailureForCause
  BY DEF HttpInv, ResultInv, HttpFailureForCause, Broken
<1>3. HttpInv => CheckedIsSeen
  BY DEF HttpInv, SeenInv, CheckedIsSeen, Passed, Some
<1> QED BY <1>1, <1>2, <1>3, HttpInvariant, PTL DEF ServedFaithfully

\* The invariant has the types of an exchange.
LEMMA HttpTypes == HttpInv => HttpTypeOK
<1> SUFFICES ASSUME HttpInv PROVE HttpTypeOK
  OBVIOUS
<1>1. \A i \in DOMAIN inbox : inbox[i].kind \in {"data", "event", "end"}
  <2>1. CASE emitter = "off"
    BY <2>1 DEF HttpInv, SourceInv
  <2>2. CASE emitter # "off"
    <3>1. inbox \in Seq(FullChunks) /\ response.tag = "stream" /\ response \in Responses
      BY <2>2 DEF HttpInv, PlaceInv, SourceInv, BodyInv
    <3>2. \A i \in DOMAIN inbox : inbox[i] \in FullChunks
      BY <3>1
    <3>3. \A c \in FullChunks : IsChunk(c)
      BY <3>1, FullShape
    <3>4. \A d, n : Data(d).kind = "data" /\ Event(n, d).kind = "event" /\ End.kind = "end"
      BY DEF Data, Event, End
    <3> QED BY <3>2, <3>3, <3>4 DEF IsChunk
  <2> QED BY <2>1, <2>2
<1>2. status \in {0, 200, 401, 413, 500} /\ panicked \in BOOLEAN
  BY DEF HttpInv, PlaceInv, ResultInv
<1>3. emitter = "off" => source = <<>>
  BY DEF HttpInv, SourceInv
<1> QED BY <1>1, <1>2, <1>3 DEF HttpInv, PlaceInv, HttpTypeOK

\* HttpRouteVTable: the exchange keeps to its states, and whatever waits for the
\* client is a chunk, for all routes, requests and streams.
THEOREM HttpTypeCorrect == HttpSpec => []HttpTypeOK
BY HttpTypes, HttpInvariant, PTL

(***************************************************************************)
(* MCPlugins: whichever of the six a behaviour follows                     *)
(***************************************************************************)

\* The one that is followed keeps its invariant; the others stand still, some of
\* them where their own specification never comes.
PluginInv ==
  /\ IF focus = "services" THEN ServicesInv ELSE ServicesStand
  /\ IF focus = "http" THEN HttpInv ELSE HttpStands
  /\ IF focus = "backend" THEN BackendInv /\ StatusInv ELSE BackendStands
  /\ IF focus = "watch" THEN WatchInv ELSE WatchStands
  /\ IF focus = "uri" THEN UriInv ELSE UriStands

\* One component starts, the others stand.
LEMMA PluginInvInit == PluginInit => PluginInv
BY ServicesInvInit, HttpInvInit, BackendInvInit, StatusInvInit, WatchInvInit, UriInvInit
DEF PluginInit, PluginInv

\* Who stands stands on.
LEMMA StandsOn ==
  /\ ServicesStand /\ UNCHANGED serviceVars => ServicesStand'
  /\ HttpStands /\ UNCHANGED httpVars => HttpStands'
  /\ BackendStands /\ UNCHANGED backendVars => BackendStands'
  /\ WatchStands /\ UNCHANGED watchVars => WatchStands'
  /\ UriStands /\ UNCHANGED uriVars => UriStands'
<1>1. ServicesStand /\ UNCHANGED serviceVars => ServicesStand'
  BY DEF ServicesStand, ServicesInit, serviceVars
<1>2. HttpStands /\ UNCHANGED httpVars => HttpStands'
  BY DEF HttpStands, httpVars
<1>3. BackendStands /\ UNCHANGED backendVars => BackendStands'
  BY DEF BackendStands, backendVars
<1>4. WatchStands /\ UNCHANGED watchVars => WatchStands'
  BY DEF WatchStands, watchVars
<1>5. UriStands /\ UNCHANGED uriVars => UriStands'
  BY DEF UriStands, uriVars
<1> QED BY <1>1, <1>2, <1>3, <1>4, <1>5

\* One component takes a step and the others none.
LEMMA PluginStep == PluginInv /\ [PluginNext]_pluginVars => PluginInv'
<1> SUFFICES ASSUME PluginInv, [PluginNext]_pluginVars PROVE PluginInv'
  OBVIOUS
<1>1. focus' = focus
  BY DEF PluginNext, pluginVars
<1>2. /\ IF focus = "services" THEN [ServicesNext]_serviceVars ELSE UNCHANGED serviceVars
      /\ IF focus = "http" THEN [HttpNext]_httpVars ELSE UNCHANGED httpVars
      /\ IF focus = "backend" THEN [BackendNext]_backendVars ELSE UNCHANGED backendVars
      /\ IF focus = "watch" THEN [WatchNext]_watchVars ELSE UNCHANGED watchVars
      /\ IF focus = "uri" THEN [UriNext]_uriVars ELSE UNCHANGED uriVars
  BY DEF PluginNext, pluginVars
<1> QED
  BY <1>1, <1>2, StandsOn, ServicesStep, HttpStep, BackendStep, StatusStep, WatchStep,
     UriNextKeepsInv DEF PluginInv

\* Where a component stands is of its type.
LEMMA StandsAreTyped ==
  /\ ServicesStand => ServicesTypeOK
  /\ HttpStands => HttpTypeOK
  /\ BackendStands => BackendTypeOK
  /\ WatchStands => WatchTypeOK
  /\ UriStands => UriTypeOK
<1>1. ServicesStand => ServicesTypeOK
  BY ServicesInvInit DEF ServicesStand, ServicesInv
<1>2. HttpStands => HttpTypeOK
  <2> SUFFICES ASSUME HttpStands PROVE HttpTypeOK
    OBVIOUS
  <2>1. response.tag = "bytes" /\ inbox = <<>> /\ DOMAIN inbox = {}
    BY DEF HttpStands, Bytes
  <2>2. /\ pc = "done" /\ status = 401 /\ handler = "idle" /\ emitter = "off" /\ bridge = "live"
        /\ path = "sink" /\ gone = FALSE /\ panicked = FALSE
    BY DEF HttpStands
  <2> QED BY <2>1, <2>2 DEF HttpTypeOK
<1>3. BackendStands => BackendTypeOK
  BY DEF BackendStands, BackendTypeOK, Backends, Hosts, NoCall, NoReply
<1>4. WatchStands => WatchTypeOK
  BY QueueHoldsSome, PositionsOf DEF WatchStands, WatchTypeOK, NoResume
<1>5. UriStands => UriTypeOK
  <2> SUFFICES ASSUME UriStands PROVE UriTypeOK
    OBVIOUS
  <2>1. Schemes = {}
    BY DEF UriStands, Schemes
  <2>2. bindings \in [Schemes -> {NoValue} \cup {Just(p) : p \in Providers}]
    BY <2>1 DEF UriStands
  <2>3. version = 0 /\ emitted = 0 /\ applied = 0 /\ faults = 0 /\ fault = NoValue /\ held = NoValue
        /\ step = "stopped" /\ watching = FALSE /\ polling = FALSE
    BY DEF UriStands
  <2>4. doc \in [Sections -> 0..version]
    BY <2>3 DEF UriStands
  <2>5. fault \in {NoValue} \cup {Just(f) : f \in Faults(doc_kind)}
    BY <2>3
  <2>6. version \in 0..MaxVersion /\ emitted \in 0..version /\ faults \in 0..MaxFaults /\ applied \in 0..version
    BY <2>3, UriIsBounded
  <2> QED BY <2>2, <2>3, <2>4, <2>5, <2>6 DEF UriTypeOK
<1> QED BY <1>1, <1>2, <1>3, <1>4, <1>5

\* MCPlugins: in the composed run's specification, for all its constants, every
\* component's state keeps its type, whichever is followed.
THEOREM PluginsTypeCorrect == PluginSpec => []PluginsTypeOK
<1>1. PluginInv => PluginsTypeOK
  <2> SUFFICES ASSUME PluginInv PROVE PluginsTypeOK
    OBVIOUS
  <2>1. ServicesTypeOK
    BY StandsAreTyped DEF PluginInv, ServicesInv
  <2>2. HttpTypeOK /\ BackendTypeOK
    BY StandsAreTyped, HttpTypes, BackendTypes DEF PluginInv
  <2>3. WatchTypeOK
    BY StandsAreTyped, WatchTypes DEF PluginInv
  <2>4. UriTypeOK
    BY StandsAreTyped, UriTypes DEF PluginInv
  <2> QED BY <2>1, <2>2, <2>3, <2>4 DEF PluginsTypeOK
<1> QED BY <1>1, PluginInvInit, PluginStep, PTL DEF PluginSpec

=============================================================================
