---------------------------- MODULE SharedProofs ----------------------------
(***************************************************************************)
(* Proofs about what gateways share: the approvals that paused calls wait  *)
(* for (Approvals), the key-value slots of a cluster's coordinator         *)
(* (ClusterKv) and the keys of a store plugin (KeyedState).                *)
(***************************************************************************)
EXTENDS MCShared, LoopProofs, FiniteSetTheorems, WellFoundedInduction, NaturalsInduction,
        TLAPS

(***************************************************************************)
(* Approvals: a call ends once, and for a cause                            *)
(***************************************************************************)

\* The tables are functions of the approval id.
ApprovalTables ==
  /\ paused \in [Ids -> {"none", "pending"} \cup Ended] /\ time_left \in [Ids -> 0..MaxLeft]
  /\ answers \subseteq [id : Ids, outcome : Outcomes]
  /\ pressed \in [Ids -> SUBSET Outcomes]
  /\ todo = [id \in Ids |-> todo[id]] /\ asked = [id \in Ids |-> asked[id]]
  /\ posted = [id \in Ids |-> posted[id]] /\ failed = [id \in Ids |-> failed[id]]

\* Before its gate has answered a call is shown to nobody.
UnaskedInv ==
  \A id \in Ids : paused[id] = "none" =>
    todo[id] = <<>> /\ posted[id] = {} /\ failed[id] = {} /\ \A a \in answers : a.id # id

\* An answer on its way was decided in time, or its time is over.
AnswerInv == \A a \in answers : time_left[a.id] = 0 \/ a.outcome \in pressed[a.id]

ApprovalInv == ApprovalTables /\ UnaskedInv /\ AnswerInv /\ AnsweredByAHuman /\ FailureForCause

\* Before a request for approval nothing has ended.
LEMMA ApprovalInvInit == ApprovalInit => ApprovalInv
BY DeadlineIsBounded DEF ApprovalInit, ApprovalInv, ApprovalTables, UnaskedInv, AnswerInv,
   AnsweredByAHuman, FailureForCause, CallAfter, Outcomes, Ended

\* The gateway pauses a call, or ends it without an answer.
LEMMA GatewayKeepsInv ==
  ASSUME ApprovalInv, NEW id \in Ids,
         PendingApproval(id) \/ DispatchFailed(id) \/ ExpireCall(id)
  PROVE  ApprovalInv'
<1> USE DEF ApprovalInv, Ended, Outcomes
<1>1. UNCHANGED <<posted, failed, answers, pressed>>
  BY DEF PendingApproval, DispatchFailed, ExpireCall
<1>2. CASE PendingApproval(id)
  <2>1. PICK target \in Targets[id], deadline \in 0..MaxLeft :
          /\ todo' = [todo EXCEPT ![id] = Notifiers(target)]
          /\ asked' = [asked EXCEPT ![id] = ToSet(Notifiers(target))]
          /\ time_left' = [time_left EXCEPT ![id] = deadline]
    BY <1>2 DEF PendingApproval
  <2>2. paused[id] = "none" /\ paused' = [paused EXCEPT ![id] = "pending"]
    BY <1>2 DEF PendingApproval
  <2>3. ApprovalTables'
    BY <1>1, <2>1, <2>2 DEF ApprovalTables
  <2>4. UnaskedInv'
    BY <1>1, <2>1, <2>2 DEF UnaskedInv, ApprovalTables
  <2>5. AnswerInv'
    BY <1>1, <2>1, <2>2 DEF AnswerInv, UnaskedInv, ApprovalTables
  <2>6. AnsweredByAHuman' /\ FailureForCause'
    BY <1>1, <2>1, <2>2 DEF AnsweredByAHuman, FailureForCause, CallAfter, ApprovalTables
  <2> QED BY <2>3, <2>4, <2>5, <2>6
<1>3. CASE DispatchFailed(id) \/ ExpireCall(id)
  <2>1. UNCHANGED <<time_left, asked, todo>> /\ paused' = [paused EXCEPT ![id] = "503"]
    BY <1>3 DEF DispatchFailed, ExpireCall
  <2>2. paused[id] = "pending"
    BY <1>3 DEF DispatchFailed, ExpireCall
  <2>3. ApprovalTables' /\ UnaskedInv' /\ AnswerInv'
    BY <1>1, <2>1 DEF ApprovalTables, UnaskedInv, AnswerInv
  <2>4. AnsweredByAHuman'
    BY <1>1, <2>1 DEF AnsweredByAHuman, CallAfter, ApprovalTables
  <2>5. FailureForCause'
    BY <1>1, <1>3, <2>1 DEF DispatchFailed, ExpireCall, FailureForCause, ApprovalTables
  <2> QED BY <2>3, <2>4, <2>5
<1> QED BY <1>2, <1>3

\* Time passes: a deadline that is over stays over.
LEMMA DeadlineKeepsInv ==
  ASSUME ApprovalInv, TickDeadline
  PROVE  ApprovalInv'
<1> USE DEF ApprovalInv, TickDeadline
<1>1. \A id \in Ids : time_left'[id] \in 0..MaxLeft /\ (time_left[id] = 0 => time_left'[id] = 0)
  BY DeadlineIsBounded DEF ApprovalTables
<1>2. ApprovalTables'
  BY <1>1 DEF ApprovalTables
<1>3. UnaskedInv' /\ AnsweredByAHuman'
  BY DEF UnaskedInv, AnsweredByAHuman
<1>4. AnswerInv' /\ FailureForCause'
  BY <1>1 DEF AnswerInv, FailureForCause, ApprovalTables
<1> QED BY <1>2, <1>3, <1>4

\* An answer that counts is one a human gave in time.
LEMMA ResolveKeepsInv ==
  ASSUME ApprovalInv, NEW answer \in answers, Resolve(answer)
  PROVE  ApprovalInv'
<1> USE DEF ApprovalInv, Ended, Outcomes
<1>1. UNCHANGED <<time_left, asked, todo, posted, failed, answers, pressed>>
  BY DEF Resolve
<1>2. CASE paused' = paused
  BY <1>1, <1>2 DEF ApprovalTables, UnaskedInv, AnswerInv, AnsweredByAHuman, FailureForCause
<1>3. CASE /\ paused[answer.id] = "pending" /\ time_left[answer.id] > 0
           /\ paused' = [paused EXCEPT ![answer.id] = CallAfter(answer.outcome)]
  <2>1. answer.id \in Ids /\ answer.outcome \in pressed[answer.id] /\ answer.outcome \in Outcomes
    BY <1>3 DEF ApprovalTables, AnswerInv
  <2>2. ApprovalTables' /\ UnaskedInv' /\ AnswerInv'
    BY <1>1, <1>3, <2>1 DEF ApprovalTables, UnaskedInv, AnswerInv, CallAfter
  <2>3. AnsweredByAHuman' /\ FailureForCause'
    BY <1>1, <1>3, <2>1 DEF AnsweredByAHuman, FailureForCause, CallAfter, ApprovalTables
  <2> QED BY <2>2, <2>3
<1> QED BY <1>2, <1>3 DEF Resolve

\* Notifiers post, return and fail; a failure that was final stays so.
LEMMA NotifierKeepsInv ==
  ASSUME ApprovalInv, NEW id \in Ids, Post(id) \/ notify(id) \/ NotificationError(id)
  PROVE  ApprovalInv'
<1> USE DEF ApprovalInv
<1>1. UNCHANGED <<paused, time_left, asked, answers, pressed>> /\ todo[id] # <<>>
  BY DEF Post, notify, NotificationError
<1>2. ApprovalTables'
  BY <1>1 DEF ApprovalTables, Post, notify, NotificationError
<1>3. \A x \in Ids \ {id} : todo'[x] = todo[x] /\ failed'[x] = failed[x] /\ posted'[x] = posted[x]
  BY DEF ApprovalTables, Post, notify, NotificationError
<1>4. UnaskedInv' /\ FailureForCause'
  BY <1>1, <1>3 DEF UnaskedInv, FailureForCause
<1>5. AnswerInv' /\ AnsweredByAHuman'
  BY <1>1 DEF AnswerInv, AnsweredByAHuman
<1> QED BY <1>2, <1>4, <1>5

\* A body is read as what its writer meant, if it can be read at all.
LEMMA ReadAsWritten == \A body : Decoded(body) \subseteq Outcomes \cap {MeantBy(body)}
BY DEF Decoded, MeantBy, tag, Outcomes

\* Humans answer, perhaps late: what counts is recorded as decided in time.
LEMMA HumanKeepsInv ==
  ASSUME ApprovalInv, NEW id \in Ids,
         \/ \E outcome \in Outcomes : Press(id, outcome)
         \/ \E body \in Bodies : DirectPost(id, body)
  PROVE  ApprovalInv'
<1> USE DEF ApprovalInv
<1>1. PICK outcome \in Outcomes : \E n \in SUBSET [id : {id}, outcome : {outcome}] :
        /\ posted[id] # {} /\ Decide(id, outcome) /\ answers' = answers \cup n
        /\ UNCHANGED <<paused, time_left, asked, todo, posted, failed>>
  <2>1. ASSUME NEW o \in Outcomes, Press(id, o)
        PROVE  \E n \in SUBSET [id : {id}, outcome : {o}] :
                 /\ posted[id] # {} /\ Decide(id, o) /\ answers' = answers \cup n
                 /\ UNCHANGED <<paused, time_left, asked, todo, posted, failed>>
    <3>1. {[id |-> id, outcome |-> o]} \in SUBSET [id : {id}, outcome : {o}]
      OBVIOUS
    <3> QED BY <2>1, <3>1 DEF Press
  <2>2. ASSUME NEW body \in Bodies, DirectPost(id, body)
        PROVE  \E n \in SUBSET [id : {id}, outcome : {MeantBy(body)}] :
                 /\ posted[id] # {} /\ Decide(id, MeantBy(body)) /\ answers' = answers \cup n
                 /\ UNCHANGED <<paused, time_left, asked, todo, posted, failed>>
    <3>1. [id : {id}, outcome : Decoded(body)] \in SUBSET [id : {id}, outcome : {MeantBy(body)}]
      BY ReadAsWritten
    <3> QED BY <2>2, <3>1 DEF DirectPost
  <2>3. \A body : MeantBy(body) \in Outcomes
    BY DEF MeantBy, Outcomes
  <2> QED BY <2>1, <2>2, <2>3
<1>2. PICK new \in SUBSET [id : {id}, outcome : {outcome}] : answers' = answers \cup new
  BY <1>1
<1>3. paused[id] # "none"
  BY <1>1 DEF UnaskedInv
<1>4. \A x \in Ids : /\ pressed[x] \subseteq pressed'[x] /\ pressed'[x] \subseteq Outcomes
                     /\ x # id => pressed'[x] = pressed[x]
  BY <1>1 DEF Decide, ApprovalTables
<1>5. time_left[id] > 0 => outcome \in pressed'[id]
  BY <1>1 DEF Decide, ApprovalTables
<1>6. ApprovalTables'
  <2>1. pressed' \in [Ids -> SUBSET Outcomes]
    BY <1>1 DEF Decide, ApprovalTables
  <2>2. answers' \subseteq [id : Ids, outcome : Outcomes]
    BY <1>2 DEF ApprovalTables
  <2> QED BY <1>1, <2>1, <2>2 DEF ApprovalTables
<1>7. UnaskedInv'
  BY <1>1, <1>2, <1>3 DEF UnaskedInv
<1>8. AnswerInv'
  <2> SUFFICES ASSUME NEW a \in answers', time_left[a.id] # 0
               PROVE  a.outcome \in pressed'[a.id]
    BY <1>1 DEF AnswerInv
  <2>1. CASE a \in answers
    BY <1>4, <2>1 DEF AnswerInv, ApprovalTables
  <2>2. CASE a \in new
    <3>1. a.id = id /\ a.outcome = outcome
      BY <2>2
    <3>2. time_left[id] > 0
      BY <3>1 DEF ApprovalTables
    <3> QED BY <1>5, <3>1, <3>2
  <2> QED BY <1>2, <2>1, <2>2
<1>9. AnsweredByAHuman' /\ FailureForCause'
  BY <1>1, <1>4 DEF AnsweredByAHuman, FailureForCause
<1> QED BY <1>6, <1>7, <1>8, <1>9

\* A call keeps a list of notifiers still to be called, all of them bound and asked.
NotifiersInv ==
  \A id \in Ids :
    /\ todo[id] \in Seq(asked[id] \cap ToSet(Bound))
    /\ posted[id] \subseteq asked[id] /\ failed[id] \subseteq asked[id]

\* An empty target_notifiers is every notifier bound; of others the bound ones.
LEMMA NotifiersAreBound ==
  ASSUME NEW id \in Ids, NEW target \in Targets[id]
  PROVE  Notifiers(target) \in Seq(ToSet(Notifiers(target)) \cap ToSet(Bound))
<1> DEFINE n == Notifiers(target)
<1>1. n \in Seq(ToSet(Bound))
  <2>1. Bound \in Seq(ToSet(Bound)) /\ target \in Seq(ToSet(target))
    BY NotifiersAreLists
  <2>2. Within(target, ToSet(Bound)) \in Seq(ToSet(Bound))
    BY <2>1, WithinIs
  <2> QED BY <2>1, <2>2 DEF Notifiers
<1> HIDE DEF n
<1>2. \A i \in 1..Len(n) : n[i] \in ToSet(n) \cap ToSet(Bound)
  BY <1>1 DEF ToSet
<1>3. n = [i \in 1..Len(n) |-> n[i]] /\ Len(n) \in Nat
  BY <1>1
<1>4. n \in Seq(ToSet(n) \cap ToSet(Bound))
  BY <1>2, <1>3
<1> QED BY <1>4 DEF n

\* The gateway's and the notifiers' steps keep to the notifiers asked.
LEMMA NotifiersStep ==
  ASSUME ApprovalInv, NotifiersInv, [ApprovalNext]_approvalVars
  PROVE  NotifiersInv'
<1>1. /\ todo = [id \in Ids |-> todo[id]] /\ asked = [id \in Ids |-> asked[id]]
      /\ posted = [id \in Ids |-> posted[id]] /\ failed = [id \in Ids |-> failed[id]]
  BY DEF ApprovalInv, ApprovalTables
<1>2. ASSUME UNCHANGED <<asked, todo, posted, failed>> PROVE NotifiersInv'
  BY <1>2 DEF NotifiersInv
<1>3. ASSUME NEW id \in Ids, PendingApproval(id) PROVE NotifiersInv'
  <2>1. PICK target \in Targets[id] :
          /\ todo' = [todo EXCEPT ![id] = Notifiers(target)]
          /\ asked' = [asked EXCEPT ![id] = ToSet(Notifiers(target))]
    BY <1>3 DEF PendingApproval
  <2>2. paused[id] = "none" /\ UNCHANGED <<posted, failed>>
    BY <1>3 DEF PendingApproval
  <2>3. posted[id] = {} /\ failed[id] = {}
    BY <2>2 DEF ApprovalInv, UnaskedInv
  <2>4. Notifiers(target) \in Seq(ToSet(Notifiers(target)) \cap ToSet(Bound))
    BY NotifiersAreBound
  <2> QED BY <1>1, <2>1, <2>2, <2>3, <2>4 DEF NotifiersInv
<1>4. ASSUME NEW id \in Ids, Post(id) \/ notify(id) \/ NotificationError(id) PROVE NotifiersInv'
  <2> DEFINE S == asked[id] \cap ToSet(Bound)
  <2>1. todo[id] # <<>> /\ todo[id] \in Seq(S) /\ asked' = asked
    BY <1>4 DEF Post, notify, NotificationError, NotifiersInv
  <2> HIDE DEF S
  <2>2. Head(todo[id]) \in S /\ Tail(todo[id]) \in Seq(S)
    BY <2>1
  <2>3. \A x \in Ids \ {id} : todo'[x] = todo[x] /\ failed'[x] = failed[x] /\ posted'[x] = posted[x]
    BY <1>1, <1>4 DEF Post, notify, NotificationError
  <2>4. /\ todo'[id] \in {todo[id], Tail(todo[id])}
        /\ posted'[id] \subseteq posted[id] \cup {Head(todo[id])}
        /\ failed'[id] \subseteq failed[id] \cup {Head(todo[id])}
    BY <1>1, <1>4 DEF Post, notify, NotificationError
  <2>5. todo'[id] \in Seq(S)
    BY <2>1, <2>2, <2>4
  <2> QED BY <2>1, <2>2, <2>3, <2>4, <2>5 DEF S, NotifiersInv
<1> QED
  BY <1>2, <1>3, <1>4 DEF ApprovalNext, approvalVars, TickDeadline, DispatchFailed, ExpireCall,
     Resolve, Press, DirectPost

\* Before a request for approval nobody is asked.
LEMMA NotifiersInit == ApprovalInit => NotifiersInv
BY DEF ApprovalInit, NotifiersInv

\* Every step of the approvals keeps both invariants.
LEMMA ApprovalStep ==
  ASSUME ApprovalInv, NotifiersInv, [ApprovalNext]_approvalVars
  PROVE  ApprovalInv' /\ NotifiersInv'
<1>1. ASSUME UNCHANGED approvalVars PROVE ApprovalInv'
  BY <1>1 DEF approvalVars, ApprovalInv, ApprovalTables, UnaskedInv, AnswerInv,
     AnsweredByAHuman, FailureForCause
<1>2. ASSUME ApprovalNext PROVE ApprovalInv'
  BY <1>2, GatewayKeepsInv, DeadlineKeepsInv, ResolveKeepsInv, NotifierKeepsInv,
     HumanKeepsInv DEF ApprovalNext
<1> QED BY <1>1, <1>2, NotifiersStep

\* The inductive invariant of the approvals.
LEMMA ApprovalInvariant == ApprovalSpec => [](ApprovalInv /\ NotifiersInv)
<1>1. ApprovalInv /\ NotifiersInv /\ [ApprovalNext]_approvalVars => ApprovalInv' /\ NotifiersInv'
  BY ApprovalStep
<1> QED BY <1>1, ApprovalInvInit, NotifiersInit, PTL DEF ApprovalSpec

\* The two invariants have the types of the approvals' state.
LEMMA ApprovalTypes == ApprovalInv /\ NotifiersInv => ApprovalTypeOK
<1> SUFFICES ASSUME ApprovalInv, NotifiersInv, NEW id \in Ids
             PROVE  /\ ToSet(todo[id]) \subseteq asked[id] \cap ToSet(Bound)
                    /\ posted[id] \cup failed[id] \subseteq asked[id]
  BY DEF ApprovalTypeOK, ApprovalInv, ApprovalTables
<1>1. todo[id] \in Seq(asked[id] \cap ToSet(Bound))
  BY DEF NotifiersInv
<1>2. ToSet(todo[id]) \subseteq asked[id] \cap ToSet(Bound)
  BY <1>1 DEF ToSet
<1> QED BY <1>2 DEF NotifiersInv

\* For any notifiers, targets and calls: only notifiers that are bound are
\* called, and only those asked have posted or failed (target_notifiers).
THEOREM ApprovalTypeCorrect == ApprovalSpec => []ApprovalTypeOK
BY ApprovalTypes, ApprovalInvariant, PTL

\* For any notifiers, targets, bodies and deadlines: a call is resumed or denied
\* only as a human who saw the request decided before the deadline, and fails
\* only when the deadline passed or no notifier took it.
THEOREM EndedForCauseHolds == ApprovalSpec => []EndedForCause
<1>1. ApprovalInv => EndedForCause
  BY DEF ApprovalInv, EndedForCause
<1> QED BY <1>1, ApprovalInvariant, PTL

\* A call that has ended stays as it ended: no duplicate or late answer, no
\* second click and no end of the dispatch changes it.
THEOREM EndsOnceHolds == ApprovalSpec => EndsOnce
<1> DEFINE Kept == \A id \in Ids : paused[id] \in Ended => paused'[id] = paused[id]
<1>1. ApprovalInv /\ [ApprovalNext]_approvalVars => [Kept]_approvalVars
  <2> SUFFICES ASSUME ApprovalInv, ApprovalNext PROVE Kept
    OBVIOUS
  <2>1. ASSUME NEW id \in Ids,
               PendingApproval(id) \/ DispatchFailed(id) \/ ExpireCall(id)
        PROVE  Kept
    BY <2>1 DEF PendingApproval, DispatchFailed, ExpireCall, ApprovalInv, ApprovalTables, Ended
  <2>2. ASSUME NEW answer \in answers, Resolve(answer)
        PROVE  Kept
    BY <2>2 DEF Resolve, ApprovalInv, ApprovalTables, Ended
  <2>3. CASE UNCHANGED paused
    BY <2>3
  <2> QED
    BY <2>1, <2>2, <2>3 DEF ApprovalNext, TickDeadline, Post, notify, NotificationError,
       Press, DirectPost
<1> QED BY <1>1, ApprovalInvariant, PTL DEF ApprovalSpec, EndsOnce

(***************************************************************************)
(* ClusterKv: gateways and plugins of any age                              *)
(***************************************************************************)

\* What is written in base64 or as an array is read back by whoever reads that
\* form.
LEMMA WireRoundTrip ==
  ASSUME NEW v \in Values, NEW base64 \in BOOLEAN, NEW reads \in BOOLEAN, base64 => reads
  PROVE  Decode(reads, serialize(WireBytes(v, base64))) = Some(WireBytes(v, base64))
<1>1. v \in Seq(Nat)
  BY ValuesAreBytes
<1>2. Tail(Base64 \o v) = v
  BY <1>1 DEF Base64
<1>3. CASE base64
  BY <1>2, <1>3 DEF Decode, deserialize, serialize, WireBytes
<1>4. CASE ~base64
  BY <1>4 DEF Decode, deserialize, deserialize_legacy, serialize, WireBytes
<1> QED BY <1>3, <1>4

KvInv == KvTypeOK /\ AnyAgeReads

\* The bytes of kv_put are read as they were written, whichever side is older.
LEMMA PutReads ==
  ASSUME KvInv, NEW n \in Gateways, NEW v \in Values
  PROVE  /\ Decode(PluginReadsBase64(n), KvPutArgs(n, v)) # Absent
         /\ Decode(PluginReadsBase64(n), KvPutArgs(n, v))[1].bytes = v
<1>1. modern[n] \in BOOLEAN /\ PluginReadsBase64(n) \in BOOLEAN
  BY DEF KvInv, KvTypeOK, PluginReadsBase64
<1>2. Decode(PluginReadsBase64(n), KvPutArgs(n, v))
        = Some(WireBytes(v, modern[n] /\ PluginReadsBase64(n)))
  BY <1>1, WireRoundTrip DEF KvPutArgs
<1> QED BY <1>2 DEF Some, Absent, WireBytes

\* The bytes of kv_get are read as they are stored, whichever side is older.
LEMMA GetReads ==
  ASSUME KvInv, NEW n \in Gateways, value # Absent
  PROVE  /\ Decode(modern[n], KvEntryWire(n)) # Absent
         /\ Some(Decode(modern[n], KvEntryWire(n))[1].bytes) = value
<1>1. modern[n] \in BOOLEAN /\ PluginReadsBase64(n) \in BOOLEAN
  BY DEF KvInv, KvTypeOK, PluginReadsBase64
<1>2. value[1] \in Values /\ value = Some(value[1])
  BY DEF KvInv, KvTypeOK, Some
<1>3. Decode(modern[n], KvEntryWire(n)) = Some(WireBytes(value[1], modern[n] /\ PluginReadsBase64(n)))
  BY <1>1, <1>2, WireRoundTrip DEF KvEntryWire
<1> QED BY <1>2, <1>3 DEF Some, Absent, WireBytes

\* kv_incr answers more than the floor a gateway sends: the last count it knows.
LEMMA IncrCounts ==
  ASSUME KvInv, NEW n \in Gateways
  PROVE  /\ kv_incr_result(n) \in Nat
         /\ Floor(n) # Absent => kv_incr_result(n) > known[n]
<1>1. known[n] \in Nat
  BY DEF KvInv, KvTypeOK
<1>2. counter # Absent => counter[1] \in Nat
  BY DEF KvInv, KvTypeOK, Some
<1> QED BY <1>1, <1>2 DEF kv_incr_result, Floor, Highest, Some, Absent

\* Every call on the key-value store keeps what gateways know of it true.
LEMMA KvStep == KvInv /\ [KvNext]_kvVars => KvInv'
<1> SUFFICES ASSUME KvInv, [KvNext]_kvVars PROVE KvInv'
  OBVIOUS
<1> USE DEF Outcome
<1>1. CASE UNCHANGED kvVars
  BY <1>1 DEF kvVars, KvInv, KvTypeOK, AnyAgeReads
<1>2. ASSUME NEW n \in Gateways, NEW v \in Values, kv_put(n, v)
      PROVE  KvInv'
  BY <1>2, PutReads DEF kv_put, KvInv, KvTypeOK, AnyAgeReads, Some
<1>3. ASSUME NEW n \in Gateways, NEW v \in Values, kv_put_if_absent(n, v)
      PROVE  KvInv'
  BY <1>3, PutReads DEF kv_put_if_absent, KvInv, KvTypeOK, AnyAgeReads, Some
<1>4. ASSUME NEW n \in Gateways, kv_get(n)
      PROVE  KvInv'
  BY <1>4, GetReads DEF kv_get, KvInv, KvTypeOK, AnyAgeReads, Some
<1>5. ASSUME NEW n \in Gateways, kv_delete(n)
      PROVE  KvInv'
  BY <1>5 DEF kv_delete, KvInv, KvTypeOK, AnyAgeReads, Some
<1>6. ASSUME NEW n \in Gateways, kv_incr(n)
      PROVE  KvInv'
  <2>1. kv_incr_result(n) \in 0..MaxCount
    BY <1>6, IncrCounts, CountIsBounded DEF kv_incr
  <2> QED BY <1>6, <2>1 DEF kv_incr, KvInv, KvTypeOK, AnyAgeReads
<1>7. CASE ExpireEntry
  BY <1>7 DEF ExpireEntry, KvInv, KvTypeOK, AnyAgeReads
<1>8. ASSUME NEW n \in Gateways, NEW q \in Gateways, Learn(n, q)
      PROVE  KvInv'
  BY <1>8 DEF Learn, KvInv, KvTypeOK, AnyAgeReads
<1> QED BY <1>1, <1>2, <1>3, <1>4, <1>5, <1>6, <1>7, <1>8 DEF KvNext

\* An empty store.
LEMMA KvInvInit == KvInit => KvInv
BY CountIsBounded DEF KvInit, KvInv, KvTypeOK, AnyAgeReads, Outcome, Some, Absent

\* The store holds values that were put and counts within the bound.
LEMMA KvInvariant == KvSpec => []KvInv
BY KvInvInit, KvStep, PTL DEF KvSpec

\* For any gateways and plugins, each old or new: every put, get and
\* put_if_absent means what it says, and a gateway that sends its floor is
\* never given a count again, even after the store lost the counter.
THEOREM AgesAgreeHolds == KvSpec => AgesAgree
<1> DEFINE Up == \A n \in Gateways : kv_incr(n) /\ Floor(n) # Absent => known'[n] > known[n]
<1>1. KvInv => AnyAgeReads
  BY DEF KvInv
<1>2. KvInv /\ [KvNext]_kvVars => [Up]_kvVars
  BY IncrCounts DEF kv_incr, KvInv, KvTypeOK
<1> QED BY <1>1, <1>2, KvInvariant, PTL DEF KvSpec, AgesAgree, CountsGoUp

(***************************************************************************)
(* KeyedState: clients of a store see what was written                     *)
(***************************************************************************)

\* A map per role holds what was last written under its name, as it crossed,
\* and a value's bytes are the stamp of its write.
TableInv ==
  \A n \in Names, k \in Keys :
    /\ db[At(n)][k] = Cross(last[n][k])
    /\ last[n][k] # None => last[n][k].bytes = changed[n][k]

\* What a client saw is no younger than when it saw it, and still there unless
\* the key has changed since.
Sighted(r) ==
  /\ r.at <= stamp /\ (r.value # None => r.value.bytes <= r.at)
  /\ changed[r.name][r.key] <= r.at => Cross(r.value) = Cross(last[r.name][r.key])

SightInv == \A c \in Clients : seen[c] # None => Sighted(seen[c])

\* The pages behind the cursor hold every key that was there all the while.
Got == UNION {scan.got[i] : i \in DOMAIN scan.got}

ScanInv ==
  scan # None =>
    /\ scan.steady \subseteq Present(scan.name)
    /\ \A i, j \in DOMAIN scan.got : i # j => scan.got[i] \cap scan.got[j] = {}
    /\ \A k \in Got : scan.cursor # None => k <= scan.cursor
    /\ \A k \in scan.steady : scan.cursor = None \/ k <= scan.cursor => k \in Got

StoreInv == StoreTypeOK /\ TableInv /\ SightInv /\ ScanInv /\ WatcherCatchesUp

\* as_millis, capped at what a u64 holds.
LEMMA MillisOf ==
  ASSUME NEW d \in Nat
  PROVE  millis(d) = IF d \div TICKS_PER_MS <= U64_MAX THEN d \div TICKS_PER_MS ELSE U64_MAX
<1> DEFINE m == IF d \div TICKS_PER_MS <= U64_MAX THEN d \div TICKS_PER_MS ELSE U64_MAX
           S == {d \div TICKS_PER_MS, U64_MAX}
<1>1. d \div TICKS_PER_MS \in Int /\ U64_MAX \in Int
  BY DEF TICKS_PER_MS, U64_MAX
<1>2. m \in S /\ \A y \in S : m <= y
  BY <1>1
<1>3. \A x \in S : (\A y \in S : x <= y) => x = m
  BY <1>1, <1>2
<1>4. (CHOOSE x \in S : \A y \in S : x <= y) = m
  <2> HIDE DEF m, S
  <2> QED BY <1>2, <1>3
<1> QED BY <1>4 DEF millis, Min

\* A TTL that crosses is cut to the millisecond, and one that has crossed is
\* left alone.
LEMMA TtlCrosses ==
  ASSUME NEW d \in Nat
  PROVE  /\ millis(d) \in 0..U64_MAX /\ millis(d) * TICKS_PER_MS \in Nat
         /\ SameTtl(millis(d) * TICKS_PER_MS, d)
         /\ \A ms \in 0..U64_MAX : d = ms * TICKS_PER_MS => millis(d) * TICKS_PER_MS = d
<1>1. d \div 2 \in Nat /\ 2 * (d \div 2) <= d /\ d < 2 * (d \div 2) + 2
  OBVIOUS
<1>2. millis(d) = IF d \div 2 <= 3 THEN d \div 2 ELSE 3
  BY MillisOf DEF TICKS_PER_MS, U64_MAX
<1>3. None \notin Nat
  BY NoneIsApart
<1> QED BY <1>1, <1>2, <1>3 DEF TICKS_PER_MS, U64_MAX, SameTtl

\* StoreValueWire: the bytes and the metadata cross as they are.
LEMMA CrossOf ==
  ASSUME NEW v \in WrittenValues \cup StoredValues
  PROVE  /\ v # None /\ v = StoreValue(v.bytes, v.ttl, v.metadata)
         /\ v.ttl # None => v.ttl \in Nat
         /\ v.bytes \in 1..MaxWrites /\ v.metadata \in {s[2] : s \in Shapes}
         /\ Cross(v) = StoreValue(v.bytes, IF v.ttl = None THEN None ELSE millis(v.ttl) * TICKS_PER_MS,
                                  v.metadata)
<1>1. v # None
  BY NoneIsApart
<1>2. /\ v = StoreValue(v.bytes, v.ttl, v.metadata)
      /\ v.bytes \in 1..MaxWrites /\ v.metadata \in {s[2] : s \in Shapes}
  BY DEF WrittenValues, StoredValues, StoreValue
<1>3. v.ttl # None => v.ttl \in Nat
  <2>1. CASE v \in WrittenValues
    BY <2>1, TtlsAreDurations DEF WrittenValues
  <2>2. CASE v \in StoredValues
    BY <2>2 DEF StoredValues, TICKS_PER_MS, U64_MAX
  <2> QED BY <2>1, <2>2
<1>4. value_from_wire(value_to_wire(v))
        = StoreValue(v.bytes, IF v.ttl = None THEN None ELSE millis(v.ttl) * TICKS_PER_MS, v.metadata)
  <2> DEFINE w == value_to_wire(v)
  <2>1. w.bytes = v.bytes
    BY DEF value_to_wire
  <2>2. /\ "ttl_ms" \in DOMAIN w <=> v.ttl # None
        /\ v.ttl # None => w.ttl_ms = millis(v.ttl)
    BY DEF value_to_wire
  <2>3. /\ "metadata" \in DOMAIN w <=> v.metadata # {}
        /\ v.metadata # {} => w.metadata = v.metadata
    BY DEF value_to_wire
  <2> HIDE DEF w
  <2>4. value_from_wire(w)
          = StoreValue(v.bytes, IF v.ttl = None THEN None ELSE millis(v.ttl) * TICKS_PER_MS, v.metadata)
    BY <2>1, <2>2, <2>3 DEF value_from_wire
  <2> QED BY <2>4 DEF w
<1> QED BY <1>1, <1>2, <1>3, <1>4 DEF Cross

\* A value that crosses to the store keeps its bytes, its metadata and its time
\* to live in milliseconds.
LEMMA CrossStores ==
  ASSUME NEW v \in WrittenValues \cup StoredValues
  PROVE  /\ Cross(v) \in StoredValues /\ Cross(v) # None
         /\ Cross(v).bytes = v.bytes /\ Cross(v).metadata = v.metadata
         /\ SameTtl(Cross(v).ttl, v.ttl)
         /\ v \in StoredValues => Cross(v) = v
<1> DEFINE t == IF v.ttl = None THEN None ELSE millis(v.ttl) * TICKS_PER_MS
<1>1. /\ v = StoreValue(v.bytes, v.ttl, v.metadata) /\ (v.ttl # None => v.ttl \in Nat)
      /\ v.bytes \in 1..MaxWrites /\ v.metadata \in {s[2] : s \in Shapes}
      /\ Cross(v) = StoreValue(v.bytes, t, v.metadata)
  BY CrossOf
<1>2. /\ t \in {None} \cup {ms * TICKS_PER_MS : ms \in 0..U64_MAX}
      /\ SameTtl(t, v.ttl)
  <2>1. CASE v.ttl = None
    BY <2>1 DEF SameTtl
  <2>2. CASE v.ttl # None
    BY <1>1, <2>2, TtlCrosses
  <2> QED BY <2>1, <2>2
<1>3. v \in StoredValues => t = v.ttl
  <2> SUFFICES ASSUME v \in StoredValues, v.ttl # None PROVE t = v.ttl
    OBVIOUS
  <2>1. \E ms \in 0..U64_MAX : v.ttl = ms * TICKS_PER_MS
    BY DEF StoredValues
  <2> QED BY <1>1, <2>1, TtlCrosses
<1> HIDE DEF t
<1>4. Cross(v) \in StoredValues
  BY <1>1, <1>2 DEF StoredValues, StoreValue
<1>5. Cross(v).bytes = v.bytes /\ Cross(v).metadata = v.metadata /\ Cross(v).ttl = t
  BY <1>1 DEF StoreValue
<1>6. v \in StoredValues => Cross(v) = v
  BY <1>1, <1>3
<1> QED BY <1>2, <1>4, <1>5, <1>6, NoneIsApart

\* What has crossed once is not changed by crossing again.
LEMMA CrossTwice ==
  ASSUME NEW v \in {None} \cup WrittenValues \cup StoredValues
  PROVE  Cross(Cross(v)) = Cross(v) /\ (Cross(v) = None <=> v = None) /\ Cross(v) \in {None} \cup StoredValues
<1>1. Cross(None) = None
  BY DEF Cross
<1>2. CASE v \in WrittenValues \cup StoredValues
  <2>1. Cross(v) \in StoredValues /\ Cross(v) # None /\ v # None
    BY <1>2, CrossStores, CrossOf
  <2>2. Cross(Cross(v)) = Cross(v)
    BY <2>1, CrossStores
  <2> QED BY <2>1, <2>2
<1> QED BY <1>1, <1>2

\* StoreRole: no two names of the operator's are one role to the plugin.
LEMMA RolesAreApart ==
  ASSUME NEW m \in Names, NEW n \in Names
  PROVE  At(m) \in Roles /\ (At(m) = At(n) => m = n)
<1>1. \A s : to_string(parse(s)) = s
  BY DEF to_string, parse, Canonical
<1>2. At(m) = parse(m) /\ At(n) = parse(n)
  BY <1>1 DEF At, role_from_wire
<1> QED BY <1>1, <1>2 DEF Roles

\* Before the first write there is nothing to read.
LEMMA StoreInvInit == StoreInit => StoreInv
<1> SUFFICES ASSUME StoreInit PROVE StoreInv
  OBVIOUS
<1>1. StoreTypeOK
  BY StoreIsBounded DEF StoreInit, StoreTypeOK
<1>2. TableInv
  BY RolesAreApart DEF StoreInit, TableInv, Cross
<1> QED BY <1>1, <1>2 DEF StoreInit, StoreInv, SightInv, ScanInv, WatcherCatchesUp

\* A value the plugin removes, or one a client wrote under the next stamp.
IsChange(v, written) ==
  \/ v = None /\ written = None
  \/ written \in WrittenValues /\ written.bytes = stamp + 1 /\ v = Cross(written)

\* The table, and what clients saw before.
LEMMA ChangeKeepsTables ==
  ASSUME StoreTypeOK, TableInv, NEW name \in Names, NEW key \in Keys, NEW v, NEW written,
         IsChange(v, written), Change(name, key, v, written)
  PROVE  /\ db' \in [Roles -> [Keys -> {None} \cup StoredValues]]
         /\ last' \in [Names -> [Keys -> {None} \cup WrittenValues]]
         /\ stamp' \in 0..MaxWrites /\ changed' \in [Names -> [Keys -> 0..(stamp')]]
         /\ stamp' = stamp + 1 /\ changed'[name][key] = stamp' /\ last'[name][key] = written
         /\ TableInv'
         /\ \A r \in Sights : Sighted(r) => Sighted(r)'
<1>1. /\ stamp \in 0..MaxWrites /\ stamp < MaxWrites /\ stamp' = stamp + 1 /\ MaxWrites \in Nat
      /\ db' = [db EXCEPT ![At(name)][key] = v]
      /\ last' = [last EXCEPT ![name][key] = written]
      /\ changed' = [changed EXCEPT ![name][key] = stamp + 1]
  BY StoreIsBounded DEF Change, StoreTypeOK
<1>2. /\ db \in [Roles -> [Keys -> {None} \cup StoredValues]]
      /\ last \in [Names -> [Keys -> {None} \cup WrittenValues]]
      /\ changed \in [Names -> [Keys -> 0..stamp]]
  BY DEF StoreTypeOK
<1>3. /\ written \in {None} \cup WrittenValues /\ v \in {None} \cup StoredValues /\ v = Cross(written)
      /\ written # None => written.bytes = stamp + 1
  <2>1. CASE v = None /\ written = None
    BY <2>1 DEF Cross
  <2>2. CASE written \in WrittenValues /\ written.bytes = stamp + 1 /\ v = Cross(written)
    BY <2>2, CrossStores
  <2> QED BY <2>1, <2>2 DEF IsChange
<1>4. At(name) \in Roles
  BY RolesAreApart
<1>5. /\ db' \in [Roles -> [Keys -> {None} \cup StoredValues]]
      /\ last' \in [Names -> [Keys -> {None} \cup WrittenValues]]
  BY <1>1, <1>2, <1>3, <1>4
<1>6. changed' \in [Names -> [Keys -> 0..(stamp + 1)]]
  <2>1. changed \in [Names -> [Keys -> 0..(stamp + 1)]]
    BY <1>1, <1>2
  <2>2. stamp + 1 \in 0..(stamp + 1)
    BY <1>1
  <2> QED BY <1>1, <2>1, <2>2
<1>7. ASSUME NEW n \in Names, NEW k \in Keys
      PROVE  IF n = name /\ k = key
             THEN db'[At(n)][k] = v /\ last'[n][k] = written /\ changed'[n][k] = stamp + 1
             ELSE /\ db'[At(n)][k] = db[At(n)][k] /\ last'[n][k] = last[n][k]
                  /\ changed'[n][k] = changed[n][k]
  <2>1. At(n) \in Roles /\ (At(n) = At(name) => n = name)
    BY RolesAreApart
  <2> QED BY <1>1, <1>2, <1>4, <2>1
<1>8. TableInv'
  BY <1>3, <1>7 DEF TableInv
<1>9. ASSUME NEW r \in Sights, Sighted(r)
      PROVE  Sighted(r)'
  <2>1. r.name \in Names /\ r.key \in Keys /\ r.at \in 0..MaxWrites
    BY DEF Sights
  <2>2. r.at <= stamp /\ r.at <= stamp'
    BY <1>1, <1>9, <2>1 DEF Sighted
  <2>3. changed'[r.name][r.key] <= r.at =>
          last'[r.name][r.key] = last[r.name][r.key] /\ changed'[r.name][r.key] = changed[r.name][r.key]
    BY <1>1, <1>7, <2>1, <2>2
  <2> QED BY <1>9, <2>2, <2>3 DEF Sighted
<1>10. changed'[name][key] = stamp + 1 /\ last'[name][key] = written
  BY <1>7
<1>11. stamp' \in 0..MaxWrites
  BY <1>1
<1> QED BY <1>1, <1>5, <1>6, <1>8, <1>9, <1>10, <1>11

\* A scan goes on over the changed store.
LEMMA ChangeKeepsScan ==
  ASSUME StoreTypeOK, ScanInv, NEW name \in Names, NEW key \in Keys, NEW v, NEW written,
         IsChange(v, written), Change(name, key, v, written)
  PROVE  scan' \in {None} \cup Scans /\ ScanInv'
<1>1. CASE scan = None
  BY <1>1 DEF Change, ScanInv
<1>2. CASE scan # None
  <2>1. scan \in Scans /\ db \in [Roles -> [Keys -> {None} \cup StoredValues]]
    BY <1>2 DEF StoreTypeOK
  <2>2. /\ scan.name \in Names /\ scan.cursor \in {None} \cup 0..NKeys
        /\ scan.got \in Seq(SUBSET Keys) /\ scan.steady \in SUBSET Keys
    BY <2>1 DEF Scans
  <2>3. /\ scan.steady \subseteq Present(scan.name)
        /\ \A i, j \in DOMAIN scan.got : i # j => scan.got[i] \cap scan.got[j] = {}
        /\ \A k \in Got : scan.cursor # None => k <= scan.cursor
        /\ \A k \in scan.steady : scan.cursor = None \/ k <= scan.cursor => k \in Got
    BY <1>2 DEF ScanInv
  <2>4. /\ At(name) \in Roles /\ At(scan.name) \in Roles
    BY <2>2, RolesAreApart
  <2>5. \A k \in Keys : IF At(name) = At(scan.name) /\ k = key THEN db'[At(scan.name)][k] = v
                        ELSE db'[At(scan.name)][k] = db[At(scan.name)][k]
    BY <2>1, <2>4 DEF Change
  <2> DEFINE steady == IF At(name) = At(scan.name) /\ v = None THEN scan.steady \ {key} ELSE scan.steady
  <2>6. scan' = [scan EXCEPT !.steady = steady]
    <3>1. CASE At(name) # At(scan.name)
      BY <2>1, <3>1 DEF Change, Scans
    <3>2. CASE At(name) = At(scan.name)
      BY <1>2, <2>1, <3>2 DEF Change, Scans
    <3> QED BY <3>1, <3>2
  <2>7. steady \subseteq scan.steady
    OBVIOUS
  <2>8. \A k \in steady : k \in Keys /\ db'[At(scan.name)][k] # None
    BY <2>2, <2>3, <2>5 DEF Present
  <2> HIDE DEF steady
  <2>9. /\ scan' \in Scans /\ scan'.name = scan.name /\ scan'.cursor = scan.cursor
        /\ scan'.got = scan.got /\ scan'.steady = steady
    BY <2>1, <2>2, <2>6, <2>7 DEF Scans
  <2>10. Got' = Got
    BY <2>9 DEF Got
  <2>11. steady \subseteq Present(scan.name)'
    BY <2>8, <2>9 DEF Present
  <2> QED BY <2>3, <2>7, <2>9, <2>10, <2>11 DEF ScanInv
<1> QED BY <1>1, <1>2

\* A watch is told of the change, as the value crosses.
LEMMA ChangeKeepsWatch ==
  ASSUME StoreTypeOK, WatcherCatchesUp, NEW name \in Names, NEW key \in Keys, NEW v, NEW written,
         IsChange(v, written), Change(name, key, v, written)
  PROVE  watch' \in {None} \cup Watches /\ WatcherCatchesUp'
<1>1. CASE watch = None
  BY <1>1 DEF Change, WatcherCatchesUp
<1>2. CASE watch # None
  <2>1. watch \in Watches /\ db \in [Roles -> [Keys -> {None} \cup StoredValues]]
    BY <1>2 DEF StoreTypeOK
  <2>2. /\ watch.name \in Names /\ watch.key \in Keys /\ watch.pending \in Seq(Events)
        /\ watch.mirror \in {None} \cup StoredValues
    BY <2>1 DEF Watches
  <2>3. At(name) \in Roles /\ At(watch.name) \in Roles
    BY <2>2, RolesAreApart
  <2>4. Get(watch.name, watch.key) = IF Len(watch.pending) = 0 THEN watch.mirror
                                     ELSE Apply(watch.pending[Len(watch.pending)])
    BY <1>2 DEF WatcherCatchesUp
  <2>5. CASE <<At(name), key>> # <<At(watch.name), watch.key>>
    <3>1. watch' = watch /\ db'[At(watch.name)][watch.key] = db[At(watch.name)][watch.key]
      BY <2>1, <2>2, <2>3, <2>5 DEF Change
    <3> QED BY <2>1, <2>4, <3>1 DEF WatcherCatchesUp, Get
  <2>6. CASE <<At(name), key>> = <<At(watch.name), watch.key>>
    <3> DEFINE e == event_crossed(IF v = None THEN Delete ELSE Put(v), db[At(name)][key])
               p == Append(watch.pending, e)
    <3>1. v = None \/ v \in StoredValues
      BY CrossStores DEF IsChange
    <3>2. Cross(v) = v
      BY <3>1, CrossStores DEF Cross
    <3>3. e \in Events /\ Apply(e) = v
      <4>1. CASE v = None
        BY <4>1 DEF event_crossed, Delete, Events, Apply
      <4>2. CASE v # None
        BY <3>1, <3>2, <4>2 DEF event_crossed, Put, Events, Apply
      <4> QED BY <4>1, <4>2
    <3>4. watch' = [watch EXCEPT !.pending = p]
      BY <1>2, <2>1, <2>6 DEF Change, Watches
    <3>5. db'[At(watch.name)][watch.key] = v
      BY <2>1, <2>2, <2>3, <2>6 DEF Change
    <3> HIDE DEF e
    <3>6. p \in Seq(Events) /\ Len(p) # 0 /\ p[Len(p)] = e
      BY <2>2, <3>3
    <3> HIDE DEF p
    <3>7. watch' \in Watches /\ watch'.name = watch.name /\ watch'.key = watch.key /\ watch'.pending = p
      BY <2>1, <3>4, <3>6 DEF Watches
    <3>8. Get(watch.name, watch.key)' = v
      BY <3>2, <3>5, <3>7 DEF Get
    <3> QED BY <3>3, <3>6, <3>7, <3>8 DEF WatcherCatchesUp
  <2> QED BY <2>5, <2>6
<1> QED BY <1>1, <1>2

\* Clients write and remove, and remember what they did.
LEMMA RememberKeeps ==
  ASSUME StoreTypeOK, SightInv, NEW c \in Clients, NEW r \in Sights,
         seen' = [seen EXCEPT ![c] = r], \A x \in Sights : Sighted(x) => Sighted(x)', Sighted(r)'
  PROVE  seen' \in [Clients -> {None} \cup Sights] /\ SightInv'
<1>1. seen \in [Clients -> {None} \cup Sights]
  BY DEF StoreTypeOK
<1>2. seen' \in [Clients -> {None} \cup Sights]
  BY <1>1
<1>3. ASSUME NEW d \in Clients, seen'[d] # None
      PROVE  Sighted(seen[d])'
  <2>1. CASE d = c
    <3>1. seen'[d] = r
      BY <1>1, <2>1
    <3> QED BY <3>1 DEF Sighted
  <2>2. CASE d # c
    <3>1. seen'[d] = seen[d] /\ seen[d] \in Sights /\ Sighted(seen[d])
      BY <1>1, <1>3, <2>2 DEF SightInv
    <3>2. PICK y \in Sights : y = seen[d]
      BY <3>1
    <3>3. Sighted(y)'
      BY <3>1, <3>2
    <3> QED BY <3>1, <3>2, <3>3 DEF Sighted
  <2> QED BY <2>1, <2>2
<1> QED BY <1>2, <1>3 DEF SightInv, Sighted

\* A put or an append is the newest change, and its writer has seen it.
LEMMA WriteKeeps ==
  ASSUME StoreInv, NEW c \in Clients, NEW name \in Names, NEW key \in Keys, NEW s \in Shapes, NEW v,
         v = StoreValue(stamp + 1, s[1], s[2]),
         Change(name, key, Cross(v), v), Remember(c, name, key, v)
  PROVE  StoreInv'
<1> DEFINE r == [name |-> name, key |-> key, value |-> v, at |-> stamp']
<1>1. StoreTypeOK /\ TableInv /\ SightInv /\ ScanInv /\ WatcherCatchesUp
  BY DEF StoreInv
<1>2. stamp \in 0..MaxWrites /\ stamp < MaxWrites /\ MaxWrites \in Nat
  BY <1>1, StoreIsBounded DEF StoreTypeOK, Change
<1>3. v \in WrittenValues /\ v.bytes = stamp + 1 /\ IsChange(Cross(v), v)
  BY <1>2 DEF StoreValue, WrittenValues, IsChange
<1>4. /\ db' \in [Roles -> [Keys -> {None} \cup StoredValues]]
      /\ last' \in [Names -> [Keys -> {None} \cup WrittenValues]]
      /\ stamp' \in 0..MaxWrites /\ changed' \in [Names -> [Keys -> 0..(stamp')]]
      /\ stamp' = stamp + 1 /\ changed'[name][key] = stamp' /\ last'[name][key] = v
      /\ TableInv' /\ \A x \in Sights : Sighted(x) => Sighted(x)'
  BY <1>1, <1>3, ChangeKeepsTables
<1>5. scan' \in {None} \cup Scans /\ ScanInv'
  BY <1>1, <1>3, ChangeKeepsScan
<1>6. watch' \in {None} \cup Watches /\ WatcherCatchesUp'
  BY <1>1, <1>3, ChangeKeepsWatch
<1>7. PICK x \in Sights : x = r
  <2>1. r \in Sights
    BY <1>3, <1>4 DEF Sights
  <2> QED BY <2>1
<1>8. x.name = name /\ x.key = key /\ x.value = v /\ x.at = stamp'
  BY <1>7
<1>9. Sighted(x)'
  BY <1>2, <1>3, <1>4, <1>8 DEF Sighted
<1>10. seen' = [seen EXCEPT ![c] = x]
  BY <1>7 DEF Remember
<1>11. seen' \in [Clients -> {None} \cup Sights] /\ SightInv'
  BY <1>1, <1>4, <1>9, <1>10, RememberKeeps
<1> QED BY <1>4, <1>5, <1>6, <1>11 DEF StoreInv, StoreTypeOK

\* A delete or an expiry is the newest change.
LEMMA RemoveKeeps ==
  ASSUME StoreInv, NEW name \in Names, NEW key \in Keys, Change(name, key, None, None),
         UNCHANGED seen \/ \E c \in Clients : Remember(c, name, key, None)
  PROVE  StoreInv'
<1>1. StoreTypeOK /\ TableInv /\ SightInv /\ ScanInv /\ WatcherCatchesUp /\ IsChange(None, None)
  BY DEF StoreInv, IsChange
<1>2. /\ db' \in [Roles -> [Keys -> {None} \cup StoredValues]]
      /\ last' \in [Names -> [Keys -> {None} \cup WrittenValues]]
      /\ stamp' \in 0..MaxWrites /\ changed' \in [Names -> [Keys -> 0..(stamp')]]
      /\ stamp' = stamp + 1 /\ changed'[name][key] = stamp' /\ last'[name][key] = None
      /\ TableInv' /\ \A x \in Sights : Sighted(x) => Sighted(x)'
  BY <1>1, ChangeKeepsTables
<1>3. scan' \in {None} \cup Scans /\ ScanInv'
  BY <1>1, ChangeKeepsScan
<1>4. watch' \in {None} \cup Watches /\ WatcherCatchesUp'
  BY <1>1, ChangeKeepsWatch
<1>5. seen' \in [Clients -> {None} \cup Sights] /\ SightInv'
  <2>1. CASE UNCHANGED seen
    <3>1. seen' \in [Clients -> {None} \cup Sights]
      BY <1>1, <2>1 DEF StoreTypeOK
    <3>2. ASSUME NEW d \in Clients, seen'[d] # None
          PROVE  Sighted(seen[d])'
      <4>1. PICK y \in Sights : y = seen[d]
        BY <2>1, <3>1, <3>2
      <4>2. Sighted(y)'
        BY <1>1, <1>2, <2>1, <3>2, <4>1 DEF SightInv
      <4> QED BY <2>1, <4>1, <4>2 DEF Sighted
    <3> QED BY <3>1, <3>2 DEF SightInv
  <2>2. ASSUME NEW c \in Clients, Remember(c, name, key, None)
        PROVE  seen' \in [Clients -> {None} \cup Sights] /\ SightInv'
    <3> DEFINE r == [name |-> name, key |-> key, value |-> None, at |-> stamp']
    <3>1. PICK x \in Sights : x = r
      <4>1. r \in Sights
        BY <1>2 DEF Sights
      <4> QED BY <4>1
    <3>2. x.name = name /\ x.key = key /\ x.value = None /\ x.at = stamp'
      BY <3>1
    <3>3. Sighted(x)'
      BY <1>2, <3>2 DEF Sighted
    <3>4. seen' = [seen EXCEPT ![c] = x]
      BY <2>2, <3>1 DEF Remember
    <3> QED BY <1>1, <1>2, <3>3, <3>4, RememberKeeps
  <2> QED BY <2>1, <2>2
<1> QED BY <1>2, <1>3, <1>4, <1>5 DEF StoreInv, StoreTypeOK

\* Reading, or being told of a mismatch, changes only what a client knows.
LEMMA ReadKeeps ==
  ASSUME StoreInv, NEW c \in Clients, UNCHANGED <<db, last, stamp, changed, scan, watch>>,
         \/ seen' = [seen EXCEPT ![c] = None]
         \/ \E name \in Names, key \in Keys : Remember(c, name, key, Get(name, key))
  PROVE  StoreInv'
<1>1. StoreTypeOK /\ TableInv /\ SightInv /\ ScanInv /\ WatcherCatchesUp
  BY DEF StoreInv
<1>2. TableInv' /\ ScanInv' /\ WatcherCatchesUp'
  BY <1>1 DEF TableInv, ScanInv, Got, Present, WatcherCatchesUp, Get
<1>3. \A x : Sighted(x)' <=> Sighted(x)
  BY DEF Sighted
<1>4. seen' \in [Clients -> {None} \cup Sights] /\ SightInv'
  <2>1. CASE seen' = [seen EXCEPT ![c] = None]
    <3>1. seen \in [Clients -> {None} \cup Sights] /\ seen' \in [Clients -> {None} \cup Sights]
      BY <1>1, <2>1 DEF StoreTypeOK
    <3>2. \A d \in Clients : seen'[d] # None => seen'[d] = seen[d]
      BY <2>1, <3>1
    <3> QED BY <1>1, <3>1, <3>2 DEF SightInv, Sighted
  <2>2. ASSUME NEW name \in Names, NEW key \in Keys, Remember(c, name, key, Get(name, key))
        PROVE  seen' \in [Clients -> {None} \cup Sights] /\ SightInv'
    <3> DEFINE r == [name |-> name, key |-> key, value |-> Get(name, key), at |-> stamp']
    <3>1. /\ last[name][key] \in {None} \cup WrittenValues
          /\ stamp \in 0..MaxWrites /\ changed[name][key] \in 0..stamp /\ MaxWrites \in Nat
          /\ db[At(name)][key] = Cross(last[name][key])
          /\ last[name][key] # None => last[name][key].bytes = changed[name][key]
      BY <1>1, StoreIsBounded DEF StoreTypeOK, TableInv
    <3>2. Get(name, key) = Cross(last[name][key]) /\ Get(name, key) \in {None} \cup StoredValues
          /\ Cross(Get(name, key)) = Cross(last[name][key])
          /\ (Get(name, key) = None <=> last[name][key] = None)
      BY <3>1, CrossTwice DEF Get
    <3>3. Get(name, key) # None => Get(name, key).bytes = changed[name][key]
      BY <3>1, <3>2, CrossStores
    <3>4. PICK x \in Sights : x = r
      <4>1. r \in Sights
        BY <3>1, <3>2 DEF Sights
      <4> QED BY <4>1
    <3>5. x.name = name /\ x.key = key /\ x.value = Get(name, key) /\ x.at = stamp
      BY <3>4
    <3>6. Sighted(x)
      BY <3>1, <3>2, <3>3, <3>5 DEF Sighted
    <3>7. seen' = [seen EXCEPT ![c] = x]
      BY <2>2, <3>4 DEF Remember
    <3> QED BY <1>1, <1>3, <3>6, <3>7, RememberKeeps
  <2> QED BY <2>1, <2>2
<1> QED BY <1>1, <1>2, <1>4 DEF StoreInv, StoreTypeOK

\* Scans and watches leave the rest of the store's state alone.
LEMMA StoreFrame ==
  ASSUME StoreInv, UNCHANGED <<db, last, stamp, changed, seen>>
  PROVE  /\ TableInv' /\ SightInv'
         /\ scan' \in {None} \cup Scans /\ watch' \in {None} \cup Watches /\ ScanInv' /\ WatcherCatchesUp'
              => StoreInv'
         /\ UNCHANGED scan => scan' \in {None} \cup Scans /\ ScanInv'
         /\ UNCHANGED watch => watch' \in {None} \cup Watches /\ WatcherCatchesUp'
<1>1. TableInv' /\ SightInv'
  BY DEF StoreInv, TableInv, SightInv, Sighted
<1>2. UNCHANGED scan => scan' \in {None} \cup Scans /\ ScanInv'
  BY DEF StoreInv, StoreTypeOK, ScanInv, Got, Present
<1>3. UNCHANGED watch => watch' \in {None} \cup Watches /\ WatcherCatchesUp'
  BY DEF StoreInv, StoreTypeOK, WatcherCatchesUp, Get
<1> QED BY <1>1, <1>2, <1>3 DEF StoreInv, StoreTypeOK

\* A watch that starts, delivers or is cancelled changes no table.
LEMMA WatchStepKeeps ==
  ASSUME StoreInv, Deliver \/ cancel_watch \/ \E n \in Names, k \in Keys : StartWatch(n, k)
  PROVE  StoreInv'
<1>1. UNCHANGED <<db, last, stamp, changed, seen, scan>>
  BY DEF Deliver, cancel_watch, StartWatch
<1> SUFFICES watch' \in {None} \cup Watches /\ WatcherCatchesUp'
  BY <1>1, StoreFrame
<1>2. CASE cancel_watch
  BY <1>2 DEF cancel_watch, WatcherCatchesUp
<1>3. ASSUME NEW n \in Names, NEW k \in Keys, StartWatch(n, k)
      PROVE  watch' \in Watches /\ WatcherCatchesUp'
  <2>1. Get(n, k) \in {None} \cup StoredValues
    <3>1. db[At(n)][k] \in {None} \cup StoredValues
      BY RolesAreApart DEF StoreInv, StoreTypeOK
    <3> QED BY <3>1, CrossTwice DEF Get
  <2>2. watch' = [name |-> n, key |-> k, pending |-> <<>>, mirror |-> Get(n, k)]
    BY <1>3 DEF StartWatch
  <2>3. Get(n, k)' = Get(n, k)
    BY <1>1 DEF Get
  <2>4. watch' \in Watches /\ watch'.name = n /\ watch'.key = k /\ watch'.mirror = Get(n, k)
        /\ watch'.pending = <<>> /\ Len(watch'.pending) = 0
    BY <2>1, <2>2 DEF Watches
  <2>5. Get(watch.name, watch.key)' = Get(n, k)
    BY <1>1, <2>4 DEF Get
  <2> QED BY <2>4, <2>5 DEF WatcherCatchesUp
<1>4. CASE Deliver
  <2> DEFINE q == watch.pending
  <2>1. watch # None /\ q # <<>> /\ watch' = [watch EXCEPT !.mirror = Apply(Head(q)), !.pending = Tail(q)]
    BY <1>4 DEF Deliver
  <2>2. watch \in Watches
    BY <2>1 DEF StoreInv, StoreTypeOK
  <2>3. q \in Seq(Events)
    BY <2>2 DEF Watches
  <2>4. Get(watch.name, watch.key) = IF Len(q) = 0 THEN watch.mirror ELSE Apply(q[Len(q)])
    BY <2>1 DEF StoreInv, WatcherCatchesUp
  <2>5. /\ Len(q) \in Nat /\ Len(q) > 0 /\ Head(q) = q[1] /\ Head(q) \in Events /\ Tail(q) \in Seq(Events)
        /\ Len(Tail(q)) = Len(q) - 1
        /\ Len(q) > 1 => Tail(q)[Len(q) - 1] = q[Len(q)]
    BY <2>1, <2>3
  <2>6. \A e \in Events : Apply(e) \in {None} \cup StoredValues
    BY DEF Events, Apply, Delete
  <2> HIDE DEF q
  <2>7. /\ watch' \in Watches /\ watch'.name = watch.name /\ watch'.key = watch.key
        /\ watch'.pending = Tail(q) /\ watch'.mirror = Apply(Head(q))
    BY <2>1, <2>2, <2>5, <2>6 DEF Watches
  <2>8. Get(watch.name, watch.key)' = Get(watch.name, watch.key)
    BY <1>1, <2>7 DEF Get
  <2>9. Get(watch.name, watch.key)' = IF Len(Tail(q)) = 0 THEN Apply(Head(q))
                                      ELSE Apply(Tail(q)[Len(Tail(q))])
    BY <2>4, <2>5, <2>8
  <2> QED BY <2>7, <2>9 DEF WatcherCatchesUp
<1> QED BY <1>2, <1>3, <1>4

\* A set of keys that is not empty has a least and a greatest.
LEMMA HasLeast ==
  ASSUME NEW T \in SUBSET Nat, T # {}
  PROVE  \E x \in T : \A y \in T : x <= y
<1>1. PICK x \in T : \A y \in T : ~(<<y, x>> \in OpToRel(<, Nat))
  BY NatLessThanWellFounded, WFMin
<1>2. \A y \in T : ~(y < x)
  BY <1>1 DEF OpToRel
<1> QED BY <1>2

\* A page that is not empty has a last key.
LEMMA HasGreatest ==
  ASSUME NEW K \in SUBSET Keys, K # {}
  PROVE  Max(K) \in K /\ \A k \in K : k <= Max(K)
<1> DEFINE T == {NKeys - k : k \in K}
<1>1. NKeys \in Nat /\ T \in SUBSET Nat /\ T # {}
  <2>1. NKeys \in Nat /\ \A k \in K : NKeys - k \in Nat
    BY StoreIsBounded DEF Keys
  <2>2. PICK k \in K : TRUE
    OBVIOUS
  <2>3. NKeys - k \in T
    BY <2>2
  <2> QED BY <2>1, <2>3
<1>2. PICK t \in T : \A y \in T : t <= y
  <2> HIDE DEF T
  <2> QED BY <1>1, HasLeast
<1>3. PICK x \in K : t = NKeys - x
  OBVIOUS
<1>4. \A k \in K : x >= k
  <2> SUFFICES ASSUME NEW k \in K PROVE x >= k
    OBVIOUS
  <2>1. NKeys - x <= NKeys - k /\ k \in Nat /\ x \in Nat
    BY <1>2, <1>3 DEF Keys
  <2> QED BY <1>1, <2>1
<1>5. Max(K) \in K /\ \A k \in K : Max(K) >= k
  BY <1>4 DEF Max
<1> QED BY <1>1, <1>5 DEF Keys

\* A page holds the next keys present, without a gap, and its cursor says where
\* it ends.
After(name, cursor) == {k \in Present(name) : k > cursor}
Crossed(name, cursor) == page_crossed(Page(name, cursor))
PageKeys(name, cursor) == {i[1] : i \in Crossed(name, cursor).items}

\* A page holds the keys up to its cursor, and no cursor means no more keys.
LEMMA PageOf ==
  ASSUME NEW name, NEW cursor \in 0..NKeys
  PROVE  LET after == After(name, cursor)
             keys == PageKeys(name, cursor)
             next == Crossed(name, cursor).next_cursor
         IN /\ keys \subseteq after /\ next \in {None} \cup 0..NKeys
            /\ next = None => keys = after
            /\ next # None => /\ \A k \in keys : k <= next
                              /\ \A k \in after : k <= next => k \in keys
                              /\ cursor <= next
<1> DEFINE after == After(name, cursor)
           below(k) == {j \in after : j < k}
           on == {k \in after : Cardinality(below(k)) < PageSize}
           next == Crossed(name, cursor).next_cursor
<1>1. next = IF on = after THEN None ELSE Max(on)
  BY DEF Crossed, page_crossed, Page, After
<1>2. PageKeys(name, cursor) = on
  <2> DEFINE stored == {<<k, db[At(name)][k]>> : k \in on}
             items == {<<i[1], Cross(i[2])>> : i \in stored}
  <2>1. Crossed(name, cursor).items = items
    BY DEF Crossed, page_crossed, Page, After
  <2> HIDE DEF on
  <2>2. ASSUME NEW k \in on
        PROVE  k \in PageKeys(name, cursor)
    <3>1. <<k, Cross(db[At(name)][k])>> \in items
      <4>1. PICK i \in stored : i = <<k, db[At(name)][k]>>
        OBVIOUS
      <4>2. i[1] = k /\ i[2] = db[At(name)][k]
        BY <4>1
      <4> HIDE DEF stored
      <4> QED BY <4>2
    <3>2. <<k, Cross(db[At(name)][k])>>[1] = k
      OBVIOUS
    <3> HIDE DEF items
    <3> QED BY <2>1, <3>1, <3>2 DEF PageKeys
  <2>3. ASSUME NEW k \in PageKeys(name, cursor)
        PROVE  k \in on
    <3>1. PICK i \in items : k = i[1]
      <4> HIDE DEF items
      <4> QED BY <2>1 DEF PageKeys
    <3> QED BY <3>1
  <2> QED BY <2>2, <2>3
<1>3. after \subseteq Keys /\ NKeys \in Nat /\ Keys \subseteq Nat /\ PageSize \in Nat \ {0}
      /\ (\A k \in after : k \in Nat /\ k > cursor) /\ cursor \in Nat
  BY StoreIsBounded, PagesHoldSome DEF Present, Keys, After
<1> HIDE DEF after, next
<1>4. IsFiniteSet(after)
  <2>1. IsFiniteSet(Keys)
    BY <1>3, FS_Interval DEF Keys
  <2> QED BY <1>3, <2>1, FS_Subset
<1>5. \A k \in Keys : IsFiniteSet(below(k)) /\ Cardinality(below(k)) \in Nat
  <2> SUFFICES ASSUME NEW k \in Keys PROVE IsFiniteSet(below(k)) /\ Cardinality(below(k)) \in Nat
    OBVIOUS
  <2>1. below(k) \in SUBSET after
    OBVIOUS
  <2> HIDE DEF below
  <2> QED BY <1>4, <2>1, FS_Subset, FS_CardinalityType
<1>6. ASSUME NEW k \in on, NEW j \in after, j <= k
      PROVE  j \in on
  <2>1. j \in Keys /\ k \in Keys /\ j \in Nat /\ k \in Nat /\ k \in after
    BY <1>3
  <2>2. below(j) \in SUBSET below(k)
    <3> SUFFICES ASSUME NEW x \in after, x < j PROVE x < k
      OBVIOUS
    <3>1. x \in Nat
      BY <1>3
    <3> QED BY <1>6, <2>1, <3>1
  <2>3. Cardinality(below(k)) < PageSize
    OBVIOUS
  <2>4. Cardinality(below(j)) < PageSize
    <3> HIDE DEF below
    <3>1. Cardinality(below(j)) <= Cardinality(below(k))
      BY <1>5, <2>1, <2>2, FS_Subset
    <3> QED BY <1>3, <1>5, <2>1, <2>3, <3>1
  <2> QED BY <2>4
<1>7. CASE on = after
  BY <1>1, <1>2, <1>7 DEF next, after
<1>8. CASE on # after
  <2>1. on # {}
    <3>1. after # {} /\ after \in SUBSET Nat
      BY <1>3, <1>8
    <3>2. PICK m \in after : \A y \in after : m <= y
      BY <3>1, HasLeast
    <3>3. below(m) = {}
      <4>1. \A y \in after : ~(y < m)
        BY <1>3, <3>2
      <4> QED BY <4>1
    <3>4. Cardinality(below(m)) = 0
      BY <3>3, FS_EmptySet
    <3>5. m \in on
      BY <1>3, <3>4
    <3> QED BY <3>5
  <2> HIDE DEF on
  <2>2. on \in SUBSET Keys /\ on \subseteq after
    BY <1>3 DEF on
  <2>3. Max(on) \in on /\ \A k \in on : k <= Max(on)
    BY <2>1, <2>2, HasGreatest
  <2>4. Max(on) \in Keys /\ Max(on) \in Nat /\ Max(on) > cursor /\ next = Max(on)
    BY <1>1, <1>3, <1>8, <2>2, <2>3
  <2>5. Max(on) \in 0..NKeys
    BY <1>3, <2>4 DEF Keys
  <2>6. \A k \in after : k <= Max(on) => k \in on
    BY <1>6, <2>3
  <2>7. next # None /\ cursor <= next
    BY <1>3, <2>4, NoneIsApart
  <2> QED BY <1>2, <2>2, <2>3, <2>4, <2>5, <2>6, <2>7 DEF next, after
<1> QED BY <1>7, <1>8

\* A scan that starts, takes a page or ends changes no table.
LEMMA ScanStepKeeps ==
  ASSUME StoreInv, list \/ EndScan \/ \E n \in Names : StartScan(n)
  PROVE  StoreInv'
<1>1. UNCHANGED <<db, last, stamp, changed, seen, watch>>
  BY DEF list, EndScan, StartScan
<1> SUFFICES scan' \in {None} \cup Scans /\ ScanInv'
  BY <1>1, StoreFrame
<1>2. CASE EndScan
  BY <1>2 DEF EndScan, ScanInv
<1>3. \A n : Present(n)' = Present(n)
  BY <1>1 DEF Present
<1>4. ASSUME NEW n \in Names, StartScan(n)
      PROVE  scan' \in Scans /\ ScanInv'
  <2>1. scan' = [name |-> n, cursor |-> 0, got |-> <<>>, steady |-> Present(n)]
    BY <1>4 DEF StartScan
  <2>2. Present(n) \subseteq Keys /\ \A k \in Present(n) : k \in Nat /\ k > 0
    BY DEF Present, Keys
  <2>3. /\ scan' \in Scans /\ scan'.name = n /\ scan'.cursor = 0 /\ scan'.got = <<>>
        /\ scan'.steady = Present(n) /\ DOMAIN scan'.got = {}
    BY <2>1, <2>2, StoreIsBounded DEF Scans
  <2>4. Got' = {}
    BY <2>3 DEF Got
  <2>5. 0 # None
    BY NoneIsApart
  <2>6. scan'.steady \subseteq Present(scan.name)'
    BY <1>1, <2>3 DEF Present
  <2> QED BY <2>2, <2>3, <2>4, <2>5, <2>6 DEF ScanInv
<1>5. CASE list
  <2> DEFINE keys == PageKeys(scan.name, scan.cursor)
             after == After(scan.name, scan.cursor)
             next == Crossed(scan.name, scan.cursor).next_cursor
  <2>1. /\ scan # None /\ scan.cursor # None
        /\ scan' = [scan EXCEPT !.cursor = next, !.got = Append(scan.got, keys)]
    BY <1>5 DEF list, PageKeys, Crossed
  <2>2. scan \in Scans
    BY <2>1 DEF StoreInv, StoreTypeOK
  <2>3. /\ scan.name \in Names /\ scan.cursor \in 0..NKeys
        /\ scan.got \in Seq(SUBSET Keys) /\ scan.steady \in SUBSET Keys
    BY <2>1, <2>2 DEF Scans
  <2>4. /\ keys \subseteq after /\ next \in {None} \cup 0..NKeys
        /\ next = None => keys = after
        /\ next # None => /\ \A k \in keys : k <= next
                          /\ \A k \in after : k <= next => k \in keys
                          /\ scan.cursor <= next
    BY <2>3, PageOf
  <2>5. /\ scan.steady \subseteq Present(scan.name)
        /\ \A i, j \in DOMAIN scan.got : i # j => scan.got[i] \cap scan.got[j] = {}
        /\ \A k \in Got : k <= scan.cursor
        /\ \A k \in scan.steady : k <= scan.cursor => k \in Got
    BY <2>1 DEF StoreInv, ScanInv
  <2>6. after \subseteq Keys /\ Keys \subseteq Nat /\ NKeys \in Nat /\ (\A k \in after : k > scan.cursor)
        /\ \A k \in scan.steady : k <= scan.cursor \/ k \in after
    BY <2>3, <2>5, StoreIsBounded DEF Present, Keys, After
  <2> DEFINE g == Append(scan.got, keys)
             n == Len(scan.got)
  <2> HIDE DEF next, keys, after
  <2>7. /\ g \in Seq(SUBSET Keys) /\ n \in Nat /\ DOMAIN g = 1..(n + 1) /\ g[n + 1] = keys
        /\ DOMAIN scan.got = 1..n /\ \A i \in 1..n : g[i] = scan.got[i]
    BY <2>3, <2>4, <2>6
  <2> HIDE DEF g, n
  <2>8. /\ scan' \in Scans /\ scan'.name = scan.name /\ scan'.cursor = next /\ scan'.got = g
        /\ scan'.steady = scan.steady
    BY <2>1, <2>2, <2>4, <2>7 DEF Scans, g
  <2>9. UNION {g[i] : i \in DOMAIN g} = Got \cup keys
    BY <2>7 DEF Got
  <2>10. Got' = Got \cup keys
    BY <2>8, <2>9 DEF Got
  <2>11. \A i \in 1..n : g[i] \cap keys = {}
    <3> SUFFICES ASSUME NEW i \in 1..n, NEW k \in g[i], k \in keys PROVE FALSE
      OBVIOUS
    <3>1. k \in Got /\ k \in after
      BY <2>4, <2>7 DEF Got
    <3>2. k <= scan.cursor /\ k > scan.cursor /\ k \in Nat /\ scan.cursor \in Nat
      BY <2>3, <2>5, <2>6, <3>1
    <3> QED BY <3>2
  <2>12. \A i, j \in DOMAIN g : i # j => g[i] \cap g[j] = {}
    <3> SUFFICES ASSUME NEW i \in 1..(n + 1), NEW j \in 1..(n + 1), i # j PROVE g[i] \cap g[j] = {}
      BY <2>7
    <3>1. CASE i = n + 1
      <4>1. j \in 1..n
        BY <2>7, <3>1
      <4> QED BY <2>7, <2>11, <3>1, <4>1
    <3>2. CASE j = n + 1
      <4>1. i \in 1..n
        BY <2>7, <3>2
      <4> QED BY <2>7, <2>11, <3>2, <4>1
    <3>3. CASE i # n + 1 /\ j # n + 1
      <4>1. i \in 1..n /\ j \in 1..n
        BY <2>7, <3>3
      <4> QED BY <2>5, <2>7, <4>1
    <3> QED BY <3>1, <3>2, <3>3
  <2>13. \A k \in Got \cup keys : next # None => k <= next
    <3> SUFFICES ASSUME NEW k \in Got, next # None PROVE k <= next
      BY <2>4
    <3>1. k \in Keys
      BY <2>7 DEF Got
    <3>2. k <= scan.cursor /\ scan.cursor <= next /\ k \in Nat /\ scan.cursor \in Nat /\ next \in Nat
      BY <2>3, <2>4, <2>5, <2>6, <3>1
    <3> QED BY <3>2
  <2>14. \A k \in scan.steady : next = None \/ k <= next => k \in Got \cup keys
    BY <2>4, <2>5, <2>6
  <2>15. scan.steady \subseteq Present(scan.name)'
    BY <1>1, <2>5, <2>8 DEF Present
  <2> QED BY <2>8, <2>10, <2>12, <2>13, <2>14, <2>15 DEF ScanInv
<1> QED BY <1>2, <1>4, <1>5

\* Every step of a store keeps the invariant.
LEMMA StoreStep == StoreInv /\ [StoreNext]_storeVars => StoreInv'
<1> SUFFICES ASSUME StoreInv, [StoreNext]_storeVars PROVE StoreInv'
  OBVIOUS
<1>1. CASE UNCHANGED storeVars
  BY <1>1, StoreFrame DEF storeVars
<1>2. ASSUME NEW c \in Clients, NEW n \in Names, NEW k \in Keys,
             get(c, n, k) \/ put(c, n, k) \/ append(c, n, k) \/ delete(c, n, k)
      PROVE  StoreInv'
  <2>1. CASE get(c, n, k)
    BY <2>1, ReadKeeps DEF get
  <2>2. CASE put(c, n, k)
    BY <2>2, WriteKeeps DEF put
  <2>3. CASE delete(c, n, k)
    BY <2>3, RemoveKeeps DEF delete
  <2> QED BY <1>2, <2>1, <2>2, <2>3 DEF append
<1>3. ASSUME NEW c \in Clients, compare_and_swap(c)
      PROVE  StoreInv'
  <2>1. seen[c] \in Sights
    BY <1>3 DEF compare_and_swap, StoreInv, StoreTypeOK
  <2>2. seen[c].name \in Names /\ seen[c].key \in Keys
    BY <2>1 DEF Sights
  <2>3. CASE Matches(db[At(seen[c].name)][seen[c].key], seen[c].value)
    <3>1. PICK s \in Shapes :
            LET v == StoreValue(stamp + 1, s[1], s[2])
            IN Change(seen[c].name, seen[c].key, Cross(v), v) /\ Remember(c, seen[c].name, seen[c].key, v)
      BY <1>3, <2>3 DEF compare_and_swap
    <3> QED BY <2>2, <3>1, WriteKeeps
  <2>4. CASE ~Matches(db[At(seen[c].name)][seen[c].key], seen[c].value)
    BY <1>3, <2>4, ReadKeeps DEF compare_and_swap
  <2> QED BY <2>3, <2>4
<1>4. ASSUME NEW n \in Names, NEW k \in Keys, Expire(n, k)
      PROVE  StoreInv'
  BY <1>4, RemoveKeeps DEF Expire
<1> QED BY <1>1, <1>2, <1>3, <1>4, ScanStepKeeps, WatchStepKeeps DEF StoreNext

\* The inductive invariant of a store.
LEMMA StoreInvariant == StoreSpec => []StoreInv
BY StoreStep, StoreInvInit, PTL DEF StoreSpec

\* StoreVTable: the plugin's values have TTLs a u64 of milliseconds can say, for
\* all roles, keys, clients and TTLs.
THEOREM StoreTypeCorrect == StoreSpec => []StoreTypeOK
<1>1. StoreInv => StoreTypeOK
  BY DEF StoreInv
<1> QED BY <1>1, StoreInvariant, PTL

\* store.rs across its vtable: for all roles, keys, clients and page sizes, a
\* read gives back the last write of that role, a paged scan of a changing store
\* repeats nothing and misses nothing that stayed, and a watcher ends where a
\* read does.
THEOREM ReadersSeeTheStoreAlways == StoreSpec => []ReadersSeeTheStore
<1>1. StoreInv => ReadsBackLastWrite
  <2> SUFFICES ASSUME StoreInv, NEW n \in Names, NEW k \in Keys
               PROVE  LET got == Get(n, k)
                          written == last[n][k]
                      IN /\ got = None <=> written = None
                         /\ got # None => /\ got.bytes = written.bytes
                                          /\ got.metadata = written.metadata
                                          /\ SameTtl(got.ttl, written.ttl)
    BY DEF ReadsBackLastWrite
  <2>1. last[n][k] \in {None} \cup WrittenValues /\ db[At(n)][k] = Cross(last[n][k])
    BY DEF StoreInv, StoreTypeOK, TableInv
  <2>2. Get(n, k) = Cross(last[n][k]) /\ (Get(n, k) = None <=> last[n][k] = None)
    BY <2>1, CrossTwice DEF Get
  <2> QED BY <2>1, <2>2, CrossStores
<1>2. StoreInv => ScanMissesNothing
  <2> SUFFICES ASSUME StoreInv, scan # None
               PROVE  /\ \A i, j \in DOMAIN scan.got : i # j => scan.got[i] \cap scan.got[j] = {}
                      /\ scan.cursor = None => scan.steady \subseteq Got
    BY DEF ScanMissesNothing, Got
  <2> QED BY DEF StoreInv, ScanInv
<1>3. StoreInv => WatcherCatchesUp
  BY DEF StoreInv
<1> QED BY <1>1, <1>2, <1>3, StoreInvariant, PTL DEF ReadersSeeTheStore

\* Store::compare_and_swap: for all clients, keys and TTLs, a swap that succeeds
\* overwrites nothing its client has not seen, and one that fails does so
\* because the key has changed.
THEOREM SwapsAreExactHolds == StoreSpec => SwapsAreExact
<1>1. ASSUME StoreInv, NEW c \in Clients, compare_and_swap(c)
      PROVE  /\ seen'[c] # None =>
                  \/ changed[seen[c].name][seen[c].key] <= seen[c].at
                  \/ seen[c].value = None /\ last[seen[c].name][seen[c].key] = None
             /\ seen'[c] = None => changed[seen[c].name][seen[c].key] > seen[c].at
  <2> DEFINE r == seen[c]
             was == last[r.name][r.key]
  <2>1. r \in Sights /\ seen \in [Clients -> {None} \cup Sights] /\ Sighted(r)
    BY <1>1 DEF compare_and_swap, StoreInv, StoreTypeOK, SightInv
  <2>2. /\ r.name \in Names /\ r.key \in Keys /\ r.at \in Nat
        /\ r.value \in {None} \cup WrittenValues \cup StoredValues
    BY <2>1 DEF Sights
  <2>3. /\ was \in {None} \cup WrittenValues /\ changed[r.name][r.key] \in Nat
        /\ db[At(r.name)][r.key] = Cross(was)
        /\ was # None => was.bytes = changed[r.name][r.key]
    <3>1. changed[r.name][r.key] \in 0..stamp /\ was \in {None} \cup WrittenValues
      BY <1>1, <2>2 DEF StoreInv, StoreTypeOK
    <3> QED BY <1>1, <2>2, <3>1 DEF StoreInv, TableInv
  <2>4. CASE Cross(was) = Cross(r.value)
    <3>1. seen'[c] # None
      <4>1. PICK s \in Shapes :
              LET v == StoreValue(stamp + 1, s[1], s[2])
              IN Change(r.name, r.key, Cross(v), v) /\ Remember(c, r.name, r.key, v)
        BY <1>1, <2>3, <2>4 DEF compare_and_swap, Matches
      <4> DEFINE v == StoreValue(stamp + 1, s[1], s[2])
                 x == [name |-> r.name, key |-> r.key, value |-> v, at |-> stamp']
      <4>2. stamp \in 0..MaxWrites /\ stamp < MaxWrites /\ stamp' = stamp + 1 /\ MaxWrites \in Nat
        BY <1>1, <4>1, StoreIsBounded DEF StoreInv, StoreTypeOK, Change
      <4>3. v \in WrittenValues
        BY <4>2 DEF StoreValue, WrittenValues
      <4> HIDE DEF v
      <4>4. x \in Sights
        BY <2>2, <4>2, <4>3 DEF Sights
      <4>5. seen'[c] = x
        BY <2>1, <4>1 DEF Remember, v
      <4> QED BY <4>4, <4>5, NoneIsApart
    <3>2. was = None <=> r.value = None
      BY <2>2, <2>3, <2>4, CrossTwice
    <3>3. r.value # None => was.bytes = r.value.bytes
      <4> SUFFICES ASSUME r.value # None PROVE was.bytes = r.value.bytes
        OBVIOUS
      <4>1. was \in WrittenValues \cup StoredValues /\ r.value \in WrittenValues \cup StoredValues
        BY <2>2, <2>3, <3>2
      <4>2. Cross(was).bytes = was.bytes /\ Cross(r.value).bytes = r.value.bytes
        <5> HIDE DEF was, r
        <5> QED BY <4>1, CrossStores
      <4> QED BY <2>4, <4>2
    <3> QED BY <2>1, <2>3, <3>1, <3>2, <3>3 DEF Sighted
  <2>5. CASE Cross(was) # Cross(r.value)
    <3>1. seen' = [seen EXCEPT ![c] = None]
      BY <1>1, <2>3, <2>5 DEF compare_and_swap, Matches
    <3>2. ~(changed[r.name][r.key] <= r.at)
      BY <2>1, <2>5 DEF Sighted
    <3> QED BY <2>1, <2>2, <2>3, <3>1, <3>2
  <2> QED BY <2>4, <2>5
<1>2. StoreInv /\ [StoreNext]_storeVars =>
        [\A c \in Clients : compare_and_swap(c) /\ seen'[c] # None =>
           \/ changed[seen[c].name][seen[c].key] <= seen[c].at
           \/ seen[c].value = None /\ last[seen[c].name][seen[c].key] = None]_storeVars
  BY <1>1
<1>3. StoreInv /\ [StoreNext]_storeVars =>
        [\A c \in Clients : compare_and_swap(c) /\ seen'[c] = None =>
           changed[seen[c].name][seen[c].key] > seen[c].at]_storeVars
  BY <1>1
<1> QED BY <1>2, <1>3, StoreInvariant, PTL DEF StoreSpec, SwapsAreExact, NoLostUpdate, NoSpuriousMismatch

(***************************************************************************)
(* ClusterLeases: one holder at a time                                     *)
(***************************************************************************)

\* Time passing keeps every expiry at most the coordinator's: all run down
\* together, and the lease ends with the last of them.
LEMMA TickKeeps == LeaseInv /\ Tick => LeaseInv'
<1> SUFFICES ASSUME LeaseInv, Tick PROVE LeaseInv'
  OBVIOUS
<1> USE TtlIsPositive, GrantsAreBounded DEF NoHandle
<1>1. TypeOK'
  <2>1. lease' \in [token : 0..grants, left : 0..Ttl]
    BY DEF LeaseInv, TypeOK, Tick, Free
  <2>2. cached' \in [Nodes -> 0..Ttl]
    BY DEF LeaseInv, TypeOK, Tick
  <2>3. renewal' \in [Nodes -> [state : {"none", "running", "ok", "err"},
                                cookie : 0..grants, left : 0..Ttl]]
    <3> SUFFICES ASSUME NEW n \in Nodes
                 PROVE  [renewal[n] EXCEPT !.left = IF @ = 0 THEN 0 ELSE @ - 1]
                          \in [state : {"none", "running", "ok", "err"},
                               cookie : 0..grants, left : 0..Ttl]
      BY DEF Tick
    <3>1. renewal[n] \in [state : {"none", "running", "ok", "err"},
                          cookie : 0..grants, left : 0..Ttl]
      BY DEF LeaseInv, TypeOK
    <3> QED
      BY <3>1
  <2> QED
    BY <2>1, <2>2, <2>3 DEF LeaseInv, TypeOK, Tick
<1>2. LastGrantInv'
  BY DEF LeaseInv, TypeOK, LastGrantInv, Tick, Free
<1>3. HandleInv'
  BY DEF LeaseInv, HandleInv, Tick
<1>4. CachedInv'
  BY DEF LeaseInv, TypeOK, LastGrantInv, CachedInv, Tick, Free
<1>5. RenewalInv'
  BY DEF LeaseInv, TypeOK, LastGrantInv, RenewalInv, Tick, Free
<1>6. DroppedIsUntouched' /\ WantedInv'
  BY DEF LeaseInv, TypeOK, DroppedIsUntouched, WantedInv, Tick
<1> QED
  BY <1>1, <1>2, <1>3, <1>4, <1>5, <1>6 DEF LeaseInv

\* Receiving the answer of an acquire slot keeps the invariant: a grant is made
\* only while the lease is free, when nobody goes by an earlier one.
LEMMA ReceiveKeeps ==
  ASSUME LeaseInv, NEW n \in Nodes, grants < MaxGrants, handle[n] = NoHandle,
         NEW answer \in Answers, Receive(n, answer), UNCHANGED renewal,
         wanted' = [wanted EXCEPT ![n] = "no"]
  PROVE  LeaseInv'
<1> USE TtlIsPositive, GrantsAreBounded DEF NoHandle
<1>1. CASE answer.handle = 0
  BY <1>1 DEF LeaseInv, TypeOK, LastGrantInv, HandleInv, CachedInv, RenewalInv,
              WantedInv, DroppedIsUntouched, Receive
<1>2. CASE answer.handle # 0
  <2>1. lease = Free /\ answer = Granted(grants + 1, Ttl)
    <3>1. Failed.handle = 0 /\ Declined.handle = 0
      BY DEF Failed, Declined
    <3>2. answer # Failed /\ answer # Declined
      BY <1>2, <3>1
    <3> QED
      BY <3>2 DEF Answers
  <2>2. /\ lease' = [token |-> grants + 1, left |-> Ttl]
        /\ grants' = grants + 1
        /\ table' = [table EXCEPT ![n] = @ \cup {grants + 1}]
        /\ handle' = [handle EXCEPT ![n] = grants + 1]
        /\ cached' = [cached EXCEPT ![n] = Ttl]
    BY <1>2, <2>1 DEF Receive, Granted
  <2>3. TypeOK'
    <3>1. table' \in [Nodes -> SUBSET (1..grants')]
      BY <2>2 DEF LeaseInv, TypeOK
    <3>2. renewal' \in [Nodes -> [state : {"none", "running", "ok", "err"},
                                  cookie : 0..grants', left : 0..Ttl]]
      BY <2>2 DEF LeaseInv, TypeOK
    <3>3. handle' \in [Nodes -> 0..grants'] /\ cached' \in [Nodes -> 0..Ttl]
      BY <2>2 DEF LeaseInv, TypeOK
    <3> QED
      BY <2>2, <3>1, <3>2, <3>3 DEF LeaseInv, TypeOK
  <2>4. LastGrantInv'
    BY <2>2 DEF LeaseInv, TypeOK, LastGrantInv
  <2>5. HandleInv'
    BY <2>2 DEF LeaseInv, TypeOK, HandleInv
  <2>6. CachedInv'
    BY <2>1, <2>2 DEF LeaseInv, TypeOK, CachedInv, Free
  <2>7. RenewalInv'
    BY <2>1, <2>2 DEF LeaseInv, TypeOK, RenewalInv, Free
  <2>8. DroppedIsUntouched' /\ WantedInv'
    BY <2>2 DEF LeaseInv, TypeOK, DroppedIsUntouched, WantedInv
  <2> QED
    BY <2>3, <2>4, <2>5, <2>6, <2>7, <2>8 DEF LeaseInv
<1> QED
  BY <1>1, <1>2

\* A renewal extends the lease of the cookie it was called with or fails, and
\* its answer is applied to the lease object that asked only.
LEMMA RenewingKeeps ==
  ASSUME LeaseInv, NEW n \in Nodes, Renew(n) \/ lease_renew(n) \/ Renewed(n)
  PROVE  LeaseInv'
<1> USE TtlIsPositive, GrantsAreBounded DEF NoHandle
<1>1. CASE Renew(n)
  <2>1. TypeOK'
    BY <1>1 DEF LeaseInv, TypeOK, Renew
  <2>2. LastGrantInv' /\ HandleInv' /\ CachedInv' /\ WantedInv'
    BY <1>1 DEF LeaseInv, LastGrantInv, HandleInv, CachedInv, WantedInv, Renew
  <2>3. RenewalInv'
    BY <1>1 DEF LeaseInv, TypeOK, RenewalInv, Renew
  <2>4. DroppedIsUntouched'
    BY <1>1 DEF LeaseInv, TypeOK, DroppedIsUntouched, Renew
  <2> QED
    BY <2>1, <2>2, <2>3, <2>4 DEF LeaseInv
<1>2. CASE lease_renew(n)
  <2>1. CASE lease.token = renewal[n].cookie
    <3>1. /\ lease' = [lease EXCEPT !.left = Ttl]
          /\ renewal' = [renewal EXCEPT ![n] =
                         [state |-> "ok", cookie |-> renewal[n].cookie, left |-> Ttl]]
          /\ UNCHANGED <<grants, table, handle, cached, wanted>>
          /\ renewal[n].state = "running"
      BY <1>2, <2>1 DEF lease_renew, Answer
    <3>2. TypeOK'
      BY <3>1 DEF LeaseInv, TypeOK
    <3>3. LastGrantInv'
      BY <2>1, <3>1 DEF LeaseInv, TypeOK, LastGrantInv, RenewalInv
    <3>4. HandleInv' /\ CachedInv' /\ WantedInv'
      BY <3>1 DEF LeaseInv, TypeOK, HandleInv, CachedInv, WantedInv
    <3>5. RenewalInv'
      BY <2>1, <3>1 DEF LeaseInv, TypeOK, RenewalInv
    <3>6. DroppedIsUntouched'
      BY <3>1 DEF LeaseInv, TypeOK, DroppedIsUntouched
    <3> QED
      BY <3>2, <3>3, <3>4, <3>5, <3>6 DEF LeaseInv
  <2>2. CASE lease.token # renewal[n].cookie
    <3>1. /\ renewal' = [renewal EXCEPT ![n] =
                         [state |-> "err", cookie |-> renewal[n].cookie, left |-> 0]]
          /\ UNCHANGED <<lease, grants, table, handle, cached, wanted>>
          /\ renewal[n].state = "running"
      BY <1>2, <2>2 DEF lease_renew, Answer
    <3>2. TypeOK'
      BY <3>1 DEF LeaseInv, TypeOK
    <3>3. LastGrantInv' /\ HandleInv' /\ CachedInv' /\ WantedInv'
      BY <3>1 DEF LeaseInv, LastGrantInv, HandleInv, CachedInv, WantedInv
    <3>4. RenewalInv' /\ DroppedIsUntouched'
      BY <3>1 DEF LeaseInv, TypeOK, RenewalInv, DroppedIsUntouched
    <3> QED
      BY <3>2, <3>3, <3>4 DEF LeaseInv
  <2> QED
    BY <2>1, <2>2
<1>3. CASE Renewed(n)
  <2> DEFINE c == CASE handle[n] # renewal[n].cookie -> cached[n]
                    [] handle[n] = renewal[n].cookie /\ renewal[n].state = "ok" -> renewal[n].left
                    [] OTHER -> 0
  <2>1. /\ cached' = [cached EXCEPT ![n] = c]
        /\ renewal' = [renewal EXCEPT ![n] = NoRenewal]
        /\ UNCHANGED <<lease, grants, table, handle, wanted>>
        /\ renewal[n].state \in {"ok", "err"}
    BY <1>3 DEF Renewed
  <2>2. c \in 0..Ttl
    BY DEF LeaseInv, TypeOK
  <2>3. c > 0 => handle[n] # 0 /\ lease.token = handle[n] /\ c <= lease.left
    BY <2>1 DEF LeaseInv, TypeOK, CachedInv, RenewalInv
  <2> HIDE DEF c
  <2>4. TypeOK'
    BY <2>1, <2>2 DEF LeaseInv, TypeOK, NoRenewal
  <2>5. LastGrantInv' /\ HandleInv' /\ WantedInv'
    BY <2>1 DEF LeaseInv, LastGrantInv, HandleInv, WantedInv
  <2>6. CachedInv'
    BY <2>1, <2>3 DEF LeaseInv, TypeOK, CachedInv
  <2>7. RenewalInv' /\ DroppedIsUntouched'
    BY <2>1 DEF LeaseInv, TypeOK, RenewalInv, DroppedIsUntouched, NoRenewal
  <2> QED
    BY <2>4, <2>5, <2>6, <2>7 DEF LeaseInv
<1> QED
  BY <1>1, <1>2, <1>3

\* A release frees nobody else's lease, and a crash takes the gateway's own
\* state with it.
LEMMA GivingUpKeeps ==
  ASSUME LeaseInv, NEW n \in Nodes, lease_release(n) \/ Crash(n)
  PROVE  LeaseInv'
<1> USE TtlIsPositive, GrantsAreBounded DEF NoHandle
<1>1. CASE lease_release(n)
  <2>1. TypeOK'
    BY <1>1 DEF LeaseInv, TypeOK, lease_release, Free
  <2>2. LastGrantInv'
    BY <1>1 DEF LeaseInv, TypeOK, LastGrantInv, lease_release, Free
  <2>3. HandleInv'
    BY <1>1 DEF LeaseInv, TypeOK, HandleInv, lease_release
  <2>4. CachedInv'
    BY <1>1 DEF LeaseInv, TypeOK, HandleInv, CachedInv, lease_release, Free
  <2>5. RenewalInv'
    BY <1>1 DEF LeaseInv, TypeOK, HandleInv, RenewalInv, lease_release, Free
  <2>6. DroppedIsUntouched' /\ WantedInv'
    BY <1>1 DEF LeaseInv, TypeOK, DroppedIsUntouched, WantedInv, lease_release
  <2> QED
    BY <2>1, <2>2, <2>3, <2>4, <2>5, <2>6 DEF LeaseInv
<1>2. CASE Crash(n)
  <2>1. TypeOK'
    BY <1>2 DEF LeaseInv, TypeOK, Crash, NoRenewal
  <2>2. LastGrantInv' /\ HandleInv' /\ CachedInv'
    BY <1>2 DEF LeaseInv, TypeOK, LastGrantInv, HandleInv, CachedInv, Crash
  <2>3. RenewalInv' /\ WantedInv' /\ DroppedIsUntouched'
    BY <1>2 DEF LeaseInv, TypeOK, RenewalInv, WantedInv, DroppedIsUntouched, Crash, NoRenewal
  <2> QED
    BY <2>1, <2>2, <2>3 DEF LeaseInv
<1> QED
  BY <1>1, <1>2

\* The plugin frees the state of a cookie that nothing uses.
LEMMA DropKeeps ==
  ASSUME LeaseInv, NEW n \in Nodes, NEW cookie \in table[n], lease_drop(n, cookie)
  PROVE  LeaseInv'
<1> USE DEF NoHandle
<1>1. TypeOK'
  BY DEF LeaseInv, TypeOK, lease_drop
<1>2. LastGrantInv' /\ HandleInv' /\ CachedInv' /\ RenewalInv' /\ WantedInv'
  BY DEF LeaseInv, LastGrantInv, HandleInv, CachedInv, RenewalInv, WantedInv, lease_drop
<1>3. DroppedIsUntouched'
  BY DEF LeaseInv, TypeOK, DroppedIsUntouched, lease_drop
<1> QED
  BY <1>1, <1>2, <1>3 DEF LeaseInv

\* At first the lease is free.
LEMMA LeaseInit == Init => LeaseInv
BY TtlIsPositive, GrantsAreBounded
DEF Init, LeaseInv, TypeOK, LastGrantInv, HandleInv, CachedInv, RenewalInv,
    WantedInv, DroppedIsUntouched, Free, NoRenewal, NoHandle

\* Every step of the lease slots keeps the invariant.
LEMMA LeaseStep == LeaseInv /\ [Next]_vars => LeaseInv'
<1> SUFFICES ASSUME LeaseInv, [Next]_vars PROVE LeaseInv'
  OBVIOUS
<1>1. CASE Tick
  BY <1>1, TickKeeps
<1>2. ASSUME NEW n \in Nodes, try_acquire(n) PROVE LeaseInv'
  <2>1. PICK answer \in Answers : Receive(n, answer)
    BY <1>2 DEF try_acquire
  <2>2. wanted' = [wanted EXCEPT ![n] = "no"]
    BY <1>2 DEF LeaseInv, TypeOK, try_acquire
  <2> QED
    BY <1>2, <2>1, <2>2, ReceiveKeeps DEF try_acquire
<1>3. ASSUME NEW n \in Nodes, Want(n) PROVE LeaseInv'
  BY <1>3 DEF LeaseInv, TypeOK, LastGrantInv, HandleInv, CachedInv, RenewalInv,
              WantedInv, DroppedIsUntouched, Want
<1>4. ASSUME NEW n \in Nodes, acquire(n) PROVE LeaseInv'
  <2>1. PICK answer \in Answers : Receive(n, answer)
    BY <1>4 DEF acquire
  <2>2. handle[n] = NoHandle
    BY <1>4 DEF LeaseInv, WantedInv, acquire
  <2> QED
    BY <1>4, <2>1, <2>2, ReceiveKeeps DEF acquire
<1>5. ASSUME NEW n \in Nodes, Renew(n) \/ lease_renew(n) \/ Renewed(n) PROVE LeaseInv'
  BY <1>5, RenewingKeeps
<1>6. ASSUME NEW n \in Nodes, lease_release(n) \/ Crash(n) PROVE LeaseInv'
  BY <1>6, GivingUpKeeps
<1>7. ASSUME NEW n \in Nodes, NEW cookie \in table[n], lease_drop(n, cookie)
      PROVE LeaseInv'
  BY <1>7, DropKeeps
<1>8. CASE UNCHANGED vars
  BY <1>8 DEF LeaseInv, TypeOK, LastGrantInv, HandleInv, CachedInv, RenewalInv,
              WantedInv, DroppedIsUntouched, vars
<1> QED
  BY <1>1, <1>2, <1>3, <1>4, <1>5, <1>6, <1>7, <1>8 DEF Next

\* LeaseInv holds throughout: what gateways and answers under way go by is never
\* later than the coordinator's expiry of the last lease granted.
THEOREM LeaseInvariant == Spec => []LeaseInv
BY LeaseInit, LeaseStep, PTL DEF Spec

\* The state of the lease slots keeps its type.
THEOREM LeaseTypeCorrect == Spec => []TypeOK
<1>1. LeaseInv => TypeOK
  BY DEF LeaseInv
<1> QED
  BY <1>1, LeaseInvariant, PTL

\* A gateway that goes by its lease is the coordinator's holder.
THEOREM HolderIsUndisturbedHolds == Spec => []HolderIsUndisturbed
<1>1. LeaseInv => HolderIsUndisturbed
  BY DEF LeaseInv, CachedInv, HolderIsUndisturbed, Believes
<1> QED
  BY <1>1, LeaseInvariant, PTL

\* Two gateways never go by one lease at a time.
THEOREM MutualExclusionHolds == Spec => []MutualExclusion
<1>1. LeaseInv => MutualExclusion
  <2> SUFFICES ASSUME LeaseInv PROVE MutualExclusion
    OBVIOUS
  <2> DEFINE B == {n \in Nodes : Believes(n)}
  <2>1. \A n, q \in B : n = q
    BY DEF LeaseInv, HandleInv, CachedInv, Believes
  <2>2. CASE B = {}
    BY <2>2, FS_EmptySet DEF MutualExclusion
  <2>3. CASE B # {}
    <3>1. PICK n \in B : B = {n}
      BY <2>1, <2>3
    <3> QED
      BY <3>1, FS_Singleton DEF MutualExclusion
  <2> QED
    BY <2>2, <2>3
<1> QED
  BY <1>1, LeaseInvariant, PTL

\* The fencing tokens of earlier leases are lower than the holder's.
THEOREM OldTokensAreLowerHolds == Spec => []OldTokensAreLower
<1>1. LeaseInv => OldTokensAreLower
  <2> SUFFICES ASSUME LeaseInv, NEW n \in Nodes, NEW q \in Nodes,
                      n # q, handle[n] # NoHandle, Believes(q)
               PROVE  handle[n] < handle[q]
    BY DEF OldTokensAreLower
  <2>1. handle[q] = grants
    BY DEF LeaseInv, LastGrantInv, CachedInv, Believes, NoHandle
  <2>2. handle[n] # handle[q]
    BY DEF LeaseInv, HandleInv
  <2>3. handle[n] \in 0..grants /\ grants \in Nat
    BY DEF LeaseInv, TypeOK
  <2> QED
    BY <2>1, <2>2, <2>3
<1> QED
  BY <1>1, LeaseInvariant, PTL

\* The plugin's state of a lease outlives every use of its cookie.
THEOREM DroppedIsUntouchedHolds == Spec => []DroppedIsUntouched
<1>1. LeaseInv => DroppedIsUntouched
  BY DEF LeaseInv
<1> QED
  BY <1>1, LeaseInvariant, PTL

\* The four together: a lease is one gateway's at a time (LeaseHandle and the
\* lease slots of ClusterVTable).
THEOREM LeaseIsExclusiveHolds == Spec => []LeaseIsExclusive
BY MutualExclusionHolds, HolderIsUndisturbedHolds, OldTokensAreLowerHolds,
   DroppedIsUntouchedHolds, PTL DEF LeaseIsExclusive

(***************************************************************************)
(* MCShared: whichever of the four a behaviour follows                     *)
(***************************************************************************)

\* The components' invariants, together.
SharedInv == StoreInv /\ KvInv /\ LeaseInv /\ ApprovalInv /\ NotifiersInv

\* A coordinator plugin that is not called is an empty store.
LEMMA SharedInvInit == SharedInit => SharedInv
<1>1. KvStands => KvInv
  BY CountIsBounded DEF KvStands, KvInv, KvTypeOK, AnyAgeReads, Outcome, Some, Absent
<1> QED
  BY <1>1, StoreInvInit, KvInvInit, LeaseInit, ApprovalInvInit, NotifiersInit
  DEF SharedInit, SharedInv

\* One of the four takes a step and the others none.
LEMMA SharedStep == SharedInv /\ [SharedNext]_sharedVars => SharedInv'
<1> SUFFICES ASSUME SharedInv, [SharedNext]_sharedVars PROVE SharedInv'
  OBVIOUS
<1>1. [StoreNext]_storeVars /\ [KvNext]_kvVars /\ [Next]_vars /\ [ApprovalNext]_approvalVars
  BY DEF SharedNext, sharedVars
<1> QED BY <1>1, StoreStep, KvStep, LeaseStep, ApprovalStep DEF SharedInv

\* MCShared: in the composed run's specification, for all its constants, every
\* component's state keeps its type.
THEOREM SharedTypeCorrect == SharedSpec => []SharedTypeOK
<1>1. SharedInv => SharedTypeOK
  BY ApprovalTypes DEF SharedInv, SharedTypeOK, StoreInv, KvInv, LeaseInv
<1> QED BY <1>1, SharedInvInit, SharedStep, PTL DEF SharedSpec

=============================================================================
