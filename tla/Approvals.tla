------------------------------ MODULE Approvals ------------------------------
(***************************************************************************)
(* Human approval of tool calls (approval_notifier.rs and the gate's       *)
(* PendingApproval, types.rs): a paused call is told to notifiers, in      *)
(* order, and waits for a human's answer, which comes back through a       *)
(* notifier's callback or a post to the direct URL, or for its deadline.   *)
(*                                                                         *)
(* Answers are duplicated, late, and made while notifiers are still being  *)
(* called; a notifier may post its message and fail.  The gateway's map of *)
(* calls in flight and its webhook are external, as the comments of this   *)
(* crate describe them.                                                    *)
(***************************************************************************)
EXTENDS Integers, Sequences, SequencesExt, Lists

CONSTANTS
  Ids,        \* approval ids, one per paused call
  Bound,      \* the notifiers bound, in registration order
  Targets,    \* per id: the values of target_notifiers its gate may use
  Bodies,     \* the outcomes written in bodies posted to the direct URL
  MaxLeft     \* bound: the farthest deadline

ASSUME DeadlineIsBounded == MaxLeft \in Nat
ASSUME NotifiersAreLists ==
  /\ Bound \in Seq(ToSet(Bound))
  /\ \A id \in Ids : \A list \in Targets[id] : list \in Seq(ToSet(list))
ASSUME BodiesAreKnown == Bodies \subseteq {"approve", "deny", "approved", "denied"}

VARIABLES
  paused,     \* per id: none, pending, resumed, 403 or 503
  time_left,  \* per id: time left until deadline_at
  asked,      \* per id: the notifiers it is for
  todo,       \* per id: those still to be called; the head is being called
  posted,     \* per id: those whose message a human can see
  failed,     \* per id: those whose notify failed
  answers,    \* resolutions on their way to the gateway, which may arrive again
  pressed     \* per id: what humans decided before the deadline

approvalVars == <<paused, time_left, asked, todo, posted, failed, answers, pressed>>

Ended == {"resumed", "403", "503"}
Outcomes == {"Approved", "Denied"}

\* ApprovalOutcome as a body's "outcome": tag and snake_case.
tag(outcome) == IF outcome = "Approved" THEN "approved" ELSE "denied"
Decoded(body) == {outcome \in Outcomes : tag(outcome) = body}

\* What a human means by a body: the spelling of the field's comment, or the tag.
MeantBy(body) == IF body \in {"approve", "approved"} THEN "Approved" ELSE "Denied"

ApprovalInit ==
  /\ paused = [id \in Ids |-> "none"] /\ time_left = [id \in Ids |-> 0]
  /\ asked = [id \in Ids |-> {}] /\ todo = [id \in Ids |-> <<>>]
  /\ posted = [id \in Ids |-> {}] /\ failed = [id \in Ids |-> {}]
  /\ answers = {} /\ pressed = [id \in Ids |-> {}]

ApprovalTypeOK ==
  /\ paused \in [Ids -> {"none", "pending"} \cup Ended] /\ time_left \in [Ids -> 0..MaxLeft]
  /\ answers \subseteq [id : Ids, outcome : Outcomes]
  /\ \A id \in Ids :
       /\ ToSet(todo[id]) \subseteq asked[id] \cap ToSet(Bound)
       /\ posted[id] \cup failed[id] \subseteq asked[id]

----------------------------------------------------------------------------
(* The gateway *)

\* An empty list means every notifier bound, in registration order.
Notifiers(target_notifiers) ==
  IF target_notifiers = <<>> THEN Bound
  ELSE Within(target_notifiers, ToSet(Bound))

\* A gate answers PendingApproval; the deadline may have passed already.
PendingApproval(id) ==
  /\ paused[id] = "none"
  /\ \E target_notifiers \in Targets[id], deadline \in 0..MaxLeft :
       /\ todo' = [todo EXCEPT ![id] = Notifiers(target_notifiers)]
       /\ asked' = [asked EXCEPT ![id] = ToSet(Notifiers(target_notifiers))]
       /\ time_left' = [time_left EXCEPT ![id] = deadline]
  /\ paused' = [paused EXCEPT ![id] = "pending"]
  /\ UNCHANGED <<posted, failed, answers, pressed>>

\* Faulty variant: the dispatch ends the call, even one that was answered.
DispatchFailed_blind(id) ==
  /\ paused[id] # "none" /\ todo[id] = <<>> /\ failed[id] = asked[id]
  /\ paused' = [paused EXCEPT ![id] = "503"]
  /\ UNCHANGED <<time_left, asked, todo, posted, failed, answers, pressed>>

\* No notifier took the request: 503.
DispatchFailed(id) ==
  /\ paused[id] = "pending" /\ todo[id] = <<>> /\ failed[id] = asked[id]
  /\ paused' = [paused EXCEPT ![id] = "503"]
  /\ UNCHANGED <<time_left, asked, todo, posted, failed, answers, pressed>>

\* The deadline has passed: 503.
ExpireCall(id) ==
  /\ paused[id] = "pending" /\ time_left[id] = 0
  /\ paused' = [paused EXCEPT ![id] = "503"]
  /\ UNCHANGED <<time_left, asked, todo, posted, failed, answers, pressed>>

TickDeadline ==
  /\ time_left' = [id \in Ids |-> IF time_left[id] = 0 THEN 0 ELSE time_left[id] - 1]
  /\ UNCHANGED <<paused, asked, todo, posted, failed, answers, pressed>>

CallAfter(outcome) == IF outcome = "Approved" THEN "resumed" ELSE "403"

\* Faulty variant: an answer counts as long as the call is in the map.
Resolve_late(answer) ==
  /\ paused' = IF paused[answer.id] = "pending"
             THEN [paused EXCEPT ![answer.id] = CallAfter(answer.outcome)] ELSE paused
  /\ UNCHANGED <<time_left, asked, todo, posted, failed, answers, pressed>>

\* An answer arrives, perhaps not for the first time.  It counts while the call
\* is in the map and its deadline has not passed; otherwise it is rejected.
Resolve(answer) ==
  /\ paused' = IF paused[answer.id] = "pending" /\ time_left[answer.id] > 0
             THEN [paused EXCEPT ![answer.id] = CallAfter(answer.outcome)] ELSE paused
  /\ UNCHANGED <<time_left, asked, todo, posted, failed, answers, pressed>>

----------------------------------------------------------------------------
(* Notifiers and humans *)

\* The message of the notifier being called becomes visible.
Post(id) ==
  /\ todo[id] # <<>>
  /\ posted' = [posted EXCEPT ![id] = @ \cup {Head(todo[id])}]
  /\ UNCHANGED <<paused, time_left, asked, todo, failed, answers, pressed>>

\* notify returns once the message is posted.
notify(id) ==
  /\ todo[id] # <<>> /\ Head(todo[id]) \in posted[id]
  /\ todo' = [todo EXCEPT ![id] = Tail(@)]
  /\ UNCHANGED <<paused, time_left, asked, posted, failed, answers, pressed>>

\* notify fails, before or after its message was posted; the next is tried.
NotificationError(id) ==
  /\ todo[id] # <<>>
  /\ failed' = [failed EXCEPT ![id] = @ \cup {Head(todo[id])}]
  /\ todo' = [todo EXCEPT ![id] = Tail(@)]
  /\ UNCHANGED <<paused, time_left, asked, posted, answers, pressed>>

Decide(id, outcome) ==
  pressed' = [pressed EXCEPT ![id] = IF time_left[id] > 0 THEN @ \cup {outcome} ELSE @]

\* A human answers through a notifier's callback.  A notifier may ignore a late
\* answer, or not.
Press(id, outcome) ==
  /\ posted[id] # {}
  /\ Decide(id, outcome)
  /\ answers' = answers \cup {[id |-> id, outcome |-> outcome]}
  /\ UNCHANGED <<paused, time_left, asked, todo, posted, failed>>

\* A human's tool posts a body to direct_callback_url; one that cannot be read
\* answers nothing.
DirectPost(id, body) ==
  /\ posted[id] # {}
  /\ Decide(id, MeantBy(body))
  /\ answers' = answers \cup [id : {id}, outcome : Decoded(body)]
  /\ UNCHANGED <<paused, time_left, asked, todo, posted, failed>>

ApprovalNext ==
  \/ TickDeadline
  \/ \E id \in Ids :
       \/ PendingApproval(id) \/ DispatchFailed(id) \/ ExpireCall(id)
       \/ Post(id) \/ notify(id) \/ NotificationError(id)
       \/ \E outcome \in Outcomes : Press(id, outcome)
       \/ \E body \in Bodies : DirectPost(id, body)
  \/ \E answer \in answers : Resolve(answer)

\* Time passes, and the gateway notices a deadline.  Notifiers and humans owe
\* nothing.
ApprovalFairness ==
  /\ WF_approvalVars(TickDeadline) /\ \A id \in Ids : WF_approvalVars(ExpireCall(id))

ApprovalSpec == ApprovalInit /\ [][ApprovalNext]_approvalVars /\ ApprovalFairness

----------------------------------------------------------------------------
(* Properties *)

\* A call goes on, or is denied, only if a human who was shown this very request
\* decided so before its deadline.
AnsweredByAHuman ==
  \A id \in Ids, outcome \in Outcomes :
    paused[id] = CallAfter(outcome) => outcome \in pressed[id]

\* 503 has its cause: the deadline passed, or no notifier took the request.
FailureForCause ==
  \A id \in Ids :
    paused[id] = "503" => time_left[id] = 0 \/ (todo[id] = <<>> /\ failed[id] = asked[id])

\* The first answer, failure or timeout ends a call for good: no later answer,
\* no second click and no end of the dispatch changes it.
EndsOnce == [][\A id \in Ids : paused[id] \in Ended => paused'[id] = paused[id]]_approvalVars

\* Every paused call ends, though notifiers hang and nobody answers.
EveryCallEnds == <>[](\A id \in Ids : paused[id] \in Ended \cup {"none"})

\* A paused call ends as a human said in time, or fails for a cause.
EndedForCause == AnsweredByAHuman /\ FailureForCause

\* Every paused call ends, and ends once, through duplicate, late and early
\* answers, failed notifiers and silence.
EveryCallEndsOnce == EndsOnce /\ EveryCallEnds

=============================================================================
