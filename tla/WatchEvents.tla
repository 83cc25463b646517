----------------------------- MODULE WatchEvents -----------------------------
(***************************************************************************)
(* An MCP Events source (backend.rs, descriptor.rs, WatchStrategyVTable):  *)
(* a watch strategy emits the events of an upstream into the host's queue; *)
(* the host stores them, tells the plugin which it is done with, and       *)
(* restarts the watch after a crash or a cancel.                           *)
(*                                                                         *)
(* Two kinds of strategy.  A `log` declares resume: true: it is restarted  *)
(* with the cursor of the last event stored and goes on after it, or       *)
(* reports a gap when the upstream no longer holds what follows.  A        *)
(* `queue` holds items until they are acknowledged and redelivers the      *)
(* others.  Plugin, host and upstream follow the contract this crate       *)
(* documents; splitting the spec and encoding a body are its code.         *)
(***************************************************************************)
EXTENDS Integers, Sequences, SequencesExt, FiniteSets

CONSTANTS
  Upstream,    \* the message bodies the upstream publishes, in order
  Refused,     \* positions the host drops for good: another event type
  QueueSize,   \* capacity of the host's queue
  MaxRestarts, \* bound: crashes and cancels
  MaxTrims,    \* bound: events the upstream forgets
  base64_encode(_)  \* the text that stands for bytes

ASSUME QueueHoldsSome == QueueSize \in Nat \ {0}

Positions == DOMAIN Upstream

----------------------------------------------------------------------------
(* Bodies and specs *)

JSON == "json"
TEXT == "text"
BASE64 == "base64"

\* A body is JSON that reads as a value, UTF-8 text that is no JSON, or bytes
\* that are no UTF-8.
Body(form, content) == [form |-> form, content |-> content]

event_body(message) ==
  CASE message.form = "json" -> <<message.content, JSON>>
    [] message.form = "text" -> <<message.content, TEXT>>
    [] message.form = "bytes" -> <<base64_encode(message.content), BASE64>>

ASSUME UpstreamIsBodies ==
  /\ Upstream \in Seq({Upstream[p] : p \in Positions})
  /\ \A p \in Positions :
       /\ Upstream[p] = Body(Upstream[p].form, Upstream[p].content)
       /\ Upstream[p].form \in {"json", "text", "bytes"}

ASSUME Base64IsExact ==
  \A p, q \in Positions :
    base64_encode(Upstream[p].content) = base64_encode(Upstream[q].content)
      => Upstream[p].content = Upstream[q].content

WATCH_RESUME_SPEC_KEY == "_mcpg_resume"

NoResume == 0

\* The operator's spec, and under the reserved key the cursor to resume from.
Spec0 == [subject |-> 1]
SpecWith(resume) ==
  IF resume = NoResume THEN Spec0
  ELSE [k \in {"subject", WATCH_RESUME_SPEC_KEY} |-> IF k = "subject" THEN 1 ELSE resume]

Resume(spec) ==
  IF WATCH_RESUME_SPEC_KEY \in DOMAIN spec THEN spec[WATCH_RESUME_SPEC_KEY] ELSE NoResume

\* Faulty variant: the position is read and stays in the spec.
take_watch_resume_kept(spec) == <<spec, Resume(spec)>>

take_watch_resume(spec) ==
  <<[k \in DOMAIN spec \ {WATCH_RESUME_SPEC_KEY} |-> spec[k]], Resume(spec)>>

----------------------------------------------------------------------------

VARIABLES
  strategy,   \* "log" or "queue"
  published,  \* positions the upstream has published
  trimmed,    \* the upstream (a log) has forgotten the positions up to here
  acked,      \* positions the upstream (a queue) was told are done
  token,      \* the running watch's StreamHandle, 0 when none runs
  watches,    \* handles given out
  next,       \* log: position the watch emits next
  out,        \* queue: positions delivered to the watch and not acknowledged
  queue,      \* the host's queue: events, in order of emission
  stored,     \* durable: the events stored, in order
  gaps,       \* durable: positions before which the host recorded a gap
  cursor,     \* durable: upstream_cursor of the last event stored
  settled,    \* acknowledgements not yet sent: handle and position
  dropped,    \* positions dropped on a full queue
  restarts

watchVars == <<strategy, published, trimmed, acked, token, watches, next, out, queue,
          stored, gaps, cursor, settled, dropped, restarts>>

\* WatchEvent, as far as the host looks at it.
WatchEvent(p, gap) ==
  [event_id |-> p, upstream_cursor |-> p, gap |-> gap, data |-> event_body(Upstream[p])]

StoredIds == {stored[i].event_id : i \in DOMAIN stored}

WatchTypeOK ==
  /\ strategy \in {"log", "queue"}
  /\ published \in 0..Len(Upstream) /\ trimmed \in 0..published
  /\ acked \subseteq Positions /\ out \subseteq Positions /\ dropped \subseteq Positions
  /\ token \in 0..watches /\ next \in 1..(Len(Upstream) + 1)
  /\ Len(queue) <= QueueSize /\ cursor \in 0..published
  /\ \A i \in DOMAIN settled : settled[i][1] \in 1..watches /\ settled[i][2] \in Positions

WatchInit ==
  /\ strategy \in {"log", "queue"}
  /\ published = 0 /\ trimmed = 0 /\ acked = {} /\ token = 0 /\ watches = 0
  /\ next = 1 /\ out = {} /\ queue = <<>> /\ stored = <<>> /\ gaps = {}
  /\ cursor = NoResume
  /\ settled = <<>> /\ dropped = {} /\ restarts = 0

Publish ==
  /\ published < Len(Upstream)
  /\ published' = published + 1
  /\ UNCHANGED <<strategy, trimmed, acked, token, watches, next, out, queue,
                 stored, gaps, cursor, settled, dropped, restarts>>

\* A log forgets its oldest event.
Trim ==
  /\ strategy = "log" /\ trimmed < published /\ trimmed < MaxTrims
  /\ trimmed' = trimmed + 1
  /\ UNCHANGED <<strategy, published, acked, token, watches, next, out, queue,
                 stored, gaps, cursor, settled, dropped, restarts>>

\* watch: the plugin parses the spec without the reserved key, strictly, and
\* starts after the position it was given.
watch ==
  /\ token = 0
  /\ LET split == take_watch_resume(SpecWith(IF strategy = "log" THEN cursor ELSE NoResume))
     IN /\ split[1] = Spec0
        /\ next' = split[2] + 1
  /\ watches' = watches + 1 /\ token' = watches + 1
  /\ UNCHANGED <<strategy, published, trimmed, acked, out, queue,
                 stored, gaps, cursor, settled, dropped, restarts>>

\* Faulty variant: the queue takes any number of events.
Offer_unbounded(event, first) == queue' = Append(queue, event) /\ UNCHANGED dropped

\* The sink takes an event, or drops it when the queue is full, and with it
\* the notice that the positions from `first` on were skipped.
Offer(event, first) ==
  IF Len(queue) < QueueSize
  THEN queue' = Append(queue, event) /\ UNCHANGED dropped
  ELSE dropped' = dropped \cup first..event.event_id /\ UNCHANGED queue

\* emit of a log: the next event it can still read, with a gap when it had to
\* skip some.
EmitLog ==
  /\ strategy = "log" /\ token # 0
  /\ LET p == IF next > trimmed THEN next ELSE trimmed + 1
     IN /\ p <= published
        /\ Offer(WatchEvent(p, p > next), next)
        /\ next' = p + 1
  /\ UNCHANGED <<strategy, published, trimmed, acked, token, watches, out,
                 stored, gaps, cursor, settled, restarts>>

\* Faulty variant: an item is acknowledged as soon as the queue has it.
EmitQueue_acked(p) ==
  /\ strategy = "queue" /\ token # 0
  /\ p <= published /\ p \notin acked \cup out
  /\ Offer(WatchEvent(p, FALSE), p)
  /\ acked' = acked \cup {p}
  /\ UNCHANGED <<strategy, published, trimmed, token, watches, next, out,
                 stored, gaps, cursor, settled, restarts>>

\* emit of a queue: any item that is neither acknowledged nor out.
EmitQueue(p) ==
  /\ strategy = "queue" /\ token # 0
  /\ p <= published /\ p \notin acked \cup out
  /\ Offer(WatchEvent(p, FALSE), p)
  /\ out' = out \cup {p}
  /\ UNCHANGED <<strategy, published, trimmed, acked, token, watches, next,
                 stored, gaps, cursor, settled, restarts>>

\* The upstream's delivery timeout: an item the host dropped is offered again.
Redeliver(p) ==
  /\ strategy = "queue" /\ p \in out \cap dropped
  /\ out' = out \ {p} /\ dropped' = dropped \ {p}
  /\ UNCHANGED <<strategy, published, trimmed, acked, token, watches, next, queue,
                 stored, gaps, cursor, settled, restarts>>

\* The host takes an event off its queue and stores it with its cursor, unless
\* it has its event_id or refuses it; either way it is done with it.
Store ==
  /\ queue # <<>>
  /\ LET e == Head(queue)
     IN /\ IF e.event_id \in Refused \cup StoredIds
           THEN UNCHANGED <<stored, cursor>>
           ELSE stored' = Append(stored, e) /\ cursor' = e.upstream_cursor
        /\ gaps' = IF e.gap THEN gaps \cup {e.event_id} ELSE gaps
        /\ settled' = IF token = 0 THEN settled ELSE Append(settled, <<token, e.upstream_cursor>>)
  /\ queue' = Tail(queue)
  /\ UNCHANGED <<strategy, published, trimmed, acked, token, watches, next, out,
                 dropped, restarts>>

\* acknowledge, in order, and only of the watch that runs.  Its default does
\* nothing; a queue tells its upstream.
acknowledge ==
  /\ settled # <<>>
  /\ LET p == Head(settled)[2]
     IN IF strategy = "queue" /\ Head(settled)[1] = token
        THEN acked' = acked \cup {p} /\ out' = out \ {p}
        ELSE UNCHANGED <<acked, out>>
  /\ settled' = Tail(settled)
  /\ UNCHANGED <<strategy, published, trimmed, token, watches, next, queue,
                 stored, gaps, cursor, dropped, restarts>>

\* cancel: the watch emits nothing more and is acknowledged nothing more; what
\* it emitted is still in the host's queue.
cancel ==
  /\ token # 0 /\ restarts < MaxRestarts
  /\ token' = 0 /\ out' = {} /\ settled' = <<>> /\ restarts' = restarts + 1
  /\ UNCHANGED <<strategy, published, trimmed, acked, watches, next, queue,
                 stored, gaps, cursor, dropped>>

\* The host crashes: its queue and the watch are gone, what it stored is not.
Crash ==
  /\ restarts < MaxRestarts
  /\ token' = 0 /\ out' = {} /\ settled' = <<>> /\ queue' = <<>>
  /\ restarts' = restarts + 1
  /\ UNCHANGED <<strategy, published, trimmed, acked, watches, next,
                 stored, gaps, cursor, dropped>>

WatchNext ==
  \/ Publish \/ Trim \/ watch \/ EmitLog \/ Store \/ acknowledge \/ cancel \/ Crash
  \/ \E p \in Positions : EmitQueue(p) \/ Redeliver(p)

\* The host restarts its watches and works off its queues, and the plugin
\* emits what its upstream has.
WatchFairness ==
  /\ WF_watchVars(watch) /\ WF_watchVars(EmitLog) /\ WF_watchVars(Store) /\ WF_watchVars(acknowledge)
  /\ \A p \in Positions : WF_watchVars(EmitQueue(p)) /\ WF_watchVars(Redeliver(p))

WatchSpec == WatchInit /\ [][WatchNext]_watchVars /\ WatchFairness

----------------------------------------------------------------------------
(* Properties *)

\* A restart of a log loses nothing (descriptor.rs, `resume`): every event up
\* to the stored cursor is stored, refused, announced as a gap, or was dropped
\* while the watch ran because the queue was full.
RestartLosesNothing ==
  strategy = "log" =>
    \A p \in 1..cursor :
      \/ p \in StoredIds \cup Refused \cup dropped
      \/ \E q \in gaps : q > p

\* The upstream is told to forget an item only when the host has stored or
\* refused it: whatever crashes, nothing acknowledged is lost.
AckedIsSettled == acked \subseteq StoredIds \cup Refused

\* Redelivery, re-emission after a cancel and a lost acknowledgement store no
\* event twice.
StoredOnce == Cardinality(StoredIds) = Len(stored)

\* Two different messages are never stored alike: the encoding beside the
\* value tells JSON from text and from bytes.
BodiesNeverReadAlike ==
  \A i, j \in DOMAIN stored :
    stored[i].data = stored[j].data
      => Upstream[stored[i].event_id] = Upstream[stored[j].event_id]

\* Every published event is dealt with in the end, through restarts: a queue
\* stores or refuses it, and a log does unless it said there is a gap or its
\* queue was full.
EventuallySettled ==
  <>[](\A p \in 1..published :
         \/ p \in StoredIds \cup Refused
         \/ strategy = "log" /\ (p \in dropped \/ p <= trimmed))

\* What the upstream was told is done, or the cursor has passed, is stored, once
\* and as what it was, through crashes, redelivery and full queues.
StoredExactly == RestartLosesNothing /\ AckedIsSettled /\ StoredOnce /\ BodiesNeverReadAlike

=============================================================================
