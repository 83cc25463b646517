---------------------------- MODULE BackendCalls ----------------------------
(***************************************************************************)
(* Calls of a backend plugin (backend.rs): profiles are registered, then   *)
(* called by execute or by execute_streaming, directly or for another      *)
(* backend through the host; the answer comes back with the usage of the   *)
(* call when the host asked for it by a request header.                    *)
(*                                                                         *)
(* The plugin's work is external: it succeeds with some result and usage,  *)
(* or fails with a BackendError.  Host and plugin are each old (before the *)
(* usage envelope) or new.  Payload bytes cross the boundary in base64.    *)
(***************************************************************************)
EXTENDS Integers, Sequences, FiniteSets, TLC

CONSTANTS
  Names,       \* profile names
  Texts,       \* texts in a result
  Usages,      \* token counts a call may use
  MaxChunks    \* bound: advisory chunks of a stream

ASSUME UsagesAreCounts == Usages \subseteq Nat

----------------------------------------------------------------------------
(* JSON results, and the usage envelope *)

USAGE_KEY == "__mcpg_usage"
USAGE_VALUE_KEY == "__mcpg_value"
ACCEPT_USAGE_HEADER == "mcpg-accept-usage"

Text(v) == [t |-> "text", v |-> v]
UsageJson(n) == [t |-> "usage", tokens |-> n]
Object(members) == [t |-> "object", m |-> members]

\* An object that holds the usage beside the result.
Envelope(usage, result) ==
  Object([k \in {USAGE_KEY, USAGE_VALUE_KEY} |->
            IF k = USAGE_KEY THEN UsageJson(usage) ELSE result])

\* Faulty variant: a result that holds a usage already is not wrapped again.
wrap_once(usage, result) ==
  IF result.t = "object" /\ USAGE_KEY \in DOMAIN result.m THEN result
  ELSE Envelope(usage, result)

\* BackendUsage::wrap
wrap(usage, result) == Envelope(usage, result)

\* What a tool may return: text, objects that hold one of the reserved keys,
\* a broken usage or a third key, and an object that is an envelope itself.
Results ==
  LET x == Text(CHOOSE v \in Texts : TRUE)
  IN {Text(v) : v \in Texts}
       \cup {Object(USAGE_VALUE_KEY :> x),
             Object((USAGE_KEY :> x) @@ (USAGE_VALUE_KEY :> x)),
             Object((USAGE_KEY :> UsageJson(1)) @@ (USAGE_VALUE_KEY :> x) @@ ("k" :> x)),
             wrap(1, x)}

NoUsage == -1

\* BackendUsage::split: the result and its usage, when the value is exactly
\* an envelope with a usage that reads as one.
split(value) ==
  IF /\ value.t = "object" /\ Cardinality(DOMAIN value.m) = 2
     /\ USAGE_VALUE_KEY \in DOMAIN value.m
     /\ USAGE_KEY \in DOMAIN value.m /\ value.m[USAGE_KEY].t = "usage"
  THEN <<value.m[USAGE_VALUE_KEY], value.m[USAGE_KEY].tokens>>
  ELSE <<value, NoUsage>>

\* A header name: its lower-case form and whether some hop wrote it otherwise.
Header(name, recased) == [name |-> name, recased |-> recased]

\* BackendUsage::accepted_by, ignoring ASCII case
accepted_by(headers) == \E h \in headers : h.name = ACCEPT_USAGE_HEADER

\* payload_b64: the wire form of a payload, and what is read back from one.  A
\* payload of an older ABI is an array of numbers and is refused.
serialize(payload) == [form |-> "base64", payload |-> payload]
deserialize(wire) ==
  IF wire.form = "base64" THEN [ok |-> TRUE, payload |-> wire.payload]
  ELSE [ok |-> FALSE]

----------------------------------------------------------------------------
(* Errors *)

BackendError == {"profile_not_found", "invalid_spec", "timeout", "transport"}

http_status(e) ==
  CASE e \in {"profile_not_found", "invalid_spec"} -> 500
    [] e = "timeout" -> 504 [] e = "transport" -> 502

\* BackendHostError: what a backend that called another through the host gets.
BackendHostError ==
  [error : {"not_found", "policy_denied", "depth_exceeded", "cycle", "not_implemented"}]
    \cup [error : {"backend"}, cause : BackendError]

host_http_status(e) ==
  CASE e.error = "not_found" -> 404 [] e.error = "policy_denied" -> 403
    [] e.error \in {"depth_exceeded", "cycle"} -> 508
    [] e.error = "backend" -> http_status(e.cause)
    [] e.error = "not_implemented" -> 501

----------------------------------------------------------------------------
(* The plugin and the host *)

VARIABLES
  backend,   \* manifest: reports usage; overrides streaming
  host,      \* takes usage; a hop recases its headers
  profiles,  \* names registered
  call,      \* the call under way
  stream,    \* chunks not yet read
  reply,     \* what the host served: result or status, charge
  truth      \* what the plugin really did: result and usage, or error

backendVars == <<backend, host, profiles, call, stream, reply, truth>>

\* BackendProfile, the parts that steer a call
Backends == [reports_usage : BOOLEAN, own_stream : BOOLEAN]

\* The host behind the gateway's own dispatch, or NoOpBackendHost.
Hosts == [takes_usage : BOOLEAN, recased : BOOLEAN, wired : BOOLEAN]

NoCall == [name |-> "none"]
NoTruth == [outcome |-> "none"]
NoReply == [status |-> 0]

\* BackendRequest: the headers it carries.
headers ==
  (IF host.takes_usage THEN {Header(ACCEPT_USAGE_HEADER, host.recased)} ELSE {})
    \cup {Header("traceparent", FALSE)}

\* The payload the plugin sends for a result.
Payload(result, usage) ==
  IF backend.reports_usage /\ accepted_by(headers) THEN wrap(usage, result) ELSE result

Advisory == {"text_delta", "tool_call", "tool_result", "usage",
             "iteration_boundary", "progress"}

Chunk(type, wire) == [type |-> type, wire |-> wire]
ErrorChunk(e) == [type |-> "error", error |-> e]

BackendTypeOK ==
  /\ backend \in Backends /\ host \in Hosts
  /\ profiles \subseteq Names
  /\ call.name \in Names \cup {"none"}
  /\ \A i \in DOMAIN stream : stream[i].type \in Advisory \cup {"done", "error"}
  /\ reply.status \in {0, 200, 403, 404, 500, 501, 502, 504, 508}

BackendInit ==
  /\ backend \in Backends /\ host \in Hosts
  /\ profiles = {} /\ call = NoCall /\ stream = <<>>
  /\ reply = NoReply /\ truth = NoTruth

Idle == call = NoCall /\ reply = NoReply

\* register_profile accepts the spec, or reports InvalidSpec at once.
register_profile(name, valid) ==
  /\ Idle /\ name \notin profiles
  /\ profiles' = IF valid THEN profiles \cup {name} ELSE profiles
  /\ reply' = IF valid THEN NoReply ELSE [status |-> http_status("invalid_spec")]
  /\ UNCHANGED <<backend, host, call, stream, truth>>

\* The gateway calls a profile; `child` when another backend asked for it.
Dispatch(name, mode, child) ==
  /\ Idle
  /\ call' = [name |-> name, mode |-> mode, child |-> child, state |-> "running", chunks |-> 0]
  /\ truth' = NoTruth
  /\ UNCHANGED <<backend, host, profiles, stream, reply>>

\* The host refuses a child before it reaches a backend.
Refuse(e) ==
  /\ Idle /\ e.error # "backend"
  /\ (e.error = "not_implemented") = ~host.wired
  /\ reply' = [status |-> host_http_status(e)]
  /\ UNCHANGED <<backend, host, profiles, call, stream, truth>>

Running == call # NoCall /\ call.state = "running"

\* What the plugin's execute comes to, known to nobody else yet.
BackendOutcomes ==
  IF call.name \notin profiles THEN {[outcome |-> "error", error |-> "profile_not_found"]}
  ELSE [outcome : {"ok"}, result : Results, usage : Usages]
         \cup [outcome : {"error"}, error : {"timeout", "transport"}]

Wire(o) == serialize(Payload(o.result, o.usage))

\* execute returns its response or its error.
execute(o) ==
  /\ Running /\ call.mode = "execute"
  /\ truth' = o
  /\ stream' = IF o.outcome = "ok" THEN <<Chunk("done", Wire(o))>>
               ELSE <<ErrorChunk(o.error)>>
  /\ call' = [call EXCEPT !.state = "ended"]
  /\ UNCHANGED <<backend, host, profiles, reply>>

\* Faulty variant: the default stream of a call that failed is empty.
execute_streaming_silent(o) ==
  /\ Running /\ call.mode = "stream" /\ ~backend.own_stream
  /\ truth' = o
  /\ stream' = IF o.outcome = "ok" THEN <<Chunk("done", Wire(o))>> ELSE <<>>
  /\ call' = [call EXCEPT !.state = "ended"]
  /\ UNCHANGED <<backend, host, profiles, reply>>

\* execute_streaming's default: execute, then one Done; its error before any
\* stream.
execute_streaming(o) ==
  /\ Running /\ call.mode = "stream" /\ ~backend.own_stream
  /\ truth' = o
  /\ stream' = IF o.outcome = "ok" THEN <<Chunk("done", Wire(o))>>
               ELSE <<ErrorChunk(o.error)>>
  /\ call' = [call EXCEPT !.state = "ended"]
  /\ UNCHANGED <<backend, host, profiles, reply>>

\* A plugin with its own stream sends advisory chunks ...
Emit(type) ==
  /\ Running /\ call.mode = "stream" /\ backend.own_stream
  /\ call.name \in profiles /\ call.chunks < MaxChunks
  /\ stream' = Append(stream, Chunk(type, serialize(Text("progress"))))
  /\ call' = [call EXCEPT !.chunks = @ + 1]
  /\ UNCHANGED <<backend, host, profiles, reply, truth>>

\* ... and ends it with Done or an error, as execute would have ended.
EndStream(o) ==
  /\ Running /\ call.mode = "stream" /\ backend.own_stream
  /\ truth' = o
  /\ stream' = Append(stream, IF o.outcome = "ok" THEN Chunk("done", Wire(o))
                              ELSE ErrorChunk(o.error))
  /\ call' = [call EXCEPT !.state = "ended"]
  /\ UNCHANGED <<backend, host, profiles, reply>>

\* The host serves a response: it takes the usage off, when the kind is one
\* that reports it and the host knows of usage.
Served(wire) ==
  LET p == deserialize(wire)
      s == IF host.takes_usage /\ backend.reports_usage THEN split(p.payload)
           ELSE <<p.payload, NoUsage>>
  IN [status |-> 200, result |-> s[1], charged |-> s[2]]

\* The host reads the next chunk: advisory ones are only shown, the last one
\* is the answer.
ReadChunk ==
  /\ call # NoCall /\ stream # <<>>
  /\ LET c == Head(stream)
     IN IF c.type \in Advisory THEN UNCHANGED <<call, reply>>
        ELSE /\ call' = NoCall
             /\ reply' = IF c.type = "done" THEN Served(c.wire)
                         ELSE [status |-> IF call.child
                                 THEN host_http_status([error |-> "backend", cause |-> c.error])
                                 ELSE http_status(c.error)]
  /\ stream' = Tail(stream)
  /\ UNCHANGED <<backend, host, profiles, truth>>

\* The optional operations of BackendPlugin, as a plugin that leaves them to
\* their default bodies answers: nothing to add, unknown, or not supported.
DefaultAnswer ==
  [input_schema |-> "none", output_schema |-> "none", list_resources |-> "empty",
   expand_capabilities |-> "empty", audit_metadata |-> "empty",
   complete_template_variable |-> "empty", health |-> "unknown",
   execute_transaction |-> "transport"]

AskOptional(op) ==
  /\ Idle
  /\ reply' = IF DefaultAnswer[op] \in BackendError
              THEN [status |-> http_status(DefaultAnswer[op])]
              ELSE [status |-> 200, result |-> Text(DefaultAnswer[op]), charged |-> NoUsage]
  /\ UNCHANGED <<backend, host, profiles, call, stream, truth>>

\* The caller takes the answer.
Deliver ==
  /\ reply # NoReply
  /\ reply' = NoReply /\ truth' = NoTruth
  /\ UNCHANGED <<backend, host, profiles, call, stream>>

\* The plugin ends the call, one way or another.
EndCall == Running /\ \E o \in BackendOutcomes : execute(o) \/ execute_streaming(o) \/ EndStream(o)

BackendNext ==
  \/ \E n \in Names, valid \in BOOLEAN : register_profile(n, valid)
  \/ \E n \in Names, mode \in {"execute", "stream"}, child \in BOOLEAN :
       Dispatch(n, mode, child)
  \/ \E e \in BackendHostError : Refuse(e)
  \/ EndCall
  \/ \E type \in Advisory : Emit(type)
  \/ ReadChunk
  \/ \E op \in DOMAIN DefaultAnswer : AskOptional(op)
  \/ Deliver

\* A backend that is called comes to an end (its own timeout is one), and the
\* host polls the stream it holds.
BackendFairness == WF_backendVars(EndCall) /\ WF_backendVars(ReadChunk)

BackendSpec == BackendInit /\ [][BackendNext]_backendVars /\ BackendFairness

----------------------------------------------------------------------------
(* Properties *)

\* Whatever the ages of host and plugin, the case of the header and the shape
\* of the result, the caller is served the result the backend returned, by
\* either way of calling: never an envelope, never the inside of a result that
\* looks like one.
ServedIsResult ==
  truth.outcome = "ok" /\ reply # NoReply
    => reply.status = 200 /\ reply.result = truth.result

\* A call is charged exactly the usage the backend had, when the kind reports
\* usage and the host takes it, and nothing otherwise.
ChargedIsUsed ==
  truth.outcome = "ok" /\ reply # NoReply
    => reply.charged = IF host.takes_usage /\ backend.reports_usage
                       THEN truth.usage ELSE NoUsage

\* A failure is told as what it was: a timeout is a 504 and a broken transport
\* a 502 whether the call came from outside or from another backend, and only
\* a missing profile is the gateway's own 500.
FailureKeepsItsCause ==
  truth.outcome = "error" /\ reply # NoReply
    => /\ reply.status = 504 <=> truth.error = "timeout"
       /\ reply.status = 502 <=> truth.error = "transport"
       /\ reply.status = 500 <=> truth.error = "profile_not_found"

\* A call that was dispatched is answered, by a chunk that ends its stream,
\* after which nothing of the stream is left to be read by the next call.
Answered == []<>(call = NoCall /\ stream = <<>>)

\* What the host answers is what the backend did: its result, its usage, or its
\* failure, whatever the ages of both and the shape of the result.
AnswersAreTrue == ServedIsResult /\ ChargedIsUsed /\ FailureKeepsItsCause

=============================================================================
