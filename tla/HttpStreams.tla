----------------------------- MODULE HttpStreams -----------------------------
(***************************************************************************)
(* One request to an http_route plugin across the FFI boundary             *)
(* (http_route.rs, HttpRouteVTable): the host's checks before the plugin   *)
(* is called, the bytes-only and the streaming slot, and a streamed body   *)
(* whose chunks the plugin pushes from its own runtime into one of two     *)
(* sinks, before or after the slot has returned the head.                  *)
(*                                                                         *)
(* A chunk's data is a sequence of byte values; the conversions, the       *)
(* routes and the result records are this crate's code.  The host and the  *)
(* plugin's adapter, which are not, follow the comments on them.           *)
(***************************************************************************)
EXTENDS Integers, Sequences, SequencesExt

CONSTANTS
  Routes,     \* the RouteSpecs: requires_identity, streaming, max_body_bytes
  Requests,   \* identity and body
  Responses   \* what handle returns: "bytes" and a body, or "stream" and chunks

Nothing == <<>>
Some(x) == <<x>>

----------------------------------------------------------------------------
(* Bodies, chunks and their wire forms *)

DefaultMaxBody == 1
RouteSpec(requires_identity, streaming, max_body_bytes) ==
  [requires_identity |-> requires_identity, streaming |-> streaming,
   max_body_bytes |-> max_body_bytes]

HttpRouteRequest(identity, body) == [identity |-> identity, body |-> body]

Bytes(body) == [tag |-> "bytes", body |-> body]
Stream(chunks) == [tag |-> "stream", body |-> chunks]

Data(bytes) == [kind |-> "data", name |-> "", data |-> bytes]
Event(name, bytes) == [kind |-> "event", name |-> name, data |-> bytes]
End == [kind |-> "end", name |-> "", data |-> <<>>]

\* An identity that is None crosses as null.
request_to_wire(req) == [identity |-> req.identity, body |-> req.body]
request_from_wire(wire) == HttpRouteRequest(wire.identity, wire.body)

\* TryFrom<HttpRouteResponse>: a stream does not fit the bytes-only slot.
response_to_wire(resp) == IF resp.tag = "bytes" THEN Some(resp.body) ELSE Nothing

chunk_to_wire(c) ==
  CASE c.kind = "data" -> [kind |-> "data", data |-> c.data]
    [] c.kind = "event" -> [kind |-> "event", name |-> c.name, data |-> c.data]
    [] c.kind = "end" -> [kind |-> "end"]

chunk_from_wire(w) ==
  CASE w.kind = "data" -> Data(w.data)
    [] w.kind = "event" -> Event(w.name, w.data)
    [] w.kind = "end" -> End

IsEnd(c) == c.kind = "end"

ASSUME RequestsAreWhole == \A r \in Requests : r = HttpRouteRequest(r.identity, r.body)

\* A streamed body is a sequence of chunks.
ASSUME ResponsesAreWhole ==
  \A r \in Responses :
    \/ r = Bytes(r.body)
    \/ /\ r = Stream(r.body) /\ r.body \in Seq({r.body[i] : i \in DOMAIN r.body})
       /\ \A i \in DOMAIN r.body :
            LET c == r.body[i] IN c \in {Data(c.data), Event(c.name, c.data), End}

\* HttpHandleResult: a handle and a head, or no handle and the whole response;
\* neither when the plugin panicked.
NoResult == [handle |-> 0, head |-> Nothing]
HttpHandleResult(handle, head) == [handle |-> handle, head |-> Some(head)]

----------------------------------------------------------------------------

VARIABLES
  route, request,
  pc,           \* the host: check, call, wait, serve, cancel, done
  status,       \* what the client is answered, 0 before
  slot_result,  \* what the slot returned, Nothing while it runs
  handler,      \* the slot: idle, running, returned
  panicked,     \* it panicked
  seen,         \* the request as the plugin gets it
  response,     \* what the plugin's handler produced
  path,         \* the sink its adapter chose
  source,       \* chunks of the handler's stream still to be pushed
  emitter,      \* the adapter's task: off, on, ended, cancelled
  bridge,       \* the host's sink context: live or freed
  inbox,        \* chunks pushed and not yet served, as the host reads them
  body,         \* what the client has received
  gone          \* the client has closed the connection

httpVars == <<route, request, pc, status, slot_result, handler, panicked, seen, response,
          path, source, emitter, bridge, inbox, body, gone>>

given == <<route, request, response>>

HttpTypeOK ==
  /\ pc \in {"check", "call", "wait", "serve", "cancel", "done"}
  /\ status \in {0, 200, 401, 413, 500}
  /\ handler \in {"idle", "running", "returned"}
  /\ emitter \in {"off", "on", "ended", "cancelled"} /\ bridge \in {"live", "freed"}
  /\ path \in {"sink", "bytes_sink"} /\ gone \in BOOLEAN /\ panicked \in BOOLEAN
  /\ response.tag = "stream" /\ emitter = "off" => source \in {<<>>, response.body}
  /\ \A i \in DOMAIN inbox : inbox[i].kind \in {"data", "event", "end"}

HttpInit ==
  /\ seen = Nothing /\ panicked = FALSE
  /\ route \in Routes /\ request \in Requests
  /\ pc = "check" /\ status = 0 /\ slot_result = Nothing
  /\ handler = "idle" /\ response \in Responses /\ path = "sink" /\ source = <<>>
  /\ emitter = "off" /\ bridge = "live" /\ inbox = <<>> /\ body = <<>> /\ gone = FALSE

----------------------------------------------------------------------------
(* The host, before the plugin *)

MaxBody == IF route.max_body_bytes = Nothing THEN DefaultMaxBody ELSE route.max_body_bytes[1]

\* Identity and body size are checked before the plugin sees anything.
Check ==
  /\ pc = "check"
  /\ \/ /\ route.requires_identity /\ request.identity = Nothing
        /\ status' = 401 /\ pc' = "done"
     \/ /\ Len(request.body) > MaxBody
        /\ status' = 413 /\ pc' = "done"
     \/ /\ route.requires_identity => request.identity # Nothing
        /\ Len(request.body) <= MaxBody
        /\ pc' = "call" /\ UNCHANGED status
  /\ UNCHANGED <<given, panicked, seen, slot_result, handler, path, source,
                 emitter, bridge, inbox, body, gone>>

\* The streaming slot is for routes that declared it; the other one takes bytes.
Call ==
  /\ pc = "call" /\ handler = "idle"
  /\ handler' = "running" /\ pc' = "wait"
  /\ seen' = Some(request_from_wire(request_to_wire(request)))
  /\ UNCHANGED <<given, panicked, status, slot_result, path, source,
                 emitter, bridge, inbox, body, gone>>

----------------------------------------------------------------------------
(* The plugin *)

\* It panics before it has started to push anything; the guard of the slot
\* leaves the host no handle and no head.
Panic ==
  /\ handler = "running" /\ emitter = "off"
  /\ handler' = "returned" /\ panicked' = TRUE /\ slot_result' = Some(NoResult)
  /\ UNCHANGED <<given, seen, pc, status, path, source,
                 emitter, bridge, inbox, body, gone>>

\* handle.
ReturnFromHandle ==
  /\ handler = "running" /\ ~route.streaming
  /\ handler' = "returned"
  /\ slot_result' = Some(IF response_to_wire(response) = Nothing THEN NoResult
                    ELSE HttpHandleResult(0, response_to_wire(response)[1]))
  /\ UNCHANGED <<given, panicked, seen, pc, status, path, source,
                 emitter, bridge, inbox, body, gone>>

\* handle_streaming starts to push a stream.  Named events need the text sink;
\* a stream that did not say End is ended by the adapter.
StartStream ==
  /\ handler = "running" /\ route.streaming /\ emitter = "off" /\ response.tag = "stream"
  /\ path' \in (IF \E i \in DOMAIN response.body : response.body[i].kind = "event"
                THEN {"sink"} ELSE {"sink", "bytes_sink"})
  /\ source' = IF \E i \in DOMAIN response.body : IsEnd(response.body[i])
               THEN response.body ELSE Append(response.body, End)
  /\ emitter' = "on"
  /\ UNCHANGED <<given, panicked, seen, pc, status, slot_result,
                 handler, bridge, inbox, body, gone>>

\* handle_streaming returns: the head of a stream it has started, or bytes.
ReturnFromStreaming ==
  /\ handler = "running" /\ route.streaming
  /\ response.tag = "stream" => emitter # "off"
  /\ handler' = "returned"
  /\ slot_result' = Some(IF response.tag = "stream" THEN HttpHandleResult(1, "head")
                    ELSE HttpHandleResult(0, response.body))
  /\ UNCHANGED <<given, panicked, seen, pc, status, path, source,
                 emitter, bridge, inbox, body, gone>>

\* Faulty variant: the adapter pushes every chunk, one without bytes too.
Pushed_empties(c) == TRUE

\* Whether the adapter pushes a chunk: on the binary path an empty vector
\* would be the end of the stream.
Pushed(c) == path = "bytes_sink" => c.data # <<>> \/ IsEnd(c)

\* What the host reads from the sink.
Read(c) ==
  CASE path = "sink" -> chunk_from_wire(chunk_to_wire(c))
    [] path = "bytes_sink" /\ c.data = <<>> -> End
    [] OTHER -> Data(c.data)

\* The adapter's task pushes the next chunk, whatever the slot is doing.
EmitChunk ==
  /\ emitter = "on" /\ source # <<>>
  /\ inbox' = IF Pushed(Head(source)) THEN Append(inbox, Read(Head(source))) ELSE inbox
  /\ source' = Tail(source)
  /\ emitter' = IF Tail(source) = <<>> THEN "ended" ELSE "on"
  /\ UNCHANGED <<given, panicked, seen, pc, status, slot_result,
                 handler, path, bridge, body, gone>>

----------------------------------------------------------------------------
(* The host, after the plugin *)

\* The slot has returned: no head is a 500, no handle a whole response, and a
\* handle a body to come; chunks may be in already.
Returned ==
  /\ pc = "wait" /\ handler = "returned"
  /\ CASE slot_result[1].head = Nothing ->
            status' = 500 /\ pc' = "cancel" /\ UNCHANGED body
       [] slot_result[1].head # Nothing /\ slot_result[1].handle = 0 ->
            status' = 200 /\ body' = Some(slot_result[1].head[1]) /\ pc' = "cancel"
       [] OTHER -> status' = 200 /\ pc' = "serve" /\ UNCHANGED body
  /\ UNCHANGED <<given, panicked, seen, slot_result, handler, path,
                 source, emitter, bridge, inbox, gone>>

\* Chunks go to the client up to End; what comes after it is dropped.
Serve ==
  /\ pc = "serve" /\ ~gone /\ inbox # <<>>
  /\ IF IsEnd(Head(inbox)) THEN pc' = "cancel" /\ UNCHANGED body
     ELSE body' = Append(body, Head(inbox)) /\ UNCHANGED pc
  /\ inbox' = Tail(inbox)
  /\ UNCHANGED <<given, panicked, seen, status, slot_result, handler,
                 path, source, emitter, bridge, gone>>

Disconnect ==
  /\ pc \in {"call", "wait", "serve"} /\ ~gone
  /\ gone' = TRUE
  /\ UNCHANGED <<given, panicked, seen, pc, status, slot_result, handler,
                 path, source, emitter, bridge, inbox, body>>

\* The client is gone: the stream is cancelled, once there is a handle for it.
Abandon ==
  /\ pc = "serve" /\ gone
  /\ pc' = "cancel"
  /\ UNCHANGED <<given, panicked, seen, status, slot_result, handler, path,
                 source, emitter, bridge, inbox, body, gone>>

\* Faulty variant: a stream that has said End is not cancelled.
cancel_stream_ended ==
  /\ pc = "cancel"
  /\ emitter' = IF gone /\ emitter = "on" THEN "cancelled" ELSE emitter
  /\ bridge' = "freed" /\ pc' = "done"
  /\ UNCHANGED <<given, panicked, seen, status, slot_result, handler,
                 path, source, inbox, body, gone>>

\* cancel_stream, after End too: when it has returned the plugin calls the sink
\* no more, and only then is the sink's context freed.
cancel_stream ==
  /\ pc = "cancel"
  /\ emitter' = IF emitter = "on" THEN "cancelled" ELSE emitter
  /\ bridge' = "freed" /\ pc' = "done"
  /\ UNCHANGED <<given, panicked, seen, status, slot_result, handler,
                 path, source, inbox, body, gone>>

HttpNext ==
  \/ Check \/ Call \/ Returned \/ Serve \/ Disconnect \/ Abandon \/ cancel_stream
  \/ Panic \/ ReturnFromHandle \/ StartStream \/ ReturnFromStreaming \/ EmitChunk

\* The host goes on; a plugin's slot returns and its task pushes its chunks.
\* Nothing makes a client close its connection or a plugin panic.
HttpFairness ==
  /\ WF_httpVars(Check) /\ WF_httpVars(Call) /\ WF_httpVars(Returned) /\ WF_httpVars(Serve)
  /\ WF_httpVars(Abandon) /\ WF_httpVars(cancel_stream)
  /\ WF_httpVars(ReturnFromHandle \/ StartStream \/ ReturnFromStreaming) /\ WF_httpVars(EmitChunk)

HttpSpec == HttpInit /\ [][HttpNext]_httpVars /\ HttpFairness

----------------------------------------------------------------------------
(* Properties *)

\* The chunks of a stream that a client should see: those before End.
Meant ==
  LET ends == {i \in DOMAIN response.body : IsEnd(response.body[i])}
  IN IF ends = {} THEN response.body
     ELSE SubSeq(response.body, 1, (CHOOSE i \in ends : \A j \in ends : i <= j) - 1)

\* `short` is `long` without some of the chunks that carry no bytes.
Thins(short, long) ==
  \E at \in [DOMAIN short -> DOMAIN long] :
    /\ \A i, j \in DOMAIN short : i < j => at[i] < at[j]
    /\ \A i \in DOMAIN short : short[i] = long[at[i]]
    /\ \A k \in DOMAIN long : long[k].data # <<>> => \E i \in DOMAIN short : at[i] = k

\* A body that was served to its end is the plugin's stream up to End, whichever
\* sink it took and however its chunks raced the head: nothing is lost,
\* reordered, repeated or renamed but chunks without bytes may be left out, and
\* such a chunk does not end it (BytesSinkRef).
BodyIsWhole ==
  pc = "done" /\ ~gone /\ status = 200 /\ response.tag = "stream"
    => Thins(body, Meant)

\* When the host has freed the sink's context no task of the plugin can still
\* call it (HttpRouteVTable::cancel_stream, BytesSinkRef::ctx).
FreedSinkIsSilent == bridge = "freed" => emitter # "on"

\* A client is told of a failure only for a cause: the plugin panicked, or
\* streamed on a route that did not declare it; and then it is told.
HttpFailureForCause ==
  pc = "done" /\ status \notin {401, 413}
    => (status = 500 <=> panicked \/ (~route.streaming /\ response.tag = "stream"))

\* What the host checked is what the plugin sees: a route that requires an
\* identity is handed one, and no body larger than its limit.
CheckedIsSeen ==
  seen # Nothing =>
    /\ route.requires_identity => seen[1].identity # Nothing
    /\ Len(seen[1].body) <= MaxBody /\ seen[1] = request

\* Every request ends, with an answer or the client gone, and its context is
\* freed if the plugin was given one.
EveryRequestEnds == <>[](pc = "done" /\ (handler # "idle" => bridge = "freed"))

\* The plugin sees the request that was checked and the client the response
\* that was meant, whole, or an error that has its cause.
ServedFaithfully == BodyIsWhole /\ HttpFailureForCause /\ CheckedIsSeen

=============================================================================
