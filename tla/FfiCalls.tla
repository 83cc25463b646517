------------------------------ MODULE FfiCalls ------------------------------
(***************************************************************************)
(* What a plugin's slot returns across the C boundary and what the host    *)
(* reads: the conversions between native and FFI types, the envelope of    *)
(* fallible slots, the sentinel structs, and the guards that turn a panic  *)
(* into a value (abi.rs, result_envelope.rs, http_route.rs).               *)
(*                                                                         *)
(* One plugin is loaded, serves any number of calls one after the other,   *)
(* and is torn down.  Any of its functions may panic.  A slot written with *)
(* this crate's encoders returns a native value; one written without them  *)
(* ("foreign") may put any text where JSON belongs.                        *)
(***************************************************************************)
EXTENDS Integers, Sequences

CONSTANTS Values,       \* JSON payloads other than null
          Errors,       \* values of a slot's error type
          Internal,     \* among them, DispatcherError::Internal
          Lists,        \* lists of approval notifiers
          NoList,       \* among them, the empty list
          Codes,        \* JSON-RPC codes a plugin's author uses
          Rank          \* the names of identity attributes, in BTreeMap order

Null == "null"
None == "none"
PanicReply == "externally tagged Internal"
PANIC_DENY_CODE == "-32099"

ASSUME DataAssumption ==
  /\ Internal \in Errors /\ NoList \in Lists
  /\ Null \notin Values /\ None \notin Values
  /\ PanicReply \notin Errors
  /\ PANIC_DENY_CODE \notin Codes /\ Codes # {}
  /\ \A k \in DOMAIN Rank : Rank[k] \in Nat
  /\ \A k, l \in DOMAIN Rank : Rank[k] = Rank[l] => k = l

VARIABLES load,         \* where the loader is with the plugin
          crashed,      \* the lifecycle functions that panicked
          phase,        \* of the call: "idle", "running", "returned", "read"
          slot,         \* the slot called
          meant,        \* what the plugin's body did: a value, a panic, foreign
          wire,         \* what crossed the boundary
          seen          \* what the host made of it

callVars == <<phase, slot, meant, wire, seen>>
vars == <<load, crashed, callVars>>

EnvelopeSlots == {"execute", "cache_get", "register_profile", "dispatch"}
HandleSlots == {"acquire_lock", "try_acquire_lock", "subscribe", "start"}
Slots == {"evaluate_dispatch", "transform", "resolve_identity", "handle",
          "handle_streaming"} \cup EnvelopeSlots \cup HandleSlots

----------------------------------------------------------------------------
(* JSON text.  RNone is the absent text of an ROption<RString>. *)

Text(t, v) == [text |-> t, json |-> v]
to_string(v) == Text("json", v)
Empty == Text("empty", Null)
Junk == Text("junk", Null)
RNone == Text("none", Null)

OptJson == Values \cup {Null, None}
Texts(S) == {to_string(v) : v \in S} \cup {Empty, Junk}

\* Faulty variant: a text that does not parse is kept as it is.
FromStrOrRaw(t, default) == IF t.text = "json" THEN t.json ELSE t.text

\* from_str(..).unwrap_or(default)
FromStrOr(t, default) == IF t.text = "json" THEN t.json ELSE default

\* `parse`: an absent or undecodable text is None, the text null is not.
parse(t) == FromStrOr(t, None)

\* `enc`: None stays absent.
enc(o) == IF o = None THEN RNone ELSE to_string(o)

\* serde_json::to_string of an Option: None is written as null.
OptionToString(o) == to_string(IF o = None THEN Null ELSE o)

----------------------------------------------------------------------------
(* Native results, and their FFI forms. *)

GateDecision ==
  [tag : {"Allow"}, modified_arguments : OptJson, modified_result : OptJson,
   metadata : OptJson]
    \cup [tag : {"Deny"}, code : Codes, error_data : OptJson]
    \cup [tag : {"Challenge"}, code : Codes, challenge_data : Values \cup {Null}]
    \cup [tag : {"PendingApproval"}, target_notifiers : Lists, metadata : OptJson]

TransformResult ==
  [tag : {"Modified"}, value : Values \cup {Null}]
    \cup [tag : {"Unchanged", "Error"}]

\* Of an identity, its map of attributes; the other fields are copied.
Attributes == UNION {[K -> Values] : K \in SUBSET DOMAIN Rank}

IdentityResolution ==
  [tag : {"Resolved"}, attributes : Attributes] \cup [tag : {"None", "Invalid"}]

\* The success payload of each envelope slot: a struct, an Option, or ().
Payload(s) ==
  CASE s = "cache_get" -> Values \cup {None}
    [] s = "register_profile" -> {Null}
    [] OTHER -> Values

Outcome(s) == [tag : {"Ok"}, ok : Payload(s)] \cup [tag : {"Err"}, err : Errors]

Acquisition(s) ==
  [tag : {"Started"} \cup IF s = "try_acquire_lock" THEN {"Declined"} ELSE {}]
    \cup [tag : {"Err"}, err : Errors]

HttpRouteResponse == [tag : {"Bytes", "Stream"}, body : Values]

Native(s) ==
  CASE s = "evaluate_dispatch" -> GateDecision
    [] s = "transform" -> TransformResult
    [] s = "resolve_identity" -> IdentityResolution
    [] s \in EnvelopeSlots -> Outcome(s)
    [] s \in HandleSlots -> Acquisition(s)
    [] OTHER -> HttpRouteResponse

\* From<GateDecision> for RGateDecision
ToRGate(d) ==
  CASE d.tag = "Allow" ->
         [tag |-> "Allow",
          modified_arguments_json |-> enc(d.modified_arguments),
          modified_result_json |-> enc(d.modified_result),
          metadata_json |-> enc(d.metadata)]
    [] d.tag = "Deny" ->
         [tag |-> "Deny", code |-> d.code, error_data_json |-> enc(d.error_data)]
    [] d.tag = "Challenge" ->
         [tag |-> "Challenge", code |-> d.code,
          challenge_data_json |-> to_string(d.challenge_data)]
    [] d.tag = "PendingApproval" ->
         [tag |-> "PendingApproval",
          target_notifiers_json |-> to_string(d.target_notifiers),
          metadata_json |-> OptionToString(d.metadata)]

\* From<RGateDecision> for GateDecision
FromRGate(r) ==
  CASE r.tag = "Allow" ->
         [tag |-> "Allow",
          modified_arguments |-> parse(r.modified_arguments_json),
          modified_result |-> parse(r.modified_result_json),
          metadata |-> parse(r.metadata_json)]
    [] r.tag = "Deny" ->
         [tag |-> "Deny", code |-> r.code, error_data |-> parse(r.error_data_json)]
    [] r.tag = "Challenge" ->
         [tag |-> "Challenge", code |-> r.code,
          challenge_data |-> FromStrOr(r.challenge_data_json, Null)]
    [] r.tag = "PendingApproval" ->
         [tag |-> "PendingApproval",
          target_notifiers |-> FromStrOr(r.target_notifiers_json, NoList),
          metadata |-> parse(r.metadata_json)]

\* From<TransformResult> for RTransformResult, and back
ToRTransform(t) ==
  IF t.tag = "Modified"
  THEN [tag |-> "Modified", value_json |-> to_string(t.value)]
  ELSE [tag |-> t.tag]

FromRTransform(r) ==
  IF r.tag = "Modified"
  THEN [tag |-> "Modified", value |-> FromStrOr(r.value_json, Null)]
  ELSE [tag |-> r.tag]

\* The attributes travel as a list of pairs, here a function from positions;
\* the map is written in the order of its keys.
ToPairs(m) ==
  [p \in {Rank[k] : k \in DOMAIN m} |->
     LET k == CHOOSE x \in DOMAIN m : Rank[x] = p IN [key |-> k, value |-> m[k]]]

\* Collecting pairs into a map: the last pair of a key stays.
FromPairs(l) ==
  [k \in {l[p].key : p \in DOMAIN l} |->
     l[CHOOSE p \in DOMAIN l : /\ l[p].key = k
                               /\ \A q \in DOMAIN l : l[q].key = k => q <= p].value]

\* From<IdentityResolution> for RIdentityResolution, and back
ToRIdentity(i) ==
  IF i.tag = "Resolved" THEN [tag |-> "Resolved", pairs |-> ToPairs(i.attributes)]
                        ELSE [tag |-> i.tag]

FromRIdentity(r) ==
  IF r.tag = "Resolved" THEN [tag |-> "Resolved", attributes |-> FromPairs(r.pairs)]
                        ELSE [tag |-> r.tag]

\* The RString of a fallible slot: a JSON object, member by member.
RString(t, ms) == [tag |-> "rstring", text |-> t, members |-> ms]
Member(k, v) == [key |-> k, val |-> v]

respond_result_rstring(x) ==
  RString("json", IF x.tag = "Ok"
                  THEN <<Member("ok", IF x.ok = None THEN Null ELSE x.ok)>>
                  ELSE <<Member("err", x.err)>>)

\* Does the value of a member decode as the slot's T or E?
Decodes(s, m) ==
  IF m.key = "err" THEN m.val \in Errors
  ELSE CASE s = "cache_get" -> m.val \in Values \cup {Null}
         [] s = "register_profile" -> m.val = Null
         [] OTHER -> m.val \in Values

AsResult(s, m) ==
  IF m.key = "err" THEN [tag |-> "Err", err |-> m.val]
  ELSE [tag |-> "Ok",
        ok |-> IF s = "cache_get" /\ m.val = Null THEN None ELSE m.val]

Undecodable == [tag |-> "Undecodable"]

KeysOf(ms, K) == {i \in DOMAIN ms : ms[i].key \in K}
LastOf(I) == CHOOSE i \in I : \A j \in I : j <= i

\* Faulty variant: the derived untagged decoder, which tries `ok` first and
\* takes a missing Option for None.
visit_map_untagged(s, ms) ==
  LET oks == KeysOf(ms, {"ok"})
      errs == KeysOf(ms, {"err"})
  IN IF oks # {} THEN AsResult(s, ms[LastOf(oks)])
     ELSE IF s = "cache_get" THEN [tag |-> "Ok", ok |-> None]
     ELSE IF errs # {} THEN AsResult(s, ms[LastOf(errs)])
     ELSE Undecodable

\* The hand-written Deserialize: unknown keys are ignored, the last of `ok`
\* and `err` wins, and any of them that does not decode fails the whole.
visit_map(s, ms) ==
  LET known == KeysOf(ms, {"ok", "err"})
  IN IF known = {} \/ \E i \in known : ~Decodes(s, ms[i])
     THEN Undecodable
     ELSE AsResult(s, ms[LastOf(known)])

decode_result_envelope(s, r) ==
  IF r.text = "json" THEN visit_map(s, r.members) ELSE Undecodable

\* LeaseHandle and StreamHandle; the other fields are success metadata.
Handle(h, e) == [tag |-> "handle", handle |-> h, error_json |-> e]

\* The SDK's side of the two-slot convention.
ToHandle(x) ==
  CASE x.tag = "Started" -> Handle(1, Empty)
    [] x.tag = "Declined" -> Handle(0, Empty)
    [] x.tag = "Err" -> Handle(0, to_string(x.err))

\* The host adapter's side.
ReadHandle(s, w) ==
  CASE w.handle # 0 -> [tag |-> "Started"]
    [] w.handle = 0 /\ w.error_json = Empty /\ s = "try_acquire_lock" ->
         [tag |-> "Declined"]
    [] w.handle = 0 /\ w.error_json.text = "json" ->
         [tag |-> "Err", err |-> w.error_json.json]
    [] OTHER -> [tag |-> "Internal"]

\* HttpHandleResult
HttpResult(h, head) == [tag |-> "http", handle |-> h, head_json |-> head]

\* The bytes-only `handle` slot: TryFrom<HttpRouteResponse> refuses a stream,
\* and there is then no response to return.
ToWireResponse(x) ==
  IF x.tag = "Bytes" THEN RString("json", <<Member("body", x.body)>>)
                     ELSE RString("junk", <<>>)

ReadWireResponse(r) ==
  IF r.text = "json" THEN [tag |-> "Bytes", body |-> r.members[1].val]
                     ELSE [tag |-> "Internal"]

ToHttp(x) == HttpResult(IF x.tag = "Bytes" THEN 0 ELSE 1, to_string(x.body))

ReadHttp(w) ==
  CASE w.head_json.text # "json" -> [tag |-> "Internal"]
    [] w.head_json.text = "json" /\ w.handle = 0 ->
         [tag |-> "Bytes", body |-> w.head_json.json]
    [] OTHER -> [tag |-> "Stream", body |-> w.head_json.json]

----------------------------------------------------------------------------
(* The panic guards.  A body's result is what it returned, or Panicked. *)

Panicked == [tag |-> "panic"]
Panics(r) == r.tag = "panic"

catch_panic_to_deny(r) ==
  IF Panics(r)
  THEN [tag |-> "Deny", code |-> PANIC_DENY_CODE, error_data_json |-> RNone]
  ELSE r

catch_panic_to_transform_error(r) == IF Panics(r) THEN [tag |-> "Error"] ELSE r

catch_panic_to_identity_invalid(r) == IF Panics(r) THEN [tag |-> "Invalid"] ELSE r

catch_panic_to_empty_rstring(r) == IF Panics(r) THEN RString("empty", <<>>) ELSE r

\* Faulty variant: no text, as for a lease that a peer holds.
catch_panic_to_lease_failure_blank(r) == IF Panics(r) THEN Handle(0, Empty) ELSE r

\* The sentinel is a plain sentence, which is not JSON.
catch_panic_to_lease_failure(r) == IF Panics(r) THEN Handle(0, Junk) ELSE r

catch_panic_to_stream_failure(r) == IF Panics(r) THEN Handle(0, Junk) ELSE r

catch_panic_to_transport_failure(r) == IF Panics(r) THEN Handle(0, Junk) ELSE r

catch_panic_to_http_failure(r) == IF Panics(r) THEN HttpResult(0, Junk) ELSE r

\* {"err":{"Internal":{..}}}: DispatcherError is tagged by `kind` instead.
panicked_dispatcher_reply == RString("json", <<Member("err", PanicReply)>>)

catch_panic_to_dispatcher_failure(r) ==
  IF Panics(r) THEN panicked_dispatcher_reply ELSE r

\* Versions are only compared: this build's, the sentinel, any other.
MCPG_PLUGIN_ABI_VERSION == "1"
MCPG_PLUGIN_ABI_PANIC_SENTINEL == "u32::MAX"
Registration(v) == [tag |-> "registration", abi_version |-> v]

\* Faulty variant: an empty registration that looks current.
catch_panic_to_panicked_registration_current(r) ==
  IF Panics(r) THEN Registration(MCPG_PLUGIN_ABI_VERSION) ELSE r

catch_panic_to_panicked_registration(r) ==
  IF Panics(r) THEN Registration(MCPG_PLUGIN_ABI_PANIC_SENTINEL) ELSE r

Pointer(p) == [tag |-> "pointer", null |-> p]

catch_panic_to_null_handle(r) == IF Panics(r) THEN Pointer(TRUE) ELSE r

Unit == [tag |-> "unit"]

\* Faulty variant: the panic goes on into the host.
catch_panic_silent_reraises(r) == r

catch_panic_silent(r) == Unit

----------------------------------------------------------------------------
(* A slot as a whole. *)

ToWire(s, x) ==
  CASE s = "evaluate_dispatch" -> ToRGate(x)
    [] s = "transform" -> ToRTransform(x)
    [] s = "resolve_identity" -> ToRIdentity(x)
    [] s \in EnvelopeSlots -> respond_result_rstring(x)
    [] s \in HandleSlots -> ToHandle(x)
    [] s = "handle" -> ToWireResponse(x)
    [] OTHER -> ToHttp(x)

Guard(s, r) ==
  CASE s = "evaluate_dispatch" -> catch_panic_to_deny(r)
    [] s = "transform" -> catch_panic_to_transform_error(r)
    [] s = "resolve_identity" -> catch_panic_to_identity_invalid(r)
    [] s = "dispatch" -> catch_panic_to_dispatcher_failure(r)
    [] s \in (EnvelopeSlots \ {"dispatch"}) \cup {"handle"} ->
         catch_panic_to_empty_rstring(r)
    [] s = "subscribe" -> catch_panic_to_stream_failure(r)
    [] s = "start" -> catch_panic_to_transport_failure(r)
    [] s \in {"acquire_lock", "try_acquire_lock"} -> catch_panic_to_lease_failure(r)
    [] OTHER -> catch_panic_to_http_failure(r)

\* A panic that no guard caught ends the process.
FromWire(s, w) ==
  CASE Panics(w) -> [tag |-> "Aborted"]
    [] ~Panics(w) /\ s = "evaluate_dispatch" -> FromRGate(w)
    [] ~Panics(w) /\ s = "transform" -> FromRTransform(w)
    [] ~Panics(w) /\ s = "resolve_identity" -> FromRIdentity(w)
    [] ~Panics(w) /\ s \in EnvelopeSlots -> decode_result_envelope(s, w)
    [] ~Panics(w) /\ s \in HandleSlots -> ReadHandle(s, w)
    [] ~Panics(w) /\ s = "handle" -> ReadWireResponse(w)
    [] OTHER -> ReadHttp(w)

\* What a slot written without this crate's encoders may return: objects and
\* lists of pairs of up to MaxMembers members.
MaxMembers == 2
Pairs == [key : DOMAIN Rank, value : Values]
Members == [key : {"ok"}, val : Values \cup {Null}]
             \cup [key : {"err"}, val : Errors \cup Values]
             \cup [key : {"other"}, val : Values]
AnyText == Texts(Values \cup {Null})

RGateDecision ==
  [tag : {"Allow"}, modified_arguments_json : AnyText \cup {RNone},
   modified_result_json : AnyText \cup {RNone}, metadata_json : AnyText \cup {RNone}]
    \cup [tag : {"Deny"}, code : Codes, error_data_json : AnyText \cup {RNone}]
    \cup [tag : {"Challenge"}, code : Codes, challenge_data_json : AnyText]
    \cup [tag : {"PendingApproval"}, target_notifiers_json : Texts(Lists),
          metadata_json : AnyText]

RTransformResult ==
  [tag : {"Modified"}, value_json : AnyText] \cup [tag : {"Unchanged", "Error"}]

RIdentityResolution ==
  [tag : {"Resolved"}, pairs : [1..MaxMembers -> Pairs]]
    \cup [tag : {"None", "Invalid"}]

Envelopes ==
  {RString("json", ms) : ms \in UNION {[1..n -> Members] : n \in 0..MaxMembers}}
    \cup {RString("empty", <<>>), RString("junk", <<>>)}

ForeignHandles == [tag : {"handle"}, handle : 0..1, error_json : Texts(Errors)]
ForeignResponses ==
  {RString("json", <<Member("body", v)>>) : v \in Values}
    \cup {RString("empty", <<>>), RString("junk", <<>>)}
ForeignHttp == [tag : {"http"}, handle : 0..1, head_json : Texts(Values)]

Foreign(s) ==
  CASE s = "evaluate_dispatch" -> RGateDecision
    [] s = "transform" -> RTransformResult
    [] s = "resolve_identity" -> RIdentityResolution
    [] s \in EnvelopeSlots -> Envelopes
    [] s \in HandleSlots -> ForeignHandles
    [] s = "handle" -> ForeignResponses
    [] OTHER -> ForeignHttp

----------------------------------------------------------------------------
(* The loader, the calls and the teardown. *)

Failures == {"Deny", "Error", "Invalid", "Internal", "Undecodable", "Err"}
Loading == {"new", "registered", "probing", "described", "derived"}
Loaded == {"ready", "stopping", "dropping", "gone"}
Nothing == [tag |-> "nothing"]

TypeOK ==
  /\ load \in Loaded \cup Loading \cup {"refused", "aborted"}
  /\ crashed \subseteq {"register", "manifest_json", "make", "shutdown",
                        "drop_instance"}
  /\ phase \in {"idle", "running", "returned", "read"}
  /\ slot \in Slots
  /\ phase = "read" =>
       \/ seen \in Native(slot)
       \/ seen.tag = "Deny" /\ slot = "evaluate_dispatch"
       \/ seen \in [tag : {"Internal", "Undecodable"}]

Init ==
  /\ load = "new" /\ crashed = {}
  /\ phase = "idle" /\ slot = "evaluate_dispatch"
  /\ meant = Nothing /\ wire = Nothing /\ seen = Nothing

\* A lifecycle function f returned r, or panicked; its guard gave g, and the
\* loader goes on if that is what it expects.
Lifecycle(from, f, r, g, good, to) ==
  /\ load = from
  /\ crashed' = IF Panics(r) THEN crashed \cup {f} ELSE crashed
  /\ load' = CASE Panics(g) -> "aborted"
               [] ~Panics(g) /\ good -> to
               [] OTHER -> "refused"
  /\ UNCHANGED callVars

\* mcpg_plugin_register: the loader looks at the ABI version first.
Register ==
  \E r \in {Panicked} \cup {Registration(v) : v \in {MCPG_PLUGIN_ABI_VERSION, "other"}} :
    LET g == catch_panic_to_panicked_registration(r)
    IN Lifecycle("new", "register", r, g,
                 ~Panics(g) /\ g.abi_version = MCPG_PLUGIN_ABI_VERSION,
                 "registered")

\* make: the loader refuses a null handle.  It makes a first instance, with an
\* empty configuration, to read the manifest from, and then the real one.
Make(from, to) ==
  \E r \in {Panicked, Pointer(TRUE), Pointer(FALSE)} :
    LET g == catch_panic_to_null_handle(r)
    IN Lifecycle(from, "make", r, g, ~Panics(g) /\ ~g.null, to)

MakeProbe == Make("registered", "probing")
MakeInstance == Make("derived", "ready")

\* manifest_json: the loader parses it.
Manifest ==
  \E r \in {Panicked, RString("json", <<>>), RString("junk", <<>>)} :
    LET g == catch_panic_to_empty_rstring(r)
    IN Lifecycle("probing", "manifest_json", r, g,
                 ~Panics(g) /\ g.text = "json", "described")

\* drop_instance: whatever the destructor does, the loader goes on.
Drop(from, to) ==
  \E r \in {Panicked, Unit} :
    LET g == catch_panic_silent(r)
    IN Lifecycle(from, "drop_instance", r, g, TRUE, to)

DropProbe == Drop("described", "derived")

\* The host calls a slot of the instance.
Call(s) ==
  /\ load = "ready" /\ phase = "idle"
  /\ phase' = "running" /\ slot' = s
  /\ UNCHANGED <<load, crashed, meant, wire, seen>>

Cross(x, r) ==
  /\ phase = "running" /\ phase' = "returned"
  /\ meant' = x /\ wire' = Guard(slot, r)
  /\ UNCHANGED <<load, crashed, slot, seen>>

\* The body returns a native result, which the SDK encodes.
Return == \E x \in Native(slot) : Cross(x, ToWire(slot, x))

\* The body panics.
Panic == Cross(Panicked, Panicked)

\* The slot writes the FFI value itself.
ReturnForeign == \E w \in Foreign(slot) : Cross([tag |-> "foreign"], w)

\* The host converts what it got.
Read ==
  /\ phase = "returned" /\ phase' = "read"
  /\ seen' = FromWire(slot, wire)
  /\ load' = IF Panics(wire) THEN "aborted" ELSE load
  /\ UNCHANGED <<crashed, slot, meant, wire>>

\* The host is done with the answer.
Done ==
  /\ phase = "read" /\ phase' = "idle"
  /\ meant' = Nothing /\ wire' = Nothing /\ seen' = Nothing
  /\ UNCHANGED <<load, crashed, slot>>

\* The host begins to unload an instance that serves no call.
Stop ==
  /\ load = "ready" /\ phase = "idle" /\ load' = "stopping"
  /\ UNCHANGED <<crashed, callVars>>

Shutdown ==
  \E r \in {Panicked, Unit} :
    LET g == catch_panic_silent(r)
    IN Lifecycle("stopping", "shutdown", r, g, TRUE, "dropping")

DropInstance == Drop("dropping", "gone")

Next ==
  \/ Register \/ MakeProbe \/ Manifest \/ DropProbe \/ MakeInstance
  \/ \E s \in Slots : Call(s)
  \/ Return \/ Panic \/ ReturnForeign \/ Read \/ Done
  \/ Stop \/ Shutdown \/ DropInstance

Spec == Init /\ [][Next]_vars

\* The host carries a teardown it has begun to its end.
FairSpec == Spec /\ WF_vars(Shutdown) /\ WF_vars(DropInstance)

----------------------------------------------------------------------------
(* The inductive invariant. *)

\* A plugin gets past a lifecycle step only without a panic.
LoadInv ==
  /\ load \in Loaded \cup Loading =>
       crashed \cap {"register", "manifest_json", "make"} = {}
  /\ load # "aborted"

\* What crossed the boundary is the guarded answer of the body.
WireInv ==
  phase \in {"returned", "read"} =>
    \/ meant = Panicked /\ wire = Guard(slot, Panicked)
    \/ meant \in Native(slot) /\ wire = Guard(slot, ToWire(slot, meant))
    \/ meant.tag = "foreign" /\ wire \in Foreign(slot)

\* What the host holds is its conversion.
SeenInv == phase = "read" => seen = FromWire(slot, wire)

CallInv ==
  /\ slot \in Slots
  /\ phase \in {"idle", "running", "returned", "read"}
  /\ phase # "idle" => load = "ready"
  /\ LoadInv /\ WireInv /\ SeenInv

----------------------------------------------------------------------------
(* Properties. *)

\* Whatever slot panics, the host reads a failure of that slot: not an allow,
\* not "no credential, try the next resolver", not a lease that a peer holds,
\* not a buffered response, and not the end of the process (abi.rs:2798-3127).
PanicIsFailure ==
  phase = "read" /\ Panics(meant) => seen.tag \in Failures

\* A deny that carries PANIC_DENY_CODE is how the prober tells a crashing gate
\* from one that does its job: exactly the panics carry it (abi.rs:2820-2830).
PanicDenyIsTold ==
  phase = "read" /\ slot = "evaluate_dispatch" /\ meant.tag # "foreign" =>
    (Panics(meant) <=> seen.tag = "Deny" /\ seen.code = PANIC_DENY_CODE)

\* No panic passes for a success in any slot, and a gate's panic is told from
\* its denials.
PanicsAreTold == PanicIsFailure /\ PanicDenyIsTold

\* What the host is to read of a native result: the result, but the bytes-only
\* slot has no streams, and an approval's unset metadata arrives as null.
Received(s, x) ==
  CASE x.tag = "PendingApproval" ->
         [x EXCEPT !.metadata = IF @ = None THEN Null ELSE @]
    [] x.tag = "Stream" /\ s = "handle" -> [tag |-> "Internal"]
    [] OTHER -> x

\* A native result survives the two conversions, for every slot and variant
\* (the From impls of abi.rs:2521-2796, result_envelope.rs, http_route.rs).
MeantIsSeen ==
  phase = "read" /\ meant.tag \notin {"panic", "foreign"} =>
    seen = Received(slot, meant)

\* An envelope is read as a success only if it has an `ok` that no `err`
\* follows, also when the payload is an Option and `ok` may be missing
\* (result_envelope.rs:38-48).
ErrIsNeverOk ==
  phase = "read" /\ slot \in EnvelopeSlots /\ seen.tag = "Ok" =>
    \E i \in DOMAIN wire.members :
      /\ wire.members[i].key = "ok"
      /\ \A j \in DOMAIN wire.members : j > i => wire.members[j].key # "err"

\* What the host reads is what the plugin meant, and never a success that its
\* plugin did not write.
ReadAsMeant == MeantIsSeen /\ ErrIsNeverOk

\* A plugin that panicked in its registration, its manifest or its constructor
\* is never served from, and no lifecycle panic ends the process
\* (abi.rs:2896-2981).
PanickedIsNeverLoaded ==
  /\ load \in Loaded => crashed \cap {"register", "manifest_json", "make"} = {}
  /\ load # "aborted"

\* A teardown the host has begun ends with the instance dropped, also when
\* shutdown or the destructor panics (abi.rs:2936-2949).
TeardownCompletes == load = "stopping" ~> load = "gone"

\* abi.rs:3020-3025: a panicked dispatcher callback surfaces as a clean
\* DispatcherError::Internal.
DispatcherPanicIsInternal ==
  phase = "read" /\ slot = "dispatch" /\ Panics(meant) =>
    seen = [tag |-> "Err", err |-> Internal]

\* abi.rs:499-500: metadata_json is a JSON-encoded Option, "null" when the
\* plugin sets nothing; so nothing set is read as nothing set.
UnsetMetadataStaysUnset ==
  phase = "read" /\ meant.tag = "PendingApproval" =>
    seen.metadata = meant.metadata

============================================================================
