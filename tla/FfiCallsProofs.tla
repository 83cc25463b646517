--------------------------- MODULE FfiCallsProofs ---------------------------
(***************************************************************************)
(* No panic crosses the boundary or is read as a success, and a native     *)
(* result survives its conversions, for any payloads, errors, codes and    *)
(* attribute names.                                                        *)
(***************************************************************************)
EXTENDS FfiCalls, TLAPS

\* The results a body can return, slot by slot.
LEMMA NativeOf ==
  ASSUME NEW s \in Slots
  PROVE  /\ s = "evaluate_dispatch" => Native(s) = GateDecision
         /\ s = "transform" => Native(s) = TransformResult
         /\ s = "resolve_identity" => Native(s) = IdentityResolution
         /\ s \in EnvelopeSlots => Native(s) = Outcome(s)
         /\ s \in HandleSlots => Native(s) = Acquisition(s)
         /\ s \in {"handle", "handle_streaming"} => Native(s) = HttpRouteResponse
BY DEF Native, Slots, EnvelopeSlots, HandleSlots

\* The encoder of each slot.
LEMMA ToWireOf ==
  ASSUME NEW s \in Slots, NEW x
  PROVE  /\ s = "evaluate_dispatch" => ToWire(s, x) = ToRGate(x)
         /\ s = "transform" => ToWire(s, x) = ToRTransform(x)
         /\ s = "resolve_identity" => ToWire(s, x) = ToRIdentity(x)
         /\ s \in EnvelopeSlots => ToWire(s, x) = respond_result_rstring(x)
         /\ s \in HandleSlots => ToWire(s, x) = ToHandle(x)
         /\ s = "handle" => ToWire(s, x) = ToWireResponse(x)
         /\ s = "handle_streaming" => ToWire(s, x) = ToHttp(x)
BY DEF ToWire, Slots, EnvelopeSlots, HandleSlots

\* The decoder of each slot.
LEMMA FromWireOf ==
  ASSUME NEW s \in Slots, NEW w, ~Panics(w)
  PROVE  /\ s = "evaluate_dispatch" => FromWire(s, w) = FromRGate(w)
         /\ s = "transform" => FromWire(s, w) = FromRTransform(w)
         /\ s = "resolve_identity" => FromWire(s, w) = FromRIdentity(w)
         /\ s \in EnvelopeSlots => FromWire(s, w) = decode_result_envelope(s, w)
         /\ s \in HandleSlots => FromWire(s, w) = ReadHandle(s, w)
         /\ s = "handle" => FromWire(s, w) = ReadWireResponse(w)
         /\ s = "handle_streaming" => FromWire(s, w) = ReadHttp(w)
BY DEF FromWire, Slots, EnvelopeSlots, HandleSlots

\* A gate decision keeps its variant, and loses at most an unset metadata.
LEMMA GateRoundTrip ==
  ASSUME NEW x \in GateDecision
  PROVE  /\ ~Panics(ToRGate(x))
         /\ FromRGate(ToRGate(x)) = Received("evaluate_dispatch", x)
<1> USE DEF Panics, ToRGate, FromRGate, Received, parse, FromStrOr, to_string,
            Text, OptJson
<1>0. \A o : parse(enc(o)) = o
  BY DEF enc, RNone
<1>1. CASE x \in [tag : {"Allow"}, modified_arguments : OptJson,
                  modified_result : OptJson, metadata : OptJson]
  BY <1>0, <1>1
<1>2. CASE x \in [tag : {"Deny"}, code : Codes, error_data : OptJson]
  BY <1>0, <1>2
<1>3. CASE x \in [tag : {"Challenge"}, code : Codes,
                  challenge_data : Values \cup {Null}]
  BY <1>3
<1>4. CASE x \in [tag : {"PendingApproval"}, target_notifiers : Lists,
                  metadata : OptJson]
  BY <1>4 DEF OptionToString
<1> QED BY <1>1, <1>2, <1>3, <1>4 DEF GateDecision

\* So does a transform's result.
LEMMA TransformRoundTrip ==
  ASSUME NEW x \in TransformResult
  PROVE  /\ ~Panics(ToRTransform(x))
         /\ FromRTransform(ToRTransform(x)) = Received("transform", x)
<1> USE DEF Panics, ToRTransform, FromRTransform, Received, FromStrOr, to_string,
            Text
<1>1. CASE x \in [tag : {"Modified"}, value : Values \cup {Null}]
  BY <1>1
<1>2. CASE x \in [tag : {"Unchanged", "Error"}]
  BY <1>2
<1> QED BY <1>1, <1>2 DEF TransformResult

\* Writing a map of attributes as pairs and collecting them gives it back:
\* no two keys share a place.
LEMMA PairsRoundTrip ==
  ASSUME NEW m \in Attributes
  PROVE  FromPairs(ToPairs(m)) = m
<1> DEFINE l == ToPairs(m)
<1>1. PICK K \in SUBSET DOMAIN Rank : m \in [K -> Values]
  BY DEF Attributes
<1>2. DOMAIN l = {Rank[k] : k \in K}
  BY <1>1 DEF ToPairs
<1>3. ASSUME NEW k \in K
      PROVE  /\ Rank[k] \in DOMAIN l
             /\ l[Rank[k]].key = k /\ l[Rank[k]].value = m[k]
  <2>1. \A x \in DOMAIN m : Rank[x] = Rank[k] => x = k
    BY <1>1, DataAssumption
  <2>2. (CHOOSE x \in DOMAIN m : Rank[x] = Rank[k]) = k
    BY <1>1, <2>1
  <2> QED BY <1>1, <1>2, <2>2 DEF ToPairs
<1>4. \A p \in DOMAIN l : \E k \in K : p = Rank[k] /\ l[p].key = k
  BY <1>2, <1>3
<1> HIDE DEF l
<1>5. {l[p].key : p \in DOMAIN l} = K
  BY <1>3, <1>4
<1>6. ASSUME NEW k \in K
      PROVE  l[CHOOSE p \in DOMAIN l :
                 /\ l[p].key = k
                 /\ \A q \in DOMAIN l : l[q].key = k => q <= p].value = m[k]
  <2>1. \A p \in DOMAIN l : l[p].key = k => p = Rank[k]
    BY <1>4
  <2>2. Rank[k] \in DOMAIN l /\ l[Rank[k]].key = k /\ l[Rank[k]].value = m[k]
    BY <1>3
  <2>3. Rank[k] <= Rank[k]
    BY DataAssumption
  <2>4. \A q \in DOMAIN l : l[q].key = k => q <= Rank[k]
    BY <2>1, <2>3
  <2>5. \E p \in DOMAIN l : /\ l[p].key = k
                            /\ \A q \in DOMAIN l : l[q].key = k => q <= p
    BY <2>2, <2>4
  <2> QED BY <2>1, <2>2, <2>5
<1>7. FromPairs(l) = [k \in K |-> m[k]]
  BY <1>5, <1>6 DEF FromPairs
<1> QED BY <1>1, <1>7 DEF l

\* An identity resolution survives.
LEMMA IdentityRoundTrip ==
  ASSUME NEW x \in IdentityResolution
  PROVE  /\ ~Panics(ToRIdentity(x))
         /\ FromRIdentity(ToRIdentity(x)) = Received("resolve_identity", x)
<1> USE DEF Panics, ToRIdentity, FromRIdentity, Received
<1>1. CASE x \in [tag : {"Resolved"}, attributes : Attributes]
  BY <1>1, PairsRoundTrip
<1>2. CASE x \in [tag : {"None", "Invalid"}]
  BY <1>2
<1> QED BY <1>1, <1>2 DEF IdentityResolution

\* An object with one member that decodes reads as that member.
LEMMA OneMember ==
  ASSUME NEW s \in EnvelopeSlots, NEW m, m.key \in {"ok", "err"}, Decodes(s, m)
  PROVE  visit_map(s, <<m>>) = AsResult(s, m)
<1>1. DOMAIN <<m>> = {1} /\ <<m>>[1] = m
  OBVIOUS
<1>2. KeysOf(<<m>>, {"ok", "err"}) = {1}
  BY <1>1 DEF KeysOf
<1>3. LastOf({1}) = 1
  BY DEF LastOf
<1> QED BY <1>1, <1>2, <1>3 DEF visit_map

\* The result of a fallible slot survives its envelope, Ok(None) and Ok(())
\* included.
LEMMA EnvelopeRoundTrip ==
  ASSUME NEW s \in EnvelopeSlots, NEW x \in Outcome(s)
  PROVE  /\ ~Panics(respond_result_rstring(x))
         /\ decode_result_envelope(s, respond_result_rstring(x)) = Received(s, x)
<1> DEFINE m == IF x.tag = "Ok" THEN Member("ok", IF x.ok = None THEN Null ELSE x.ok)
                                ELSE Member("err", x.err)
<1>1. respond_result_rstring(x) = RString("json", <<m>>)
  BY DEF respond_result_rstring
<1>2. /\ m.key \in {"ok", "err"} /\ Decodes(s, m) /\ AsResult(s, m) = x
  <2>1. CASE x \in [tag : {"Ok"}, ok : Payload(s)]
    <3>1. CASE s = "cache_get"
      BY <2>1, <3>1, DataAssumption DEF Payload, Member, Decodes, AsResult
    <3>2. CASE s = "register_profile"
      BY <2>1, <3>2 DEF Payload, Member, Decodes, AsResult, Null, None
    <3>3. CASE s \in {"execute", "dispatch"}
      BY <2>1, <3>3, DataAssumption DEF Payload, Member, Decodes, AsResult
    <3> QED BY <3>1, <3>2, <3>3 DEF EnvelopeSlots
  <2>2. CASE x \in [tag : {"Err"}, err : Errors]
    <3>1. m = [key |-> "err", val |-> x.err] /\ x = [tag |-> "Err", err |-> x.err]
      BY <2>2 DEF Member
    <3>2. x.err \in Errors
      BY <2>2
    <3>3. Decodes(s, m) <=> m.val \in Errors
      BY <3>1 DEF Decodes
    <3> QED BY <3>1, <3>2, <3>3 DEF AsResult
  <2> QED BY <2>1, <2>2 DEF Outcome
<1>3. visit_map(s, <<m>>) = x
  BY <1>2, OneMember
<1>4. Received(s, x) = x
  BY DEF Received, Outcome
<1> QED BY <1>1, <1>3, <1>4 DEF RString, Panics, decode_result_envelope

\* So do a lease and a stream start.
LEMMA HandleRoundTrip ==
  ASSUME NEW s \in HandleSlots, NEW x \in Acquisition(s)
  PROVE  /\ ~Panics(ToHandle(x))
         /\ ReadHandle(s, ToHandle(x)) = Received(s, x)
<1> USE DEF Panics, ToHandle, ReadHandle, Received, Handle, Empty, to_string, Text
<1>1. CASE x \in [tag : {"Err"}, err : Errors]
  BY <1>1
<1>2. CASE x \in [tag : {"Started"}]
  BY <1>2
<1>3. CASE x \in [tag : {"Declined"}] /\ s = "try_acquire_lock"
  BY <1>3
<1> QED BY <1>1, <1>2, <1>3 DEF Acquisition

\* And an HTTP response, but for a stream through the bytes-only slot.
LEMMA HttpRoundTrip ==
  ASSUME NEW x \in HttpRouteResponse
  PROVE  /\ ~Panics(ToHttp(x)) /\ ~Panics(ToWireResponse(x))
         /\ ReadHttp(ToHttp(x)) = Received("handle_streaming", x)
         /\ ReadWireResponse(ToWireResponse(x)) = Received("handle", x)
<1> USE DEF HttpRouteResponse, Panics, Received
<1>1. ~Panics(ToHttp(x)) /\ ReadHttp(ToHttp(x)) = Received("handle_streaming", x)
  BY DEF ToHttp, ReadHttp, HttpResult, to_string, Text
<1>2. /\ ~Panics(ToWireResponse(x))
      /\ ReadWireResponse(ToWireResponse(x)) = Received("handle", x)
  BY DEF ToWireResponse, ReadWireResponse, RString, Member
<1> QED BY <1>1, <1>2

\* The two conversions of every slot, one after the other.
LEMMA RoundTrip ==
  ASSUME NEW s \in Slots, NEW x \in Native(s)
  PROVE  /\ ~Panics(ToWire(s, x))
         /\ FromWire(s, ToWire(s, x)) = Received(s, x)
<1>1. CASE s = "evaluate_dispatch"
  BY <1>1, NativeOf, ToWireOf, FromWireOf, GateRoundTrip
<1>2. CASE s = "transform"
  BY <1>2, NativeOf, ToWireOf, FromWireOf, TransformRoundTrip
<1>3. CASE s = "resolve_identity"
  BY <1>3, NativeOf, ToWireOf, FromWireOf, IdentityRoundTrip
<1>4. CASE s \in EnvelopeSlots
  BY <1>4, NativeOf, ToWireOf, FromWireOf, EnvelopeRoundTrip
<1>5. CASE s \in HandleSlots
  BY <1>5, NativeOf, ToWireOf, FromWireOf, HandleRoundTrip
<1>6. CASE s \in {"handle", "handle_streaming"}
  BY <1>6, NativeOf, ToWireOf, FromWireOf, HttpRoundTrip
<1> QED BY <1>1, <1>2, <1>3, <1>4, <1>5, <1>6 DEF Slots

\* What a slot wrote itself is not mistaken for a panic either.
LEMMA ForeignIsNoPanic ==
  ASSUME NEW s \in Slots, NEW w \in Foreign(s)
  PROVE  ~Panics(w)
<1>1. CASE s = "evaluate_dispatch"
  <2>1. w \in RGateDecision
    BY <1>1 DEF Foreign, EnvelopeSlots, HandleSlots
  <2> QED BY <2>1 DEF RGateDecision, Panics
<1>2. CASE s = "transform"
  <2>1. w \in RTransformResult
    BY <1>2 DEF Foreign, EnvelopeSlots, HandleSlots
  <2> QED BY <2>1 DEF RTransformResult, Panics
<1>3. CASE s = "resolve_identity"
  <2>1. w \in RIdentityResolution
    BY <1>3 DEF Foreign, EnvelopeSlots, HandleSlots
  <2> QED BY <2>1 DEF RIdentityResolution, Panics
<1>4. CASE s \in EnvelopeSlots
  <2>1. w \in Envelopes
    BY <1>4 DEF Foreign, EnvelopeSlots, HandleSlots
  <2> QED BY <2>1 DEF Envelopes, RString, Panics
<1>5. CASE s \in HandleSlots
  <2>1. w \in ForeignHandles
    BY <1>5 DEF Foreign, EnvelopeSlots, HandleSlots
  <2> QED BY <2>1 DEF ForeignHandles, Panics
<1>6. CASE s \in {"handle", "handle_streaming"}
  <2>1. w \in ForeignHttp \cup ForeignResponses
    BY <1>6 DEF Foreign, EnvelopeSlots, HandleSlots
  <2> QED BY <2>1 DEF ForeignHttp, ForeignResponses, RString, Panics
<1> QED BY <1>1, <1>2, <1>3, <1>4, <1>5, <1>6 DEF Slots

\* Without a panic a guard returns what it was given.
LEMMA GuardPasses ==
  ASSUME NEW s \in Slots, NEW r, ~Panics(r)
  PROVE  Guard(s, r) = r
BY DEF Guard, Slots, EnvelopeSlots, HandleSlots, catch_panic_to_deny,
   catch_panic_to_transform_error, catch_panic_to_identity_invalid,
   catch_panic_to_dispatcher_failure, catch_panic_to_empty_rstring,
   catch_panic_to_stream_failure, catch_panic_to_lease_failure,
   catch_panic_to_transport_failure, catch_panic_to_http_failure

\* The panic sentinel of a dispatcher is an envelope, but not of its error.
LEMMA PanicReplyReads ==
  visit_map("dispatch", <<Member("err", PanicReply)>>) = Undecodable
<1> DEFINE ms == <<Member("err", PanicReply)>>
<1>1. DOMAIN ms = {1} /\ ms[1] = [key |-> "err", val |-> PanicReply]
  BY DEF Member
<1>2. KeysOf(ms, {"ok", "err"}) = {1}
  BY <1>1 DEF KeysOf
<1>3. ~Decodes("dispatch", ms[1])
  BY <1>1, DataAssumption DEF Decodes
<1> QED BY <1>2, <1>3 DEF visit_map

\* With a panic it returns the slot's sentinel, which the host reads as a
\* failure.
LEMMA PanicReads ==
  ASSUME NEW s \in Slots
  PROVE  /\ ~Panics(Guard(s, Panicked))
         /\ FromWire(s, Guard(s, Panicked)).tag \in Failures
         /\ s = "evaluate_dispatch" =>
              /\ FromWire(s, Guard(s, Panicked)).tag = "Deny"
              /\ FromWire(s, Guard(s, Panicked)).code = PANIC_DENY_CODE
<1> USE DEF Panics, Panicked, FromWire, Guard, EnvelopeSlots, HandleSlots,
            Failures
<1>1. CASE s = "evaluate_dispatch"
  BY <1>1 DEF catch_panic_to_deny, FromRGate
<1>2. CASE s = "transform"
  BY <1>2 DEF catch_panic_to_transform_error, FromRTransform
<1>3. CASE s = "resolve_identity"
  BY <1>3 DEF catch_panic_to_identity_invalid, FromRIdentity
<1>4. CASE s \in EnvelopeSlots \ {"dispatch"}
  BY <1>4 DEF catch_panic_to_empty_rstring, RString, decode_result_envelope,
     Undecodable
<1>5. CASE s = "dispatch"
  BY <1>5, PanicReplyReads DEF catch_panic_to_dispatcher_failure,
     panicked_dispatcher_reply, RString, decode_result_envelope, Undecodable
<1>6. CASE s \in HandleSlots
  BY <1>6 DEF catch_panic_to_lease_failure, catch_panic_to_stream_failure,
     catch_panic_to_transport_failure, Handle, ReadHandle, Junk, Empty, Text
<1>7. CASE s = "handle"
  BY <1>7 DEF catch_panic_to_empty_rstring, RString, ReadWireResponse
<1>8. CASE s = "handle_streaming"
  BY <1>8 DEF catch_panic_to_http_failure, HttpResult, ReadHttp, Junk, Text
<1> QED BY <1>1, <1>2, <1>3, <1>4, <1>5, <1>6, <1>7, <1>8 DEF Slots

----------------------------------------------------------------------------
(* The inductive invariant *)

\* Native results are tagged by their variants.
LEMMA NativeTags ==
  ASSUME NEW s \in Slots, NEW x \in Native(s)
  PROVE  x.tag \notin {"panic", "foreign"}
<1>1. CASE s = "evaluate_dispatch"
  BY <1>1, NativeOf DEF GateDecision
<1>2. CASE s = "transform"
  BY <1>2, NativeOf DEF TransformResult
<1>3. CASE s = "resolve_identity"
  BY <1>3, NativeOf DEF IdentityResolution
<1>4. CASE s \in EnvelopeSlots
  BY <1>4, NativeOf DEF Outcome
<1>5. CASE s \in HandleSlots
  BY <1>5, NativeOf DEF Acquisition
<1>6. CASE s \in {"handle", "handle_streaming"}
  <2>1. x \in HttpRouteResponse
    BY <1>6, NativeOf
  <2> QED BY <2>1 DEF HttpRouteResponse
<1> QED BY <1>1, <1>2, <1>3, <1>4, <1>5, <1>6 DEF Slots

\* Nothing is loaded or called yet.
LEMMA InitCall == Init => CallInv
BY DEF Init, CallInv, LoadInv, WireInv, SeenInv, Loaded, Slots

\* Registering, making an instance and reading its manifest: a panic is refused.
LEMMA LoadSteps ==
  ASSUME CallInv, Register \/ MakeProbe \/ Manifest \/ DropProbe \/ MakeInstance
  PROVE  CallInv'
<1> USE DEF CallInv, LoadInv, Lifecycle, callVars, Panics, Panicked, Loading,
            Loaded
<1>1. CASE Register
  <2>1. PICK r \in {Panicked} \cup {Registration(v) :
                                     v \in {MCPG_PLUGIN_ABI_VERSION, "other"}} :
          LET g == catch_panic_to_panicked_registration(r)
          IN Lifecycle("new", "register", r, g,
                       ~Panics(g) /\ g.abi_version = MCPG_PLUGIN_ABI_VERSION,
                       "registered")
    BY <1>1 DEF Register
  <2>2. UNCHANGED callVars /\ load = "new"
    BY <2>1
  <2>3. CASE r = Panicked
    <3>1. load' = "refused"
      BY <2>1, <2>3 DEF catch_panic_to_panicked_registration, Registration,
         MCPG_PLUGIN_ABI_VERSION, MCPG_PLUGIN_ABI_PANIC_SENTINEL
    <3> QED BY <2>2, <3>1 DEF WireInv, SeenInv
  <2>4. CASE ~Panics(r)
    <3>1. crashed' = crashed /\ load' \in {"registered", "refused"}
      BY <2>1, <2>4 DEF catch_panic_to_panicked_registration
    <3> QED BY <2>2, <3>1 DEF WireInv, SeenInv
  <2> QED BY <2>3, <2>4 DEF Registration
<1>2. CASE Manifest
  BY <1>2 DEF Manifest, catch_panic_to_empty_rstring, RString, WireInv, SeenInv
<1>3. CASE MakeProbe
  BY <1>3 DEF MakeProbe, Make, catch_panic_to_null_handle, Pointer, WireInv, SeenInv
<1>4. CASE MakeInstance
  BY <1>4 DEF MakeInstance, Make, catch_panic_to_null_handle, Pointer, WireInv,
     SeenInv
<1>5. CASE DropProbe
  BY <1>5 DEF DropProbe, Drop, catch_panic_silent, Unit, WireInv, SeenInv
<1> QED BY <1>1, <1>2, <1>3, <1>4, <1>5

\* Tearing it down: the guard swallows a panic.
LEMMA UnloadSteps ==
  ASSUME CallInv, Stop \/ Shutdown \/ DropInstance
  PROVE  CallInv'
<1> USE DEF CallInv, LoadInv, Lifecycle, callVars, Panics, Panicked, Loading,
            Loaded, WireInv, SeenInv
<1>1. CASE Stop
  BY <1>1 DEF Stop
<1>2. CASE Shutdown
  BY <1>2 DEF Shutdown, catch_panic_silent, Unit
<1>3. CASE DropInstance
  BY <1>3 DEF DropInstance, Drop, catch_panic_silent, Unit
<1> QED BY <1>1, <1>2, <1>3

\* A body answers, and its answer crosses under the guard.
LEMMA BodySteps ==
  ASSUME CallInv, Return \/ Panic \/ ReturnForeign
  PROVE  CallInv'
<1> USE DEF CallInv, Cross
<1>1. CASE Return
  BY <1>1 DEF Return, LoadInv, WireInv, SeenInv
<1>2. CASE Panic
  BY <1>2 DEF Panic, LoadInv, WireInv, SeenInv
<1>3. CASE ReturnForeign
  BY <1>3, ForeignIsNoPanic, GuardPasses DEF ReturnForeign, LoadInv, WireInv,
     SeenInv
<1> QED BY <1>1, <1>2, <1>3

\* No answer is a panic, so the host survives reading it.
LEMMA WireIsNoPanic ==
  ASSUME CallInv, phase \in {"returned", "read"}
  PROVE  ~Panics(wire)
BY PanicReads, RoundTrip, GuardPasses, ForeignIsNoPanic DEF CallInv, WireInv

\* One step of the loader, the host or the plugin.
LEMMA CallStep == CallInv /\ [Next]_vars => CallInv'
<1> SUFFICES ASSUME CallInv, [Next]_vars PROVE CallInv'
  OBVIOUS
<1>1. CASE UNCHANGED vars
  BY <1>1 DEF vars, callVars, CallInv, LoadInv, WireInv, SeenInv
<1>2. ASSUME NEW s \in Slots, Call(s)
      PROVE  CallInv'
  BY <1>2 DEF Call, CallInv, LoadInv, WireInv, SeenInv
<1>3. CASE Read
  BY <1>3, WireIsNoPanic DEF Read, CallInv, LoadInv, WireInv, SeenInv
<1>4. CASE Done
  BY <1>4 DEF Done, CallInv, LoadInv, WireInv, SeenInv
<1> QED BY <1>1, <1>2, <1>3, <1>4, LoadSteps, UnloadSteps, BodySteps DEF Next

\* Every answer crosses guarded, the host holds its conversion, and a plugin
\* that panicked while it was loaded is not loaded.
THEOREM CallInvariant == Spec => []CallInv
BY InitCall, CallStep, PTL DEF Spec

----------------------------------------------------------------------------
(* The properties *)

\* Whatever slot panics, the host reads a failure.
THEOREM PanicIsFailureHolds == Spec => []PanicIsFailure
<1>1. CallInv => PanicIsFailure
  BY PanicReads, NativeTags DEF CallInv, WireInv, SeenInv, PanicIsFailure,
     Panics, Panicked
<1> QED BY <1>1, CallInvariant, PTL

\* A native result survives its two conversions, whatever its payload.
THEOREM MeantIsSeenHolds == Spec => []MeantIsSeen
<1>1. CallInv => MeantIsSeen
  BY RoundTrip, GuardPasses DEF CallInv, WireInv, SeenInv, MeantIsSeen, Panicked
<1> QED BY <1>1, CallInvariant, PTL

\* The prober's code marks the panics of a gate and nothing else.
THEOREM PanicDenyIsToldHolds == Spec => []PanicDenyIsTold
<1>1. CallInv => PanicDenyIsTold
  <2> SUFFICES ASSUME CallInv, phase = "read", slot = "evaluate_dispatch",
                      meant.tag # "foreign"
               PROVE  Panics(meant) <=>
                        seen.tag = "Deny" /\ seen.code = PANIC_DENY_CODE
    BY DEF PanicDenyIsTold
  <2>1. CASE meant = Panicked /\ wire = Guard(slot, Panicked)
    BY <2>1, PanicReads DEF CallInv, SeenInv, Panics, Panicked
  <2>2. CASE meant \in Native(slot) /\ wire = Guard(slot, ToWire(slot, meant))
    <3>1. seen = Received(slot, meant)
      BY <2>2, RoundTrip, GuardPasses DEF CallInv, SeenInv
    <3>2. ~Panics(meant)
      BY <2>2, NativeTags DEF CallInv, Panics
    <3>3. meant \in GateDecision
      BY <2>2, NativeOf DEF CallInv
    <3>4. ~(seen.tag = "Deny" /\ seen.code = PANIC_DENY_CODE)
      <4>1. CASE meant \in [tag : {"Deny"}, code : Codes, error_data : OptJson]
        BY <3>1, <4>1, DataAssumption DEF Received
      <4>2. CASE meant.tag \in {"Allow", "Challenge"}
        BY <3>1, <4>2 DEF Received
      <4>3. CASE meant \in [tag : {"PendingApproval"}, target_notifiers : Lists,
                            metadata : OptJson]
        BY <3>1, <4>3 DEF Received
      <4> QED BY <3>3, <4>1, <4>2, <4>3 DEF GateDecision
    <3> QED BY <3>2, <3>4
  <2> QED BY <2>1, <2>2 DEF CallInv, WireInv
<1> QED BY <1>1, CallInvariant, PTL

\* A plugin that panicked while it was loaded is never served from.
THEOREM PanickedIsNeverLoadedHolds == Spec => []PanickedIsNeverLoaded
<1>1. CallInv => PanickedIsNeverLoaded
  BY DEF CallInv, LoadInv, PanickedIsNeverLoaded
<1> QED BY <1>1, CallInvariant, PTL

\* The last of one or two members.
LEMMA LastOfFew ==
  ASSUME NEW I \in SUBSET (1..MaxMembers), I # {}
  PROVE  LastOf(I) \in I /\ \A j \in I : j <= LastOf(I)
<1>1. \E i \in I : \A j \in I : j <= i
  <2>1. \A j \in I : j \in {1, 2}
    BY DEF MaxMembers
  <2>2. CASE 2 \in I
    BY <2>1, <2>2
  <2>3. CASE 2 \notin I
    <3>1. \A j \in I : j = 1
      BY <2>1, <2>3
    <3>2. 1 <= 1
      OBVIOUS
    <3> QED BY <3>1, <3>2
  <2> QED BY <2>2, <2>3
<1> QED BY <1>1 DEF LastOf

\* An envelope that reads as a success has an `ok` that no `err` follows.
LEMMA OkIsLast ==
  ASSUME NEW s, NEW ms, DOMAIN ms \subseteq 1..MaxMembers,
         visit_map(s, ms).tag = "Ok"
  PROVE  \E i \in DOMAIN ms :
           /\ ms[i].key = "ok"
           /\ \A j \in DOMAIN ms : j > i => ms[j].key # "err"
<1> DEFINE known == KeysOf(ms, {"ok", "err"})
           i == LastOf(known)
<1>1. known # {} /\ AsResult(s, ms[i]).tag = "Ok"
  BY DEF visit_map, Undecodable
<1>2. known \in SUBSET (1..MaxMembers)
  BY DEF KeysOf
<1>3. i \in known /\ \A j \in known : j <= i
  BY <1>1, <1>2, LastOfFew
<1> HIDE DEF i
<1>4. i \in DOMAIN ms /\ ms[i].key = "ok"
  BY <1>1, <1>3 DEF KeysOf, AsResult
<1>5. ASSUME NEW j \in DOMAIN ms, j > i
      PROVE  ms[j].key # "err"
  <2>1. j \notin known
    BY <1>2, <1>3, <1>5 DEF MaxMembers
  <2> QED BY <2>1 DEF KeysOf
<1> QED BY <1>4, <1>5

\* The envelopes that cross have at most MaxMembers members.
LEMMA EnvelopeSize ==
  ASSUME CallInv, phase = "read", slot \in EnvelopeSlots, seen.tag = "Ok"
  PROVE  /\ DOMAIN wire.members \subseteq 1..MaxMembers
         /\ seen = visit_map(slot, wire.members)
<1>0. ~Panics(wire) /\ slot \in Slots
  BY WireIsNoPanic DEF CallInv
<1>1. seen = decode_result_envelope(slot, wire)
  BY <1>0, FromWireOf DEF CallInv, SeenInv
<1>2. seen = visit_map(slot, wire.members)
  BY <1>1 DEF decode_result_envelope, Undecodable
<1>3. CASE meant = Panicked /\ wire = Guard(slot, Panicked)
  BY <1>0, <1>3, PanicReads DEF CallInv, SeenInv, Failures
<1>4. CASE meant \in Native(slot) /\ wire = Guard(slot, ToWire(slot, meant))
  <2>1. wire = respond_result_rstring(meant)
    BY <1>0, <1>4, RoundTrip, GuardPasses, ToWireOf
  <2>2. \A m : DOMAIN <<m>> \subseteq 1..MaxMembers
    BY DEF MaxMembers
  <2> QED BY <1>2, <2>1, <2>2 DEF respond_result_rstring, RString
<1>5. CASE wire \in Foreign(slot)
  <2>1. wire \in Envelopes
    BY <1>5 DEF Foreign, EnvelopeSlots, HandleSlots
  <2>2. CASE wire = RString("empty", <<>>) \/ wire = RString("junk", <<>>)
    BY <1>1, <2>2 DEF RString, decode_result_envelope, Undecodable
  <2>3. ASSUME NEW n \in 0..MaxMembers, NEW ms \in [1..n -> Members],
               wire = RString("json", ms)
        PROVE  DOMAIN wire.members \subseteq 1..MaxMembers
    BY <2>3 DEF RString, MaxMembers
  <2> QED BY <1>2, <2>1, <2>2, <2>3 DEF Envelopes
<1> QED BY <1>3, <1>4, <1>5 DEF CallInv, WireInv

\* No envelope with a last word of `err` is read as a success.
THEOREM ErrIsNeverOkHolds == Spec => []ErrIsNeverOk
<1>1. CallInv => ErrIsNeverOk
  BY EnvelopeSize, OkIsLast DEF ErrIsNeverOk
<1> QED BY <1>1, CallInvariant, PTL

\* Every slot's panic is a failure, and a gate's is told from a denial (the
\* catch_panic_* guards of abi.rs).
THEOREM PanicsAreToldHolds == Spec => []PanicsAreTold
BY PanicIsFailureHolds, PanicDenyIsToldHolds, PTL DEF PanicsAreTold

\* Native results are read as meant and no error as a success (the From impls of
\* abi.rs, result_envelope.rs).
THEOREM ReadAsMeantHolds == Spec => []ReadAsMeant
BY MeantIsSeenHolds, ErrIsNeverOkHolds, PTL DEF ReadAsMeant

----------------------------------------------------------------------------
(* The type invariant: what the host's decoders make of any answer, foreign *)
(* texts included, is a result of the slot's own type or a failure.          *)

\* What the host may hold after it has read the answer of a slot.
Readable(s, y) ==
  \/ y \in Native(s)
  \/ y.tag = "Deny" /\ s = "evaluate_dispatch"
  \/ y \in [tag : {"Internal", "Undecodable"}]

\* A text is a JSON value, or one of the texts that hold none.
LEMMA TextReads ==
  ASSUME NEW S, NEW t \in Texts(S) \cup {RNone}, NEW d
  PROVE  FromStrOr(t, d) \in S \cup {d}
BY DEF Texts, FromStrOr, to_string, Text, Empty, Junk, RNone

\* A result of the slot's type arrives as one, or as a failure.
LEMMA ReceivedReads ==
  ASSUME NEW s \in Slots, NEW x \in Native(s)
  PROVE  Readable(s, Received(s, x))
<1>1. CASE x.tag = "PendingApproval" /\ s = "evaluate_dispatch"
  <2>1. x \in [tag : {"PendingApproval"}, target_notifiers : Lists, metadata : OptJson]
    BY <1>1, NativeOf DEF GateDecision
  <2>2. Received(s, x) \in
          [tag : {"PendingApproval"}, target_notifiers : Lists, metadata : OptJson]
    BY <1>1, <2>1 DEF Received, OptJson
  <2> QED BY <1>1, <2>2, NativeOf DEF Readable, GateDecision
<1>2. CASE x.tag = "Stream" /\ s = "handle"
  <2>1. Received(s, x) = [tag |-> "Internal"]
    BY <1>2 DEF Received
  <2> QED BY <2>1 DEF Readable
<1>3. CASE x.tag # "PendingApproval" /\ ~(x.tag = "Stream" /\ s = "handle")
  <2>1. Received(s, x) = x
    BY <1>3 DEF Received
  <2> QED BY <2>1 DEF Readable
<1>4. x.tag = "PendingApproval" => s = "evaluate_dispatch"
  <2>1. CASE s = "transform"
    BY <2>1, NativeOf DEF TransformResult
  <2>2. CASE s = "resolve_identity"
    BY <2>2, NativeOf DEF IdentityResolution
  <2>3. CASE s \in EnvelopeSlots
    BY <2>3, NativeOf DEF Outcome
  <2>4. CASE s \in HandleSlots
    BY <2>4, NativeOf DEF Acquisition
  <2>5. CASE s \in {"handle", "handle_streaming"}
    <3>1. x \in HttpRouteResponse
      BY <2>5, NativeOf
    <3> QED BY <3>1 DEF HttpRouteResponse
  <2> QED BY <2>1, <2>2, <2>3, <2>4, <2>5 DEF Slots
<1> QED BY <1>1, <1>2, <1>3, <1>4

\* So does the sentinel of a panic.
LEMMA SentinelReads ==
  ASSUME NEW s \in Slots
  PROVE  Readable(s, FromWire(s, Guard(s, Panicked)))
<1> DEFINE y == FromWire(s, Guard(s, Panicked))
<1> SUFFICES Readable(s, y)
  OBVIOUS
<1> HIDE DEF y
<1>1. CASE s = "evaluate_dispatch"
  <2>1. y.tag = "Deny"
    BY <1>1 DEF y, Panics, Panicked, FromWire, Guard, EnvelopeSlots, HandleSlots,
       catch_panic_to_deny, FromRGate
  <2> QED BY <1>1, <2>1 DEF Readable
<1>2. CASE s = "transform"
  <2>1. y = [tag |-> "Error"]
    BY <1>2 DEF y, Panics, Panicked, FromWire, Guard, EnvelopeSlots, HandleSlots,
       catch_panic_to_transform_error, FromRTransform
  <2>2. y \in TransformResult
    BY <2>1 DEF TransformResult
  <2> QED BY <1>2, <2>2, NativeOf DEF Readable
<1>3. CASE s = "resolve_identity"
  <2>1. y = [tag |-> "Invalid"]
    BY <1>3 DEF y, Panics, Panicked, FromWire, Guard, EnvelopeSlots, HandleSlots,
       catch_panic_to_identity_invalid, FromRIdentity
  <2>2. y \in IdentityResolution
    BY <2>1 DEF IdentityResolution
  <2> QED BY <1>3, <2>2, NativeOf DEF Readable
<1>4. CASE s \in EnvelopeSlots \ {"dispatch"}
  <2>1. y = [tag |-> "Undecodable"]
    BY <1>4 DEF y, Panics, Panicked, FromWire, Guard, EnvelopeSlots, HandleSlots,
       catch_panic_to_empty_rstring, RString, decode_result_envelope,
       Undecodable
  <2> QED BY <2>1 DEF Readable
<1>5. CASE s = "dispatch"
  <2>1. y = [tag |-> "Undecodable"]
    BY <1>5, PanicReplyReads DEF y, Panics, Panicked, FromWire, Guard, EnvelopeSlots, HandleSlots,
       catch_panic_to_dispatcher_failure,
       panicked_dispatcher_reply, RString, decode_result_envelope, Undecodable
  <2> QED BY <2>1 DEF Readable
<1>6. CASE s \in HandleSlots
  <2>1. y = [tag |-> "Internal"]
    BY <1>6 DEF y, Panics, Panicked, FromWire, Guard, EnvelopeSlots, HandleSlots,
       catch_panic_to_lease_failure, catch_panic_to_stream_failure,
       catch_panic_to_transport_failure, Handle, ReadHandle, Junk, Empty, Text
  <2> QED BY <2>1 DEF Readable
<1>7. CASE s = "handle"
  <2>1. y = [tag |-> "Internal"]
    BY <1>7 DEF y, Panics, Panicked, FromWire, Guard, EnvelopeSlots, HandleSlots,
       catch_panic_to_empty_rstring, RString, ReadWireResponse
  <2> QED BY <2>1 DEF Readable
<1>8. CASE s = "handle_streaming"
  <2>1. y = [tag |-> "Internal"]
    BY <1>8 DEF y, Panics, Panicked, FromWire, Guard, EnvelopeSlots, HandleSlots,
       catch_panic_to_http_failure, HttpResult, ReadHttp, Junk, Text
  <2> QED BY <2>1 DEF Readable
<1> QED BY <1>1, <1>2, <1>3, <1>4, <1>5, <1>6, <1>7, <1>8 DEF Slots

\* A gate decision written by hand, whatever its texts, is a decision.
LEMMA ForeignGateReads ==
  ASSUME NEW w \in RGateDecision
  PROVE  FromRGate(w) \in GateDecision
<1>1. \A t \in AnyText \cup {RNone} : parse(t) \in OptJson
  BY TextReads DEF AnyText, parse, OptJson
<1>2. CASE w \in [tag : {"Allow"}, modified_arguments_json : AnyText \cup {RNone},
                  modified_result_json : AnyText \cup {RNone},
                  metadata_json : AnyText \cup {RNone}]
  <2>1. FromRGate(w) = [tag |-> "Allow",
                        modified_arguments |-> parse(w.modified_arguments_json),
                        modified_result |-> parse(w.modified_result_json),
                        metadata |-> parse(w.metadata_json)]
    BY <1>2 DEF FromRGate
  <2> QED BY <1>1, <1>2, <2>1 DEF GateDecision
<1>3. CASE w \in [tag : {"Deny"}, code : Codes, error_data_json : AnyText \cup {RNone}]
  <2>1. FromRGate(w) = [tag |-> "Deny", code |-> w.code,
                        error_data |-> parse(w.error_data_json)]
    BY <1>3 DEF FromRGate
  <2> QED BY <1>1, <1>3, <2>1 DEF GateDecision
<1>4. CASE w \in [tag : {"Challenge"}, code : Codes, challenge_data_json : AnyText]
  <2>1. FromRGate(w) = [tag |-> "Challenge", code |-> w.code,
                        challenge_data |-> FromStrOr(w.challenge_data_json, Null)]
    BY <1>4 DEF FromRGate
  <2>2. FromStrOr(w.challenge_data_json, Null) \in Values \cup {Null}
    BY <1>4, TextReads DEF AnyText
  <2> QED BY <1>4, <2>1, <2>2 DEF GateDecision
<1>5. CASE w \in [tag : {"PendingApproval"}, target_notifiers_json : Texts(Lists),
                  metadata_json : AnyText]
  <2>1. FromRGate(w) = [tag |-> "PendingApproval",
                        target_notifiers |-> FromStrOr(w.target_notifiers_json, NoList),
                        metadata |-> parse(w.metadata_json)]
    BY <1>5 DEF FromRGate
  <2>2. FromStrOr(w.target_notifiers_json, NoList) \in Lists
    BY <1>5, TextReads, DataAssumption
  <2> QED BY <1>1, <1>5, <2>1, <2>2 DEF GateDecision
<1> QED BY <1>2, <1>3, <1>4, <1>5 DEF RGateDecision

\* Collecting any pairs gives a map of attributes: of two pairs with one key
\* the last is a value of it.
LEMMA CollectReads ==
  ASSUME NEW l \in [1..MaxMembers -> Pairs]
  PROVE  FromPairs(l) \in Attributes
<1> DEFINE K == {l[p].key : p \in DOMAIN l}
           At(k) == CHOOSE p \in DOMAIN l :
                      /\ l[p].key = k
                      /\ \A q \in DOMAIN l : l[q].key = k => q <= p
<1>1. DOMAIN l = 1..MaxMembers /\ \A p \in DOMAIN l : l[p] \in Pairs
  OBVIOUS
<1>2. K \in SUBSET DOMAIN Rank
  BY <1>1 DEF Pairs
<1>3. ASSUME NEW k \in K
      PROVE  l[At(k)].value \in Values
  <2> DEFINE I == {p \in DOMAIN l : l[p].key = k}
  <2>1. I \in SUBSET (1..MaxMembers) /\ I # {}
    BY <1>1
  <2>2. LastOf(I) \in I /\ \A j \in I : j <= LastOf(I)
    BY <2>1, LastOfFew
  <2>3. \E p \in DOMAIN l : l[p].key = k /\ \A q \in DOMAIN l : l[q].key = k => q <= p
    BY <2>2
  <2>4. At(k) \in DOMAIN l
    BY <2>3
  <2> HIDE DEF At
  <2> QED BY <1>1, <2>4 DEF Pairs
<1>4. FromPairs(l) = [k \in K |-> l[At(k)].value]
  BY DEF FromPairs
<1> HIDE DEF K, At
<1>5. FromPairs(l) \in [K -> Values]
  BY <1>3, <1>4
<1> QED BY <1>2, <1>5 DEF Attributes

\* An envelope written by hand is read as an outcome of the slot or not at all.
LEMMA ForeignEnvelopeReads ==
  ASSUME NEW s \in EnvelopeSlots, NEW w \in Envelopes
  PROVE  decode_result_envelope(s, w) \in Outcome(s) \cup {Undecodable}
<1>1. CASE w.text # "json"
  BY <1>1 DEF decode_result_envelope
<1>2. CASE w.text = "json"
  <2>1. PICK n \in 0..MaxMembers : \E ms \in [1..n -> Members] : w = RString("json", ms)
    BY <1>2 DEF Envelopes, RString
  <2>2. PICK ms \in [1..n -> Members] : w = RString("json", ms)
    BY <2>1
  <2> DEFINE known == KeysOf(ms, {"ok", "err"})
             m == ms[LastOf(known)]
  <2>3. decode_result_envelope(s, w) = visit_map(s, ms)
    BY <2>2 DEF decode_result_envelope, RString
  <2>4. CASE known = {} \/ \E i \in known : ~Decodes(s, ms[i])
    BY <2>3, <2>4 DEF visit_map
  <2>5. CASE known # {} /\ \A i \in known : Decodes(s, ms[i])
    <3>1. known \in SUBSET (1..MaxMembers)
      BY DEF KeysOf, MaxMembers
    <3>2. LastOf(known) \in known
      BY <2>5, <3>1, LastOfFew
    <3>3. m.key \in {"ok", "err"} /\ Decodes(s, m)
      BY <2>5, <3>2 DEF KeysOf
    <3>4. decode_result_envelope(s, w) = AsResult(s, m)
      BY <2>3, <2>5 DEF visit_map
    <3> HIDE DEF m
    <3>5. CASE m.key = "err"
      <4>1. m.val \in Errors
        BY <3>3, <3>5 DEF Decodes
      <4>2. AsResult(s, m) = [tag |-> "Err", err |-> m.val]
        BY <3>5 DEF AsResult
      <4> QED BY <3>4, <4>1, <4>2 DEF Outcome
    <3>6. CASE m.key = "ok"
      <4> DEFINE v == IF s = "cache_get" /\ m.val = Null THEN None ELSE m.val
      <4>1. AsResult(s, m) = [tag |-> "Ok", ok |-> v]
        BY <3>6 DEF AsResult
      <4>2. v \in Payload(s)
        <5>1. CASE s = "cache_get"
          BY <3>3, <3>6, <5>1 DEF Decodes, Payload
        <5>2. CASE s = "register_profile"
          BY <3>3, <3>6, <5>2 DEF Decodes, Payload
        <5>3. CASE s \in {"execute", "dispatch"}
          BY <3>3, <3>6, <5>3 DEF Decodes, Payload
        <5> QED BY <5>1, <5>2, <5>3 DEF EnvelopeSlots
      <4> HIDE DEF v
      <4> QED BY <3>4, <4>1, <4>2 DEF Outcome
    <3> QED BY <3>3, <3>5, <3>6
  <2> QED BY <2>4, <2>5
<1> QED BY <1>1, <1>2

\* Whatever a slot writes itself, the host reads a result of its type or a
\* failure.
LEMMA ForeignReads ==
  ASSUME NEW s \in Slots, NEW w \in Foreign(s)
  PROVE  Readable(s, FromWire(s, w))
<1>0. ~Panics(w)
  BY ForeignIsNoPanic
<1>1. CASE s = "evaluate_dispatch"
  <2>1. w \in RGateDecision
    BY <1>1 DEF Foreign, EnvelopeSlots, HandleSlots
  <2>2. FromWire(s, w) \in GateDecision
    BY <1>0, <1>1, <2>1, FromWireOf, ForeignGateReads
  <2> QED BY <1>1, <2>2, NativeOf DEF Readable
<1>2. CASE s = "transform"
  <2>1. w \in RTransformResult
    BY <1>2 DEF Foreign, EnvelopeSlots, HandleSlots
  <2>2. FromRTransform(w) \in TransformResult
    <3>1. CASE w \in [tag : {"Modified"}, value_json : AnyText]
      <4>1. FromStrOr(w.value_json, Null) \in Values \cup {Null}
        BY <3>1, TextReads DEF AnyText
      <4> QED BY <3>1, <4>1 DEF FromRTransform, TransformResult
    <3>2. CASE w \in [tag : {"Unchanged", "Error"}]
      BY <3>2 DEF FromRTransform, TransformResult
    <3> QED BY <2>1, <3>1, <3>2 DEF RTransformResult
  <2>3. FromWire(s, w) \in TransformResult
    BY <1>0, <1>2, <2>2, FromWireOf
  <2> QED BY <1>2, <2>3, NativeOf DEF Readable
<1>3. CASE s = "resolve_identity"
  <2>1. w \in RIdentityResolution
    BY <1>3 DEF Foreign, EnvelopeSlots, HandleSlots
  <2>2. FromRIdentity(w) \in IdentityResolution
    <3>1. CASE w \in [tag : {"Resolved"}, pairs : [1..MaxMembers -> Pairs]]
      <4>1. FromPairs(w.pairs) \in Attributes
        BY <3>1, CollectReads
      <4> QED BY <3>1, <4>1 DEF FromRIdentity, IdentityResolution
    <3>2. CASE w \in [tag : {"None", "Invalid"}]
      BY <3>2 DEF FromRIdentity, IdentityResolution
    <3> QED BY <2>1, <3>1, <3>2 DEF RIdentityResolution
  <2>3. FromWire(s, w) \in IdentityResolution
    BY <1>0, <1>3, <2>2, FromWireOf
  <2> QED BY <1>3, <2>3, NativeOf DEF Readable
<1>4. CASE s \in EnvelopeSlots
  <2>1. w \in Envelopes
    BY <1>4 DEF Foreign, EnvelopeSlots, HandleSlots
  <2>2. FromWire(s, w) \in Outcome(s) \cup {Undecodable}
    BY <1>0, <1>4, <2>1, FromWireOf, ForeignEnvelopeReads
  <2> QED BY <1>4, <2>2, NativeOf DEF Readable, Undecodable
<1>5. CASE s \in HandleSlots
  <2>1. w \in ForeignHandles
    BY <1>5 DEF Foreign, EnvelopeSlots, HandleSlots
  <2>2. FromWire(s, w) = ReadHandle(s, w)
    BY <1>0, <1>5, FromWireOf
  <2>3. CASE w.handle # 0
    <3>1. ReadHandle(s, w) = [tag |-> "Started"]
      BY <2>3 DEF ReadHandle
    <3>2. [tag |-> "Started"] \in Acquisition(s)
      BY DEF Acquisition
    <3> QED BY <1>5, <2>2, <3>1, <3>2, NativeOf DEF Readable
  <2>4. CASE w.handle = 0 /\ w.error_json = Empty /\ s = "try_acquire_lock"
    <3>1. ReadHandle(s, w) = [tag |-> "Declined"]
      BY <2>4 DEF ReadHandle, Empty, Text
    <3>2. [tag |-> "Declined"] \in Acquisition(s)
      BY <2>4 DEF Acquisition
    <3> QED BY <1>5, <2>2, <3>1, <3>2, NativeOf DEF Readable
  <2>5. CASE w.handle = 0 /\ w.error_json.text = "json"
    <3>1. ReadHandle(s, w) = [tag |-> "Err", err |-> w.error_json.json]
      BY <2>5 DEF ReadHandle, Empty, Text
    <3>2. w.error_json.json \in Errors
      BY <2>1, <2>5 DEF ForeignHandles, Texts, to_string, Text, Empty, Junk
    <3>3. ReadHandle(s, w) \in Acquisition(s)
      BY <3>1, <3>2 DEF Acquisition
    <3> QED BY <1>5, <2>2, <3>3, NativeOf DEF Readable
  <2>6. CASE /\ w.handle = 0 /\ w.error_json.text # "json"
             /\ ~(w.error_json = Empty /\ s = "try_acquire_lock")
    <3>1. ReadHandle(s, w) = [tag |-> "Internal"]
      BY <2>6 DEF ReadHandle
    <3> QED BY <2>2, <3>1 DEF Readable
  <2> QED BY <2>3, <2>4, <2>5, <2>6
<1>6. CASE s = "handle"
  <2>1. w \in ForeignResponses
    BY <1>6 DEF Foreign, EnvelopeSlots, HandleSlots
  <2>2. FromWire(s, w) = ReadWireResponse(w)
    BY <1>0, <1>6, FromWireOf
  <2>3. ReadWireResponse(w) \in HttpRouteResponse \cup {[tag |-> "Internal"]}
    BY <2>1 DEF ForeignResponses, RString, Member, ReadWireResponse, HttpRouteResponse
  <2> QED BY <1>6, <2>2, <2>3, NativeOf DEF Readable
<1>7. CASE s = "handle_streaming"
  <2>1. w \in ForeignHttp
    BY <1>7 DEF Foreign, EnvelopeSlots, HandleSlots
  <2>2. FromWire(s, w) = ReadHttp(w)
    BY <1>0, <1>7, FromWireOf
  <2>3. w.head_json.text = "json" => w.head_json.json \in Values
    BY <2>1 DEF ForeignHttp, Texts, to_string, Text, Empty, Junk
  <2>4. ReadHttp(w) \in HttpRouteResponse \cup {[tag |-> "Internal"]}
    BY <2>3 DEF ReadHttp, HttpRouteResponse
  <2> QED BY <1>7, <2>2, <2>4, NativeOf DEF Readable
<1> QED BY <1>1, <1>2, <1>3, <1>4, <1>5, <1>6, <1>7 DEF Slots

\* The loader's place, and the functions that can have panicked.
LoaderTypeOK ==
  /\ load \in Loaded \cup Loading \cup {"refused", "aborted"}
  /\ crashed \subseteq {"register", "manifest_json", "make", "shutdown",
                        "drop_instance"}

\* Every step keeps them in place.
LEMMA LoaderTypeStep == LoaderTypeOK /\ [Next]_vars => LoaderTypeOK'
<1> SUFFICES ASSUME LoaderTypeOK, [Next]_vars PROVE LoaderTypeOK'
  OBVIOUS
<1>1. ASSUME NEW from, NEW f \in {"register", "manifest_json", "make", "shutdown",
                                  "drop_instance"},
             NEW r, NEW g, NEW good,
             NEW to \in Loaded \cup Loading, Lifecycle(from, f, r, g, good, to)
      PROVE  LoaderTypeOK'
  BY <1>1 DEF Lifecycle, LoaderTypeOK
<1>2. CASE Register
  BY <1>1, <1>2 DEF Register, Loading
<1>3. CASE MakeProbe
  BY <1>1, <1>3 DEF MakeProbe, Make, Loading
<1>4. CASE MakeInstance
  BY <1>1, <1>4 DEF MakeInstance, Make, Loaded
<1>5. CASE Manifest
  BY <1>1, <1>5 DEF Manifest, Loading
<1>6. CASE DropProbe
  BY <1>1, <1>6 DEF DropProbe, Drop, Loading
<1>7. CASE Shutdown
  BY <1>1, <1>7 DEF Shutdown, Loaded
<1>8. CASE DropInstance
  BY <1>1, <1>8 DEF DropInstance, Drop, Loaded
<1>9. CASE Stop
  BY <1>9 DEF Stop, LoaderTypeOK, Loaded
<1>10. CASE Read
  BY <1>10 DEF Read, LoaderTypeOK
<1>11. CASE \/ \E s \in Slots : Call(s)
            \/ Return \/ Panic \/ ReturnForeign \/ Done \/ UNCHANGED vars
  BY <1>11 DEF Call, Return, Panic, ReturnForeign, Cross, Done, vars, LoaderTypeOK
<1> QED BY <1>2, <1>3, <1>4, <1>5, <1>6, <1>7, <1>8, <1>9, <1>10, <1>11 DEF Next

\* What the host reads of any answer - a native result, a sentinel, or a value
\* with any text where JSON belongs - is a result of the slot's own type or a
\* failure (the From impls, decode_result_envelope and the readers of handles).
THEOREM TypeCorrect == Spec => []TypeOK
<1>1. Init => LoaderTypeOK
  BY DEF Init, LoaderTypeOK, Loading
<1>2. CallInv /\ LoaderTypeOK => TypeOK
  <2> SUFFICES ASSUME CallInv, LoaderTypeOK, phase = "read"
               PROVE  Readable(slot, seen)
    BY DEF CallInv, LoaderTypeOK, TypeOK, Readable
  <2>1. slot \in Slots /\ seen = FromWire(slot, wire)
    BY DEF CallInv, SeenInv
  <2>2. CASE wire = Guard(slot, Panicked)
    BY <2>1, <2>2, SentinelReads
  <2>3. CASE meant \in Native(slot) /\ wire = Guard(slot, ToWire(slot, meant))
    BY <2>1, <2>3, RoundTrip, GuardPasses, ReceivedReads
  <2>4. CASE wire \in Foreign(slot)
    BY <2>1, <2>4, ForeignReads
  <2> QED BY <2>2, <2>3, <2>4 DEF CallInv, WireInv
<1> QED BY <1>1, <1>2, LoaderTypeStep, CallInvariant, PTL DEF Spec

=============================================================================
