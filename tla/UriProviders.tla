----------------------------- MODULE UriProviders -----------------------------
(***************************************************************************)
(* Secrets and configuration documents by URI (secret.rs, config.rs and    *)
(* their vtables): the gateway binds the schemes of the providers at boot  *)
(* and routes a reference by its scheme; a consumer watches the document   *)
(* where the provider can, polls it where it cannot, and goes on using     *)
(* what it has through outages, rebindings and broken streams.             *)
(*                                                                         *)
(* A document has sections; the contents of a section are the version that *)
(* last changed it.  A secret is used whole.  The gateway, the consumer    *)
(* and the backend follow what the traits' comments ask of them; splitting *)
(* a reference, the wire forms, the errors and the default body of watch   *)
(* are this crate's code.                                                  *)
(***************************************************************************)
EXTENDS Integers, Sequences, SequencesExt, FiniteSets, FiniteSetsExt

CONSTANTS
  Characters,  \* the characters of references
  Providers,   \* the plugins of this kind
  Advertised,  \* what their supported_schemes may be: provider to set of schemes
  References,  \* the references a consumer may be configured with
  Sections,    \* the sections of a document
  Used,        \* the section the consumer acts on
  MaxVersion,  \* bound: versions of the document
  MaxFaults    \* bound: outages, rebindings and broken streams

ASSUME UsedIsASection == Used \in Sections
ASSUME UriIsBounded == MaxVersion \in Nat /\ MaxFaults \in Nat
ASSUME ReferencesAreTexts == References \subseteq Seq(Characters) /\ {":", "/"} \subseteq Characters

\* Schemes are those of URIs (RFC 3986): not empty, and without a colon.
ASSUME SchemesAreNames ==
  \A advertised \in Advertised : \A p \in Providers :
    advertised[p] \subseteq Seq(Characters \ {":"}) \ {<<>>}

----------------------------------------------------------------------------
(* References *)

NoValue == <<>>
Just(x) == <<x>>

Delimiter == <<":", "/", "/">>
DelimiterAt(ref) ==
  {i \in 1..(Len(ref) - 2) : SubSeq(ref, i, i + 2) = Delimiter}

\* Scheme and rest, at the first "://".
parse_secret_ref(ref) ==
  IF DelimiterAt(ref) = {} \/ 1 \in DelimiterAt(ref) THEN NoValue
  ELSE LET i == Min(DelimiterAt(ref))
       IN Just(<<SubSeq(ref, 1, i - 1), SubSeq(ref, i + 3, Len(ref))>>)

parse_config_ref(ref) == parse_secret_ref(ref)

----------------------------------------------------------------------------
(* Values and errors *)

\* SecretValue: optional fields are None or Some.
SecretValue(bytes, version, expires_at) ==
  [bytes |-> bytes, version |-> version, expires_at |-> expires_at, metadata |-> NoValue]

\* SecretValueWire: what is None, or empty, is not written.
to_wire(value) ==
  [k \in {"bytes"} \cup {f \in {"version", "expires_at", "metadata"} : value[f] # NoValue}
     |-> value[k]]

from_wire(wire) ==
  [k \in {"bytes", "version", "expires_at", "metadata"} |->
     IF k \in DOMAIN wire THEN wire[k] ELSE NoValue]

\* SecretRotation and its wire form.
SecretRotation(value) == [new_value |-> value]
rotation_to_wire(r) == [new_value |-> to_wire(r.new_value)]
rotation_from_wire(w) == [new_value |-> from_wire(w.new_value)]

ConfigSnapshot(version, values, source) ==
  [version |-> version, values |-> values, source |-> source]

ConfigDelta(from_version, to_version, changed_paths, snapshot) ==
  [from_version |-> from_version, to_version |-> to_version,
   changed_paths |-> changed_paths, snapshot |-> snapshot]

Ok(value) == [ok |-> Just(value), err |-> NoValue, scheme |-> NoValue]

\* SecretError and ConfigError by their kind_label, and the scheme that
\* UnsupportedScheme carries.
Err(label) == [ok |-> NoValue, err |-> Just(label), scheme |-> NoValue]
UnsupportedScheme(scheme) ==
  [ok |-> NoValue, err |-> Just("unsupported_scheme"), scheme |-> Just(scheme)]

Faults(doc_kind) ==
  {"permission_denied", "backend"} \cup (IF doc_kind = "config" THEN {"parse_error"} ELSE {})

WatchScheme == <<"w", "a", "t", "c", "h">>

----------------------------------------------------------------------------

VARIABLES
  supported_schemes,  \* of each provider
  doc_kind,           \* "secret" or "config"
  watchable,          \* the provider overrides watch
  expiring,           \* the backend exposes an expiry (secrets only)
  reference,          \* the consumer's reference
  bindings,           \* the gateway's binding: scheme to provider, NoValue when unbound
  version,            \* the document's version, 0 while it does not exist
  doc,                \* its sections
  fault,              \* what the backend suffers from, NoValue when it works
  faults,
  watching,           \* the watch is open
  emitted,            \* version the watch reported last
  events,             \* rotations or deltas on their way
  step,               \* the consumer: boot, open, fetch, answered, listen, poll, stopped
  polling,            \* it was told that there is no watch
  fetched,            \* answer to its fetch
  held,               \* the value it holds, NoValue before the first
  applied             \* the contents it acts on: 0 for its default

uriVars == <<supported_schemes, doc_kind, watchable, expiring, reference, bindings, version, doc, fault, faults,
          watching, emitted, events, step, polling, fetched, held, applied>>

document == <<version, doc>>
setup == <<supported_schemes, doc_kind, watchable, expiring, reference>>
consumer == <<step, polling, fetched, held, applied>>

Schemes == UNION {supported_schemes[p] : p \in Providers}

Contents(value) == IF doc_kind = "secret" THEN value.bytes ELSE value.values

UriTypeOK ==
  /\ version \in 0..MaxVersion /\ doc \in [Sections -> 0..version]
  /\ emitted \in 0..version /\ faults \in 0..MaxFaults
  /\ bindings \in [Schemes -> {NoValue} \cup {Just(p) : p \in Providers}]
  /\ fault \in {NoValue} \cup {Just(f) : f \in Faults(doc_kind)}
  /\ step \in {"boot", "open", "fetch", "answered", "listen", "poll", "stopped"}
  /\ applied \in 0..version /\ watching \in BOOLEAN /\ polling \in BOOLEAN
  /\ held # NoValue => Contents(held[1]) \in [Sections -> 1..version]

UriInit ==
  /\ supported_schemes \in Advertised
  /\ doc_kind \in {"secret", "config"} /\ watchable \in BOOLEAN
  /\ expiring \in (IF doc_kind = "secret" THEN BOOLEAN ELSE {FALSE})
  /\ reference \in References
  /\ bindings = [s \in Schemes |-> NoValue]
  /\ version = 0 /\ doc = [s \in Sections |-> 0] /\ fault = NoValue /\ faults = 0
  /\ watching = FALSE /\ emitted = 0 /\ events = <<>>
  /\ step = "boot" /\ polling = FALSE /\ fetched = Err("backend") /\ held = NoValue /\ applied = 0

----------------------------------------------------------------------------
(* The gateway *)

Claimants(scheme) == {p \in Providers : scheme \in supported_schemes[p]}

\* Boot binds every advertised scheme; two claims to one refuse the startup.
Boot ==
  /\ step = "boot"
  /\ IF \A s \in Schemes : Cardinality(Claimants(s)) = 1
     THEN /\ bindings' = [s \in Schemes |-> Just(CHOOSE p \in Claimants(s) : TRUE)]
          /\ step' = "open"
     ELSE step' = "stopped" /\ UNCHANGED bindings
  /\ UNCHANGED <<setup, document, fault, faults, watching, emitted, events,
                 polling, fetched, held, applied>>

Scheme ==
  LET parsed == IF doc_kind = "secret" THEN parse_secret_ref(reference) ELSE parse_config_ref(reference)
  IN IF parsed = NoValue THEN NoValue ELSE Just(parsed[1][1])
IsBound == Scheme # NoValue /\ Scheme[1] \in Schemes /\ bindings[Scheme[1]] # NoValue

\* An administrator unbinds the scheme; its watch ends.
Unbind ==
  /\ IsBound /\ faults < MaxFaults
  /\ bindings' = [bindings EXCEPT ![Scheme[1]] = NoValue]
  /\ watching' = FALSE /\ faults' = faults + 1
  /\ UNCHANGED <<setup, document, fault, emitted, events, consumer>>

Rebind ==
  /\ step \notin {"boot", "stopped"} /\ Scheme # NoValue /\ Scheme[1] \in Schemes /\ ~IsBound
  /\ bindings' = [bindings EXCEPT ![Scheme[1]] = Just(CHOOSE p \in Claimants(Scheme[1]) : TRUE)]
  /\ UNCHANGED <<setup, document, fault, faults, watching, emitted, events, consumer>>

----------------------------------------------------------------------------
(* The provider and its backend *)

\* The document is created, with all its sections, or some of them change.
Change ==
  /\ version < MaxVersion
  /\ version' = version + 1
  /\ \E S \in (IF version = 0 THEN {Sections} ELSE SUBSET Sections \ {{}}) :
       doc' = [s \in Sections |-> IF s \in S THEN version + 1 ELSE doc[s]]
  /\ UNCHANGED <<setup, bindings, fault, faults, watching, emitted, events, consumer>>

Fail ==
  /\ fault = NoValue /\ faults < MaxFaults
  /\ \E f \in Faults(doc_kind) : fault' = Just(f)
  /\ faults' = faults + 1
  /\ UNCHANGED <<setup, bindings, document, watching, emitted, events, consumer>>

Recover ==
  /\ fault # NoValue /\ fault' = NoValue
  /\ UNCHANGED <<setup, bindings, document, faults, watching, emitted, events, consumer>>

\* What the provider has: a secret, or a snapshot of a document.
Current ==
  IF doc_kind = "secret"
  THEN SecretValue(doc, Just(version), IF expiring THEN Just("t") ELSE NoValue)
  ELSE ConfigSnapshot(version, doc, reference)

\* What get, or snapshot, hands over.
Fetched == IF doc_kind = "secret" THEN from_wire(to_wire(Current)) ELSE Current

Unroutable ==
  IF Scheme = NoValue THEN Err("invalid_reference") ELSE UnsupportedScheme(Scheme[1])

get ==
  CASE ~IsBound -> Unroutable
    [] IsBound /\ fault # NoValue -> Err(fault[1])
    [] IsBound /\ fault = NoValue /\ version = 0 -> Err("not_found")
    [] OTHER -> Ok(Fetched)

\* watch: the default says that the scheme "watch" is not supported.
watch_slot ==
  CASE ~IsBound -> Unroutable
    [] IsBound /\ ~watchable -> UnsupportedScheme(WatchScheme)
    [] IsBound /\ watchable /\ fault # NoValue -> Err(fault[1])
    [] OTHER -> Ok(version)

\* What a provider may give as changed_paths: the sections that changed, or
\* the root when it cannot tell.
ChangedPaths(from) == {{s \in Sections : doc[s] > from}, {"/"}}

\* The provider reports the document as it is now; changes may have run
\* together.
EmitChange ==
  /\ watching /\ fault = NoValue /\ emitted < version
  /\ IF doc_kind = "secret"
     THEN events' = Append(events, rotation_from_wire(rotation_to_wire(SecretRotation(Current))))
     ELSE \E paths \in ChangedPaths(emitted) :
            events' = Append(events, ConfigDelta(emitted, version, paths, Current))
  /\ emitted' = version
  /\ UNCHANGED <<setup, bindings, document, fault, faults, watching, consumer>>

\* The provider's connection breaks: the stream ends after what it emitted.
Break ==
  /\ watching /\ faults < MaxFaults
  /\ watching' = FALSE /\ faults' = faults + 1
  /\ UNCHANGED <<setup, bindings, document, fault, emitted, events, consumer>>

----------------------------------------------------------------------------
(* The consumer *)

\* It asks for the watch first.  Only the trait's own refusal makes it poll;
\* a scheme that is not bound now, or an outage, it tries again.
Open ==
  /\ step = "open"
  /\ CASE watch_slot.ok # NoValue ->
            watching' = TRUE /\ emitted' = version /\ step' = "fetch" /\ UNCHANGED polling
       [] watch_slot.scheme = Just(WatchScheme) ->
            polling' = TRUE /\ step' = "fetch" /\ UNCHANGED <<watching, emitted>>
       [] watch_slot.err = Just("invalid_reference") ->
            step' = "stopped" /\ UNCHANGED <<watching, emitted, polling>>
       [] OTHER -> FALSE
  /\ UNCHANGED <<setup, bindings, document, fault, faults, events, fetched, held, applied>>

\* It fetches the value once the watch is open; a poller does on a timer, or
\* when what it holds expires.
Fetch ==
  /\ \/ step = "fetch"
     \/ step = "poll" /\ (held # NoValue /\ doc_kind = "secret" => held[1].expires_at # NoValue)
  /\ fetched' = get /\ step' = "answered"
  /\ UNCHANGED <<setup, bindings, document, fault, faults, watching, emitted, events,
                 polling, held, applied>>

\* NotFound makes it fall back to its default, any other error keeps what it
\* has and is tried again.
Take ==
  /\ step = "answered"
  /\ CASE fetched.ok # NoValue ->
            held' = fetched.ok /\ applied' = Contents(fetched.ok[1])[Used]
       [] fetched.err = Just("not_found") -> held' = NoValue /\ applied' = 0
       [] OTHER -> UNCHANGED <<held, applied>>
  /\ step' = CASE polling -> "poll"
             [] ~polling /\ (fetched.ok # NoValue \/ fetched.err = Just("not_found")) -> "listen"
             [] OTHER -> "fetch"
  /\ UNCHANGED <<setup, bindings, document, fault, faults, watching, emitted, events,
                 polling, fetched>>

\* Faulty variant: an event is taken while the first fetch is under way.
Listen_early ==
  /\ step \in {"answered", "listen"} /\ events # <<>>
  /\ LET e == Head(events)
         new == IF doc_kind = "secret" THEN e.new_value ELSE e.snapshot
     IN /\ held' = Just(new)
        /\ applied' = IF doc_kind = "config" => e.changed_paths \cap {Used, "/"} # {}
                      THEN Contents(new)[Used] ELSE applied
  /\ events' = Tail(events)
  /\ UNCHANGED <<setup, bindings, document, fault, faults, watching, emitted,
                 step, polling, fetched>>

\* A rotation or delta brings the whole value; the consumer acts on it unless
\* changed_paths says that its section is as before.
Listen ==
  /\ step = "listen" /\ events # <<>>
  /\ LET e == Head(events)
         new == IF doc_kind = "secret" THEN e.new_value ELSE e.snapshot
     IN /\ held' = Just(new)
        /\ applied' = IF doc_kind = "config" => e.changed_paths \cap {Used, "/"} # {}
                      THEN Contents(new)[Used] ELSE applied
  /\ events' = Tail(events)
  /\ UNCHANGED <<setup, bindings, document, fault, faults, watching, emitted,
                 step, polling, fetched>>

\* The stream has ended: open it again, and fetch again.
Reopen ==
  /\ step = "listen" /\ ~watching /\ events = <<>>
  /\ step' = "open"
  /\ UNCHANGED <<setup, bindings, document, fault, faults, watching, emitted, events,
                 polling, fetched, held, applied>>

UriNext ==
  \/ Boot \/ Unbind \/ Rebind
  \/ Change \/ Fail \/ Recover \/ EmitChange \/ Break
  \/ Open \/ Fetch \/ Take \/ Listen \/ Reopen

\* The gateway boots and binds a scheme again, outages end, a provider reports
\* what changed, and the consumer's one task goes on.
UriFairness ==
  /\ WF_uriVars(Boot) /\ WF_uriVars(Rebind) /\ WF_uriVars(Recover) /\ WF_uriVars(EmitChange)
  /\ WF_uriVars(Open) /\ WF_uriVars(Fetch) /\ WF_uriVars(Take) /\ WF_uriVars(Listen) /\ WF_uriVars(Reopen)

UriSpec == UriInit /\ [][UriNext]_uriVars /\ UriFairness

----------------------------------------------------------------------------
(* Properties *)

\* However fetches, events, outages, rebindings and broken streams interleave,
\* a consumer ends on the document's last contents, if the provider can be
\* watched or says when to ask again (secret.rs, get and watch).
CatchesUp ==
  <>[](IsBound /\ step # "stopped" /\ (doc_kind = "config" \/ watchable \/ expiring)
         => applied = doc[Used])

\* changed_paths is a hint and no gate (config.rs, ConfigDelta): a consumer
\* that skips by it never acts on contents older than the snapshot it holds.
HintHidesNothing == held # NoValue => applied >= Contents(held[1])[Used]

\* An outage is not an absence (SecretError): a consumer that has had the
\* document does not go back to its default while the backend fails, denies
\* or garbles it, or its scheme is unbound.
OutageKeepsValue == [][applied > 0 => applied' > 0]_uriVars

\* A reference is routed by what stands before its first "://", whatever its
\* rest looks like: no consumer whose scheme is advertised by one provider is
\* turned away as malformed or unbound.
AdvertisedIsServed ==
  \A s \in Schemes :
    /\ IsPrefix(s \o Delimiter, reference)
    /\ Cardinality(Claimants(s)) = 1 /\ bindings[s] # NoValue
    => IsBound /\ step # "stopped"

\* A consumer follows its document: routed by its scheme, never behind what it
\* holds, never back to its default in an outage, and at last on the contents.
FollowsTheDocument ==
  [](HintHidesNothing /\ AdvertisedIsServed) /\ OutageKeepsValue /\ CatchesUp

=============================================================================
