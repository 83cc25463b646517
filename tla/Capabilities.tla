---------------------------- MODULE Capabilities ----------------------------
(***************************************************************************)
(* Typed capabilities (src/capability.rs) and their FFI carrier            *)
(* (TypedCapabilityDecl, src/abi.rs): how what a plugin asks for and what  *)
(* the operator grants are read, and the boot check between the two.       *)
(*                                                                         *)
(* A plugin's requirements come in by one of three routes: plugin.yaml     *)
(* (static plugins), the carriers of a cdylib's registration, or the       *)
(* derived decoder of a manifest.  Grants come in through the eager parser *)
(* or, on "code paths that bypass" it, through the derived decoder.        *)
(* An operator may edit the grants and boot again.                         *)
(*                                                                         *)
(* Argument lists are sets: only membership is ever tested.  Lists of      *)
(* entries are sets too: their order only picks the error that is quoted.  *)
(***************************************************************************)
EXTENDS FiniteSets, Naturals

CONSTANTS
  Args,         \* paths, schemes and credential kinds
  FutureKinds,  \* kinds that only a newer protocol knows
  NotAString,   \* a "type" that is absent or not a string
  Entries,      \* the JSON entries authors and operators write
  Decls,        \* the carriers that other SDKs put in a registration
  MaxEntries    \* bound on the length of a list

NoArgKinds == {"network_outbound", "audit_write", "metric_emit",
               "cluster_peer_read", "cluster_leadership_acquire",
               "cluster_lock_acquire", "http_route_serve", "transport_listen",
               "unbounded_subscriptions"}

ArgKinds == {"filesystem_read", "filesystem_write", "secrets_read",
             "credential_issue", "config_read"}

known_names == NoArgKinds \cup ArgKinds

has_args(k) == k \in ArgKinds

Fields == {"paths", "schemes", "kinds", "none"}

arg_field_for_kind(k) ==
  IF k \in {"filesystem_read", "filesystem_write"} THEN "paths"
  ELSE IF k \in {"secrets_read", "config_read"} THEN "schemes"
  ELSE IF k = "credential_issue" THEN "kinds"
  ELSE "none"

Tags == known_names \cup FutureKinds \cup {"unknown", NotAString}

\* A JSON value: a string, an object with a "type" and perhaps one list field
\* (of strings, or ill-typed), or something else.
RawEntry == [form : {"string", "object", "other"}, kind : Tags,
             field : Fields, strings : BOOLEAN, args : SUBSET Args]

\* A carrier: args_json is "" (no field, as in {}), an object, another JSON
\* value or no JSON.
RawDecl ==
  {d \in [json : {"empty", "object", "nonobject", "malformed"},
          kind : Tags \ {NotAString},
          field : Fields, strings : BOOLEAN, args : SUBSET Args] :
     d.json # "object" => d.field = "none"}

ASSUME KindsAssumption ==
  /\ FutureKinds \cap (known_names \cup {"unknown"}) = {}
  /\ NotAString \notin known_names \cup FutureKinds \cup {"unknown"}

ASSUME InputsAssumption ==
  /\ Entries \subseteq RawEntry
  /\ Decls \subseteq RawDecl
  /\ MaxEntries \in Nat

\* Capability: Unknown and the no-args kinds carry nothing.
Capability ==
  {c \in [kind : known_names \cup {"unknown"}, args : SUBSET Args] :
     ~has_args(c.kind) => c.args = {}}

Unknown == [kind |-> "unknown", args |-> {}]

Known == Capability \ {Unknown}

----------------------------------------------------------------------------
(* Reading a capability *)

Ok(c) == [err |-> "none", cap |-> c]
Err(e) == [err |-> e, cap |-> Unknown]

\* The object has the list its kind wants.
HasList(e) == e.field = arg_field_for_kind(e.kind) /\ e.strings

\* map_err: whatever the derived decoder objects to.
OrInvalidArgs(r) == IF r.err = "none" THEN r ELSE Err("InvalidArgs")

\* The derived decoder of the tagged enum: Unknown takes every other string,
\* extra fields are ignored, an args kind needs its own field.
from_value(e) ==
  IF e.kind = NotAString THEN Err("tag")
  ELSE IF e.kind \notin known_names THEN Ok(Unknown)
  ELSE IF ~has_args(e.kind) THEN Ok([kind |-> e.kind, args |-> {}])
  ELSE IF HasList(e) THEN Ok([kind |-> e.kind, args |-> e.args])
  ELSE Err("args")

\* An internally tagged enum is not read from a string.
deserialize(e) == IF e.form = "object" THEN from_value(e) ELSE Err("tag")

parse_value(e) ==
  IF e.form = "other" \/ (e.form = "object" /\ e.kind = NotAString)
  THEN Err("InvalidEntry")
  ELSE IF e.kind \notin known_names THEN Err("UnknownKind")
  ELSE IF e.form = "string" /\ has_args(e.kind) THEN Err("MissingArgs")
  ELSE OrInvalidArgs(from_value(e))

\* Faulty variant: the list is always written as `paths`.
from_capability_paths(c) ==
  [json |-> IF has_args(c.kind) THEN "object" ELSE "empty", kind |-> c.kind,
   field |-> IF has_args(c.kind) THEN "paths" ELSE "none",
   strings |-> has_args(c.kind), args |-> c.args]

from_capability(c) ==
  [json |-> IF has_args(c.kind) THEN "object" ELSE "empty", kind |-> c.kind,
   field |-> arg_field_for_kind(c.kind), strings |-> has_args(c.kind),
   args |-> c.args]

\* "" counts as {}; the "type" field is put in before the derived decoder runs.
to_capability(d) ==
  IF d.kind \notin known_names THEN Err("UnknownKind")
  ELSE IF d.json = "malformed" THEN Err("InvalidArgs")
  ELSE IF d.json = "nonobject" THEN Err("InvalidEntry")
  ELSE OrInvalidArgs(from_value(d))

\* items_json_schema: the closed schema of plugin.v1.json accepts the entry.
SchemaAccepts(e) ==
  \/ e.form = "string" /\ e.kind \in known_names /\ ~has_args(e.kind)
  \/ /\ e.form = "object"
     /\ e.kind \in known_names
     /\ IF has_args(e.kind) THEN HasList(e) ELSE e.field = "none"

----------------------------------------------------------------------------
(* The boot check *)

\* A granted capability covers a required one.
covers(g, r) ==
  /\ g # Unknown /\ r # Unknown
  /\ g.kind = r.kind
  /\ r.args \subseteq g.args

ungranted(required, granted) ==
  {r \in required : ~\E g \in granted : covers(g, r)}

validate_typed_capabilities(required, granted) ==
  IF Unknown \in required THEN "UnknownRequired"
  ELSE IF Unknown \in granted THEN "UnknownGranted"
  ELSE IF ungranted(required, granted) # {} THEN "Ungranted"
  ELSE "Satisfied"

----------------------------------------------------------------------------

Routes == {"descriptor", "cdylib", "manifest"}
Parsers == {"eager", "derived"}
Verdicts == {"none", "BadRequirement", "BadGrant", "UnknownRequired",
             "UnknownGranted", "Ungranted", "Satisfied"}

VARIABLES
  route,     \* how the plugin declares what it requires
  declared,  \* the entries of its descriptor or manifest
  carriers,  \* PluginRegistration.capabilities
  typed,     \* the capabilities its author named in declare_plugin!
  config,    \* the operator's granted_capabilities
  parser,    \* how the grants are read
  required, granted,  \* what the host made of them
  stage,     \* "edit", "read", "check" or "done"
  verdict

vars == <<route, declared, carriers, typed, config, parser, required, granted,
          stage, verdict>>

TypeOK ==
  /\ route \in Routes
  /\ declared \subseteq Entries
  /\ carriers \subseteq RawDecl
  /\ typed \subseteq Capability
  /\ config \subseteq Entries
  /\ parser \in Parsers
  /\ required \subseteq Capability
  /\ granted \subseteq Capability
  /\ stage \in {"edit", "read", "check", "done"}
  /\ verdict \in Verdicts

Init ==
  /\ route \in Routes
  /\ parser \in Parsers
  /\ declared = {} /\ carriers = {} /\ typed = {} /\ config = {}
  /\ required = {} /\ granted = {}
  /\ stage = "edit"
  /\ verdict = "none"

\* The plugin's author writes an entry.
Declare(e) ==
  /\ stage = "edit" /\ route \in {"descriptor", "manifest"}
  /\ Cardinality(declared) < MaxEntries
  /\ declared' = declared \cup {e}
  /\ UNCHANGED <<route, carriers, typed, config, parser, required, granted,
                 stage, verdict>>

\* The author names a capability in declare_plugin!, which encodes it.
DeclareTyped(c) ==
  /\ stage = "edit" /\ route = "cdylib"
  /\ Cardinality(carriers) < MaxEntries
  /\ typed' = typed \cup {c}
  /\ carriers' = carriers \cup {from_capability(c)}
  /\ UNCHANGED <<route, declared, config, parser, required, granted, stage,
                 verdict>>

\* A carrier of a newer or foreign SDK.
DeclareForeign(d) ==
  /\ stage = "edit" /\ route = "cdylib"
  /\ Cardinality(carriers) < MaxEntries
  /\ carriers' = carriers \cup {d}
  /\ UNCHANGED <<route, declared, typed, config, parser, required, granted,
                 stage, verdict>>

Grant(e) ==
  /\ stage = "edit"
  /\ Cardinality(config) < MaxEntries
  /\ config' = config \cup {e}
  /\ UNCHANGED <<route, declared, carriers, typed, parser, required, granted,
                 stage, verdict>>

Revoke(e) ==
  /\ stage = "edit"
  /\ e \in config
  /\ config' = config \ {e}
  /\ UNCHANGED <<route, declared, carriers, typed, parser, required, granted,
                 stage, verdict>>

\* What the host reads of the plugin's requirements, one result per entry.
Requirements ==
  IF route = "descriptor" THEN {parse_value(e) : e \in declared}
  ELSE IF route = "cdylib" THEN {to_capability(d) : d \in carriers}
  ELSE {deserialize(e) : e \in declared}

Grants ==
  {IF parser = "eager" THEN parse_value(e) ELSE deserialize(e) : e \in config}

Readable(results) == \A r \in results : r.err = "none"

\* Faulty variant: an entry that does not parse is skipped.
ReadRequiredSkipping ==
  /\ stage = "edit"
  /\ required' = {r.cap : r \in {x \in Requirements : x.err = "none"}}
  /\ stage' = "read"
  /\ UNCHANGED <<route, declared, carriers, typed, config, parser, granted,
                 verdict>>

\* deserialize_required_capabilities, or the host's loop over the carriers:
\* the first entry that does not parse refuses the whole list.
ReadRequired ==
  /\ stage = "edit"
  /\ Readable(Requirements)
  /\ required' = {r.cap : r \in Requirements}
  /\ stage' = "read"
  /\ UNCHANGED <<route, declared, carriers, typed, config, parser, granted,
                 verdict>>

ReadRequiredFails ==
  /\ stage = "edit"
  /\ ~Readable(Requirements)
  /\ stage' = "done"
  /\ verdict' = "BadRequirement"
  /\ UNCHANGED <<route, declared, carriers, typed, config, parser, required,
                 granted>>

ReadGranted ==
  /\ stage = "read"
  /\ Readable(Grants)
  /\ granted' = {g.cap : g \in Grants}
  /\ stage' = "check"
  /\ UNCHANGED <<route, declared, carriers, typed, config, parser, required,
                 verdict>>

ReadGrantedFails ==
  /\ stage = "read"
  /\ ~Readable(Grants)
  /\ stage' = "done"
  /\ verdict' = "BadGrant"
  /\ UNCHANGED <<route, declared, carriers, typed, config, parser, required,
                 granted>>

Check ==
  /\ stage = "check"
  /\ verdict' = validate_typed_capabilities(required, granted)
  /\ stage' = "done"
  /\ UNCHANGED <<route, declared, carriers, typed, config, parser, required,
                 granted>>

\* The operator edits the configuration and boots again.
Reboot ==
  /\ stage = "done"
  /\ stage' = "edit"
  /\ verdict' = "none"
  /\ required' = {} /\ granted' = {}
  /\ UNCHANGED <<route, declared, carriers, typed, config, parser>>

Next ==
  \/ \E e \in Entries : Declare(e) \/ Grant(e) \/ Revoke(e)
  \/ \E c \in Capability : DeclareTyped(c)
  \/ \E d \in Decls : DeclareForeign(d)
  \/ ReadRequired \/ ReadRequiredFails \/ ReadGranted \/ ReadGrantedFails
  \/ Check \/ Reboot

Spec == Init /\ [][Next]_vars

----------------------------------------------------------------------------
(* Properties *)

\* What an entry says, read off the documentation of the wire shape: an
\* entry that is malformed, or of a kind this host does not know, says nothing.
Means(e) ==
  {c \in Known :
     /\ c.kind = e.kind
     /\ e.form = "object" \/ (e.form = "string" /\ c.kind \in NoArgKinds)
     /\ c.kind \in ArgKinds =>
          e.field = arg_field_for_kind(c.kind) /\ e.strings /\ c.args = e.args}

\* What a carrier says.
MeansDecl(d) ==
  {c \in Known :
     /\ c.kind = d.kind
     /\ d.json = "object" \/ (d.json = "empty" /\ c.kind \in NoArgKinds)
     /\ c.kind \in ArgKinds =>
          d.field = arg_field_for_kind(c.kind) /\ d.strings /\ c.args = d.args}

Wants ==
  {c \in Known : \/ \E e \in declared : c \in Means(e)
                \/ \E d \in carriers : c \in MeansDecl(d)}

\* The operator wrote one entry that allows all of c.
Allowed(c) ==
  \E e \in config : \E g \in Means(e) : g.kind = c.kind /\ c.args \subseteq g.args

\* A plugin that boots asked for nothing the host could not read, and for
\* nothing the operator's file does not allow: whatever the route and the
\* parser, no conversion on the way weakened a requirement or widened a grant.
LoadedMeansAllowed ==
  verdict = "Satisfied" =>
    /\ \A e \in declared : Means(e) # {}
    /\ \A d \in carriers : MeansDecl(d) # {}
    /\ \A c \in Wants : Allowed(c)

\* The converse, for files that say something in every entry and write it in
\* the object form: a plugin is only refused for a requirement that no single
\* grant covers.
RefusedForCause ==
  (/\ stage = "done" /\ verdict # "Satisfied"
   /\ \A e \in declared \cup config : e.form = "object" /\ Means(e) # {}
   /\ \A d \in carriers : MeansDecl(d) # {})
     => \E c \in Wants : ~Allowed(c)

\* The FFI carrier loses nothing: what the author of a cdylib named is what
\* the host holds against the grants; an Unknown is refused, never dropped, and
\* nothing else that declare_plugin! encoded is.
TypedSurvivesFfi ==
  route = "cdylib" =>
    /\ stage \in {"read", "check"} => typed \subseteq required \ {Unknown}
    /\ verdict = "BadRequirement" =>
         \/ Unknown \in typed
         \/ \E d \in carriers : d \notin {from_capability(c) : c \in typed}

\* What `mcpg-plugin lint` accepts boots as far as the check: the schema
\* generated for plugin.v1.json is no wider than the parser.
SchemaIsSound ==
  route = "descriptor" /\ verdict = "BadRequirement" =>
    \E e \in declared : ~SchemaAccepts(e)

\* A grant never takes a grant away: a plugin that boots still boots when the
\* operator allows one more known capability.
GrantsAreMonotone ==
  verdict = "Satisfied" =>
    \A g \in Known :
      validate_typed_capabilities(required, granted \cup {g}) = "Satisfied"

\* A plugin boots exactly when single grants allow all it declared, and one more
\* grant does not stop it (validate_typed_capabilities).
BootIsExact == LoadedMeansAllowed /\ RefusedForCause /\ GrantsAreMonotone

----------------------------------------------------------------------------
(* The inductive invariant behind the safety properties *)

\* Each route has its own list, and every typed declaration its carrier.
ListsInv ==
  /\ route = "cdylib" => declared = {}
  /\ route # "cdylib" => carriers = {} /\ typed = {}
  /\ \A c \in typed : from_capability(c) \in carriers

Checked == stage = "done" /\ verdict \notin {"BadRequirement", "BadGrant"}

\* What the host holds is what it read of the present files, and the verdict
\* is about that.
ReadInv ==
  /\ stage # "done" <=> verdict = "none"
  /\ stage \in {"read", "check"} \/ Checked =>
       Readable(Requirements) /\ required = {r.cap : r \in Requirements}
  /\ stage = "check" \/ Checked =>
       Readable(Grants) /\ granted = {g.cap : g \in Grants}
  /\ verdict = "BadRequirement" => ~Readable(Requirements)
  /\ verdict = "BadGrant" =>
       /\ Readable(Requirements) /\ required = {r.cap : r \in Requirements}
       /\ ~Readable(Grants)
  /\ Checked => verdict = validate_typed_capabilities(required, granted)

CapInv == TypeOK /\ ListsInv /\ ReadInv

=============================================================================
