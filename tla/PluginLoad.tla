------------------------------ MODULE PluginLoad ------------------------------
(***************************************************************************)
(* Loading a native plugin (abi.rs, descriptor.rs, manifest.rs, lib.rs):   *)
(* the layout check, the registration, the identity - from the compiled-in *)
(* descriptor, or by making an instance from an empty config only to ask   *)
(* it - the binding of what the operator names to the vtables registered,  *)
(* and the making of the instance that serves.  The host drives; what it   *)
(* asks is this crate's code.                                              *)
(***************************************************************************)
EXTENDS Integers, Sequences, FiniteSets, SequencesExt

CONSTANTS
  None,
  Libraries,  \* libraries: [layout, abi_version, module_path, class, entities, descriptor, strict]
  Configs,  \* what the operator configures: [json, wanted]
  MAX_EVENT_TYPE_NAME_CHARS

ABI_VERSION == 1

----------------------------------------------------------------------------
(* Entity kinds.  The variants of EntityRegistration and of PluginClass have *)
(* the same names; each has its own table of strings.                        *)

kind_of == [
  ToolGate |-> "tool_gate", Transform |-> "transform",
  IdentityProvider |-> "identity_provider", Backend |-> "backend",
  WatchStrategy |-> "watch_strategy", HttpRoute |-> "http_route",
  AuditSink |-> "audit_sink", LogSink |-> "log_sink",
  TelemetrySink |-> "telemetry_sink", MetricsSink |-> "metrics_sink",
  Store |-> "store", Cache |-> "cache", SecretProvider |-> "secret_provider",
  ConfigProvider |-> "config_provider", PolicyEngine |-> "policy_engine",
  Cluster |-> "cluster", Transport |-> "transport",
  CatalogProvider |-> "catalog_provider", CredentialIssuer |-> "credential_issuer",
  ApprovalNotifier |-> "approval_notifier", ContentStore |-> "content_store"]

Variants == DOMAIN kind_of

\* Display of PluginClass.
class_name == [
  ToolGate |-> "tool_gate", Transform |-> "transform",
  IdentityProvider |-> "identity_provider", Backend |-> "backend",
  WatchStrategy |-> "watch_strategy", HttpRoute |-> "http_route",
  AuditSink |-> "audit_sink", Store |-> "store", Cache |-> "cache",
  TelemetrySink |-> "telemetry_sink", LogSink |-> "log_sink",
  MetricsSink |-> "metrics_sink", SecretProvider |-> "secret_provider",
  ConfigProvider |-> "config_provider", Transport |-> "transport",
  PolicyEngine |-> "policy_engine", Cluster |-> "cluster",
  CatalogProvider |-> "catalog_provider", CredentialIssuer |-> "credential_issuer",
  ApprovalNotifier |-> "approval_notifier", ContentStore |-> "content_store"]

class_to_string(class) == class_name[class]

Entity(variant, inner_name, vtable) ==
  [variant |-> variant, inner_name |-> inner_name, vtable |-> vtable]

kind(e) == kind_of[e.variant]

\* Iterator::find: the first element that passes, None when there is none.
find(s, Test(_)) == LET i == SelectInSeq(s, Test) IN IF i = 0 THEN None ELSE s[i]

first_entity_of_kind(entities, k) == find(entities, LAMBDA e : kind(e) = k)

find_entity(entities, k, name) ==
  find(entities, LAMBDA e : kind(e) = k /\ e.inner_name = name)

\* first_<kind>(): by variant, not by string.
first_vtable(entities, variant) ==
  LET e == find(entities, LAMBDA x : x.variant = variant)
  IN IF e = None THEN None ELSE e.vtable

----------------------------------------------------------------------------
(* The descriptor.  A name is its length and whether all its characters are  *)
(* of [A-Za-z0-9._-].                                                        *)

DESCRIPTOR_SCHEMA_V1 == "mcpg.dev/plugin/v1"

is_current_schema(d) == d.schema = DESCRIPTOR_SCHEMA_V1

ValidName(n) == n.chars \in 1..MAX_EVENT_TYPE_NAME_CHARS /\ n.clean

\* insert() of a set that has been given the elements before the i-th: it
\* takes only an element that is not there.
Inserts(s, i) == \A j \in 1..(i - 1) : s[j] # s[i]

\* The loop over the event types of one strategy gets to its end.
ValidTypes(types) ==
  \A i \in DOMAIN types : ValidName(types[i]) /\ Inserts(types, i)

\* And so does the one over the strategies.
validate_watch_strategies(strategies) ==
  LET kinds == [i \in DOMAIN strategies |-> strategies[i].kind]
  IN \A i \in DOMAIN strategies :
       kinds[i] # "" /\ Inserts(kinds, i) /\ ValidTypes(strategies[i].event_types)

watch_strategy(strategies, k) == find(strategies, LAMBDA s : s.kind = k)

----------------------------------------------------------------------------
(* The probe config.  A text parses as an object, null, another value or not *)
(* at all; `empty` says the object, or the text itself, holds nothing.       *)

Json(parses, empty, ok) == [parses |-> parses, empty |-> empty, ok |-> ok]
PROBE == Json("object", TRUE, FALSE)

\* Faulty variant: a text that does not parse counts as absent.
is_manifest_probe_config_lenient(j) ==
  CASE j.parses = "object" -> j.empty
    [] j.parses = "null" -> TRUE
    [] j.parses = "error" -> TRUE
    [] j.parses = "other" -> FALSE

is_manifest_probe_config(j) ==
  CASE j.parses = "object" -> j.empty
    [] j.parses = "null" -> TRUE
    [] j.parses = "error" -> j.empty
    [] j.parses = "other" -> FALSE

\* What a plugin's `make` gives for a config: a placeholder that connects to
\* nothing for the probe, if the plugin is strict about its config; an
\* instance for one it accepts; a null handle otherwise.
make(p, j) ==
  IF p.strict /\ is_manifest_probe_config(j) THEN "placeholder"
  ELSE IF j.ok \/ (~p.strict /\ j.parses # "error") THEN "connected"
  ELSE None

----------------------------------------------------------------------------
(* What a library and a config hold. *)

EventTypes == [id : STRING, chars : Nat, clean : BOOLEAN]
WatchStrategies == [kind : STRING, event_types : Seq(EventTypes)]
Entities == [variant : Variants, inner_name : STRING, vtable : Nat]

ASSUME LibrariesAreWhole ==
  \A l \in Libraries :
    /\ l.class \in Variants /\ l.strict \in BOOLEAN
    /\ l.entities \in Seq(Entities) /\ \A i \in DOMAIN l.entities : l.entities[i] # None
    /\ l.descriptor # None => l.descriptor.watch_strategies \in Seq(WatchStrategies)

\* lib.rs:132: a real config is never empty.
ASSUME ConfigsAreReal ==
  \A c \in Configs :
    c.json \in [parses : {"object", "other", "error"}, empty : {FALSE}, ok : BOOLEAN]

\* Why a load was refused.
Reasons == {"layout", "registration", "schema", "watch_strategies", "probe", "entity", "config"}

ASSUME NoReasonIsApart == None \notin Reasons \cup {"placeholder", "connected"}

----------------------------------------------------------------------------

VARIABLES
  library,   \* the library being loaded
  config,    \* the operator's entry for it
  phase,     \* how far it is
  reason,    \* why it was refused
  instance,  \* the instance alive: None, "placeholder" or "connected"
  bound      \* <<kind, inner_name>> the operator names -> vtable

loadVars == <<library, config, phase, reason, instance, bound>>

LoadInit ==
  /\ library \in Libraries
  /\ config \in Configs
  /\ phase = "opened"
  /\ reason = None
  /\ instance = None
  /\ bound = <<>>

\* Go on to the next phase when the condition holds, else refuse.
Proceed(ok, then, why) ==
  /\ phase' = IF ok THEN then ELSE "refused"
  /\ reason' = IF ok THEN None ELSE why

\* mcpg_plugin_abi_layout, before mcpg_plugin_register is called.
CheckLayout ==
  /\ phase = "opened"
  /\ Proceed(library.layout = "host", "compatible", "layout")
  /\ UNCHANGED <<library, config, instance, bound>>

\* mcpg_plugin_register, and what its fields have to be.
Register ==
  /\ phase = "compatible"
  /\ Proceed(library.abi_version = ABI_VERSION /\ library.entities # <<>> /\ library.module_path # "",
             "registered", "registration")
  /\ UNCHANGED <<library, config, instance, bound>>

\* The compiled-in descriptor is the plugin's identity.
ReadDescriptor ==
  /\ phase = "registered"
  /\ library.descriptor # None
  /\ IF is_current_schema(library.descriptor)
     THEN Proceed(validate_watch_strategies(library.descriptor.watch_strategies),
                  "described", "watch_strategies")
     ELSE Proceed(FALSE, "described", "schema")
  /\ UNCHANGED <<library, config, instance, bound>>

\* A registration without one is probed: make, manifest(), drop_instance.
Probe ==
  /\ phase = "registered"
  /\ library.descriptor = None
  /\ instance = None
  /\ instance' = make(library, PROBE)
  /\ Proceed(instance' # None, "probed", "probe")
  /\ UNCHANGED <<library, config, bound>>

DropProbe ==
  /\ phase = "probed"
  /\ phase' = "described"
  /\ instance' = None
  /\ UNCHANGED <<library, config, reason, bound>>

\* The class the manifest names has to be among the entities, and so does
\* every entity the operator names.
Bind ==
  /\ phase = "described"
  /\ LET found == [w \in config.wanted |-> find_entity(library.entities, w[1], w[2])]
         ok == /\ first_entity_of_kind(library.entities, class_to_string(library.class)) # None
               /\ \A w \in config.wanted : found[w] # None
     IN /\ Proceed(ok, "bound", "entity")
        /\ bound' = IF ok THEN [w \in config.wanted |-> found[w].vtable] ELSE bound
  /\ UNCHANGED <<library, config, instance>>

Make ==
  /\ phase = "bound"
  /\ instance' = make(library, config.json)
  /\ Proceed(instance' # None, "serving", "config")
  /\ UNCHANGED <<library, config, bound>>

\* shutdown, drop_instance.
Stop ==
  /\ phase = "serving"
  /\ phase' = "stopped"
  /\ instance' = None
  /\ UNCHANGED <<library, config, reason, bound>>

LoadNext ==
  \/ CheckLayout \/ Register \/ ReadDescriptor \/ Probe \/ DropProbe
  \/ Bind \/ Make \/ Stop

LoadFairness == WF_loadVars(LoadNext)

LoadSpec == LoadInit /\ [][LoadNext]_loadVars /\ LoadFairness

----------------------------------------------------------------------------
(* Properties *)

\* Two strategies, or two types of one, that a config could not tell apart,
\* or a name no config may write.
Ambiguous(strategies) ==
  \/ \E i, j \in DOMAIN strategies : i # j /\ strategies[i].kind = strategies[j].kind
  \/ \E i \in DOMAIN strategies :
       LET s == strategies[i]
       IN \/ s.kind = ""
          \/ \E m, n \in DOMAIN s.event_types : m # n /\ s.event_types[m] = s.event_types[n]
          \/ \E m \in DOMAIN s.event_types : ~ValidName(s.event_types[m])

\* A descriptor is refused for its strategies exactly when they are ambiguous
\* or misnamed, and then each strategy of a loaded plugin is the one its kind
\* finds; two strategies may use the same type name.
StrategiesAreTold ==
  /\ reason = "watch_strategies" => Ambiguous(library.descriptor.watch_strategies)
  /\ phase \in {"bound", "serving"} /\ library.descriptor # None =>
       LET strategies == library.descriptor.watch_strategies
       IN /\ ~Ambiguous(strategies)
          /\ \A i \in DOMAIN strategies : watch_strategy(strategies, strategies[i].kind) = strategies[i]

\* What serves was made from the operator's config: neither the instance made
\* for the probe nor another placeholder, and never for a config the plugin
\* does not accept.
ProbeNeverServes ==
  phase = "serving" /\ library.strict => instance = "connected" /\ config.json.ok

\* The operator reaches each entity under its own kind and inner name: what a
\* name is bound to is of that kind and has that name.
BoundByName ==
  phase = "serving" =>
    \A w \in DOMAIN bound :
      \E i \in DOMAIN library.entities :
        LET e == library.entities[i]
        IN e.vtable = bound[w] /\ kind(e) = w[1] /\ e.inner_name = w[2]

\* A plugin is not turned away for a class it has: the string of its class
\* finds an entity whenever the class's own accessor does.
ClassIsFound ==
  reason = "entity" /\ (\A w \in config.wanted : find_entity(library.entities, w[1], w[2]) # None) =>
    first_vtable(library.entities, library.class) = None

\* Every load ends, and leaves no instance behind.
LoadEnds == <>[](phase \in {"refused", "stopped"} /\ instance = None)

\* A plugin serves what the operator configured: its own instance, the entities
\* named, strategies that can be told apart.
LoadedAsConfigured == StrategiesAreTold /\ ProbeNeverServes /\ BoundByName /\ ClassIsFound

=============================================================================
