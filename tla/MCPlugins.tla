------------------------------ MODULE MCPlugins ------------------------------
(***************************************************************************)
(* What the host does with a plugin, on small instances: loading it, the   *)
(* services it may call back, its HTTP routes, the calls of a backend, the *)
(* events of a watch strategy and the documents of a secret or config      *)
(* provider.  The six share no state: each behaviour follows one of them   *)
(* while the others stand still, where none of their fair steps can be     *)
(* taken.                                                                  *)
(***************************************************************************)
EXTENDS MCPluginLoad, HostServices, MCHttpStreams, BackendCalls, WatchEvents,
        UriProviders

VARIABLE focus   \* the concern this behaviour follows

pluginVars == <<focus, loadVars, serviceVars, httpVars, backendVars, watchVars, uriVars>>

\* Two plugins; one has two subscriptions, so that one of them can end while
\* the other is held.
MCOwner == [s \in Subs |-> IF s = "s3" THEN "p2" ELSE "p1"]

\* Three messages whose values are alike: a JSON string, bytes the host refuses
\* and whose base64 is that string, and the string's text.
MCUpstream == <<Body("json", "YWE="), Body("bytes", "aa"), Body("text", "YWE=")>>
MCbase64_encode(content) == IF content = "aa" THEN "YWE=" ELSE "WVdFPQ=="

\* Two providers with a scheme each, or that claim the same one.
MCAdvertised ==
  {[p \in {"p1", "p2"} |-> IF p = "p1" THEN {<<"a">>} ELSE S] : S \in {{<<"b">>}, {<<"a">>}}}

\* A reference whose rest holds the delimiter again, one of a scheme nobody
\* has and one without a scheme.
MCReferences ==
  {<<"a">> \o Delimiter \o <<"x">> \o Delimiter, <<"c">> \o Delimiter,
   Delimiter \o <<"a">> \o Delimiter}

\* A library of another layout, refused.
LoadStands ==
  /\ library = None /\ config = None /\ phase = "refused" /\ reason = "layout"
  /\ instance = None /\ bound = <<>>

\* No plugin has been made.
ServicesStand == ServicesInit

\* A request without the identity its route requires.
HttpStands ==
  /\ route = RouteSpec(TRUE, FALSE, Nothing) /\ request = HttpRouteRequest(Nothing, <<>>)
  /\ seen = Nothing /\ panicked = FALSE /\ pc = "done" /\ status = 401 /\ slot_result = Nothing
  /\ handler = "idle" /\ response = Bytes(<<>>) /\ path = "sink" /\ source = <<>>
  /\ emitter = "off" /\ bridge = "live" /\ inbox = <<>> /\ body = <<>> /\ gone = FALSE

\* A backend nobody calls.
BackendStands ==
  /\ backend = [reports_usage |-> FALSE, own_stream |-> FALSE]
  /\ host = [takes_usage |-> FALSE, recased |-> FALSE, wired |-> FALSE]
  /\ profiles = {} /\ call = NoCall /\ stream = <<>> /\ reply = NoReply /\ truth = NoTruth

\* A log's watch that runs and has nothing to emit.
WatchStands ==
  /\ strategy = "log" /\ token = 1 /\ watches = 1
  /\ published = 0 /\ trimmed = 0 /\ acked = {} /\ next = 1 /\ out = {} /\ queue = <<>>
  /\ stored = <<>> /\ gaps = {} /\ cursor = NoResume /\ settled = <<>> /\ dropped = {} /\ restarts = 0

\* A consumer that was turned away, of providers that advertise nothing.
UriStands ==
  /\ supported_schemes = [p \in Providers |-> {}] /\ bindings = <<>>
  /\ doc_kind = "config" /\ watchable = FALSE /\ expiring = FALSE /\ reference = <<>>
  /\ version = 0 /\ doc = [s \in Sections |-> 0] /\ fault = NoValue /\ faults = 0
  /\ watching = FALSE /\ emitted = 0 /\ events = <<>>
  /\ step = "stopped" /\ polling = FALSE /\ fetched = Err("backend") /\ held = NoValue /\ applied = 0

PluginInit ==
  \/ focus = "load" /\ LoadInit /\ ServicesStand /\ HttpStands /\ BackendStands /\ WatchStands /\ UriStands
  \/ focus = "services" /\ ServicesInit /\ LoadStands /\ HttpStands /\ BackendStands /\ WatchStands /\ UriStands
  \/ focus = "http" /\ HttpInit /\ LoadStands /\ ServicesStand /\ BackendStands /\ WatchStands /\ UriStands
  \/ focus = "backend" /\ BackendInit /\ LoadStands /\ ServicesStand /\ HttpStands /\ WatchStands /\ UriStands
  \/ focus = "watch" /\ WatchInit /\ LoadStands /\ ServicesStand /\ HttpStands /\ BackendStands /\ UriStands
  \/ focus = "uri" /\ UriInit /\ LoadStands /\ ServicesStand /\ HttpStands /\ BackendStands /\ WatchStands

PluginNext ==
  \/ /\ focus = "load" /\ LoadNext
     /\ UNCHANGED <<focus, serviceVars, httpVars, backendVars, watchVars, uriVars>>
  \/ /\ focus = "services" /\ ServicesNext
     /\ UNCHANGED <<focus, loadVars, httpVars, backendVars, watchVars, uriVars>>
  \/ /\ focus = "http" /\ HttpNext
     /\ UNCHANGED <<focus, loadVars, serviceVars, backendVars, watchVars, uriVars>>
  \/ /\ focus = "backend" /\ BackendNext
     /\ UNCHANGED <<focus, loadVars, serviceVars, httpVars, watchVars, uriVars>>
  \/ /\ focus = "watch" /\ WatchNext
     /\ UNCHANGED <<focus, loadVars, serviceVars, httpVars, backendVars, uriVars>>
  \/ /\ focus = "uri" /\ UriNext
     /\ UNCHANGED <<focus, loadVars, serviceVars, httpVars, backendVars, watchVars>>

PluginSpec ==
  /\ PluginInit /\ [][PluginNext]_pluginVars
  /\ LoadFairness /\ ServicesFairness /\ HttpFairness /\ BackendFairness
  /\ WatchFairness /\ UriFairness

\* Every component's state is of its type, the host's queue within its bound.
PluginsTypeOK ==
  ServicesTypeOK /\ HttpTypeOK /\ BackendTypeOK /\ WatchTypeOK /\ UriTypeOK

\* Whatever is begun ends: a load, a drop_instance, a request and a call, with
\* callbacks, streams and failures under way.
EveryOperationEnds == LoadEnds /\ DropEnds /\ EveryRequestEnds /\ Answered

=============================================================================
