# A TLA+ model of the MCPG plugin protocol

This directory models the logic of `mcpg-plugin-protocol`, the crate that the
MCPG gateway and its plugins share: which parts keep state or make decisions,
what TLC checks about them on small instances, and what TLAPS proves about them
for every instance. Paths such as `backend.rs:650` are under `src/src/`.

## The system and its parts

The crate is an interface. The gateway ("host") loads plugins, static or
cdylib, and calls them through vtables of `extern "C"` functions; plugins call
back through `BackendHost` and host services. Some parts carry logic of their
own; others state in their comments what each side of a vtable owes the other,
and convert what crosses it. Both kinds are modelled: for the second kind the
crate's conversions and defaults are translated from the code and the two sides
follow the contract written beside the vtable.

| part | state | operations | what makes it correct |
|---|---|---|---|
| late-bound host (`backend.rs:551-853`) | `inner` (RwLock), the slots of buffered subscriptions and `next_id` (one Mutex), a poisoned flag | `set`, `is_bound`, the forwarded calls, `subscribe_*`, the drop of a guard | a held guard is registered exactly once, with the installed host; a dropped one is silent; nothing blocks for ever |
| typed capabilities (`capability.rs`, `abi.rs:1944-2040`, `descriptor.rs:48-68`) | what a plugin requires and the operator grants, as read | parsers, FFI carriers, `covers`, `validate_typed_capabilities` | a plugin boots exactly when single grants allow all it declared, however it was declared |
| FFI calls and conversions (`abi.rs`, `result_envelope.rs`) | plugin instances, handles | register, make, manifest, call, shutdown, drop; panic guards; envelopes; `From` impls | no panic or error is read as a success; a plugin that panicked while loading is not served from; round trips lose nothing |
| plugin load (`descriptor.rs`, `manifest.rs`, `lib.rs`, `abi.rs`) | the registration, the probe's instance, the binding of names to vtables | layout check, probe, descriptor checks, lookup by class and inner name | nothing serves from the probe; a config binds to the entity it names |
| host services (`abi.rs:548-715`) | a bridge per plugin, boxed callbacks, the host's list of ids, the coordinator's handle | service calls, subscribe, unsubscribe, drop | nobody is inside freed memory; a drop ends |
| backend calls (`backend.rs:855-1575`) | profiles, the call under way, its chunks | `register_profile`, `execute`, `execute_streaming`, usage wrap/split | the caller gets the result and is charged its usage; every call is answered |
| watches (`backend.rs:1577-1820`) | the upstream's position, the host's bounded queue, what is stored, the cursor | watch, emit, store, acknowledge, crash, resume | a restart loses nothing, nothing is stored twice, all is settled in the end |
| HTTP routes (`http_route.rs`, `abi.rs`) | a request, a stream, two kinds of sink | checks, `handle`, `handle_streaming`, push, cancel | a body arrives whole; a freed sink is never called |
| secrets and config (`secret.rs`, `config.rs`) | bindings of schemes, a document, a consumer's copy | get, watch, rebind, outage | a consumer ends on the last contents and never takes an outage for an absence |
| stores (`store.rs`) | keys of roles, with TTLs | get, put, delete, compare-and-swap, list, watch | no update is lost on the wire, a scan misses nothing |
| cluster coordination (`abi.rs:959-990`, `1540-1640`, `wire_bytes.rs`) | leases and fencing tokens, a counter, entries | acquire, renew, release, drop; get, put, incr | one holder at a time; counts go up; any age reads any age |
| approvals (`approval_notifier.rs`, `types.rs`) | calls in flight, deadlines, notifiers still to be told | dispatch, answer, expire | a call ends once, by a human's answer or for a cause |
| credentials (`credential.rs`) | a config string; the cache a hash is the key of | `CredRef::parse`, `cred_tokens`, `substitute_cred_tokens`, `identity_hash*` | scan and substitution agree; callers who must not share a credential have different keys |
| catalog (`catalog.rs`) | a list along a chain of providers | `merge_from`, `trust_level_meets` | first write wins; more trust shows more |
| schema merge, redaction, address checks, ABI fingerprint | the value and how far it has got | `merge_schema`; the redaction helpers; range checks and guards; the layout walk | overlays win and lose nothing; nothing leaks and a second pass changes nothing; a changed resolver is caught; the walk ends and tells layouts apart |
| sinks, policy, payment, cache, content store, transports | none | records, labels, error tables, traits | |

How they interact: the gateway checks a plugin's layout and capabilities, makes
a probe to ask who it is, binds the operator's names to its vtables and makes
the instance that serves (`PluginLoad`, `Capabilities`, `FfiCalls`). It hands
the plugin a bridge to its services and, before the real host exists, a
`LateBoundBackendHost`; a gateway thread calls `set` later and again on a
reload, host threads broadcast events by running the plugins' callbacks, plugin
threads drop guards (`LateBoundHost`, `HostServices`). Then requests arrive: the
catalog chain lists tools, gates may pause a call for a human, credentials and
secrets are resolved, backends are called or stream, and gateways of a cluster
share leases and counters through their coordinator plugins.

What is hard: two locks and the host's own lists taken in different orders, with
panics under the mutex; every return shape with its own way of saying that
something failed; memory that one side frees while the other may be inside it;
answers, renewals and acknowledgements that arrive late, twice or after a crash;
gateways and plugins of different ages; and text and layout conversions that two
places have to do alike. `PROJECT.json` lists the hazards at their lines, with
the properties that would show them going wrong.

## Modules

| module | what it is |
|---|---|
| `LateBoundHost` | the late-bound host, the threads that use it and the real hosts, its properties, and the refinement mapping |
| `SubscriptionBus` | the abstract contract: a subscription listens to at most one host, attaches only to the installed one, and is moved after a swap unless the bus is `broken` |
| `LateBoundHostInv`, `LateBoundHostProofs` | the inductive invariant, part by part, and its proof with the theorems that follow |
| `Capabilities`, `CapabilitiesProofs` | reading and checking capabilities, and the theorems |
| `FfiCalls`, `FfiCallsProofs` | a plugin's life and its calls across the C boundary, and the theorems |
| `CredText`, `CredLayers` | the text of credential references; a config string through layers |
| `Credentials`, `ToolCatalog`, `SchemaMerge`, `Redaction`, `Addresses`, `AbiFingerprint` | one component each, whose state is mostly one value |
| `KeyedState`, `ClusterKv`, `ClusterLeases`, `Approvals` | what several clients share |
| `PluginLoad`, `HostServices`, `BackendCalls`, `WatchEvents`, `HttpStreams`, `UriProviders` | a plugin's load, its services and the calls it serves |
| `Lists` | a filtered list, which several components use |
| `PluginProofs` | the theorems about `PluginLoad`, `HostServices`, `BackendCalls`, `WatchEvents`, `HttpStreams`, `UriProviders` and `MCPlugins` |
| `SharedProofs` | those about `KeyedState`, `ClusterKv`, `ClusterLeases`, `Approvals` and `MCShared` |
| `TextProofs` | those about `CredText` and `CredLayers` |
| `ValueProofs` | those about `Credentials`, `ToolCatalog`, `SchemaMerge`, `Redaction`, `Addresses`, `AbiFingerprint` and `MCValues` |
| `LoopProofs` | what the proofs about loops over texts and lists start from |
| `MCLateBoundHost`, `MCCapabilities`, `MCFfiCalls` | small instances for TLC |
| `MCCredLayers`, `MCCredentials`, `MCToolCatalog`, `MCRedaction`, `MCAddresses`, put together by `MCValues` | small instances of the components of one value |
| `MCShared` | small instances of the shared ones |
| `MCPluginLoad`, `MCHttpStreams`, put together by `MCPlugins` | small instances of the plugin's ones |

`MCValues`, `MCShared` and `MCPlugins` check independent components in one run.
Their variable `focus` is chosen once: a behaviour follows one component and the
others stand still, at states where none of their fair steps is enabled, so that
the states are the sum of the components' and not the product, and every
component is checked with its own bounds and its own fairness.

Definitions called "faulty variant" are not part of any specification: each
changes the definition below it the way a plausible slip in the code would, and
`PROJECT.json` ("mutants") pairs it with the property that must then fail.

### LateBoundHost

A step of the model is what one thread does between two points where another
can get in: a lock taken or released, or a call into the real host. `pc[t]`
names the point a thread has reached, `host`, `cb` and `todo` are its locals.

| code | model |
|---|---|
| `inner: RwLock<Option<Arc<dyn BackendHost>>>` | `inner`; a write waits for `InnerReaders` |
| `subscriptions: Mutex<..>` | `subsLock` (owner) and `poisoned` |
| `next_id`, `slot.id`, `slot.real` | `nextId`, `slotId`, `real`; a subscription stands for one callback, one slot and one guard |
| the guard's life and `id` | `guard`, `guardId` |
| the real host's lists and their mutexes (external) | `regs`, `listLock`, one list per kind of event |
| `set` | `SetBegin`, `SetInner`, `SetLock`, then per slot `ReplayDrop` and `ReplaySubscribe`, `SetReturn` |
| `subscribe_*` | `SubBegin`, `SubLock`, `SubRead`, `SubHost` (if bound), `SubPush` |
| `Drop` of a guard | `DropBegin`, `DropLock`, `DropRetain` |
| `.expect(..)` or `if let Ok` on a poisoned mutex | `SetLockFails`, `SubLockFails`, `DropLockFails` |
| a panic in the host's `subscribe_*` | `ReplayPanic`, `SubPanic` |
| `invoke_tool` .. `cache_invalidate` | `CallForward`, `CallReturn`, `CallUnforwarded` |

The real host is outside the crate. It is modelled after `BroadcastingHost` in
the tests of `backend.rs`, which says it mirrors the production host: it keeps a
list of callbacks per kind, behind a mutex that is held while an event's
callbacks run. Callbacks do not touch guards. The two `subscribe_*` methods and
the two guards are the same code for two lists, so one set of actions serves
both and `KindOf` tells them apart where it matters: the order of the replay,
the list a host locks, the list a drop searches. The slots of one list are
replayed in any order.

Left out: the payloads of calls and events, `Debug`, and the wrap of `next_id`
after 2^64 subscribes.

### Capabilities

A JSON entry is a record: string, object or something else; its `type`; one list
field with its name, whether it is a list of strings, and the strings. Lists are
sets, since the code only tests membership, and the lists of entries are sets
because their order only decides which error is quoted. `Means` and `MeansDecl`
are the reference: what an entry or a carrier says according to the documented
wire shape. The code's readers (`parse_value`, `deserialize`, `to_capability`)
are checked and proved against them. Requirements arrive by three routes
(`Requirements`), grants by two parsers (`Grants`); the operator may edit the
grants and boot again. The host loop over the carriers and the operator-config
reader belong to the gateway; they are modelled from what the crate says they
call.

### FfiCalls

One plugin is loaded, serves calls one after the other and is torn down; each of
its functions may return, or panic. `load` is where the loader is, `crashed` the
lifecycle functions that panicked. Of a call, `meant` is what the plugin's body
did, `wire` what its guard let through and `seen` what the host's decoder made
of it.

| code | model |
|---|---|
| `mcpg_plugin_register`, `make`, `manifest_json`, `drop_instance`, `shutdown` | `Register`, `MakeProbe`, `Manifest`, `DropProbe` (the loader's first, empty instance, `lib.rs:123-133`), `MakeInstance`, `Stop`, `Shutdown`, `DropInstance` |
| a call of a slot | `Call`; then `Return`, `Panic` or `ReturnForeign`; then `Read` and `Done` |
| the twelve `catch_panic_*` | operators of the same names, put around a slot by `Guard` |
| `From` impls for gates, transforms, identities | `ToR..` and `FromR..` |
| `respond_*_rstring`, `ResultEnvelope::deserialize`, `decode_result_envelope` | the same, over an object's members in order |
| `LeaseHandle`, `StreamHandle`, `HttpHandleResult` | `Handle`, `HttpResult` and their readers |

There is one slot of every return shape (`Slots`); slots of the same shape go
through the same code. `cache_get` stands for payloads that are an `Option`,
`register_profile` for `()`. JSON text is valid (with its value), empty, or not
JSON; strings that are copied are left out. `ReturnForeign` is a slot written
without this crate's encoders: any text wherever JSON belongs, envelopes with
missing, unknown, repeated or both keys. The loader and the host adapters are
outside the crate and modelled from what its comments require of them: check
the ABI version first, refuse a null handle and a manifest that does not parse,
read a handle's three outcomes as the comment on `LeaseHandle` says. An object's
members are at most `MaxMembers`, and no call runs while the plugin is stopped.

### The shared components

`ClusterLeases`: the lease slots of `ClusterVTable`. `lease` is the
coordinator's record, `table` the cookies each gateway's plugin keeps state for,
`handle` and `cached` the gateway's lease object and the expiry it goes by,
`renewal` a `lease_renew` under way. `try_acquire`, `Want` and `acquire` are
`try_acquire_*` and the waiting form; `Renew`, `lease_renew`, `Renewed` are the
call, the coordinator's step and its answer, which may be late; `lease_release`,
`lease_drop`, `Crash` and `Tick` (time) are steps of their own. An expiry is the
time left until it. The coordinator and the gateway's lease object are external.

`ClusterKv`: gateways and plugins each of an age (`modern`, `wire_features`) on
one store; the two byte forms of `wire_bytes.rs` and the counter's floor are
translated, the store is external.

`KeyedState`: clients call `get`, `put`, `append`, `delete`, `compare_and_swap`,
`list` and a watch across the store's vtable; every value, page and event goes
through its `*Wire` form, with TTLs cut to milliseconds and capped at a u64
(scaled). `append` is the default body, a `put`. The map behind the plugin is
the trait's contract. `last`, `changed` and `stamp` are what the properties
compare with.

`Approvals`: `PendingApproval` pauses a call; `Post`, `notify` and
`NotificationError` are the dispatch to notifiers in order; `Press` is a human,
`DirectPost` the URL, `Resolve` the arrival of an answer (answers stay in
`answers`, so one may arrive again), `ExpireCall` the deadline. The gateway's
map and webhook are external, from the comments.

### A plugin's load, services and calls

`PluginLoad` is sequential: `CheckLayout`, `Register`, `ReadDescriptor` or
`Probe` and `DropProbe`, `Bind`, `Make`; every check may refuse the load with
its reason. The two loops of `validate_watch_strategies` are quantifiers over
positions: `Inserts` is what `BTreeSet::insert` answers after the elements
before. `HostServices` keeps every piece of memory of both sides as state
(`bridges`, `box`, `client`, `coordinator`) and who is inside it (`task`,
`firing`). `BackendCalls` runs one call at a time, by `execute` or a stream, of
the crate's default or the plugin's own; `truth` is what the plugin really did.
`WatchEvents` has the two kinds of strategy the descriptor knows: a log that is
resumed from a cursor, and a queue that redelivers; durable state (`stored`,
`gaps`, `cursor`) survives `Crash`. `HttpStreams` is one request: the host's
`pc`, the plugin's `handler` and `emitter`, the sink's `bridge`. `UriProviders`
has a document with sections, a provider whose backend fails and recovers, the
gateway's bindings, and a consumer that opens a watch, fetches, listens, and
polls only when told that there is no watch.

Of these the conversions, checks, defaults and error tables are the crate's code
and are mapped to it; the gateway, the plugins' work, upstreams, clients and
time are external and follow the comments.

### The components of one value

`CredText` works on sequences of symbols, `CredLayers` sends a string through
layers, `Credentials` puts the identity hash and the parts of a credential under
a cache; SHA-256 is taken as injective, so that a hash is the sequence fed to
it. `ToolCatalog` lists tools for callers through a chain. `SchemaMerge` merges
trees of bounded depth. `Redaction` applies the helpers to character sequences,
repeatedly. `Addresses` tests octets and segments by the code's masks against
the documented ranges as intervals, around a resolver that changes its answer.
`AbiFingerprint` walks two builds' type graphs at once and compares digests with
what `abi_stable` compares; the order in which a type names others does not
matter to it, so `nested` takes any (`SetToSeq`).

## Runs

| run | instance | shows |
|---|---|---|
| `swap` | 1 setter, 2 plugin threads, 1 broadcaster, 2 hosts, 3 subscriptions of both kinds, 2 sets, 1 event; plugins and hosts symmetric | `SettledOnCurrent`, `NeverTwice`, `DroppedIsSilent`, `HeldIsUndisturbed` |
| `swap_live` | as above with 2 subscriptions, hosts that may panic, no symmetry, fair | `EveryEntryIsOwned`; `SwapsComplete` = `EveryOperationReturns`, `SwapReachesEveryone`; `ImplementsBus` (refinement of `SubscriptionBus`, fairness included; its `broken` is the poisoned mutex) |
| `capabilities` | 2 arguments, a vocabulary with and without arguments, a future kind, every kind of malformed entry, lists of up to 2 | `BootIsExact` = `LoadedMeansAllowed`, `RefusedForCause`, `GrantsAreMonotone`; `TypedSurvivesFfi` |
| `ffi_calls` | 2 payloads, 2 errors, 2 lists, 2 attributes, one code | `PanicsAreTold` = `PanicIsFailure`, `PanicDenyIsTold`; `ReadAsMeant` = `MeantIsSeen`, `ErrIsNeverOk`; `PanickedIsNeverLoaded`, `TeardownCompletes` |
| `values` | `MCValues` | `TokensReplacedExactly` = `SubstitutionFollowsScan`, `UnresolvedSurvive`, `LayersCompose`, `LeftIntact`, `BlocksEndOutsideStrings`, `RefsCanonical`. `CacheKeysAreExact` = `ServedForSameAuthority`, `OneCredentialPerAuthority`, `PartsOfOneMint`. `RedactedExactly` = `NoUserinfoLeft`, `PathAndQueryKept`, `QueryValuesWithheld`, `Idempotent`. `ListedAsConfigured` = `FirstWriteWins`, `TagsAreUnion`, `MoreTrustShowsMore`. `MergeIsExact` = `OverlayWins`, `RestIsKept`. `AddressesAreGuarded` = `RebindingIsCaught`, `BlocksWhatIsDocumented`, `PublicIsServed`. `FingerprintPredicts` = `WalkIsClosed`, `DifferentMeansRefused`, `EqualMeansAccepted`, `EveryTurnShortens` |
| `shared` | `MCShared` | `ReadersSeeTheStore` = `ReadsBackLastWrite`, `ScanMissesNothing`, `WatcherCatchesUp`. `SwapsAreExact` = `NoLostUpdate`, `NoSpuriousMismatch`. `AgesAgree` = `AnyAgeReads`, `CountsGoUp`. `LeaseIsExclusive` = `MutualExclusion`, `HolderIsUndisturbed`, `OldTokensAreLower`, `DroppedIsUntouched`. `LeaseIsFreed`. `EndedForCause` = `AnsweredByAHuman`, `FailureForCause`. `EveryCallEndsOnce` = `EndsOnce`, `EveryCallEnds` |
| `plugins` | `MCPlugins` | `LoadedAsConfigured` = `StrategiesAreTold`, `ProbeNeverServes`, `BoundByName`, `ClassIsFound`. `LifetimesHold` = `NoDanglingCall`, `CoordinatorOutlivesClients`, `HeldStaysSubscribed`. `ServedFaithfully` = `BodyIsWhole`, `HttpFailureForCause`, `CheckedIsSeen`; `FreedSinkIsSilent`. `AnswersAreTrue` = `ServedIsResult`, `ChargedIsUsed`, `FailureKeepsItsCause`. `StoredExactly` = `RestartLosesNothing`, `AckedIsSettled`, `StoredOnce`, `BodiesNeverReadAlike`; `EventuallySettled`. `FollowsTheDocument` = `HintHidesNothing`, `AdvertisedIsServed`, `OutageKeepsValue`, `CatchesUp`. `EveryOperationEnds` = `LoadEnds`, `DropEnds`, `EveryRequestEnds`, `Answered` |
| `concurrent_sets` | 2 setters | *violation*: overlapping `set`s leave `inner` on one host and the subscriptions on the other |
| `forwarding` | all seven methods | *violation*: `resolve_credentials` is not forwarded |
| `dispatcher_panic` | as `ffi_calls` | *violation*: the dispatcher's panic reply is not a `DispatcherError` |
| `unset_metadata` | as `ffi_calls` | *violation*: an approval's unset metadata arrives as null |
| `bare_uri` | texts with a character outside ASCII | *violation*: substitution rewrites text that holds no token |

A property written as "X = A, B" is the conjunction of its named parts, each
stated and commented in its module. `ffi_calls` and the three composed runs also
check the type invariants of what they follow. The inductive invariants, and the
type invariants of the modules that no run names, are proved.

Bounds, and why they are enough:

* Late-bound host: `MaxSets = 2` is a first installation and a swap; `MaxId` is
  the number of subscriptions, each subscribed once; `MaxFires = 1` suffices
  because an event only matters for the list it owns while others wait. Three
  subscriptions give two slots of one kind, so that a drop can hit the wrong
  one, and one of the other, so that the two loops are told apart.
* Capabilities and FFI: two entries per list let grants be split, overlap and be
  malformed on either side; two members let `ok` and `err` meet in either order;
  two attributes, that pairs collide or come out of order. The proofs remove
  these bounds but those on `nextId` and on the members of an object.
* `CredLayers`: five fragments hold a token inside a block, a quote and an
  escape around a brace; two layers are what composing needs. `Credentials`: 34
  identities with values that look like labels and lengths, two mints, one step
  of time past a lifetime of one. `ToolCatalog`: every chain of three of twelve
  providers, so that a third can undo what the second kept. `SchemaMerge`: depth
  two, two keys. `Redaction`: every tail of four characters after a scheme, two
  passes. `Addresses`: both ends of every range, their neighbours and the three
  embeddings. `AbiFingerprint`: all pairs of graphs of three types, which hold
  self-references, cycles and sharing.
* `KeyedState`: two clients race for one key in three writes; one client changes
  three keys in four writes under a scan of pages of one, or a watch; TTLs of
  none, 1.5 ms and more than a u64. `ClusterLeases`: two gateways, a lifetime of
  two ticks, three grants: a lease can be lost, taken by the peer, and taken
  back. `ClusterKv`: counts up to four. `Approvals`: two calls, two notifiers, one
  tick to the deadline.
* `HostServices`: two plugins, three subscriptions, three ids. `WatchEvents`:
  three messages over a queue of two, one refused, two restarts, one trim.
  `HttpStreams`: streams with an empty chunk, with and without End.
  `BackendCalls`: two profiles, two results and those that look like envelopes,
  two chunks. `UriProviders`: two providers, three versions, one fault of the
  backend, before, between and after the changes.

Deadlock checking is off where the bounded operations run out or a life ends: in
`swap_live` and `ffi_calls`, and in the three composed runs, whose components end
served, refused, settled, dropped or out of requests. The liveness properties
(`SwapsComplete`, `TeardownCompletes`, `EveryOperationEnds`, `EventuallySettled`,
`FollowsTheDocument`, `EveryCallEndsOnce`, `LeaseIsFreed`) say there what
a deadlock check would.

Fairness, always weak unless said otherwise:

* `LateBoundHost`: the steps of an operation that a thread has begun; the
  scheduler runs a thread that can run. Starting an operation is never required,
  and no fairness of the mutexes is assumed: bounded operations cannot starve
  another thread for ever. `FfiCalls`: a teardown that has begun goes on; the
  guards return, so nothing can hold it up.
* `PluginLoad`: the loader goes on. `BackendCalls`: a backend's call ends (its
  own timeout is one end) and the host reads the stream it holds.
* `HostServices`: calls return, callbacks are short (`backend.rs:311` asks for
  it), a teardown that has begun goes on; strong fairness of unsubscribing in a
  drop, because the list's mutex is free again and again between events.
* `HttpStreams`: the host goes on, a slot returns and a task pushes its chunks;
  no client has to leave. `WatchEvents`: the host restarts watches, stores and
  acknowledges; the plugin emits and the upstream redelivers.
* `UriProviders`: the gateway boots and binds again, an outage ends, the provider
  reports changes, the consumer's task goes on. Outages are bounded.
* `ClusterLeases`: time passes and renewals are answered. `Approvals`: time
  passes and the gateway notices a deadline; notifiers and humans owe nothing.

## What is proved

`LateBoundHostProofs`, for any sets of threads, hosts and subscriptions:

* `CoreInvariant`: `CoreInv` is inductive, with overlapping sets and panics. It
  adds to the type invariant which program points each role uses, that the
  mutex is owned by exactly the thread inside (`MutexInv`), what the locals of
  `set`, `subscribe_*` and `drop` are at each point, that ids are unique
  (`SlotInv`), that the hosts' lists hold exactly what slots and subscribes
  under way own (`RegInv`), and that what a broadcast will still run is in the
  list it owns (`FireInv`). `NeverTwice` alone is not inductive: it needs
  `RegInv`, whose preservation needs the rest.
* `NeverTwiceHolds`, `DroppedIsSilentHolds`, `EveryEntryIsOwnedHolds`,
  `HeldIsUndisturbedHolds` and `TypeCorrect` follow from it.
* `SettledOnCurrentHolds` assumes `OneSetter`, that sets do not overlap: the
  run `concurrent_sets` shows that it is false otherwise. It rests on
  `CurrentInv`: a slot is on the installed host or a set is about to move it.
* `ImplementsBusSafety`: under the same assumption every step of the late-bound
  host is a step of `SubscriptionBus`, or none, under the mapping of
  `LateBoundHost` (`BusPhase`, `BusListens`). One lemma per group of actions says
  which abstract step it is. A set that finds the mutex poisoned is the bus
  breaking, so the proof also needs `PoisonInv`: nobody holds a poisoned mutex.
  The fairness half of the refinement is the run `swap_live`'s.

`CapabilitiesProofs`, for any arguments, future kinds, entries and carriers and
lists of any length: `CapInvariant` (what the host holds is what it read of the
present files) and from it `TypeCorrect`, `LoadedMeansAllowedHolds`,
`RefusedForCauseHolds`, `GrantsAreMonotoneHolds`, `BootIsExactHolds` (the three
together), `TypedSurvivesFfiHolds` and `SchemaIsSoundHolds`, which no run checks. The lemmas `ParseMeans`, `DeserializeMeans` and
`DeclMeans` say of each reader that it reads an entry exactly when the entry
says something, and then what it says.

`FfiCallsProofs`, for any payloads, errors, codes and attribute names:
`CallInvariant` (what crossed is the guarded answer of the body, what the host
holds is its conversion, and only a plugin without a panic gets past a loading
step), and from it `PanicIsFailureHolds`, `PanicDenyIsToldHolds`,
`MeantIsSeenHolds`, `ErrIsNeverOkHolds`, `PanickedIsNeverLoadedHolds`, and the
two that put them together, `PanicsAreToldHolds` and `ReadAsMeantHolds`. The
argument is by slot: `RoundTrip` says of each encoder and decoder that one undoes
the other, `PanicReads` of each guard that its sentinel is read as a failure.
The invariant is needed because the properties compare `seen` with `meant`, two
steps apart. `TypeCorrect` adds the third source of an answer, the value a slot
wrote by hand: `ForeignReads` says of each decoder that, whatever text stands
where JSON belongs and whichever members an envelope repeats, lacks or makes up,
it yields a result of the slot's type or a failure.

`PluginProofs`:

* `LoadedAsConfiguredAlways`, for any libraries and configs. `LoadInv` records
  what each phase of a load has behind it: the strategies of a descriptor were
  checked, what is bound is what `find_entity` found, what serves is what `make`
  made. The lemmas say what the crate's functions compute: `ChecksAmbiguity` (the
  check passes exactly the lists that are not ambiguous), `EntityFound`,
  `ClassFound` (the two tables of 21 names agree), `RealIsConnected`.
* `LifetimesHoldAlways` and `ServicesTypeCorrect`, for any plugins and
  subscriptions. That nobody is inside freed memory is not inductive: `UnderwayInv`
  ties every call under way to a live plugin and its bridge, `BoxInv` every boxed
  callback to its owner, `EntryInv` every entry of the host's list to a box.
* `StoredExactlyHolds` and `WatchTypeCorrect`, for any upstream, queue and number
  of restarts. `CoverInv` is about every position of a log up to the cursor, up to
  an event in the queue, and up to where the watch is: its message is stored,
  refused, in a gap that was told, or in the part of the queue before that point.
  `AckInv` says that an acknowledgement under way is of a message the host is done
  with, `DistinctInv` that none is stored twice.
* `FollowsTheDocumentSafely` and `UriTypeCorrect`, for any providers, schemes,
  references and versions: the safety parts of `FollowsTheDocument`. A consumer
  that skips an event by its hint is right only because of what the earlier and
  the later ones in the queue say, so `EventsInv` says that an event that leaves
  the section alone brings what the one before it brought, up to the provider's
  last report, and `AheadInv` that the first event may be skipped only if it brings
  nothing newer than what the consumer has. `SchemeOf` proves that splitting a reference
  at its first delimiter finds the scheme.

* `AnswersAreTrueAlways` and `BackendTypeCorrect`, for any results (also those
  that look like envelopes), usages and profiles: `CallInv` relates the chunks
  under way to `truth`.
* `ServedFaithfullyAlways`, `FreedSinkIsSilentAlways` and `HttpTypeCorrect`, for
  any routes, requests and responses: `SourceInv` says that what the task has left
  to push is the rest of the stream, `BodyInv` that what was served and what waits
  in the inbox are the chunks pushed until the host has read End, and that what
  was served is then the body that was meant, without the empty chunks (`Thins`);
  `PlaceInv` says who may be where when a sink is freed.
* `PluginsTypeCorrect`: whichever of the six a behaviour of `MCPlugins` follows,
  all keep their types. The followed one keeps its inductive invariant
  (`PluginInv`) and the others stand, some of them where their own specification
  never comes.

`SharedProofs`:

* `LeaseInvariant`, for any set of gateways, any lifetime and any number of
  grants, and from it `LeaseTypeCorrect`, `MutualExclusionHolds`,
  `HolderIsUndisturbedHolds`, `OldTokensAreLowerHolds`, `DroppedIsUntouchedHolds`
  and, of the four together, `LeaseIsExclusiveHolds`. `MutualExclusion` speaks of
  what gateways believe, and is not inductive: an answer under way may make a
  gateway believe next. `LeaseInv` says that every expiry a gateway holds, or an
  answer carries, is no later than the coordinator's, that only the last grant's
  handle has one, that tokens in use differ and are at most `grants`, and that a
  cookie in use is in its plugin's table.
* `EndedForCauseHolds`, `EndsOnceHolds` and `ApprovalTypeCorrect`, for any calls,
  notifiers and deadlines: an answer under way was pressed by a human for that
  call, or its time is over (`AnswerInv`), and nobody is asked before the gate has
  answered.
* `AgesAgreeHolds`, for any gateways and values, from `WireRoundTrip`: either
  byte form decodes to what was written.
* `StoreTypeCorrect`, `ReadersSeeTheStoreAlways` and `SwapsAreExactHolds`, for any
  keys, values, clients and TTLs. `TableInv` says that a role's map holds what was
  last written, as it crossed the wire, `SightInv` that what a client saw is still
  there unless the key has changed since, `ScanInv` that the pages behind the
  cursor hold every key that was there all the while. That a page of the least
  keys that are left misses none is a least-element argument (`HasLeast`).
* `SharedTypeCorrect`: the same of `MCShared` as `PluginsTypeCorrect`.

`ValueProofs`:

* `FingerprintPredictsHolds` and `WalkTypeCorrect`, for any two finite graphs of
  types, cycles included. `WalkInv` says that what is described is the description
  of what has been visited, and that `WalkIsClosed`; each turn takes the measure
  `Left` down, so the walk cannot go on for ever, and when it is over the digests
  are equal exactly when `abi_stable`'s comparison is.
* `AddressesAreGuardedHolds`, for every IPv4 and IPv6 address: the code's masks and
  the documented intervals are the same predicate, the embedded forms included.
* `MergeIsExactAlways` and `SchemaTypeCorrect`, for any member names, leaves and
  number of layers, over the model's trees of depth two: the recursion of
  `merge_schema` is unfolded level by level.
* `ListedAsConfiguredAlways` and `CatalogTypeCorrect`, for any tools, metadata,
  callers and chains of any length. `FirstWriteWins` is about a finished list;
  `CatalogInv` says of every prefix of the chain that each scalar and attribute is
  the first provider's that has one, that the tags are the providers' without a
  repeat, and that what is listed is `Visible`, a function of chain and trust level
  alone.
* `CacheKeysAreExactAlways` and `IssueTypeCorrect`, for any identities, attributes,
  references and mints. `HashExact`: two identities are hashed alike exactly when
  they have the same authority, since every part of the hash input is a text or a
  list with its length in front and so can be read back. `IssueInv` says that every
  entry is under the hash of the caller it was minted for, and `ReplyInv` that an
  answer under way takes each target's parts from one credential.
* `RedactedExactlyAlways`, for strings of any length through any sequence of the
  helpers. `RedactInv` says that a document is what the helper it last came through
  makes of some document, so what is to be shown is about one call: a string
  without its userinfo has none (`PasswordOf`, where `FrontUserinfo` says what must
  stay in front), splitting and joining undo each other (`SplitJoin`, `JoinSplit`),
  so that the words of a redacted text are the redacted words (`TextOf`) and the
  pairs of a displayed query the redacted pairs (`DisplayOf`). No helper brings a
  separator into a string without one or a `?` in front of the first (`UrlKept`). The
  theorem has one hypothesis, `SchemesComeFirst`: no string has a `?` before its
  first `://`, as no URL has. Without it the first `://` of
  `a?x=b://c#d://u@e` goes with the value of `x`, and the displayed
  `a?x=[redacted]#d://u@e` has a userinfo that the helper has not looked at. The
  run's strings all satisfy it.
* `ValuesTypeCorrect`: the same of `MCValues` as `PluginsTypeCorrect`.

`TextProofs`: `LayersTypeCorrect` and `TokensReplacedExactlyAlways`, for strings of
any length and any layers. Scan and substitution are two loops that read a string
apart, turn by turn. `Nesting` says how deep in braces and in which mode a scan is,
`Block` where a block ends, `Walk` at which positions the turns are, `Writes` what
a substitution has written at each turn, and `TurnsMatch` that the written string
is read at the same turns as the original. So a layer's output is read like its
input (`LayersInv`: the text is what one substitution of all that was resolved
makes of the template). The theorem has two hypotheses. `AsciiWritten`: the
operator writes ASCII; finding 5 shows it false otherwise. `QuoteFree`: no URI
that was resolved holds a quote. Without it there is a counterexample that no
bounded run is large enough to meet: in `${"${cred://a/t}${cred://a/"{"}"}` the
quotes of the second token keep the outer block from ever closing, so the scan
finds the two inner tokens; resolving only the second closes the outer block, and the
next layer no longer sees the first token. A target name with a quote in it is
legal for `CredRef::parse`.

`LoopProofs` has what those proofs start from. The library's induction theorems
take an operator as a parameter; `Induction` says the same of a set, so that it
can be cited. `Recursion` says that a loop's function exists: for any turn, a
function on `0..L` follows it. With both, a recursive function's values can be
reasoned about turn by turn.

The assumptions are those of the modules, and TLC evaluates them in the runs.
Roles are disjoint sets of threads; the null values are not members
(`NoneIsApart`, `NoReasonIsApart`); the bounds are natural numbers
(`CountIsBounded`, `StoreIsBounded`, `UriIsBounded`, `GrantsAreBounded`); a
lease's lifetime is positive (`TtlIsPositive`), TTLs are durations
(`TtlsAreDurations`); future kinds are not known ones; plugin authors do not use
`PANIC_DENY_CODE`; attribute names are totally ordered. Inputs have the shape
their Rust type gives them: `ValuesAreBytes`, `UpstreamIsBodies`,
`RequestsAreWhole`, `ResponsesAreWhole`, `LibrariesAreWhole`,
`ReferencesAreTexts`, `KnownAreAddresses`, `ChainsAreProviders`,
`CallersAreSet`, `MetadataIsWhole`, `IdentitiesAreWhole`, `RefsAreFinite`,
`FragmentsAreTexts`, `TextsAreStrings`, `NotifiersAreLists`, `StandingChain`. Six say more.
`ValuesArePlain`: a credential's value is a symbol of its own, which no config
string and no token's syntax contains. `LengthsAreWritten`, `LabelsAreBytes`: a
length is written as one symbol of the hash's alphabet, differently for different
lengths, and a label is one. `BindingIsNotListed`: the operator's list of hashed
attributes does not name the token binding, which `identity_hash_with_attrs`
adds by its own rule. `Base64IsExact`: an
encoding that is injective, and whose texts are texts. `SchemesAreNames`: a
scheme that a provider advertises is not empty and has no colon, as RFC 3986 has
it. `ConfigsAreReal`: an operator's config is not empty (`lib.rs:132` says so);
an empty one is the probe's.

Only model-checked:

* the liveness properties, `ImplementsBus` with its fairness, and `CatchesUp` of
  `FollowsTheDocument`: fairness is out of the prover's reach.

## Findings

1. Two overlapping calls of `set` can leave plugins without events
   (`concurrent_sets`): the write of `inner` and the replay are two critical
   sections, so the last writer of `inner` need not be the last to replay.
2. `LateBoundBackendHost` does not forward `resolve_credentials` (`forwarding`).
3. The reply for a panicked dispatcher callback is tagged externally, while
   `DispatcherError` is tagged by `kind`; the host reads an undecodable envelope
   and not the `Internal` that is promised (`dispatcher_panic`).
4. The metadata that an approval leaves unset is `Some(null)` on the other side
   (`unset_metadata`). `Received`, which `MeantIsSeen` uses, makes the exception.
5. `substitute_cred_tokens` pushes bytes as characters: text outside ASCII is
   rewritten although it holds no token (`bare_uri`).

Smaller disagreements between a comment and the code, met while modelling; the
models follow the code and no run is kept for them: "implies `ClusterPeerRead`"
of two capabilities is not what `covers` does (`capability.rs:368`);
"unauthenticated", a documented trust level, meets no requirement
(`catalog.rs:277`); the default `append` returns sequence 0 every time
(`store.rs:390`); `redact_value` normalises white space in strings without a URL
(`redact.rs:104`); the default `watch` reports `UnsupportedScheme` for a bound
scheme (`secret.rs:238`); the default `has` answers false in an outage
(`secret.rs:228`); the body documented for the approval URL is not the spelling
the enum reads (`approval_notifier.rs:189`).

## Not modelled

* Transports' sessions, listeners and the dispatcher behind the trait, the
  macros, `RuntimeClass` and the JSON schema of the descriptor: records, traits
  or code in the gateway and the plugins.
* Policy engines, payment verifiers, audit, log, metric and telemetry sinks,
  cache and content store: the crate declares records, labels and traits with
  empty defaults; what they do is in the plugins. Their panic sentinels are in
  `FfiCalls`.
* `publish`, `subscribe`, `watch_peers` and `kv_list_prefix` of the coordinator,
  which hand on what it has.
* The wrap of `next_id` after 2^64 subscribes; callbacks that drop a guard or
  subscribe from the broadcast thread (`backend.rs:312` asks that they do not);
  a plugin that writes malformed `modified_arguments_json` against its contract
  (`abi.rs:2605`, read as an Allow without modification); an HTTP handler that
  panics after its task has started to push (`abi.rs:3107`: the host has no
  handle to cancel it by); layouts, which `abi_stable` checks.
