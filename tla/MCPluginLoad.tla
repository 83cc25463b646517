----------------------------- MODULE MCPluginLoad -----------------------------
(* Four families of libraries: one entity of every kind; lists of up to three *)
(* entities of two kinds and two inner names; descriptors with up to two      *)
(* strategies of up to two event types; and libraries refused early.          *)
EXTENDS PluginLoad

Name(id, chars, clean) == [id |-> id, chars |-> chars, clean |-> clean]
PluginNames == {Name("a", 1, TRUE), Name("max", MAX_EVENT_TYPE_NAME_CHARS, TRUE),
          Name("over", MAX_EVENT_TYPE_NAME_CHARS + 1, TRUE), Name("empty", 0, TRUE),
          Name("blank", 3, FALSE)}
Strategies == [kind : {"", "topic", "listen"}, event_types : BoundedSeq(PluginNames, 2)]
Few == {s \in Strategies : s.kind # "" /\ \A i \in DOMAIN s.event_types : s.event_types[i].id \in {"a", "max"}}
Lists == BoundedSeq(Strategies, 1) \cup BoundedSeq(Few, 2)
Descriptor(schema, strategies) == [schema |-> schema, watch_strategies |-> strategies]
Plain == Descriptor(DESCRIPTOR_SCHEMA_V1, <<>>)

Library(layout, version, class, entities, descriptor, strict) ==
  [layout |-> layout, abi_version |-> version, module_path |-> "crate", class |-> class,
   entities |-> entities, descriptor |-> descriptor, strict |-> strict]
One(v) == <<Entity(v, "", 1)>>

Numbered(s) == [i \in DOMAIN s |-> Entity(s[i][1], s[i][2], i)]
EntityLists == {Numbered(s) : s \in BoundedSeq({"ToolGate", "HttpRoute"} \X {"", "public"}, 3)}

EveryKind == {Library("host", 1, v, One(v), d, st) : v \in Variants, d \in {None, Plain}, st \in BOOLEAN}
Listed == {Library("host", 1, "ToolGate", es, Plain, TRUE) : es \in EntityLists}
Described == {Library("host", 1, "WatchStrategy", One("WatchStrategy"), Descriptor(sc, l), TRUE) :
                sc \in {DESCRIPTOR_SCHEMA_V1, "mcpg.dev/plugin/v2"}, l \in Lists}
Early == {Library(l, v, "Cache", One("Cache"), None, TRUE) : l \in {"host", "other"}, v \in {1, 2}}
SomePlugins == EveryKind \cup Listed \cup Described \cup Early

\* A real config is never empty: it names at least where to connect.
Jsons == {Json("object", FALSE, TRUE), Json("object", FALSE, FALSE), Json("other", FALSE, FALSE),
          Json("error", FALSE, FALSE)}
Wanted == {{}, {<<"tool_gate", "">>}, {<<"tool_gate", "public">>, <<"http_route", "">>}}
SomeConfigs == [json : Jsons, wanted : Wanted]
=============================================================================
