------------------------------ MODULE ClusterKv ------------------------------
(***************************************************************************)
(* The key-value slots of a cluster coordinator plugin (ClusterVTable in   *)
(* abi.rs) and the bytes they carry (wire_bytes.rs).  Gateways of a        *)
(* cluster share one store, each through a coordinator plugin of its own,  *)
(* and gateways and plugins are of different ages: values cross as base64  *)
(* or as arrays of numbers, and a counter's floor is sent only to a plugin *)
(* that declares it.                                                       *)
(***************************************************************************)
EXTENDS Integers, Sequences

CONSTANTS
  Gateways,     \* the gateways, each with its plugin
  Values,    \* byte strings: sequences of positive numbers
  MaxCount   \* bound: the counter

ASSUME ValuesAreBytes == Values \subseteq Seq(Nat \ {0})
ASSUME CountIsBounded == MaxCount \in Nat

Absent == <<>>
Some(x) == <<x>>

----------------------------------------------------------------------------
(* WireBytes *)

WireBytes(bytes, base64) == [bytes |-> bytes, base64 |-> base64]

\* Base64 text differs from every byte string: it is marked here by a 0.
Base64 == <<0>>

\* A JSON string of base64 text, or a JSON array of the bytes.
serialize(w) ==
  IF w.base64 THEN [json |-> "string", text |-> Base64 \o w.bytes]
              ELSE [json |-> "array", items |-> w.bytes]

\* WireBytesVisitor: either form reads.
deserialize(j) ==
  IF j.json = "string" THEN Some(WireBytes(Tail(j.text), TRUE))
                       ELSE Some(WireBytes(j.items, FALSE))

\* What a release before WireBytes reads: the array.
deserialize_legacy(j) == IF j.json = "array" THEN Some(WireBytes(j.items, FALSE)) ELSE Absent

Decode(modern, j) == IF modern THEN deserialize(j) ELSE deserialize_legacy(j)

----------------------------------------------------------------------------

VARIABLES
  modern,         \* per node: the gateway knows WireBytes and floors
  wire_features,  \* per node: what its plugin's manifest lists
  value,          \* the store: an entry, Absent when absent
  counter,        \* the store: a counter, Absent when absent
  known,          \* per node: highest count it has been given
  last_call       \* the last call on the entry: what it should and what it did answer

kvVars == <<modern, wire_features, value, counter, known, last_call>>

Features == {"kv-value-base64", "kv-incr-floor"}
\* A call with what it should answer and what it did, absent when it failed.
Outcome(call, due, got) == <<call, Some(due), got>>

KvTypeOK ==
  /\ modern \in [Gateways -> BOOLEAN] /\ wire_features \in [Gateways -> SUBSET Features]
  /\ value \in {Absent} \cup {Some(v) : v \in Values}
  /\ counter \in {Absent} \cup {Some(c) : c \in 0..MaxCount} /\ known \in [Gateways -> 0..MaxCount]

KvInit ==
  /\ modern \in [Gateways -> BOOLEAN] /\ wire_features \in [Gateways -> SUBSET Features]
  /\ value = Absent /\ counter = Absent /\ known = [n \in Gateways |-> 0]
  /\ last_call = Outcome("get", Absent, Some(Absent))

PluginReadsBase64(n) == "kv-value-base64" \in wire_features[n]

\* The gateway writes base64 only to a plugin that declares it.
KvPutArgs(n, v) == serialize(WireBytes(v, modern[n] /\ PluginReadsBase64(n)))

\* kv_put.
kv_put(n, v) ==
  LET read == Decode(PluginReadsBase64(n), KvPutArgs(n, v))
  IN /\ IF read = Absent
        THEN last_call' = Outcome("put", v, Absent) /\ UNCHANGED value
        ELSE last_call' = Outcome("put", v, Some(read[1].bytes)) /\ value' = Some(read[1].bytes)
     /\ UNCHANGED <<modern, wire_features, counter, known>>

\* kv_put_if_absent: true for the one caller that created the entry.
kv_put_if_absent(n, v) ==
  LET read == Decode(PluginReadsBase64(n), KvPutArgs(n, v))
      won == value = Absent
  IN /\ IF read = Absent
        THEN last_call' = Outcome("put_if_absent", won, Absent) /\ UNCHANGED value
        ELSE /\ last_call' = Outcome("put_if_absent", won, Some(won))
             /\ value' = IF won THEN Some(read[1].bytes) ELSE value
     /\ UNCHANGED <<modern, wire_features, counter, known>>

\* The plugin answers in base64 when the args ask for it, and it can.
KvEntryWire(n) == serialize(WireBytes(value[1], modern[n] /\ PluginReadsBase64(n)))

\* kv_get.
kv_get(n) ==
  /\ IF value = Absent THEN last_call' = Outcome("get", Absent, Some(Absent))
     ELSE LET read == Decode(modern[n], KvEntryWire(n))
          IN last_call' = Outcome("get", value, IF read = Absent THEN Absent ELSE Some(Some(read[1].bytes)))
  /\ UNCHANGED <<modern, wire_features, value, counter, known>>

\* kv_delete, and a TTL that runs out.
kv_delete(n) ==
  /\ last_call' = Outcome("delete", value # Absent, Some(value # Absent)) /\ value' = Absent
  /\ UNCHANGED <<modern, wire_features, counter, known>>

Highest(a, b) == IF a > b THEN a ELSE b

\* A gateway sends a floor, the highest count it knows, where the plugin takes
\* it.
Floor(n) ==
  IF modern[n] /\ "kv-incr-floor" \in wire_features[n] THEN Some(known[n]) ELSE Absent

\* Faulty variant: the floor is applied to the sum.
kv_incr_result_after(n) ==
  LET start == IF counter = Absent THEN 0 ELSE counter[1]
  IN IF Floor(n) = Absent THEN start + 1 ELSE Highest(start + 1, Floor(n)[1])

\* The counter, raised to the floor first, plus one.
kv_incr_result(n) ==
  LET start == IF counter = Absent THEN 0 ELSE counter[1]
  IN (IF Floor(n) = Absent THEN start ELSE Highest(start, Floor(n)[1])) + 1

kv_incr(n) ==
  /\ kv_incr_result(n) <= MaxCount
  /\ counter' = Some(kv_incr_result(n))
  /\ known' = [known EXCEPT ![n] = kv_incr_result(n)]
  /\ UNCHANGED <<modern, wire_features, value, last_call>>

\* The counter's TTL runs out, or the store is restarted empty.
ExpireEntry ==
  /\ value' = Absent /\ counter' = Absent
  /\ UNCHANGED <<modern, wire_features, known, last_call>>

\* A gateway learns of the highest count another has used.
Learn(n, q) ==
  /\ known[n] < known[q]
  /\ known' = [known EXCEPT ![n] = known[q]]
  /\ UNCHANGED <<modern, wire_features, value, counter, last_call>>

KvNext ==
  \/ ExpireEntry
  \/ \E n \in Gateways :
       \/ \E v \in Values : kv_put(n, v) \/ kv_put_if_absent(n, v)
       \/ kv_get(n) \/ kv_delete(n) \/ kv_incr(n)
       \/ \E q \in Gateways : Learn(n, q)

KvSpec == KvInit /\ [][KvNext]_kvVars

----------------------------------------------------------------------------
(* Properties *)

\* Whatever the ages of gateway and plugin on either side, a call means what it
\* says: a put is read by its plugin, a get reads what any gateway put last,
\* and the winner of a put_if_absent is told so.
AnyAgeReads == last_call[2] = last_call[3]

\* A count is never given again to a gateway that sends its floor, even when
\* the store has lost the counter in between.
CountsGoUp ==
  [][\A n \in Gateways : kv_incr(n) /\ Floor(n) # Absent => known'[n] > known[n]]_kvVars

\* Entries and counters keep their meaning across the ages of gateways and
\* plugins and the losses of the store.
AgesAgree == []AnyAgeReads /\ CountsGoUp

=============================================================================
