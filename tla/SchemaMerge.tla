----------------------------- MODULE SchemaMerge -----------------------------
(***************************************************************************)
(* A tool's input schema: derived by its binding plugin, then overlaid by  *)
(* the operator, once per layer of configuration (schema.rs).  A JSON      *)
(* value is null, a leaf (a string, number or array: replaced as a whole)  *)
(* or an object, of bounded depth.                                         *)
(***************************************************************************)
EXTENDS Integers, Sequences

CONSTANTS
  Keys,    \* names of object members
  Leaves   \* leaf values

Null == [t |-> "null"]
Leaf(v) == [t |-> "leaf", v |-> v]
Object(members) == [t |-> "object", m |-> members]

Atoms == {Null} \cup {Leaf(v) : v \in Leaves}
ObjectsOf(S) == {Object(f) : f \in UNION {[D -> S] : D \in SUBSET Keys}}

\* Values of depth at most two.
Schemas == Atoms \cup ObjectsOf(Atoms \cup ObjectsOf(Atoms))

\* Faulty variant: members are replaced, not merged.
merge_schema_shallow(base, overlay) ==
  IF base.t = "object" /\ overlay.t = "object"
  THEN Object([k \in DOMAIN base.m \cup DOMAIN overlay.m |->
                 IF k \in DOMAIN overlay.m THEN overlay.m[k] ELSE base.m[k]])
  ELSE overlay

\* Objects merge member by member; anything else in the overlay replaces.  A
\* null member of the base is as good as none.
merge_schema(base, overlay) ==
  LET merge[v \in Schemas \X Schemas] ==
        LET b == v[1]
            o == v[2]
        IN IF b.t = "object" /\ o.t = "object"
           THEN Object([k \in DOMAIN b.m \cup DOMAIN o.m |->
                          IF k \notin DOMAIN o.m THEN b.m[k]
                          ELSE IF k \notin DOMAIN b.m \/ b.m[k] = Null THEN o.m[k]
                          ELSE merge[<<b.m[k], o.m[k]>>]])
           ELSE o
  IN merge[<<base, overlay>>]

----------------------------------------------------------------------------

VARIABLES
  schema,    \* the schema so far
  previous,  \* the schema before the last overlay
  overlay    \* the last overlay

schemaVars == <<schema, previous, overlay>>

SchemaTypeOK == schema \in Schemas /\ previous \in Schemas /\ overlay \in Schemas

\* Derived by the plugin: an object, as yet without an overlay.
SchemaInit ==
  /\ schema \in ObjectsOf(Atoms \cup ObjectsOf(Atoms))
  /\ previous = schema /\ overlay = Object(<<>>)

Overlay(o) ==
  /\ schema' = merge_schema(schema, o)
  /\ previous' = schema /\ overlay' = o

SchemaNext == \E o \in Schemas : Overlay(o)

SchemaSpec == SchemaInit /\ [][SchemaNext]_schemaVars

----------------------------------------------------------------------------
(* Properties *)

\* What is, or Missing, at a path of at most two keys.
Missing == [t |-> "missing"]
At(v, path) ==
  LET step(u, k) == IF u.t = "object" /\ k \in DOMAIN u.m THEN u.m[k] ELSE Missing
  IN CASE Len(path) = 0 -> v
       [] Len(path) = 1 -> step(v, path[1])
       [] Len(path) = 2 -> step(step(v, path[1]), path[2])
Paths == UNION {[1..n -> Keys] : n \in 0..2}

\* The operator's fields win at every key: what the overlay says at a path,
\* the schema says, down to the members of its objects.
OverlayWins ==
  \A p \in Paths :
    At(overlay, p).t \in {"leaf", "null"} => At(schema, p) = At(overlay, p)

\* The overlay takes nothing away but what it replaces: an atom of the schema
\* before it is still there unless the overlay has a value at its path, or
\* something that is not an object further up.
RestIsKept ==
  \A p \in Paths :
    /\ At(previous, p).t \in {"leaf", "null"}
    /\ At(overlay, p) = Missing
    /\ \A n \in 0..(Len(p) - 1) : At(overlay, SubSeq(p, 1, n)).t \in {"object", "missing"}
    => At(schema, p) = At(previous, p)

\* merge_schema takes the operator's word wherever there is one, and the
\* schema's everywhere else.
MergeIsExact == OverlayWins /\ RestIsKept

=============================================================================
