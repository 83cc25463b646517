---------------------------- MODULE AbiFingerprint ----------------------------
(***************************************************************************)
(* The fingerprint of the plugin ABI's type layout (abi_fingerprint.rs): a *)
(* walk over every layout the registration's layout reaches, one           *)
(* description per type, and a hash of the sorted descriptions.  The host  *)
(* computes its own and compares it with the one a packaged plugin         *)
(* recorded, to predict whether check_layout_compatibility will refuse it. *)
(*                                                                         *)
(* A type is its name: no two types of one build share a full name.  A     *)
(* layout is its size (standing for alignment, repr, niche), the types of  *)
(* its fields and functions, and a source line, which changes with every   *)
(* release.  The digest is the set of descriptions: sha256 is taken as     *)
(* injective.                                                              *)
(***************************************************************************)
EXTENDS Integers, Sequences, FiniteSets, SequencesExt

CONSTANTS
  Types,  \* the types of the ABI, numbers
  Root,   \* PluginRegistration
  Sizes   \* sizes a type may have

ASSUME RootIsType == Root \in Types /\ Types \subseteq Nat /\ IsFiniteSet(Types)

Builds == {"host", "plugin"}

VARIABLES
  layout,    \* build -> type -> its layout
  seen,      \* build -> types visited
  todo,      \* build -> the stack of types to visit
  described  \* build -> descriptions so far

walkVars == <<layout, seen, todo, described>>

\* The plugin was built from the host's source, or from one where a type is
\* another; every source line has moved.
WalkInit ==
  /\ \E fields \in [Types -> SUBSET Types], u \in Types, size \in Sizes, changed \in SUBSET Types :
       layout = [b \in Builds |-> [t \in Types |->
                   IF b = "host" THEN [size |-> 1, fields |-> fields[t], line |-> 1]
                   ELSE IF t = u THEN [size |-> size, fields |-> changed, line |-> 2]
                   ELSE [size |-> 1, fields |-> fields[t], line |-> 2]]]
  /\ seen = [b \in Builds |-> {}]
  /\ todo = [b \in Builds |-> <<Root>>]
  /\ described = [b \in Builds |-> {}]

\* Name, size and shape, with the type name of each field.
describe(t, l) == <<t, l.size, l.fields>>

\* The order is that of the layout's own table; no description depends on it.
nested(l) == SetToSeq(l.fields)

\* Faulty variant: the fields of a type replace what is still to do.
extended_reset(stack, l) == nested(l)

extended(stack, l) == stack \o nested(l)

\* One turn of the loop: pop, skip what was seen, describe, push what it
\* reaches.
Visit(b) ==
  /\ todo[b] # <<>>
  /\ LET t == Last(todo[b])
         l == layout[b][t]
     IN IF t \in seen[b]
        THEN /\ todo' = [todo EXCEPT ![b] = Front(@)]
             /\ UNCHANGED <<seen, described>>
        ELSE /\ seen' = [seen EXCEPT ![b] = @ \cup {t}]
             /\ described' = [described EXCEPT ![b] = @ \cup {describe(t, l)}]
             /\ todo' = [todo EXCEPT ![b] = extended(Front(@), l)]
  /\ UNCHANGED layout

\* The host's walk and the plugin's are apart in time.
WalkNext ==
  \/ Visit("host")
  \/ todo["host"] = <<>> /\ Visit("plugin")

WalkSpec == WalkInit /\ [][WalkNext]_walkVars

----------------------------------------------------------------------------
(* Reference: what abi_stable compares *)

\* The types a build's registration is made of: the least set with the root
\* that is closed under fields.
Closed(b, S) == Root \in S /\ \A t \in S : layout[b][t].fields \subseteq S
Reached(b) == {t \in Types : \A S \in SUBSET Types : Closed(b, S) => t \in S}

\* What check_layout_compatibility compares of a build.
Compared(b) == {<<t, layout[b][t].size, layout[b][t].fields>> : t \in Reached(b)}

fingerprint(b) == described[b]
Done == \A b \in Builds : todo[b] = <<>>

----------------------------------------------------------------------------
(* Properties *)

\* The stack holds types of the ABI and cannot outgrow the fields there are.
WalkTypeOK ==
  \A b \in Builds :
    /\ seen[b] \subseteq Types
    /\ todo[b] \in Seq(Types)
    /\ Len(todo[b]) <= 1 + Cardinality(Types) * Cardinality(Types)

\* The walk ends on every layout, recursive ones too: a turn visits a new type,
\* and then pushes fewer than a type can have fields, or shortens the stack.
Left(b) == Cardinality(Types \ seen[b]) * (Cardinality(Types) + 1) + Len(todo[b])
EveryTurnShortens == [][\E b \in Builds : Left(b)' < Left(b)]_walkVars

\* While it runs, what is described and what waits is reached by the root, and
\* the types that one of these leads to are described or wait themselves.
WalkIsClosed ==
  \A b \in Builds :
    LET waiting == {todo[b][i] : i \in DOMAIN todo[b]}
    IN /\ seen[b] \cup waiting \subseteq Reached(b)
       /\ \A t \in seen[b] : layout[b][t].fields \subseteq seen[b] \cup waiting
       /\ Root \in seen[b] \cup waiting

\* Two different fingerprints predict the refusal: they differ only if the
\* layouts do, however the sources have moved.
DifferentMeansRefused ==
  Done /\ fingerprint("host") # fingerprint("plugin") => Compared("host") # Compared("plugin")

\* And two equal ones predict that the plugin is not refused: no change of a
\* reached layout goes unnoticed.
EqualMeansAccepted ==
  Done /\ fingerprint("host") = fingerprint("plugin") => Compared("host") = Compared("plugin")

\* The walk ends on every graph having described all it reaches, and the two
\* fingerprints are equal exactly when abi_stable finds the layouts alike.
FingerprintPredicts ==
  [](WalkIsClosed /\ DifferentMeansRefused /\ EqualMeansAccepted) /\ EveryTurnShortens

=============================================================================
