------------------------- MODULE CapabilitiesProofs -------------------------
(* Proofs about Capabilities, for every set of arguments, entries and        *)
(* carriers and lists of any length.                                         *)
EXTENDS Capabilities, TLAPS

(* ------------------------- Reading a capability ------------------------- *)

\* The vocabulary splits into kinds with and kinds without arguments, neither
\* of which holds "unknown", a future kind or a type that is not a string.
LEMMA Vocabulary ==
  /\ NoArgKinds \cap ArgKinds = {}
  /\ "unknown" \notin known_names
  /\ NotAString \notin known_names
  /\ \A k \in FutureKinds : k \notin known_names
BY KindsAssumption DEF NoArgKinds, ArgKinds, known_names

\* The known capabilities are those whose kind is in the vocabulary.
LEMMA KnownKinds ==
  ASSUME NEW c \in Capability
  PROVE  /\ c \in Known <=> c.kind \in known_names
         /\ c \in Known <=> c # Unknown
         /\ c = [kind |-> c.kind, args |-> c.args]
  <1>1. c \in [kind : known_names \cup {"unknown"}, args : SUBSET Args]
        /\ (~has_args(c.kind) => c.args = {})
    BY DEF Capability
  <1>2. c = [kind |-> c.kind, args |-> c.args]
    BY <1>1
  <1>3. c.kind = "unknown" => c = Unknown
    BY <1>1, <1>2, Vocabulary DEF Unknown, has_args, known_names
  <1>4. c = Unknown => c.kind = "unknown"
    BY DEF Unknown
  <1> QED
    BY <1>1, <1>2, <1>3, <1>4, Vocabulary DEF Known

\* An entry or a carrier says one thing at most: the capability with its kind
\* and, for a kind with arguments, its list.
LEMMA SaysOneThing ==
  ASSUME NEW kind \in known_names, NEW args \in SUBSET Args
  PROVE  LET C == [kind |-> kind, args |-> IF has_args(kind) THEN args ELSE {}]
         IN  /\ C \in Known /\ C \in Capability /\ C # Unknown /\ C.kind = kind
             /\ has_args(kind) => C.args = args
             /\ \A c \in Capability :
                  c.kind = kind /\ (has_args(kind) => c.args = args) => c = C
  <1> DEFINE C == [kind |-> kind, args |-> IF has_args(kind) THEN args ELSE {}]
  <1>1. C \in Capability /\ C.kind = kind /\ (has_args(kind) => C.args = args)
    BY DEF Capability, has_args
  <1>2. C \in Known /\ C # Unknown
    BY <1>1, KnownKinds
  <1>3. ASSUME NEW c \in Capability,
               c.kind = kind, has_args(kind) => c.args = args
        PROVE  c = C
    <2>1. c = [kind |-> c.kind, args |-> c.args]
      BY KnownKinds
    <2>2. ~has_args(kind) => c.args = {}
      BY <1>3 DEF Capability, has_args
    <2> QED
      BY <1>3, <2>1, <2>2 DEF has_args
  <1> QED
    BY <1>1, <1>2, <1>3

\* The derived decoder reads a known kind when it has the list it wants.
LEMMA FromValueReads ==
  ASSUME NEW e, e.kind \in Tags
  PROVE  LET C == [kind |-> e.kind, args |-> IF has_args(e.kind) THEN e.args ELSE {}]
             Good == e.kind \in known_names /\ (has_args(e.kind) => HasList(e))
         IN  /\ Good => from_value(e) = Ok(C)
             /\ ~Good => from_value(e).cap = Unknown
             /\ ~Good /\ e.kind \in known_names => from_value(e).err # "none"
  BY Vocabulary DEF from_value, Err, Ok, HasList, has_args

\* parse_value reads an entry exactly when the entry says something, and then
\* reads what it says; it never yields Unknown.
LEMMA ParseMeans ==
  ASSUME NEW e \in RawEntry
  PROVE  /\ parse_value(e).cap \in Capability
         /\ parse_value(e).err = "none" <=> Means(e) # {}
         /\ parse_value(e).err = "none" =>
              parse_value(e).cap \in Known /\ Means(e) = {parse_value(e).cap}
  <1> DEFINE C == [kind |-> e.kind, args |-> IF has_args(e.kind) THEN e.args ELSE {}]
             Good == /\ e.kind \in known_names /\ (has_args(e.kind) => HasList(e))
                     /\ e.form = "object" \/ (e.form = "string" /\ ~has_args(e.kind))
  <1>0. /\ e.kind \in Tags /\ e.args \in SUBSET Args
        /\ e.form \in {"string", "object", "other"}
    BY DEF RawEntry
  <1>1. CASE Good
    <2>1. C \in Known /\ C \in Capability
      BY <1>0, <1>1, SaysOneThing
    <2>2. parse_value(e) = Ok(C)
      <3>1. from_value(e) = Ok(C)
        BY <1>0, <1>1, FromValueReads
      <3>2. OrInvalidArgs(from_value(e)) = Ok(C)
        BY <3>1 DEF OrInvalidArgs, Ok
      <3>3. e.kind # NotAString
        BY <1>1, Vocabulary
      <3> QED
        BY <1>0, <1>1, <3>2, <3>3 DEF parse_value, has_args
    <2>3. C \in Means(e)
      BY <1>0, <1>1, <2>1, SaysOneThing, Vocabulary
         DEF Means, has_args, known_names, HasList
    <2>4. ASSUME NEW c \in Means(e) PROVE c = C
      <3>1. /\ c \in Capability /\ c.kind = e.kind
            /\ has_args(e.kind) => c.args = e.args
        BY DEF Means, Known, has_args
      <3>2. \A x \in Capability :
              x.kind = e.kind /\ (has_args(e.kind) => x.args = e.args) => x = C
        BY <1>0, <1>1, SaysOneThing
      <3> QED
        BY <3>1, <3>2
    <2> QED
      BY <2>1, <2>2, <2>3, <2>4 DEF Ok
  <1>2. CASE ~Good
    <2>1. Means(e) = {}
      BY <1>0, <1>2, KnownKinds, Vocabulary DEF Means, Known, has_args, HasList, known_names
    <2>2. parse_value(e).err # "none" /\ parse_value(e).cap = Unknown
      BY <1>0, <1>2, FromValueReads, Vocabulary
         DEF parse_value, OrInvalidArgs, Err, has_args, known_names
    <2>3. Unknown \in Capability
      BY Vocabulary DEF Unknown, Capability, has_args, known_names
    <2> QED
      BY <2>1, <2>2, <2>3
  <1> QED
    BY <1>1, <1>2

\* deserialize, the derived decoder alone, reads what an entry in the object
\* form says, or Unknown for an entry of an unknown kind; it refuses the rest.
LEMMA DeserializeMeans ==
  ASSUME NEW e \in RawEntry
  PROVE  /\ deserialize(e).cap \in Capability
         /\ deserialize(e).err = "none" /\ deserialize(e).cap # Unknown =>
              Means(e) = {deserialize(e).cap}
         /\ e.form = "object" /\ Means(e) # {} =>
              deserialize(e).err = "none" /\ Means(e) = {deserialize(e).cap}
  <1> DEFINE Good == e.kind \in known_names /\ (has_args(e.kind) => HasList(e))
  <1>0. e.kind \in Tags /\ Unknown \in Capability
    BY Vocabulary DEF RawEntry, Unknown, Capability, has_args, known_names
  <1>1. CASE e.form # "object"
    BY <1>0, <1>1 DEF deserialize, Err
  <1>2. CASE e.form = "object" /\ Good
    <2>1. from_value(e).err = "none"
      BY <1>0, <1>2, FromValueReads DEF Ok
    <2>2. parse_value(e) = from_value(e) /\ deserialize(e) = from_value(e)
      BY <1>2, <2>1, Vocabulary DEF parse_value, OrInvalidArgs, deserialize, has_args
    <2> QED
      BY <2>1, <2>2, ParseMeans
  <1>3. CASE e.form = "object" /\ ~Good
    <2>1. deserialize(e).cap = Unknown
      BY <1>0, <1>3, FromValueReads DEF deserialize
    <2>2. parse_value(e).err # "none"
      BY <1>0, <1>3, FromValueReads, Vocabulary
         DEF parse_value, OrInvalidArgs, Err, has_args, known_names
    <2> QED
      BY <1>0, <2>1, <2>2, ParseMeans
  <1> QED
    BY <1>1, <1>2, <1>3

\* to_capability reads a carrier exactly when the carrier says something, and
\* then reads what it says.
LEMMA DeclMeans ==
  ASSUME NEW d \in RawDecl
  PROVE  /\ to_capability(d).cap \in Capability
         /\ to_capability(d).err = "none" <=> MeansDecl(d) # {}
         /\ to_capability(d).err = "none" =>
              to_capability(d).cap \in Known /\ MeansDecl(d) = {to_capability(d).cap}
  <1> DEFINE C == [kind |-> d.kind, args |-> IF has_args(d.kind) THEN d.args ELSE {}]
             Good == /\ d.kind \in known_names /\ (has_args(d.kind) => HasList(d))
                     /\ d.json \in {"object", "empty"}
  <1>0. /\ d.kind \in Tags /\ d.args \in SUBSET Args
        /\ d.json \in {"empty", "object", "nonobject", "malformed"}
        /\ d.json # "object" => d.field = "none"
    BY DEF RawDecl
  <1>1. has_args(d.kind) => arg_field_for_kind(d.kind) # "none"
    BY DEF has_args, ArgKinds, arg_field_for_kind
  <1>2. CASE Good
    <2>1. C \in Known /\ C \in Capability
      BY <1>0, <1>2, SaysOneThing
    <2>2. to_capability(d) = Ok(C)
      <3>1. from_value(d) = Ok(C)
        BY <1>0, <1>2, FromValueReads
      <3>2. OrInvalidArgs(from_value(d)) = Ok(C)
        BY <3>1 DEF OrInvalidArgs, Ok
      <3> QED
        BY <1>2, <3>2 DEF to_capability
    <2>3. C \in MeansDecl(d)
      BY <1>0, <1>1, <1>2, <2>1, SaysOneThing, Vocabulary
         DEF MeansDecl, has_args, known_names, HasList
    <2>4. ASSUME NEW c \in MeansDecl(d) PROVE c = C
      <3>1. /\ c \in Capability /\ c.kind = d.kind
            /\ has_args(d.kind) => c.args = d.args
        BY DEF MeansDecl, Known, has_args
      <3>2. \A x \in Capability :
              x.kind = d.kind /\ (has_args(d.kind) => x.args = d.args) => x = C
        BY <1>0, <1>2, SaysOneThing
      <3> QED
        BY <3>1, <3>2
    <2> QED
      BY <2>1, <2>2, <2>3, <2>4 DEF Ok
  <1>3. CASE ~Good
    <2>1. MeansDecl(d) = {}
      BY <1>0, <1>3, KnownKinds, Vocabulary
         DEF MeansDecl, Known, has_args, HasList, known_names
    <2>2. to_capability(d).err # "none" /\ to_capability(d).cap = Unknown
      BY <1>0, <1>3, FromValueReads
         DEF to_capability, OrInvalidArgs, Err
    <2>3. Unknown \in Capability
      BY Vocabulary DEF Unknown, Capability, has_args, known_names
    <2> QED
      BY <2>1, <2>2, <2>3
  <1> QED
    BY <1>2, <1>3

\* The carrier of a capability is well formed and says that capability;
\* that of Unknown says nothing.
LEMMA CarrierSays ==
  ASSUME NEW c \in Capability
  PROVE  /\ from_capability(c) \in RawDecl
         /\ c # Unknown => c \in MeansDecl(from_capability(c))
         /\ c = Unknown => MeansDecl(from_capability(c)) = {}
  <1>0. c.kind \in known_names \cup {"unknown"} /\ c.args \in SUBSET Args
        /\ c.kind # NotAString /\ c.kind \in Tags
    BY KindsAssumption, Vocabulary DEF Capability, Tags
  <1>1. /\ arg_field_for_kind(c.kind) \in Fields
        /\ ~has_args(c.kind) => arg_field_for_kind(c.kind) = "none"
    BY DEF arg_field_for_kind, Fields, has_args, ArgKinds
  <1>2. from_capability(c) \in RawDecl
    BY <1>0, <1>1 DEF from_capability, RawDecl, has_args
  <1>3. c # Unknown => c \in MeansDecl(from_capability(c))
    BY <1>0, <1>1, KnownKinds, Vocabulary
       DEF MeansDecl, from_capability, has_args, known_names
  <1>4. c = Unknown => MeansDecl(from_capability(c)) = {}
    BY KnownKinds, Vocabulary DEF MeansDecl, Known, from_capability, Unknown
  <1> QED
    BY <1>2, <1>3, <1>4

(* ----------------------------- The boot check ---------------------------- *)

\* What the host reads are capabilities, whatever the files hold.
LEMMA ResultsAreCapabilities ==
  ASSUME TypeOK
  PROVE  /\ \A r \in Requirements : r.cap \in Capability
         /\ \A g \in Grants : g.cap \in Capability
  <1>1. declared \subseteq RawEntry /\ config \subseteq RawEntry
        /\ carriers \subseteq RawDecl
    BY InputsAssumption DEF TypeOK
  <1>2. \A r \in Requirements : r.cap \in Capability
    BY <1>1, ParseMeans, DeclMeans, DeserializeMeans DEF Requirements
  <1>3. \A g \in Grants : g.cap \in Capability
    BY <1>1, ParseMeans, DeserializeMeans DEF Grants
  <1> QED
    BY <1>2, <1>3

\* Initially nothing is declared, granted or read.
LEMMA InitCap == Init => CapInv
  BY DEF Init, CapInv, TypeOK, ListsInv, ReadInv, Checked, Routes, Parsers,
         Verdicts

\* Editing the lists, reading them, checking and booting again keep what the
\* host holds in step with the files.
LEMMA CapStep == CapInv /\ [Next]_vars => CapInv'
  <1> SUFFICES ASSUME CapInv, [Next]_vars PROVE CapInv'
    OBVIOUS
  <1> USE DEF CapInv
  <1>1. ASSUME NEW e \in Entries, Declare(e) PROVE CapInv'
    BY <1>1 DEF Declare, TypeOK, ListsInv, ReadInv, Checked
  <1>2. ASSUME NEW e \in Entries, Grant(e) \/ Revoke(e) PROVE CapInv'
    BY <1>2 DEF Grant, Revoke, TypeOK, ListsInv, ReadInv, Checked
  <1>3. ASSUME NEW c \in Capability, DeclareTyped(c) PROVE CapInv'
    BY <1>3, CarrierSays DEF DeclareTyped, TypeOK, ListsInv, ReadInv, Checked
  <1>4. ASSUME NEW d \in Decls, DeclareForeign(d) PROVE CapInv'
    BY <1>4, InputsAssumption
       DEF DeclareForeign, TypeOK, ListsInv, ReadInv, Checked
  <1>5. CASE ReadRequired
    <2>1. Requirements' = Requirements /\ Grants' = Grants
      BY <1>5 DEF ReadRequired, Requirements, Grants
    <2> QED
      BY <1>5, <2>1, ResultsAreCapabilities
         DEF ReadRequired, TypeOK, ListsInv, ReadInv, Checked, Readable
  <1>6. CASE ReadRequiredFails
    <2>1. Requirements' = Requirements /\ Grants' = Grants
      BY <1>6 DEF ReadRequiredFails, Requirements, Grants
    <2> QED
      BY <1>6, <2>1
         DEF ReadRequiredFails, TypeOK, ListsInv, ReadInv, Checked, Readable,
             Verdicts
  <1>7. CASE ReadGranted
    <2>1. Requirements' = Requirements /\ Grants' = Grants
      BY <1>7 DEF ReadGranted, Requirements, Grants
    <2> QED
      BY <1>7, <2>1, ResultsAreCapabilities
         DEF ReadGranted, TypeOK, ListsInv, ReadInv, Checked, Readable
  <1>8. CASE ReadGrantedFails
    <2>1. Requirements' = Requirements /\ Grants' = Grants
      BY <1>8 DEF ReadGrantedFails, Requirements, Grants
    <2> QED
      BY <1>8, <2>1
         DEF ReadGrantedFails, TypeOK, ListsInv, ReadInv, Checked, Readable,
             Verdicts
  <1>9. CASE Check
    <2>1. Requirements' = Requirements /\ Grants' = Grants
      BY <1>9 DEF Check, Requirements, Grants
    <2>2. validate_typed_capabilities(required, granted) \in
            {"UnknownRequired", "UnknownGranted", "Ungranted", "Satisfied"}
      BY DEF validate_typed_capabilities
    <2>3. verdict' = validate_typed_capabilities(required, granted)
          /\ required' = required /\ granted' = granted
      BY <1>9 DEF Check
    <2> QED
      BY <1>9, <2>1, <2>2, <2>3
         DEF Check, TypeOK, ListsInv, ReadInv, Checked, Readable, Verdicts
  <1>10. CASE Reboot
    BY <1>10 DEF Reboot, TypeOK, ListsInv, ReadInv, Checked, Verdicts
  <1>11. CASE UNCHANGED vars
    BY <1>11 DEF vars, TypeOK, ListsInv, ReadInv, Checked, Requirements, Grants
  <1> QED
    BY <1>1, <1>2, <1>3, <1>4, <1>5, <1>6, <1>7, <1>8, <1>9, <1>10, <1>11
       DEF Next

\* What the host holds is always what it read of the present files.
THEOREM CapInvariant == Spec => []CapInv
  BY InitCap, CapStep, PTL DEF Spec

\* Type correctness: the host only ever holds capabilities of the enum, with
\* no arguments on a kind that takes none.
THEOREM TypeCorrect == Spec => []TypeOK
  BY CapInvariant, PTL DEF CapInv

\* On every route a readable requirement that is not Unknown is what the
\* plugin's file says, and every file entry is accounted for.
LEMMA RequirementsMean ==
  ASSUME CapInv, Readable(Requirements), required = {r.cap : r \in Requirements},
         Unknown \notin required
  PROVE  /\ \A e \in declared : Means(e) # {}
         /\ \A d \in carriers : MeansDecl(d) # {}
         /\ Wants = required
  <1> USE DEF CapInv
  <1>0. declared \subseteq RawEntry /\ carriers \subseteq RawDecl
    BY InputsAssumption DEF TypeOK
  <1>4. \A x : Means(x) \subseteq Known /\ MeansDecl(x) \subseteq Known
    BY DEF Means, MeansDecl
  <1>1. CASE route = "descriptor"
    <2>1. Requirements = {parse_value(e) : e \in declared} /\ carriers = {}
      BY <1>1 DEF Requirements, ListsInv
    <2>2. \A e \in declared : Means(e) = {parse_value(e).cap}
      BY <1>0, <2>1, ParseMeans DEF Readable
    <2>3. required = {parse_value(e).cap : e \in declared}
      BY <2>1
    <2>4. \A c : c \in Wants <=> \E e \in declared : c \in Means(e)
      BY <1>4, <2>1 DEF Wants
    <2>5. \A c : c \in required <=> \E e \in declared : c = parse_value(e).cap
      BY <2>3
    <2>6. \A c : c \in Wants <=> c \in required
      BY <2>2, <2>4, <2>5
    <2>7. Wants = required
      BY <2>6
    <2> QED
      BY <2>1, <2>2, <2>7
  <1>2. CASE route = "cdylib"
    <2>1. Requirements = {to_capability(d) : d \in carriers} /\ declared = {}
      BY <1>2 DEF Requirements, ListsInv
    <2>2. \A d \in carriers : MeansDecl(d) = {to_capability(d).cap}
      BY <1>0, <2>1, DeclMeans DEF Readable
    <2>3. required = {to_capability(d).cap : d \in carriers}
      BY <2>1
    <2>4. \A c : c \in Wants <=> \E d \in carriers : c \in MeansDecl(d)
      BY <1>4, <2>1 DEF Wants
    <2>5. \A c : c \in required <=> \E d \in carriers : c = to_capability(d).cap
      BY <2>3
    <2>6. \A c : c \in Wants <=> c \in required
      BY <2>2, <2>4, <2>5
    <2>7. Wants = required
      BY <2>6
    <2> QED
      BY <2>1, <2>2, <2>7
  <1>3. CASE route = "manifest"
    <2>1. Requirements = {deserialize(e) : e \in declared} /\ carriers = {}
      BY <1>3 DEF Requirements, ListsInv
    <2>2. required = {deserialize(e).cap : e \in declared}
      BY <2>1
    <2>3. \A e \in declared : Means(e) = {deserialize(e).cap}
      BY <1>0, <2>1, <2>2, DeserializeMeans DEF Readable
    <2>4. \A c : c \in Wants <=> \E e \in declared : c \in Means(e)
      BY <1>4, <2>1 DEF Wants
    <2>5. \A c : c \in required <=> \E e \in declared : c = deserialize(e).cap
      BY <2>2
    <2>6. \A c : c \in Wants <=> c \in required
      BY <2>3, <2>4, <2>5
    <2>7. Wants = required
      BY <2>6
    <2> QED
      BY <2>1, <2>3, <2>7
  <1> QED
    BY <1>1, <1>2, <1>3 DEF TypeOK, Routes

\* With either parser a readable grant that is not Unknown is what the
\* operator's file says.
LEMMA GrantsMean ==
  ASSUME CapInv, Readable(Grants), granted = {g.cap : g \in Grants},
         Unknown \notin granted
  PROVE  \A g : g \in granted <=> \E e \in config : g \in Means(e)
  <1>0. config \subseteq RawEntry /\ parser \in Parsers
    BY InputsAssumption DEF TypeOK, CapInv
  <1>1. CASE parser = "eager"
    <2>1. Grants = {parse_value(e) : e \in config}
      BY <1>1 DEF Grants
    <2>2. \A e \in config : Means(e) = {parse_value(e).cap}
      BY <1>0, <2>1, ParseMeans DEF Readable
    <2>3. granted = {parse_value(e).cap : e \in config}
      BY <2>1
    <2> QED
      BY <2>2, <2>3
  <1>2. CASE parser = "derived"
    <2>1. Grants = {deserialize(e) : e \in config}
      BY <1>2 DEF Grants
    <2>2. granted = {deserialize(e).cap : e \in config}
      BY <2>1
    <2>3. \A e \in config : Means(e) = {deserialize(e).cap}
      BY <1>0, <2>1, <2>2, DeserializeMeans DEF Readable
    <2> QED
      BY <2>2, <2>3
  <1> QED
    BY <1>0, <1>1, <1>2 DEF Parsers

\* A plugin boots only with what the operator's file allows, through every
\* route and parser.
THEOREM LoadedMeansAllowedHolds == Spec => []LoadedMeansAllowed
  <1>1. CapInv => LoadedMeansAllowed
    <2> SUFFICES ASSUME CapInv, verdict = "Satisfied"
                 PROVE  /\ \A e \in declared : Means(e) # {}
                        /\ \A d \in carriers : MeansDecl(d) # {}
                        /\ \A c \in Wants : Allowed(c)
      BY DEF LoadedMeansAllowed
    <2>1. /\ Readable(Requirements) /\ required = {r.cap : r \in Requirements}
          /\ Readable(Grants) /\ granted = {g.cap : g \in Grants}
          /\ validate_typed_capabilities(required, granted) = "Satisfied"
      BY DEF CapInv, ReadInv, Checked
    <2>2. /\ Unknown \notin required /\ Unknown \notin granted
          /\ ungranted(required, granted) = {}
      BY <2>1 DEF validate_typed_capabilities
    <2>3. Wants = required
          /\ \A g : g \in granted <=> \E e \in config : g \in Means(e)
      BY <2>1, <2>2, RequirementsMean, GrantsMean
    <2>4. \A c \in Wants : Allowed(c)
      BY <2>2, <2>3 DEF ungranted, covers, Allowed
    <2> QED
      BY <2>1, <2>2, <2>4, RequirementsMean
  <1> QED
    BY <1>1, CapInvariant, PTL

\* A plugin and an operator who write well-formed entries are told "no" only
\* for a requirement that no single grant covers.
THEOREM RefusedForCauseHolds == Spec => []RefusedForCause
  <1>1. CapInv => RefusedForCause
    <2> SUFFICES ASSUME CapInv, stage = "done", verdict # "Satisfied",
                        \A e \in declared \cup config : e.form = "object" /\ Means(e) # {},
                        \A d \in carriers : MeansDecl(d) # {}
                 PROVE  \E c \in Wants : ~Allowed(c)
      BY DEF RefusedForCause
    <2>0. declared \subseteq RawEntry /\ carriers \subseteq RawDecl
          /\ config \subseteq RawEntry
      BY InputsAssumption DEF TypeOK, CapInv
    <2>1. \A r \in Requirements : r.err = "none" /\ r.cap # Unknown
      <3>1. \A e \in declared : /\ parse_value(e).err = "none"
                                /\ parse_value(e).cap # Unknown
        BY <2>0, ParseMeans DEF Known
      <3>2. \A e \in declared : /\ deserialize(e).err = "none"
                                /\ deserialize(e).cap # Unknown
        BY <2>0, DeserializeMeans DEF Means, Known
      <3>3. \A d \in carriers : /\ to_capability(d).err = "none"
                                /\ to_capability(d).cap # Unknown
        BY <2>0, DeclMeans DEF Known
      <3> QED
        BY <3>1, <3>2, <3>3 DEF Requirements
    <2>2. \A g \in Grants : g.err = "none" /\ g.cap # Unknown
      <3>1. \A e \in config : /\ parse_value(e).err = "none"
                              /\ parse_value(e).cap # Unknown
        BY <2>0, ParseMeans DEF Known
      <3>2. \A e \in config : /\ deserialize(e).err = "none"
                              /\ deserialize(e).cap # Unknown
        BY <2>0, DeserializeMeans DEF Means, Known
      <3> QED
        BY <3>1, <3>2 DEF Grants
    <2>3. Readable(Requirements) /\ Readable(Grants)
      BY <2>1, <2>2 DEF Readable
    <2>4. Checked /\ required = {r.cap : r \in Requirements}
          /\ granted = {g.cap : g \in Grants}
          /\ verdict = validate_typed_capabilities(required, granted)
      BY <2>3 DEF CapInv, ReadInv, Checked
    <2>5. Unknown \notin required /\ Unknown \notin granted
      BY <2>1, <2>2, <2>4
    <2>6. PICK c \in required : ~\E g \in granted : covers(g, c)
      BY <2>4, <2>5 DEF validate_typed_capabilities, ungranted
    <2>7. Wants = required
          /\ \A g : g \in granted <=> \E e \in config : g \in Means(e)
      BY <2>3, <2>4, <2>5, RequirementsMean, GrantsMean
    <2> QED
      BY <2>5, <2>6, <2>7 DEF covers, Allowed
  <1> QED
    BY <1>1, CapInvariant, PTL

\* The FFI carrier of TypedCapabilityDecl loses nothing of what a cdylib's
\* author declared.
THEOREM TypedSurvivesFfiHolds == Spec => []TypedSurvivesFfi
  <1>1. CapInv => TypedSurvivesFfi
    <2> SUFFICES ASSUME CapInv, route = "cdylib" PROVE TypedSurvivesFfi
      BY DEF TypedSurvivesFfi
    <2>0. typed \subseteq Capability /\ carriers \subseteq RawDecl
          /\ \A c \in typed : from_capability(c) \in carriers
      BY DEF CapInv, TypeOK, ListsInv
    <2>1. Requirements = {to_capability(d) : d \in carriers}
      BY DEF Requirements
    <2>2. ASSUME stage \in {"read", "check"}, NEW c \in typed
          PROVE  c \in required \ {Unknown}
      <3>1. Readable(Requirements) /\ required = {r.cap : r \in Requirements}
        BY <2>2 DEF CapInv, ReadInv
      <3>2. to_capability(from_capability(c)).err = "none"
            /\ to_capability(from_capability(c)).cap \in required
        BY <2>0, <2>1, <3>1 DEF Readable
      <3>3. MeansDecl(from_capability(c)) = {to_capability(from_capability(c)).cap}
        BY <2>0, <3>2, DeclMeans
      <3> QED
        BY <2>0, <3>2, <3>3, CarrierSays
    <2>3. ASSUME verdict = "BadRequirement", Unknown \notin typed,
                 carriers \subseteq {from_capability(c) : c \in typed}
          PROVE  FALSE
      <3>1. \A d \in carriers : MeansDecl(d) # {}
        BY <2>0, <2>3, CarrierSays
      <3>2. Readable(Requirements)
        BY <2>0, <2>1, <3>1, DeclMeans DEF Readable
      <3> QED
        BY <2>3, <3>2 DEF CapInv, ReadInv
    <2> QED
      BY <2>2, <2>3 DEF TypedSurvivesFfi
  <1> QED
    BY <1>1, CapInvariant, PTL

\* A descriptor that the published schema accepts is never refused by the
\* parser.
THEOREM SchemaIsSoundHolds == Spec => []SchemaIsSound
  <1>1. ASSUME NEW e \in RawEntry, SchemaAccepts(e) PROVE parse_value(e).err = "none"
    <2>1. e.kind \in Tags
      BY DEF RawEntry
    <2>2. from_value(e).err = "none"
      BY <1>1, <2>1, FromValueReads DEF SchemaAccepts, Ok, has_args
    <2> QED
      BY <1>1, <2>2, Vocabulary DEF SchemaAccepts, parse_value, OrInvalidArgs, has_args
  <1>2. CapInv => SchemaIsSound
    <2> SUFFICES ASSUME CapInv, route = "descriptor", verdict = "BadRequirement",
                        \A e \in declared : SchemaAccepts(e)
                 PROVE  FALSE
      BY DEF SchemaIsSound
    <2>1. declared \subseteq RawEntry
      BY InputsAssumption DEF TypeOK, CapInv
    <2>2. Readable(Requirements)
      BY <1>1, <2>1 DEF Readable, Requirements
    <2> QED
      BY <2>2 DEF CapInv, ReadInv
  <1> QED
    BY <1>2, CapInvariant, PTL

\* One more known grant never turns a plugin away.
THEOREM GrantsAreMonotoneHolds == Spec => []GrantsAreMonotone
  <1>1. CapInv => GrantsAreMonotone
    <2> SUFFICES ASSUME CapInv, verdict = "Satisfied", NEW g \in Known
                 PROVE  validate_typed_capabilities(required, granted \cup {g}) = "Satisfied"
      BY DEF GrantsAreMonotone
    <2>1. validate_typed_capabilities(required, granted) = "Satisfied"
      BY DEF CapInv, ReadInv, Checked
    <2> QED
      BY <2>1 DEF validate_typed_capabilities, ungranted, Known
  <1> QED
    BY <1>1, CapInvariant, PTL

\* Both directions together, with the monotony of grants
\* (validate_typed_capabilities).
THEOREM BootIsExactHolds == Spec => []BootIsExact
BY LoadedMeansAllowedHolds, RefusedForCauseHolds, GrantsAreMonotoneHolds, PTL
   DEF BootIsExact

=============================================================================
