---------------------------- MODULE ValueProofs ----------------------------
(***************************************************************************)
(* Proofs about what the crate computes from values: the walk behind the   *)
(* ABI fingerprint (AbiFingerprint), the address guard (Addresses), the    *)
(* merge of schemas (SchemaMerge), the chain of catalog providers          *)
(* (ToolCatalog), the cache of per-caller credentials (Credentials) and    *)
(* the redaction of strings (Redaction).                                   *)
(***************************************************************************)
EXTENDS MCValues, TextProofs, LoopProofs, FiniteSetTheorems, TLAPS

(***************************************************************************)
(* The fingerprint's walk: it ends, having described what the root reaches *)
(***************************************************************************)

\* A layout's fields are types of the ABI.
LayoutInv == \A b \in Builds : \A t \in Types : layout[b][t].fields \subseteq Types

\* A description stands for each visited type, and for no other.
DescribedInv ==
  \A b \in Builds : described[b] = {describe(t, layout[b][t]) : t \in seen[b]}

\* The tables have an entry per build; each turn that visited a type has pushed
\* no more than there are types.
TablesInv ==
  /\ seen \in [Builds -> SUBSET Types]
  /\ todo \in [Builds -> Seq(Types)]
  /\ described = [b \in Builds |-> described[b]]
  /\ \A b \in Builds : Len(todo[b]) <= 1 + Cardinality(seen[b]) * Cardinality(Types)

WalkInv == LayoutInv /\ DescribedInv /\ TablesInv /\ WalkIsClosed

\* What is pushed for a layout: each type it names, once.
LEMMA NestedOf ==
  ASSUME NEW l, l.fields \subseteq Types
  PROVE  /\ nested(l) \in Seq(Types) /\ Len(nested(l)) <= Cardinality(Types)
         /\ {nested(l)[i] : i \in DOMAIN nested(l)} = l.fields
<1> DEFINE S == l.fields
           n == Cardinality(S)
           f == nested(l)
<1>1. IsFiniteSet(S) /\ n \in Nat /\ n <= Cardinality(Types) /\ ExistsBijection(1..n, S)
  BY RootIsType, FS_Subset, FS_CardinalityType
<1>2. \E g \in [1..n -> S] : IsInjective(g)
  BY <1>1 DEF ExistsBijection, Bijection, Injection, IsInjective
<1>3. f \in [1..n -> S] /\ IsInjective(f)
  BY <1>2 DEF nested, SetToSeq
<1>4. f \in Injection(1..n, S)
  BY <1>3 DEF Injection, IsInjective
<1>5. IsFiniteSet(1..n) /\ Cardinality(1..n) = n
  BY <1>1, FS_Interval
<1>6. f \in Surjection(1..n, S)
  BY <1>1, <1>4, <1>5, FS_Injection
<1>7. {f[i] : i \in DOMAIN f} = S
  BY <1>3, <1>6 DEF Surjection
<1>8. f \in Seq(Types) /\ Len(f) = n
  BY <1>1, <1>3
<1> QED
  BY <1>1, <1>7, <1>8

\* One stack on another.
LEMMA StackedOf ==
  ASSUME NEW s \in Seq(Types), NEW r \in Seq(Types)
  PROVE  /\ s \o r \in Seq(Types) /\ Len(s \o r) = Len(s) + Len(r)
         /\ {(s \o r)[i] : i \in DOMAIN (s \o r)} =
              {s[i] : i \in DOMAIN s} \cup {r[i] : i \in DOMAIN r}
<1> DEFINE t == s \o r
<1>1. t \in Seq(Types)
  OBVIOUS
<1>2. Len(t) = Len(s) + Len(r)
  OBVIOUS
<1>3. \A i \in DOMAIN t : \/ i \in DOMAIN s /\ t[i] = s[i]
                          \/ i - Len(s) \in DOMAIN r /\ t[i] = r[i - Len(s)]
  BY <1>1, <1>2
<1>4. /\ \A i \in DOMAIN s : i \in DOMAIN t /\ t[i] = s[i]
      /\ \A i \in DOMAIN r : i + Len(s) \in DOMAIN t /\ t[i + Len(s)] = r[i]
  BY <1>1, <1>2
<1> HIDE DEF t
<1>5. {t[i] : i \in DOMAIN t} = {s[i] : i \in DOMAIN s} \cup {r[i] : i \in DOMAIN r}
  BY <1>3, <1>4
<1> QED
  BY <1>1, <1>2, <1>5 DEF t

\* What is still to do after a pop and a push.
LEMMA PushedOf ==
  ASSUME NEW s \in Seq(Types), s # <<>>, NEW r \in Seq(Types)
  PROVE  /\ Last(s) \in Types /\ Front(s) \in Seq(Types) /\ Len(Front(s)) = Len(s) - 1
         /\ Front(s) \o r \in Seq(Types) /\ Len(Front(s) \o r) = Len(s) - 1 + Len(r)
         /\ {s[i] : i \in DOMAIN s} = {Front(s)[i] : i \in DOMAIN Front(s)} \cup {Last(s)}
         /\ {(Front(s) \o r)[i] : i \in DOMAIN (Front(s) \o r)} =
              {Front(s)[i] : i \in DOMAIN Front(s)} \cup {r[i] : i \in DOMAIN r}
<1>1. Len(s) \in Nat \ {0} /\ Last(s) \in Types
  BY DEF Last
<1>2. /\ Front(s) \in Seq(Types) /\ Len(Front(s)) = Len(s) - 1
      /\ \A i \in 1..(Len(s) - 1) : Front(s)[i] = s[i]
  <2> DEFINE m == Len(s) - 1
  <2>1. m \in Nat /\ 1..m \subseteq 1..Len(s)
    BY <1>1
  <2>2. \A i \in 1..m : s[i] \in Types
    BY <1>1, <2>1
  <2>3. Front(s) = [i \in 1..m |-> s[i]]
    BY <1>1, <2>1 DEF Front
  <2> HIDE DEF m
  <2>4. Front(s) \in Seq(Types) /\ Len(Front(s)) = m
    BY <2>1, <2>2, <2>3
  <2> QED
    BY <2>3, <2>4 DEF m
<1>3. /\ Front(s) \o r \in Seq(Types) /\ Len(Front(s) \o r) = Len(s) - 1 + Len(r)
      /\ {(Front(s) \o r)[i] : i \in DOMAIN (Front(s) \o r)} =
           {Front(s)[i] : i \in DOMAIN Front(s)} \cup {r[i] : i \in DOMAIN r}
  BY <1>1, <1>2, StackedOf
<1>4. {s[i] : i \in DOMAIN s} = {Front(s)[i] : i \in DOMAIN Front(s)} \cup {Last(s)}
  <2>1. \A i \in DOMAIN s : \/ i \in DOMAIN Front(s) /\ s[i] = Front(s)[i]
                            \/ s[i] = Last(s)
    BY <1>1, <1>2 DEF Last
  <2>2. \A i \in DOMAIN Front(s) : i \in DOMAIN s /\ Front(s)[i] = s[i]
    BY <1>1, <1>2
  <2>3. Len(s) \in DOMAIN s /\ s[Len(s)] = Last(s)
    BY <1>1 DEF Last
  <2> QED BY <2>1, <2>2, <2>3
<1> QED
  BY <1>1, <1>2, <1>3, <1>4

\* The root is reached, and what a reached type names.
LEMMA ReachedIsClosed ==
  ASSUME LayoutInv, NEW b \in Builds
  PROVE  /\ Reached(b) \subseteq Types /\ Root \in Reached(b)
         /\ \A t \in Reached(b) : layout[b][t].fields \subseteq Reached(b)
BY RootIsType DEF LayoutInv, Reached, Closed

\* Products of natural numbers, for the measure of the walk.
LEMMA Products ==
  /\ \A x, y \in Nat : x * y \in Nat /\ (x + 1) * y = x * y + y
  /\ \A x, y, z \in Nat : x <= y => x * z <= y * z
<1>1. ASSUME NEW x \in Nat, NEW y \in Nat PROVE x * y \in Nat
  OBVIOUS
<1>2. ASSUME NEW x \in Nat, NEW y \in Nat PROVE (x + 1) * y = x * y + y
  OBVIOUS
<1>3. ASSUME NEW x \in Nat, NEW y \in Nat, NEW z \in Nat, x <= y PROVE x * z <= y * z
  <2>1. PICK d \in Nat : y = x + d
    BY <1>3
  <2>2. (x + d) * z = x * z + d * z
    OBVIOUS
  <2>3. x * z \in Nat /\ d * z \in Nat
    BY <1>1
  <2> QED
    BY <2>1, <2>2, <2>3
<1> QED
  BY <1>1, <1>2, <1>3

\* A turn that takes one type and pushes r of the n there are.
LEMMA TurnArithmetic ==
  ASSUME NEW p \in Nat, NEW k \in Nat, NEW n \in Nat, NEW r \in Nat, r <= n
  PROVE  /\ k <= 1 + p => k - 1 + r <= 1 + (p + n)
         /\ p + (k - 1 + r) < p + (n + 1) + k
OBVIOUS

\* Each walk starts with the root waiting.
LEMMA WalkInvInit == WalkInit => WalkInv
<1> SUFFICES ASSUME WalkInit PROVE WalkInv
  OBVIOUS
<1>1. LayoutInv
  BY DEF WalkInit, LayoutInv
<1>2. DescribedInv
  BY DEF WalkInit, DescribedInv
<1>3. TablesInv
  <2>1. <<Root>> \in Seq(Types) /\ Len(<<Root>>) = 1
    BY RootIsType
  <2>2. Cardinality({}) = 0 /\ Cardinality(Types) \in Nat
    BY RootIsType, FS_EmptySet, FS_CardinalityType
  <2> QED
    BY <2>1, <2>2 DEF WalkInit, TablesInv
<1>4. WalkIsClosed
  <2> SUFFICES ASSUME NEW b \in Builds
               PROVE  /\ {Root} \subseteq Reached(b)
                      /\ seen[b] = {} /\ {todo[b][i] : i \in DOMAIN todo[b]} = {Root}
    BY DEF WalkIsClosed
  <2>1. seen[b] = {} /\ todo[b] = <<Root>>
    BY DEF WalkInit
  <2> QED
    BY <1>1, <2>1, ReachedIsClosed
<1> QED
  BY <1>1, <1>2, <1>3, <1>4 DEF WalkInv

\* What a turn leaves alone: the layouts, and so what the root reaches.
LEMMA VisitKeepsReached ==
  ASSUME NEW b \in Builds, layout' = layout
  PROVE  Reached(b)' = Reached(b)
BY DEF Reached, Closed

\* A turn that pops a type it has seen.
LEMMA SkipKeepsInv ==
  ASSUME WalkInv, NEW b \in Builds, Visit(b), Last(todo[b]) \in seen[b]
  PROVE  WalkInv' /\ Left(b)' < Left(b)
<1> DEFINE s == todo[b]
<1>1. /\ s \in Seq(Types) /\ s # <<>> /\ layout' = layout /\ seen' = seen
      /\ described' = described /\ todo' = [todo EXCEPT ![b] = Front(@)]
  BY DEF Visit, WalkInv, TablesInv
<1>2. /\ Front(s) \in Seq(Types) /\ Len(Front(s)) = Len(s) - 1
      /\ {s[i] : i \in DOMAIN s} = {Front(s)[i] : i \in DOMAIN Front(s)} \cup {Last(s)}
  BY <1>1, PushedOf
<1>3. todo'[b] = Front(s) /\ \A c \in Builds \ {b} : todo'[c] = todo[c]
  BY <1>1 DEF WalkInv, TablesInv
<1>4. \A c \in Builds : Cardinality(seen[c]) \in Nat /\ Cardinality(Types \ seen[c]) \in Nat
  BY RootIsType, FS_Subset, FS_Difference, FS_CardinalityType DEF WalkInv, TablesInv
<1>5. LayoutInv' /\ DescribedInv'
  BY <1>1 DEF WalkInv, LayoutInv, DescribedInv
<1>6. TablesInv'
  <2>1. todo' \in [Builds -> Seq(Types)]
    BY <1>1, <1>2 DEF WalkInv, TablesInv
  <2>2. \A c \in Builds : Len(todo'[c]) <= Len(todo[c])
    BY <1>1, <1>2, <1>3 DEF WalkInv, TablesInv
  <2>3. \A c \in Builds : Len(todo'[c]) <= 1 + Cardinality(seen[c]) * Cardinality(Types)
    <3> TAKE c \in Builds
    <3>1. Cardinality(seen[c]) * Cardinality(Types) \in Nat
      BY <1>4, RootIsType, FS_CardinalityType, Products
    <3>2. Len(todo'[c]) \in Nat /\ Len(todo[c]) \in Nat
      BY <2>1 DEF WalkInv, TablesInv
    <3>3. Len(todo[c]) <= 1 + Cardinality(seen[c]) * Cardinality(Types)
      BY DEF WalkInv, TablesInv
    <3> QED
      BY <2>2, <3>1, <3>2, <3>3
  <2> QED
    BY <1>1, <2>1, <2>3 DEF WalkInv, TablesInv
<1>7. WalkIsClosed'
  <2> SUFFICES ASSUME NEW c \in Builds
               PROVE  LET waiting == {todo'[c][i] : i \in DOMAIN todo'[c]}
                      IN /\ seen[c] \cup waiting \subseteq Reached(c)
                         /\ \A t \in seen[c] : layout[c][t].fields \subseteq seen[c] \cup waiting
                         /\ Root \in seen[c] \cup waiting
    BY <1>1, VisitKeepsReached DEF WalkIsClosed
  <2>1. CASE c # b
    BY <1>3, <2>1 DEF WalkInv, WalkIsClosed
  <2>2. CASE c = b
    <3> DEFINE was == {s[i] : i \in DOMAIN s}
               is == {Front(s)[i] : i \in DOMAIN Front(s)}
    <3>1. /\ seen[b] \cup was \subseteq Reached(b)
          /\ \A t \in seen[b] : layout[b][t].fields \subseteq seen[b] \cup was
          /\ Root \in seen[b] \cup was
      BY DEF WalkInv, WalkIsClosed
    <3>2. was = is \cup {Last(s)} /\ Last(s) \in seen[b]
      BY <1>2
    <3>3. is = {todo'[c][i] : i \in DOMAIN todo'[c]}
      BY <1>3, <2>2
    <3> HIDE DEF was, is
    <3>4. seen[b] \cup was = seen[b] \cup is
      BY <3>2
    <3> QED
      BY <2>2, <3>1, <3>3, <3>4
  <2> QED
    BY <2>1, <2>2
<1>8. Left(b)' < Left(b)
  <2>1. Cardinality(Types \ seen[b]) * (Cardinality(Types) + 1) \in Nat /\ Len(s) \in Nat
    <3>1. Cardinality(Types) + 1 \in Nat /\ Len(s) \in Nat
      BY <1>1, RootIsType, FS_CardinalityType
    <3> QED
      BY <1>4, <3>1, Products
  <2>2. Left(b)' = Cardinality(Types \ seen[b]) * (Cardinality(Types) + 1) + (Len(s) - 1)
    BY <1>1, <1>2, <1>3 DEF Left
  <2> QED
    BY <2>1, <2>2 DEF Left
<1> QED
  BY <1>5, <1>6, <1>7, <1>8 DEF WalkInv

\* A turn that visits a type for the first time.
LEMMA DescribeKeepsInv ==
  ASSUME WalkInv, NEW b \in Builds, Visit(b), Last(todo[b]) \notin seen[b]
  PROVE  WalkInv' /\ Left(b)' < Left(b)
<1> DEFINE s == todo[b]
           t == Last(s)
           r == nested(layout[b][t])
           n == Cardinality(Types)
<1>1. /\ s \in Seq(Types) /\ s # <<>> /\ layout' = layout
      /\ seen' = [seen EXCEPT ![b] = @ \cup {t}]
      /\ described' = [described EXCEPT ![b] = @ \cup {describe(t, layout[b][t])}]
      /\ todo' = [todo EXCEPT ![b] = Front(@) \o r]
  BY DEF Visit, extended, WalkInv, TablesInv
<1>2. t \in Types
  BY <1>1, PushedOf
<1>3. /\ r \in Seq(Types) /\ Len(r) <= n /\ layout[b][t].fields \subseteq Types
      /\ {r[i] : i \in DOMAIN r} = layout[b][t].fields
  BY <1>2, NestedOf DEF WalkInv, LayoutInv
<1>4. /\ Front(s) \o r \in Seq(Types) /\ Len(Front(s) \o r) = Len(s) - 1 + Len(r)
      /\ {s[i] : i \in DOMAIN s} = {Front(s)[i] : i \in DOMAIN Front(s)} \cup {t}
      /\ {(Front(s) \o r)[i] : i \in DOMAIN (Front(s) \o r)} =
           {Front(s)[i] : i \in DOMAIN Front(s)} \cup layout[b][t].fields
  BY <1>1, <1>3, PushedOf
<1>5. /\ todo'[b] = Front(s) \o r /\ seen'[b] = seen[b] \cup {t}
      /\ \A c \in Builds \ {b} : todo'[c] = todo[c] /\ seen'[c] = seen[c]
      /\ described'[b] = described[b] \cup {describe(t, layout[b][t])}
      /\ \A c \in Builds \ {b} : described'[c] = described[c]
  BY <1>1 DEF WalkInv, TablesInv
<1>6. /\ n \in Nat /\ Len(s) \in Nat /\ Len(r) \in Nat
      /\ Cardinality(seen[b]) \in Nat /\ Cardinality(Types \ seen[b]) \in Nat
  BY <1>1, <1>3, RootIsType, FS_Subset, FS_Difference, FS_CardinalityType DEF WalkInv, TablesInv
<1>7. /\ Cardinality(seen[b] \cup {t}) = Cardinality(seen[b]) + 1
      /\ Cardinality(Types \ (seen[b] \cup {t})) = Cardinality(Types \ seen[b]) - 1
      /\ Cardinality(Types \ (seen[b] \cup {t})) \in Nat
  <2>1. IsFiniteSet(seen[b]) /\ IsFiniteSet(Types \ seen[b])
    BY RootIsType, FS_Subset, FS_Difference DEF WalkInv, TablesInv
  <2>2. t \notin seen[b] /\ t \in Types \ seen[b]
    BY <1>2
  <2>3. Types \ (seen[b] \cup {t}) = (Types \ seen[b]) \ {t}
    OBVIOUS
  <2>4. IsFiniteSet((Types \ seen[b]) \ {t})
        /\ Cardinality((Types \ seen[b]) \ {t}) = Cardinality(Types \ seen[b]) - 1
    BY <2>1, <2>2, FS_RemoveElement
  <2>5. Cardinality(seen[b] \cup {t}) = Cardinality(seen[b]) + 1
    BY <2>1, <2>2, FS_AddElement
  <2> QED
    BY <2>3, <2>4, <2>5, FS_CardinalityType
<1>8. LayoutInv' /\ DescribedInv'
  <2>1. LayoutInv'
    BY <1>1 DEF WalkInv, LayoutInv
  <2>2. ASSUME NEW c \in Builds
        PROVE  described'[c] = {describe(u, layout[c][u]) : u \in seen'[c]}
    <3>1. described[c] = {describe(u, layout[c][u]) : u \in seen[c]}
      BY DEF WalkInv, DescribedInv
    <3> QED
      BY <1>5, <3>1
  <2> QED
    BY <1>1, <2>1, <2>2 DEF DescribedInv
<1>9. TablesInv'
  <2>1. todo' \in [Builds -> Seq(Types)] /\ seen' \in [Builds -> SUBSET Types]
    BY <1>1, <1>2, <1>4 DEF WalkInv, TablesInv
  <2>2. described' = [c \in Builds |-> described'[c]]
    BY <1>1 DEF WalkInv, TablesInv
  <2>3. Len(todo'[b]) <= 1 + Cardinality(seen'[b]) * n
    <3> DEFINE k == Cardinality(seen[b])
    <3>1. k * n \in Nat /\ (k + 1) * n = k * n + n
      BY <1>6, Products
    <3>2. Len(s) <= 1 + k * n
      BY DEF WalkInv, TablesInv
    <3>3. Len(s) - 1 + Len(r) <= 1 + (k + 1) * n
      <4>1. PICK p \in Nat : p = k * n
        BY <3>1
      <4>2. (k + 1) * n = p + n /\ Len(s) <= 1 + p
        BY <3>1, <3>2, <4>1
      <4>3. Len(s) - 1 + Len(r) <= 1 + (p + n)
        BY <1>3, <1>6, <4>2, TurnArithmetic
      <4> QED
        BY <4>2, <4>3
    <3> QED
      BY <1>4, <1>5, <1>7, <3>3
  <2>4. ASSUME NEW c \in Builds \ {b} PROVE Len(todo'[c]) <= 1 + Cardinality(seen'[c]) * n
    BY <1>5 DEF WalkInv, TablesInv
  <2> QED
    BY <2>1, <2>2, <2>3, <2>4 DEF TablesInv
<1>10. WalkIsClosed'
  <2> SUFFICES ASSUME NEW c \in Builds
               PROVE  LET waiting == {todo'[c][i] : i \in DOMAIN todo'[c]}
                      IN /\ seen'[c] \cup waiting \subseteq Reached(c)
                         /\ \A u \in seen'[c] : layout[c][u].fields \subseteq seen'[c] \cup waiting
                         /\ Root \in seen'[c] \cup waiting
    <3>1. layout' = layout /\ \A c \in Builds : Reached(c)' = Reached(c)
      BY <1>1, VisitKeepsReached
    <3> QED
      BY <3>1 DEF WalkIsClosed
  <2>1. CASE c # b
    BY <1>5, <2>1 DEF WalkInv, WalkIsClosed
  <2>2. CASE c = b
    <3> DEFINE was == {s[i] : i \in DOMAIN s}
               kept == {Front(s)[i] : i \in DOMAIN Front(s)}
    <3>1. /\ seen[b] \cup was \subseteq Reached(b)
          /\ \A u \in seen[b] : layout[b][u].fields \subseteq seen[b] \cup was
          /\ Root \in seen[b] \cup was
      BY DEF WalkInv, WalkIsClosed
    <3>2. was = kept \cup {t}
      BY <1>4
    <3>3. {todo'[c][i] : i \in DOMAIN todo'[c]} = kept \cup layout[b][t].fields
      <4>1. todo'[c] = Front(s) \o r
        BY <1>5, <2>2
      <4> HIDE DEF s, r
      <4> QED
        BY <1>4, <4>1
    <3>4. seen'[c] = seen[b] \cup {t}
      BY <1>5, <2>2
    <3>5. layout[b][t].fields \subseteq Reached(b)
      BY <3>1, <3>2, ReachedIsClosed DEF WalkInv
    <3> HIDE DEF was, kept, t
    <3> QED
      BY <2>2, <3>1, <3>2, <3>3, <3>4, <3>5
  <2> QED
    BY <2>1, <2>2
<1>11. Left(b)' < Left(b)
  <2> DEFINE m == Cardinality(Types \ (seen[b] \cup {t}))
  <2>1. m \in Nat /\ Cardinality(Types \ seen[b]) = m + 1
    BY <1>6, <1>7
  <2>2. Left(b) = (m + 1) * (n + 1) + Len(s)
    BY <2>1 DEF Left
  <2>3. Left(b)' = m * (n + 1) + (Len(s) - 1 + Len(r))
    BY ZenonT(60), <1>4, <1>5 DEF Left
  <2>4. m * (n + 1) \in Nat /\ (m + 1) * (n + 1) = m * (n + 1) + (n + 1)
    BY <1>6, <2>1, Products
  <2>5. PICK p \in Nat : p = m * (n + 1)
    BY <2>4
  <2>6. Left(b) = p + (n + 1) + Len(s) /\ Left(b)' = p + (Len(s) - 1 + Len(r))
    BY <2>2, <2>3, <2>4, <2>5
  <2>7. p + (Len(s) - 1 + Len(r)) < p + (n + 1) + Len(s)
    BY <1>3, <1>6, TurnArithmetic
  <2> QED
    BY <2>6, <2>7
<1> QED
  BY <1>8, <1>9, <1>10, <1>11 DEF WalkInv

\* A turn of the walk, whether the type was seen before or not.
LEMMA VisitKeepsInv ==
  ASSUME WalkInv, NEW b \in Builds, Visit(b)
  PROVE  WalkInv' /\ Left(b)' < Left(b)
BY SkipKeepsInv, DescribeKeepsInv

\* A walk that has ended described what its root reaches.
LEMMA DoneIsReached ==
  ASSUME WalkInv, NEW b \in Builds, todo[b] = <<>>
  PROVE  fingerprint(b) = Compared(b)
<1>1. {todo[b][i] : i \in DOMAIN todo[b]} = {}
  OBVIOUS
<1>2. /\ seen[b] \subseteq Reached(b) /\ Root \in seen[b] /\ seen[b] \subseteq Types
      /\ \A t \in seen[b] : layout[b][t].fields \subseteq seen[b]
  BY <1>1 DEF WalkInv, WalkIsClosed, TablesInv
<1>3. seen[b] = Reached(b)
  BY <1>2 DEF Reached, Closed
<1>4. described[b] = {<<t, layout[b][t].size, layout[b][t].fields>> : t \in seen[b]}
  BY DEF WalkInv, DescribedInv, describe
<1> QED
  BY <1>3, <1>4 DEF fingerprint, Compared

\* A turn of a build's walk keeps the invariant.
LEMMA WalkStep == WalkInv /\ [WalkNext]_walkVars => WalkInv'
<1> SUFFICES ASSUME WalkInv, [WalkNext]_walkVars PROVE WalkInv'
  OBVIOUS
<1>1. CASE WalkNext
  BY <1>1, VisitKeepsInv DEF WalkNext, Builds
<1>2. CASE UNCHANGED walkVars
  <2>1. \A b \in Builds : Reached(b)' = Reached(b)
    BY <1>2, VisitKeepsReached DEF walkVars
  <2>2. layout' = layout /\ seen' = seen /\ todo' = todo /\ described' = described
    BY <1>2 DEF walkVars
  <2>3. WalkIsClosed'
    BY <2>1, <2>2 DEF WalkInv, WalkIsClosed
  <2> QED
    BY <2>2, <2>3 DEF WalkInv, LayoutInv, DescribedInv, TablesInv
<1> QED
  BY <1>1, <1>2

\* While a build's fingerprint is taken, its walk has described exactly the types
\* it has seen, and what it describes or keeps waiting is what the root reaches.
THEOREM WalkInvariant == WalkSpec => []WalkInv
BY WalkInvInit, WalkStep, PTL DEF WalkSpec

\* The invariant holds the type.
LEMMA WalkTypes == WalkInv => WalkTypeOK
<1> SUFFICES ASSUME WalkInv PROVE WalkTypeOK
  OBVIOUS
<1> SUFFICES ASSUME NEW b \in Builds
             PROVE  Len(todo[b]) <= 1 + Cardinality(Types) * Cardinality(Types)
  BY DEF WalkInv, TablesInv, WalkTypeOK
<1> DEFINE k == Cardinality(seen[b])
           n == Cardinality(Types)
<1>1. k \in Nat /\ n \in Nat /\ k <= n
  BY RootIsType, FS_Subset, FS_CardinalityType DEF WalkInv, TablesInv
<1>2. k * n \in Nat /\ n * n \in Nat /\ k * n <= n * n
  BY <1>1, Products
<1>3. Len(todo[b]) \in Nat /\ Len(todo[b]) <= 1 + k * n
  BY DEF WalkInv, TablesInv
<1>4. PICK p \in Nat, q \in Nat : p = k * n /\ q = n * n /\ p <= q
  BY <1>2
<1> QED
  BY <1>3, <1>4

\* The walk's stack never outgrows the fields there are (layout_fingerprint
\* keeps it in a Vec, without a bound of its own).
THEOREM WalkTypeCorrect == WalkSpec => []WalkTypeOK
BY WalkTypes, WalkInvariant, PTL

\* For every ABI, every pair of builds and every order a layout lists its types
\* in, layout_fingerprint ends, having described what the registration reaches,
\* and the two fingerprints are equal exactly when check_layout_compatibility
\* finds the two layouts alike.
THEOREM FingerprintPredictsHolds == WalkSpec => FingerprintPredicts
<1>1. ASSUME WalkInv PROVE WalkIsClosed /\ DifferentMeansRefused /\ EqualMeansAccepted
  <2>1. WalkIsClosed
    BY <1>1 DEF WalkInv
  <2>2. Done => fingerprint("host") = Compared("host") /\ fingerprint("plugin") = Compared("plugin")
    BY <1>1, DoneIsReached DEF Done, Builds
  <2> QED
    BY <2>1, <2>2 DEF DifferentMeansRefused, EqualMeansAccepted
<1>2. ASSUME WalkInv, [WalkNext]_walkVars PROVE [\E b \in Builds : Left(b)' < Left(b)]_walkVars
  BY <1>2, VisitKeepsInv DEF WalkNext, Builds
<1> QED
  BY <1>1, <1>2, WalkInvariant, PTL DEF WalkSpec, FingerprintPredicts, EveryTurnShortens

(***************************************************************************)
(* The address guard: the tests by octets and masks are the ranges that    *)
(* PRIVATE_RANGES_DOC lists                                                *)
(***************************************************************************)

\* A 16-bit number by its two octets.
LEMMA OctetsOf ==
  ASSUME NEW h \in Nat, h <= 65535
  PROVE  /\ h \div 256 \in Octet /\ h % 256 \in Octet
         /\ (h \div 256) * 256 + (h % 256) = h
<1>1. h \div 256 \in Octet
  BY SMT DEF Octet
<1>2. h % 256 \in Octet
  BY SMT DEF Octet
<1>3. (h \div 256) * 256 + (h % 256) = h
  BY SMTT(40)
<1> QED
  BY <1>1, <1>2, <1>3

\* The range of a segment of an IPv6 address.
LEMMA SegmentOf ==
  ASSUME NEW h \in Segment
  PROVE  h \in Nat /\ h <= 65535
BY SMT DEF Segment

\* The masks as intervals.
LEMMA MasksOf ==
  ASSUME NEW x \in Nat, x <= 65535
  PROVE  /\ x \div 64 = 1 <=> x \in 64..127
         /\ x \div 256 = 255 <=> x \in 65280..65535
         /\ x \div 512 = 126 <=> x \in 64512..65023
         /\ x \div 64 = 1018 <=> x \in 65152..65215
<1>1. x \div 64 = 1 <=> x \in 64..127
  BY SMT
<1>2. x \div 256 = 255 <=> x \in 65280..65535
  BY SMT
<1>3. x \div 512 = 126 <=> x \in 64512..65023
  BY SMT
<1>4. x \div 64 = 1018 <=> x \in 65152..65215
  BY SMT
<1> QED
  BY <1>1, <1>2, <1>3, <1>4

\* The documented ranges, written out.
LEMMA V4RangesOf ==
  ASSUME NEW x \in Int
  PROVE  In(x, V4Ranges) <=> \/ x \in 2560..2815 \/ x \in 44048..44063 \/ x = 49320
                             \/ x \in 32512..32767 \/ x = 43518 \/ x \in 25664..25727
                             \/ x \in 0..255 \/ (57344 <= x /\ x <= 61439)
                             \/ (61440 <= x /\ x <= 65535)
BY SMT DEF In, V4Ranges

\* The documented IPv6 ranges as intervals.
LEMMA V6RangesOf ==
  ASSUME NEW x \in Int
  PROVE  In(x, V6Ranges) <=> x \in 65152..65215 \/ x \in 64512..65023 \/ x \in 65280..65535
BY SMT DEF In, V6Ranges

\* v4_is_blocked is the documented IPv4 ranges.
LEMMA V4IsDocumented ==
  ASSUME NEW o, NEW x \in Octet, NEW y \in Octet, o[1] = x, o[2] = y
  PROVE  v4_is_blocked(o) <=> In(x * 256 + y, V4Ranges)
<1>1. v4_is_broadcast(o) => x = 255
  BY SMT DEF v4_is_broadcast
<1>2. v4_is_unspecified(o) => x = 0
  BY SMT DEF v4_is_unspecified
<1>3. is_cgnat(o) <=> x = 100 /\ y \in 64..127
  <2>1. y \in Nat /\ y <= 65535
    BY SMT DEF Octet
  <2> QED
    BY <2>1, MasksOf, SMT DEF is_cgnat
<1>4. v4_is_blocked(o) <=>
        \/ x = 127 \/ x = 10 \/ (x = 172 /\ y \in 16..31) \/ (x = 192 /\ y = 168)
        \/ (x = 169 /\ y = 254) \/ x \in 224..239 \/ (x = 100 /\ y \in 64..127)
        \/ x = 0 \/ x >= 240
  BY <1>1, <1>2, <1>3, SMT DEF v4_is_blocked, v4_is_loopback, v4_is_private, v4_is_link_local,
     v4_is_multicast, is_reserved_v4, Octet
<1>5. In(x * 256 + y, V4Ranges) <=>
        \/ x = 127 \/ x = 10 \/ (x = 172 /\ y \in 16..31) \/ (x = 192 /\ y = 168)
        \/ (x = 169 /\ y = 254) \/ x \in 224..239 \/ (x = 100 /\ y \in 64..127)
        \/ x = 0 \/ x >= 240
  <2>1. x \in Nat /\ x <= 255 /\ y \in Nat /\ y <= 255
    BY SMT DEF Octet
  <2>2. PICK h \in Int : h = x * 256 + y
    BY <2>1, SMT
  <2>3. /\ h \in 2560..2815 <=> x = 10
        /\ h \in 44048..44063 <=> x = 172 /\ y \in 16..31
    BY <2>1, <2>2, SMT
  <2>4. /\ h = 49320 <=> x = 192 /\ y = 168
        /\ h \in 32512..32767 <=> x = 127
    BY <2>1, <2>2, SMT
  <2>5. /\ h = 43518 <=> x = 169 /\ y = 254
        /\ h \in 25664..25727 <=> x = 100 /\ y \in 64..127
    BY <2>1, <2>2, SMT
  <2>6. h \in 0..255 <=> x = 0
    BY <2>1, <2>2, SMT
  <2>7. (57344 <= h /\ h <= 61439) <=> x \in 224..239
    BY <2>1, <2>2, SMT
  <2>8. (61440 <= h /\ h <= 65535) <=> x >= 240
    BY <2>1, <2>2, SMT
  <2>9. In(h, V4Ranges) <=>
          \/ h \in 2560..2815 \/ h \in 44048..44063 \/ h = 49320
          \/ h \in 32512..32767 \/ h = 43518 \/ h \in 25664..25727
          \/ h \in 0..255 \/ (57344 <= h /\ h <= 61439)
          \/ (61440 <= h /\ h <= 65535)
    BY V4RangesOf
  <2>10. In(h, V4Ranges) <=>
        \/ x = 127 \/ x = 10 \/ (x = 172 /\ y \in 16..31) \/ (x = 192 /\ y = 168)
        \/ (x = 169 /\ y = 254) \/ x \in 224..239 \/ (x = 100 /\ y \in 64..127)
        \/ x = 0 \/ x >= 240
    BY <2>3, <2>4, <2>5, <2>6, <2>7, <2>8, <2>9
  <2> QED
    BY <2>2, <2>10
<1> QED
  BY <1>4, <1>5

\* The segments of an IPv6 address as a sequence.
LEMMA EightSegments ==
  ASSUME NEW S, NEW s \in [1..8 -> S]
  PROVE  s \in Seq(S) /\ Len(s) = 8
<1>1. ASSUME NEW n \in Nat, s \in [1..n -> S] PROVE s \in Seq(S) /\ Len(s) = n
  BY <1>1, SMT
<1>2. PICK n \in Nat : n = 8
  BY SMT
<1>3. s \in [1..n -> S]
  BY <1>2, SMT
<1>4. s \in Seq(S) /\ Len(s) = n
  BY <1>1, <1>3, Zenon
<1> QED
  BY <1>2, <1>4, Zenon

\* The six segments before an embedded IPv4 address.
LEMMA PrefixOf ==
  ASSUME NEW s \in [1..8 -> Segment]
  PROVE  SubSeq(s, 1, 6) \in Prefixes96 <=>
           \/ ZeroTo(s, 5) /\ s[6] = 65535
           \/ s[1] = 100 /\ s[2] = 65435 /\ \A i \in 3..6 : s[i] = 0
           \/ ZeroTo(s, 6)
<1> DEFINE p == SubSeq(s, 1, 6)
<1>1. s \in Seq(Segment) /\ Len(s) = 8
  BY EightSegments
<1>2. p = [i \in 1..6 |-> s[i]]
  BY <1>1, SMT
<1> HIDE DEF p
<1>3. p \in [1..6 -> Segment]
  BY <1>2, SMT
<1>4. p = <<0, 0, 0, 0, 0, 65535>> <=>
        p[1] = 0 /\ p[2] = 0 /\ p[3] = 0 /\ p[4] = 0 /\ p[5] = 0 /\ p[6] = 65535
  BY <1>3, SMT
<1>5. p = <<100, 65435, 0, 0, 0, 0>> <=>
        p[1] = 100 /\ p[2] = 65435 /\ p[3] = 0 /\ p[4] = 0 /\ p[5] = 0 /\ p[6] = 0
  BY <1>3, SMT
<1>6. p = <<0, 0, 0, 0, 0, 0>> <=>
        p[1] = 0 /\ p[2] = 0 /\ p[3] = 0 /\ p[4] = 0 /\ p[5] = 0 /\ p[6] = 0
  BY <1>3, SMT
<1>7. p[1] = s[1] /\ p[2] = s[2] /\ p[3] = s[3] /\ p[4] = s[4] /\ p[5] = s[5] /\ p[6] = s[6]
  BY <1>2, SMT
<1>8. ZeroTo(s, 5) <=> s[1] = 0 /\ s[2] = 0 /\ s[3] = 0 /\ s[4] = 0 /\ s[5] = 0
  BY SMT DEF ZeroTo
<1>9. ZeroTo(s, 6) <=> s[1] = 0 /\ s[2] = 0 /\ s[3] = 0 /\ s[4] = 0 /\ s[5] = 0 /\ s[6] = 0
  BY SMT DEF ZeroTo
<1>10. (\A i \in 3..6 : s[i] = 0) <=> s[3] = 0 /\ s[4] = 0 /\ s[5] = 0 /\ s[6] = 0
  BY SMT
<1>11. p \in Prefixes96 <=> \/ p = <<0, 0, 0, 0, 0, 65535>> \/ p = <<100, 65435, 0, 0, 0, 0>>
                            \/ p = <<0, 0, 0, 0, 0, 0>>
  BY SMT DEF Prefixes96
<1> QED
  BY <1>4, <1>5, <1>6, <1>7, <1>8, <1>9, <1>10, <1>11, SMT DEF p
\* The IPv4 address in an IPv6 one's last two segments.
LEMMA LowIsDocumented ==
  ASSUME NEW s, NEW h \in Segment, s[7] = h
  PROVE  v4_is_blocked(low(s)) <=> In(h, V4Ranges)
<1>1. h \in Nat /\ h <= 65535
  BY SegmentOf
<1>2. /\ h \div 256 \in Octet /\ h % 256 \in Octet
      /\ (h \div 256) * 256 + (h % 256) = h
  BY <1>1, OctetsOf
<1>3. low(s)[1] = h \div 256 /\ low(s)[2] = h % 256
  BY SMT DEF low
<1>4. v4_is_blocked(low(s)) <=> In((h \div 256) * 256 + (h % 256), V4Ranges)
  BY <1>2, <1>3, V4IsDocumented
<1> QED
  BY <1>2, <1>4

\* The tests of an IPv6 address against the documented ranges.
LEMMA V6IsDocumented ==
  ASSUME NEW s \in [1..8 -> Segment]
  PROVE  (\/ v6_is_loopback(s) \/ v6_is_unspecified(s) \/ v6_is_multicast(s)
          \/ is_unique_local_v6(s) \/ is_link_local_v6(s) \/ is_ipv4_mapped_private(s))
         <=> (\/ In(s[1], V6Ranges)
              \/ SubSeq(s, 1, 6) \in Prefixes96 /\ In(s[7], V4Ranges))
<1>1. /\ s[1] \in Segment /\ s[7] \in Segment /\ s[8] \in Segment
      /\ s[1] \in Nat /\ s[1] <= 65535 /\ s[7] \in Nat /\ s[8] \in Nat
  BY SegmentOf
<1>2. v6_is_multicast(s) \/ is_unique_local_v6(s) \/ is_link_local_v6(s) <=> In(s[1], V6Ranges)
  <2>1. /\ s[1] \div 256 = 255 <=> s[1] \in 65280..65535
        /\ s[1] \div 512 = 126 <=> s[1] \in 64512..65023
        /\ s[1] \div 64 = 1018 <=> s[1] \in 65152..65215
    BY <1>1, MasksOf
  <2>2. s[1] \in Int
    BY <1>1
  <2>3. In(s[1], V6Ranges) <=>
          s[1] \in 65152..65215 \/ s[1] \in 64512..65023 \/ s[1] \in 65280..65535
    BY <2>2, V6RangesOf
  <2> QED
    BY <2>1, <2>3 DEF v6_is_multicast, is_unique_local_v6, is_link_local_v6
<1>3. v4_is_blocked(low(s)) <=> In(s[7], V4Ranges)
  BY <1>1, LowIsDocumented
<1>4. s[7] = 0 => In(s[7], V4Ranges)
  BY V4RangesOf, SMT
<1>5. v6_is_loopback(s) <=> ZeroTo(s, 6) /\ s[7] = 0 /\ s[8] = 1
  BY SMT DEF v6_is_loopback, ZeroTo
<1>6. v6_is_unspecified(s) <=> ZeroTo(s, 6) /\ s[7] = 0 /\ s[8] = 0
  BY SMT DEF v6_is_unspecified, ZeroTo
<1>7. s[8] <= 1 <=> s[8] = 0 \/ s[8] = 1
  BY <1>1, SMT
<1>8. SubSeq(s, 1, 6) \in Prefixes96 <=> embeds_v4(s) \/ (ZeroTo(s, 6) /\ s[7] = 0 /\ s[8] <= 1)
  BY PrefixOf DEF embeds_v4
<1>9. (v6_is_loopback(s) \/ v6_is_unspecified(s) \/ is_ipv4_mapped_private(s)) <=>
        (SubSeq(s, 1, 6) \in Prefixes96 /\ In(s[7], V4Ranges))
  BY <1>3, <1>4, <1>5, <1>6, <1>7, <1>8 DEF is_ipv4_mapped_private
<1> QED
  BY <1>2, <1>9

\* is_private_address blocks what PRIVATE_RANGES_DOC lists, for every address.
LEMMA PrivateIsDocumented ==
  ASSUME NEW a \in Known
  PROVE  is_private_address(a) <=> Documented(a)
<1>1. CASE a \in [family : {V4}, octets : [1..4 -> Octet]]
  <2>1. a.family = V4 /\ a.octets \in [1..4 -> Octet]
    BY <1>1
  <2>2. a.octets[1] \in Octet /\ a.octets[2] \in Octet
    BY <2>1, SMT
  <2>3. v4_is_blocked(a.octets) <=> In(a.octets[1] * 256 + a.octets[2], V4Ranges)
    BY <2>2, V4IsDocumented
  <2> QED
    BY <2>1, <2>3 DEF is_private_address, Documented
<1>2. CASE a \in [family : {V6}, segments : [1..8 -> Segment]]
  <2>1. a.family # V4 /\ a.segments \in [1..8 -> Segment]
    BY <1>2 DEF V4, V6
  <2> QED
    BY <2>1, V6IsDocumented DEF is_private_address, Documented
<1> QED
  BY <1>1, <1>2, KnownAreAddresses

\* What a call knows of addresses comes from the resolver.
AddressInv == dns \in Known /\ remote \in Known \cup {Unknown}

\* The address a name resolves to and the one a response came from are always
\* among the known addresses, or not known yet.
THEOREM AddressInvariant == AddressSpec => []AddressInv
<1>1. AddressInit => AddressInv
  BY DEF AddressInit, AddressInv
<1>2. AddressInv /\ [AddressNext]_addressVars => AddressInv'
  BY DEF AddressInv, AddressNext, addressVars, Rebind, ResolveName, Answer, Check
<1> QED
  BY <1>1, <1>2, PTL DEF AddressSpec

\* For every address there is, validate_resolved_addr refuses exactly the
\* documented ranges, and check_response_remote_addr catches a name that is
\* pointed into one of them after that, and refuses nothing else.
THEOREM AddressesAreGuardedHolds == AddressSpec => AddressesAreGuarded
<1>1. ASSUME AddressInv, [AddressNext]_addressVars
      PROVE  [phase' = "used" /\ remote' # Unknown /\ ~allow_private => ~Documented(remote')]_addressVars
  <2> SUFFICES ASSUME AddressNext, phase' = "used", remote' # Unknown, ~allow_private,
                      addressVars' # addressVars
               PROVE  ~Documented(remote')
    BY <1>1
  <2>1. Check /\ remote' = remote
    BY DEF AddressNext, Rebind, ResolveName, Answer, Check, addressVars, AddressInv
  <2>2. check_response_remote_addr(remote, allow_private)
    BY <2>1 DEF Check
  <2> QED
    BY <1>1, <2>1, <2>2, PrivateIsDocumented DEF check_response_remote_addr, AddressInv
<1>2. ASSUME AddressInv, [AddressNext]_addressVars
      PROVE  [ResolveName => (phase' = "refused" <=> ~allow_private /\ Documented(dns))]_addressVars
  BY <1>2, PrivateIsDocumented DEF ResolveName, validate_resolved_addr, AddressInv
<1>3. ASSUME AddressInv, [AddressNext]_addressVars
      PROVE  [Check /\ phase' = "refused" => remote # Unknown /\ Documented(remote)]_addressVars
  BY <1>3, PrivateIsDocumented DEF Check, check_response_remote_addr, AddressInv
<1> QED
  BY <1>1, <1>2, <1>3, AddressInvariant, PTL
  DEF AddressSpec, AddressesAreGuarded, RebindingIsCaught, BlocksWhatIsDocumented, PublicIsServed

(***************************************************************************)
(* merge_schema: what the operator says stands, the rest is kept           *)
(***************************************************************************)

\* Values of depth at most one.
Shallow == Atoms \cup ObjectsOf(Atoms)

\* An atom is null or a leaf.
LEMMA AtomKinds == \A v \in Atoms : v.t \in {"null", "leaf"}
BY DEF Atoms, Null, Leaf

\* The members of an object.
LEMMA MembersOf ==
  ASSUME NEW S, NEW v \in ObjectsOf(S)
  PROVE  /\ v.t = "object" /\ v = Object(v.m) /\ DOMAIN v.m \subseteq Keys
         /\ \A k \in DOMAIN v.m : v.m[k] \in S
BY DEF ObjectsOf, Object

\* A function on some keys is the members of an object.
LEMMA ObjectIn ==
  ASSUME NEW S, NEW D \in SUBSET Keys, NEW f \in [D -> S]
  PROVE  Object(f) \in ObjectsOf(S)
BY DEF ObjectsOf

\* The schemas are the atoms and the objects of shallow values, which are schemas.
LEMMA Depths == Shallow \subseteq Schemas /\ Schemas = Atoms \cup ObjectsOf(Shallow)
<1>1. Schemas = Atoms \cup ObjectsOf(Shallow)
  BY DEF Schemas, Shallow
<1>2. ASSUME NEW D \in SUBSET Keys, NEW f \in [D -> Atoms] PROVE Object(f) \in ObjectsOf(Shallow)
  <2>1. f \in [D -> Shallow]
    BY DEF Shallow
  <2> QED BY <2>1, ObjectIn
<1>3. ObjectsOf(Atoms) \subseteq ObjectsOf(Shallow)
  BY <1>2 DEF ObjectsOf
<1> QED BY <1>1, <1>3 DEF Shallow

\* One turn of merge_schema, with f for the recursive call.
MergeTurn(b, o, f) ==
  IF b.t = "object" /\ o.t = "object"
  THEN Object([k \in DOMAIN b.m \cup DOMAIN o.m |->
                 IF k \notin DOMAIN o.m THEN b.m[k]
                 ELSE IF k \notin DOMAIN b.m \/ b.m[k] = Null THEN o.m[k]
                 ELSE f[<<b.m[k], o.m[k]>>]])
  ELSE o

\* A turn of the merge asks the recursive call for nothing but the members both
\* objects have.
LEMMA TurnsAgree ==
  ASSUME NEW f, NEW g, NEW b, NEW o,
         b.t = "object" /\ o.t = "object" =>
           \A k \in DOMAIN b.m \cap DOMAIN o.m : f[<<b.m[k], o.m[k]>>] = g[<<b.m[k], o.m[k]>>]
  PROVE  MergeTurn(b, o, f) = MergeTurn(b, o, g)
<1>1. CASE ~(b.t = "object" /\ o.t = "object")
  BY <1>1 DEF MergeTurn
<1>2. CASE b.t = "object" /\ o.t = "object"
  <2>1. \A k \in DOMAIN b.m \cup DOMAIN o.m :
          (IF k \notin DOMAIN o.m THEN b.m[k]
                 ELSE IF k \notin DOMAIN b.m \/ b.m[k] = Null THEN o.m[k]
                 ELSE f[<<b.m[k], o.m[k]>>]) =
          (IF k \notin DOMAIN o.m THEN b.m[k]
                 ELSE IF k \notin DOMAIN b.m \/ b.m[k] = Null THEN o.m[k]
                 ELSE g[<<b.m[k], o.m[k]>>])
    BY <1>2
  <2> QED BY <1>2, <2>1 DEF MergeTurn
<1> QED BY <1>1, <1>2

\* The recursion of merge_schema ends: three turns are enough for values of depth
\* two, so the function it defines exists.
LEMMA MergeExists ==
  \E f : f = [p \in Schemas \X Schemas |-> MergeTurn(p[1], p[2], f)]
<1> DEFINE F0 == [p \in Schemas \X Schemas |-> p[2]]
           F1 == [p \in Schemas \X Schemas |-> MergeTurn(p[1], p[2], F0)]
           F2 == [p \in Schemas \X Schemas |-> MergeTurn(p[1], p[2], F1)]
<1>1. \A u, v \in Schemas : F0[<<u, v>>] = v /\ F1[<<u, v>>] = MergeTurn(u, v, F0) /\ F2[<<u, v>>] = MergeTurn(u, v, F1)
  OBVIOUS
<1>2. \A u, v \in Atoms : F0[<<u, v>>] = F1[<<u, v>>]
  <2> HIDE DEF F0, F1, F2
  <2> SUFFICES ASSUME NEW u \in Atoms, NEW v \in Atoms PROVE F0[<<u, v>>] = F1[<<u, v>>]
    OBVIOUS
  <2>1. u \in Schemas /\ v \in Schemas /\ u.t # "object"
    BY AtomKinds DEF Schemas
  <2>2. MergeTurn(u, v, F0) = v
    BY <2>1 DEF MergeTurn
  <2> QED BY <1>1, <2>1, <2>2
<1>3. \A u, v \in Shallow : F1[<<u, v>>] = F2[<<u, v>>]
  <2> HIDE DEF F0, F1, F2
  <2> SUFFICES ASSUME NEW u \in Shallow, NEW v \in Shallow PROVE F1[<<u, v>>] = F2[<<u, v>>]
    OBVIOUS
  <2>1. /\ u.t = "object" => \A k \in DOMAIN u.m : u.m[k] \in Atoms
        /\ v.t = "object" => \A k \in DOMAIN v.m : v.m[k] \in Atoms
    BY AtomKinds, MembersOf DEF Shallow
  <2>2. MergeTurn(u, v, F0) = MergeTurn(u, v, F1)
    BY <1>2, <2>1, TurnsAgree
  <2>3. u \in Schemas /\ v \in Schemas
    BY Depths
  <2> QED BY <1>1, <2>2, <2>3
<1>4. \A u, v \in Schemas : MergeTurn(u, v, F1) = MergeTurn(u, v, F2)
  <2> HIDE DEF F0, F1, F2
  <2> SUFFICES ASSUME NEW u \in Schemas, NEW v \in Schemas PROVE MergeTurn(u, v, F1) = MergeTurn(u, v, F2)
    OBVIOUS
  <2>1. /\ u.t = "object" => \A k \in DOMAIN u.m : u.m[k] \in Shallow
        /\ v.t = "object" => \A k \in DOMAIN v.m : v.m[k] \in Shallow
    BY AtomKinds, MembersOf, Depths
  <2> QED BY <1>3, <2>1, TurnsAgree
<1>5. F2 = [p \in Schemas \X Schemas |-> MergeTurn(p[1], p[2], F2)]
  <2> HIDE DEF F1
  <2> DEFINE G == [p \in Schemas \X Schemas |-> MergeTurn(p[1], p[2], F2)]
  <2> SUFFICES F2 = G OBVIOUS
  <2> QED BY <1>4
<1> QED BY <1>5

\* merge_schema is a turn whose recursive call is merge_schema.
LEMMA MergeIsTurn ==
  ASSUME NEW b \in Schemas, NEW o \in Schemas
  PROVE  \E f : /\ merge_schema(b, o) = MergeTurn(b, o, f)
                /\ \A u, v \in Schemas : f[<<u, v>>] = merge_schema(u, v)
<1> DEFINE F == CHOOSE f : f = [p \in Schemas \X Schemas |-> MergeTurn(p[1], p[2], f)]
<1>1. F = [p \in Schemas \X Schemas |-> MergeTurn(p[1], p[2], F)]
  BY MergeExists
<1>2. ASSUME NEW u, NEW v PROVE merge_schema(u, v) = F[<<u, v>>]
  BY DEF merge_schema, MergeTurn
<1> HIDE DEF F
<1>3. F[<<b, o>>] = MergeTurn(b, o, F)
  BY <1>1
<1> QED BY <1>2, <1>3

\* What merge_schema returns: the overlay, or the two objects member by member.
LEMMA Merged ==
  ASSUME NEW b \in Schemas, NEW o \in Schemas
  PROVE  LET r == merge_schema(b, o)
         IN /\ ~(b.t = "object" /\ o.t = "object") => r = o
            /\ b.t = "object" /\ o.t = "object" =>
                 /\ r.t = "object" /\ r = Object(r.m)
                 /\ r.m = [k \in DOMAIN b.m \cup DOMAIN o.m |-> r.m[k]]
                 /\ DOMAIN r.m = DOMAIN b.m \cup DOMAIN o.m
                 /\ \A k \in DOMAIN b.m \cup DOMAIN o.m :
                      r.m[k] = IF k \notin DOMAIN o.m THEN b.m[k]
                               ELSE IF k \notin DOMAIN b.m \/ b.m[k] = Null THEN o.m[k]
                               ELSE merge_schema(b.m[k], o.m[k])
<1> DEFINE r == merge_schema(b, o)
<1>1. PICK f : r = MergeTurn(b, o, f) /\ \A u, v \in Schemas : f[<<u, v>>] = merge_schema(u, v)
  BY MergeIsTurn
<1>2. CASE ~(b.t = "object" /\ o.t = "object")
  BY <1>1, <1>2 DEF MergeTurn
<1>3. CASE b.t = "object" /\ o.t = "object"
  <2>1. /\ \A k \in DOMAIN b.m : b.m[k] \in Schemas
        /\ \A k \in DOMAIN o.m : o.m[k] \in Schemas
    BY <1>3, AtomKinds, MembersOf, Depths
  <2> DEFINE g == [k \in DOMAIN b.m \cup DOMAIN o.m |->
                     IF k \notin DOMAIN o.m THEN b.m[k]
                     ELSE IF k \notin DOMAIN b.m \/ b.m[k] = Null THEN o.m[k]
                     ELSE f[<<b.m[k], o.m[k]>>]]
  <2>2. r = Object(g)
    BY <1>1, <1>3 DEF MergeTurn
  <2> HIDE DEF r
  <2>3. r.t = "object" /\ r.m = g
    BY <2>2 DEF Object
  <2>4. \A k \in DOMAIN b.m \cup DOMAIN o.m :
          r.m[k] = IF k \notin DOMAIN o.m THEN b.m[k]
                   ELSE IF k \notin DOMAIN b.m \/ b.m[k] = Null THEN o.m[k]
                   ELSE merge_schema(b.m[k], o.m[k])
    BY <1>1, <2>1, <2>3
  <2>5. r.m = [k \in DOMAIN b.m \cup DOMAIN o.m |-> r.m[k]]
    BY <2>3
  <2> QED BY <1>3, <2>2, <2>3, <2>4, <2>5 DEF r
<1> QED BY <1>2, <1>3

\* The member of a value under a key, or Missing.
Member(v, k) == IF v.t = "object" /\ k \in DOMAIN v.m THEN v.m[k] ELSE Missing

\* A merge is no deeper than what it merges.
LEMMA MergedDepths ==
  /\ \A b, o \in Atoms : merge_schema(b, o) \in Atoms
  /\ \A b, o \in Shallow : merge_schema(b, o) \in Shallow
  /\ \A b, o \in Schemas : merge_schema(b, o) \in Schemas
<1>1. ASSUME NEW b \in Atoms, NEW o \in Atoms PROVE merge_schema(b, o) \in Atoms
  <2>1. b \in Schemas /\ o \in Schemas /\ b.t # "object"
    BY Depths, AtomKinds
  <2> QED BY <2>1, Merged
<1>2. ASSUME NEW S, Atoms \subseteq S, Atoms \cup ObjectsOf(S) \subseteq Schemas, \A b, o \in S : merge_schema(b, o) \in S,
             NEW b \in Atoms \cup ObjectsOf(S), NEW o \in Atoms \cup ObjectsOf(S)
      PROVE  merge_schema(b, o) \in Atoms \cup ObjectsOf(S)
  <2> DEFINE r == merge_schema(b, o)
  <2>1. CASE ~(b.t = "object" /\ o.t = "object")
    <3>1. r = o
      BY <1>2, <2>1, Merged
    <3> QED BY <1>2, <3>1
  <2>2. CASE b.t = "object" /\ o.t = "object"
    <3>1. /\ DOMAIN b.m \subseteq Keys /\ DOMAIN o.m \subseteq Keys
          /\ \A k \in DOMAIN b.m : b.m[k] \in S
          /\ \A k \in DOMAIN o.m : o.m[k] \in S
      BY <1>2, <2>2, AtomKinds, MembersOf
    <3> DEFINE D == DOMAIN b.m \cup DOMAIN o.m
    <3>2. /\ r = Object(r.m) /\ r.m = [k \in D |-> r.m[k]]
          /\ \A k \in D : r.m[k] = IF k \notin DOMAIN o.m THEN b.m[k]
                               ELSE IF k \notin DOMAIN b.m \/ b.m[k] = Null THEN o.m[k]
                               ELSE merge_schema(b.m[k], o.m[k])
      BY <1>2, <2>2, Merged
    <3> HIDE DEF r
    <3>3. \A k \in D : r.m[k] \in S
      BY <1>2, <3>1, <3>2
    <3>4. r.m \in [D -> S] /\ D \in SUBSET Keys
      BY <3>1, <3>2, <3>3
    <3>5. Object(r.m) \in ObjectsOf(S)
      BY <3>4, ObjectIn
    <3> QED BY <3>2, <3>5 DEF r
  <2> QED BY <2>1, <2>2
<1>3. \A b, o \in Shallow : merge_schema(b, o) \in Shallow
  BY <1>1, <1>2, Depths DEF Shallow
<1>4. \A b, o \in Schemas : merge_schema(b, o) \in Schemas
  BY <1>2, <1>3, Depths DEF Shallow
<1> QED BY <1>1, <1>3, <1>4

\* One key down: where the overlay has an atom, so has the merge; where it has
\* nothing, the merge has the atom the base had.
LEMMA MergedMember ==
  ASSUME NEW b \in Schemas, NEW o \in Schemas, NEW k
  PROVE  /\ Member(o, k).t \in {"leaf", "null"} => Member(merge_schema(b, o), k) = Member(o, k)
         /\ o.t = "object" /\ Member(o, k) = Missing /\ Member(b, k).t \in {"leaf", "null"}
              => Member(merge_schema(b, o), k) = Member(b, k)
<1> DEFINE r == merge_schema(b, o)
<1>1. /\ b.t = "object" => \A x \in DOMAIN b.m : b.m[x] \in Schemas
      /\ o.t = "object" => \A x \in DOMAIN o.m : o.m[x] \in Schemas
  BY AtomKinds, MembersOf, Depths
<1>2. \A v \in Schemas : v # Missing /\ v.t # "missing"
  BY AtomKinds, MembersOf, Depths DEF Missing
<1>3. Missing.t = "missing"
  BY DEF Missing
<1>4. CASE ~(b.t = "object" /\ o.t = "object")
  <2>1. r = o
    BY <1>4, Merged
  <2> QED BY <1>3, <1>4, <2>1 DEF Member
<1>5. CASE b.t = "object" /\ o.t = "object"
  <2>1. /\ r.t = "object" /\ DOMAIN r.m = DOMAIN b.m \cup DOMAIN o.m
        /\ k \in DOMAIN r.m => r.m[k] = IF k \notin DOMAIN o.m THEN b.m[k]
                               ELSE IF k \notin DOMAIN b.m \/ b.m[k] = Null THEN o.m[k]
                               ELSE merge_schema(b.m[k], o.m[k])
    <3>1. r.t = "object" /\ DOMAIN r.m = DOMAIN b.m \cup DOMAIN o.m
      BY <1>5, Merged
    <3>2. \A x \in DOMAIN b.m \cup DOMAIN o.m :
            r.m[x] = IF x \notin DOMAIN o.m THEN b.m[x]
                     ELSE IF x \notin DOMAIN b.m \/ b.m[x] = Null THEN o.m[x]
                     ELSE merge_schema(b.m[x], o.m[x])
      BY <1>5, Merged
    <3> HIDE DEF r
    <3> QED BY <3>1, <3>2
  <2>2. ASSUME k \in DOMAIN o.m, k \in DOMAIN b.m, o.m[k].t \in {"leaf", "null"}
        PROVE  merge_schema(b.m[k], o.m[k]) = o.m[k]
    BY <1>1, <1>5, <2>2, Merged
  <2> HIDE DEF r
  <2>3. ASSUME Member(o, k).t \in {"leaf", "null"} PROVE Member(r, k) = Member(o, k)
    <3>1. k \in DOMAIN o.m /\ Member(o, k) = o.m[k]
      BY <1>3, <1>5, <2>3 DEF Member
    <3> QED BY <2>1, <2>2, <2>3, <3>1 DEF Member
  <2>4. ASSUME Member(o, k) = Missing, Member(b, k).t \in {"leaf", "null"}
        PROVE  Member(r, k) = Member(b, k)
    <3>1. k \in DOMAIN b.m /\ Member(b, k) = b.m[k]
      BY <1>3, <1>5, <2>4 DEF Member
    <3>2. k \notin DOMAIN o.m
      BY <1>1, <1>2, <1>5, <2>4 DEF Member
    <3> QED BY <2>1, <3>1, <3>2 DEF Member
  <2> QED BY <2>3, <2>4 DEF r
<1> QED BY <1>4, <1>5

\* The paths, and what At means by each.
LEMMA PathsOf ==
  ASSUME NEW p \in Paths
  PROVE  \/ Len(p) = 0 /\ \A v : At(v, p) = v
         \/ Len(p) = 1 /\ \A v : At(v, p) = Member(v, p[1])
         \/ Len(p) = 2 /\ \A v : At(v, p) = Member(Member(v, p[1]), p[2])
<1>1. PICK n \in 0..2 : p \in [1..n -> Keys]
  BY DEF Paths
<1>2. p \in Seq(Keys) /\ Len(p) = n
  BY <1>1
<1>3. n = 0 \/ n = 1 \/ n = 2
  BY <1>1
<1>4. CASE n = 0
  BY <1>2, <1>4 DEF At
<1>5. CASE n = 1
  BY <1>2, <1>5 DEF At, Member
<1>6. CASE n = 2
  BY <1>2, <1>6 DEF At, Member
<1> QED BY <1>2, <1>3, <1>4, <1>5, <1>6

\* What At means by the paths further up.
LEMMA AboveOf ==
  ASSUME NEW p \in Paths, NEW v
  PROVE  /\ Len(p) > 0 => 0 \in 0..(Len(p) - 1) /\ At(v, SubSeq(p, 1, 0)) = v
         /\ Len(p) = 2 => 1 \in 0..(Len(p) - 1) /\ At(v, SubSeq(p, 1, 1)) = Member(v, p[1])
<1>1. PICK n \in 0..2 : p \in [1..n -> Keys]
  BY DEF Paths
<1>2. p \in Seq(Keys) /\ Len(p) = n
  BY <1>1
<1>3. Len(SubSeq(p, 1, 0)) = 0
  BY <1>2
<1>4. ASSUME n = 2 PROVE Len(SubSeq(p, 1, 1)) = 1 /\ SubSeq(p, 1, 1)[1] = p[1]
  BY <1>2, <1>4
<1>5. At(v, SubSeq(p, 1, 0)) = v
  BY <1>3 DEF At
<1>6. n = 2 => At(v, SubSeq(p, 1, 1)) = Member(v, p[1])
  BY <1>4 DEF At, Member
<1> QED BY <1>2, <1>5, <1>6

\* Overlay: the merge is exact at every path, by the member lemma once per key
\* of the path.
LEMMA OverlayKeepsExact ==
  ASSUME SchemaTypeOK, NEW o \in Schemas, Overlay(o)
  PROVE  SchemaTypeOK' /\ MergeIsExact'
<1> DEFINE b == schema
           r == merge_schema(b, o)
<1>1. schema' = r /\ previous' = b /\ overlay' = o /\ b \in Schemas
  BY DEF Overlay, SchemaTypeOK
<1>2. r \in Schemas
  BY <1>1, MergedDepths
<1>3. /\ \A v \in Schemas : v # Missing /\ v.t # "missing"
      /\ Missing.t = "missing"
      /\ \A v \in Schemas : \A k : v.t = "object" /\ k \in DOMAIN v.m => v.m[k] \in Schemas
  <2>1. \A v \in Schemas : \A k : v.t = "object" /\ k \in DOMAIN v.m => v.m[k] \in Schemas
    BY AtomKinds, MembersOf, Depths
  <2>2. \A v \in Schemas : v # Missing /\ v.t # "missing"
    BY AtomKinds, MembersOf, Depths DEF Missing
  <2> QED BY <2>1, <2>2 DEF Missing
<1>4. ASSUME ~(b.t = "object" /\ o.t = "object") PROVE r = o
  BY <1>1, <1>4, Merged
<1>5. ASSUME b.t = "object", o.t = "object", NEW k
      PROVE  /\ r.t = "object" /\ DOMAIN r.m = DOMAIN b.m \cup DOMAIN o.m
             /\ k \in DOMAIN r.m => r.m[k] = IF k \notin DOMAIN o.m THEN b.m[k]
                               ELSE IF k \notin DOMAIN b.m \/ b.m[k] = Null THEN o.m[k]
                               ELSE merge_schema(b.m[k], o.m[k])
  <2>1. r.t = "object" /\ DOMAIN r.m = DOMAIN b.m \cup DOMAIN o.m
    BY <1>1, <1>5, Merged
  <2>2. \A x \in DOMAIN b.m \cup DOMAIN o.m :
          r.m[x] = IF x \notin DOMAIN o.m THEN b.m[x]
                   ELSE IF x \notin DOMAIN b.m \/ b.m[x] = Null THEN o.m[x]
                   ELSE merge_schema(b.m[x], o.m[x])
    BY <1>1, <1>5, Merged
  <2> HIDE DEF r, b
  <2> QED BY <2>1, <2>2
<1>6. \A k : /\ Member(o, k).t \in {"leaf", "null"} => Member(r, k) = Member(o, k)
             /\ o.t = "object" /\ Member(o, k) = Missing /\ Member(b, k).t \in {"leaf", "null"}
                  => Member(r, k) = Member(b, k)
  BY <1>1, MergedMember
<1> HIDE DEF r, b
<1>7. ASSUME NEW k, NEW l, Member(Member(o, k), l).t \in {"leaf", "null"}
      PROVE  Member(Member(r, k), l) = Member(Member(o, k), l)
  <2>1. Member(o, k).t = "object" /\ o.t = "object" /\ k \in DOMAIN o.m /\ Member(o, k) = o.m[k]
    BY <1>3, <1>7 DEF Member
  <2>2. CASE b.t # "object"
    BY <1>4, <2>2
  <2>3. CASE b.t = "object" /\ (k \notin DOMAIN b.m \/ b.m[k] = Null)
    <3>1. Member(r, k) = o.m[k]
      BY <1>5, <2>1, <2>3 DEF Member
    <3> QED BY <2>1, <3>1
  <2>4. CASE b.t = "object" /\ k \in DOMAIN b.m /\ b.m[k] # Null
    <3>1. Member(r, k) = merge_schema(b.m[k], o.m[k])
      BY <1>5, <2>1, <2>4 DEF Member
    <3>2. b.m[k] \in Schemas /\ o.m[k] \in Schemas
      BY <1>1, <1>3, <2>1, <2>4
    <3> QED BY <1>7, <2>1, <3>1, <3>2, MergedMember
  <2> QED BY <2>2, <2>3, <2>4
<1>8. ASSUME NEW k, NEW l, Member(Member(b, k), l).t \in {"leaf", "null"},
             Member(Member(o, k), l) = Missing, o.t = "object", Member(o, k).t \in {"object", "missing"}
      PROVE  Member(Member(r, k), l) = Member(Member(b, k), l)
  <2>1. Member(b, k).t = "object" /\ b.t = "object" /\ k \in DOMAIN b.m /\ Member(b, k) = b.m[k]
    BY <1>3, <1>8 DEF Member
  <2>2. CASE k \notin DOMAIN o.m
    <3>1. Member(r, k) = b.m[k]
      BY <1>5, <1>8, <2>1, <2>2 DEF Member
    <3> QED BY <2>1, <3>1
  <2>3. CASE k \in DOMAIN o.m
    <3>1. o.m[k] \in Schemas /\ b.m[k] \in Schemas /\ Member(o, k) = o.m[k] /\ b.m[k] # Null
      BY <1>1, <1>3, <1>8, <2>1, <2>3 DEF Member, Null
    <3>2. o.m[k].t = "object"
      BY <1>3, <1>8, <3>1
    <3>3. Member(r, k) = merge_schema(b.m[k], o.m[k])
      BY <1>5, <1>8, <2>1, <2>3, <3>1 DEF Member
    <3> QED BY <1>8, <2>1, <3>1, <3>2, <3>3, MergedMember
  <2> QED BY <2>2, <2>3
<1>9. ASSUME NEW p \in Paths, At(o, p).t \in {"leaf", "null"}
      PROVE  At(r, p) = At(o, p)
  <2>1. CASE Len(p) = 0 /\ \A v : At(v, p) = v
    BY <1>4, <1>9, <2>1
  <2>2. CASE Len(p) = 1 /\ \A v : At(v, p) = Member(v, p[1])
    BY <1>6, <1>9, <2>2
  <2>3. CASE Len(p) = 2 /\ \A v : At(v, p) = Member(Member(v, p[1]), p[2])
    BY <1>7, <1>9, <2>3
  <2> QED BY <2>1, <2>2, <2>3, PathsOf
<1>10. ASSUME NEW p \in Paths, At(b, p).t \in {"leaf", "null"}, At(o, p) = Missing,
              \A n \in 0..(Len(p) - 1) : At(o, SubSeq(p, 1, n)).t \in {"object", "missing"}
       PROVE  At(r, p) = At(b, p)
  <2>1. CASE Len(p) = 0 /\ \A v : At(v, p) = v
    BY <1>3, <1>10, <2>1
  <2>2. CASE Len(p) = 1 /\ \A v : At(v, p) = Member(v, p[1])
    <3>1. o.t \in {"object", "missing"}
      BY <1>10, <2>2, AboveOf
    <3> QED BY <1>3, <1>6, <1>10, <2>2, <3>1
  <2>3. CASE Len(p) = 2 /\ \A v : At(v, p) = Member(Member(v, p[1]), p[2])
    <3>1. o.t \in {"object", "missing"} /\ Member(o, p[1]).t \in {"object", "missing"}
      BY <1>10, <2>3, AboveOf
    <3>2. o.t = "object"
      BY <1>3, <3>1
    <3> QED BY <1>8, <1>10, <2>3, <3>1, <3>2
  <2> QED BY <2>1, <2>2, <2>3, PathsOf
<1>11. OverlayWins'
  BY <1>1, <1>9 DEF OverlayWins, At, Missing, Paths
<1>12. RestIsKept'
  <2>1. \A p : /\ At(previous, p)' = At(b, p) /\ At(overlay, p)' = At(o, p) /\ At(schema, p)' = At(r, p)
    BY <1>1 DEF At, Missing
  <2>2. \A p, n : At(overlay, SubSeq(p, 1, n))' = At(o, SubSeq(p, 1, n))
    BY <1>1 DEF At, Missing
  <2> QED BY <1>10, <2>1, <2>2 DEF RestIsKept, Missing
<1> QED BY <1>1, <1>2, <1>11, <1>12 DEF SchemaTypeOK, MergeIsExact

\* The empty object is a schema.
LEMMA EmptyIsSchema == Object(<<>>) \in Schemas
<1>1. <<>> \in [{} -> Shallow]
  OBVIOUS
<1>2. Object(<<>>) \in ObjectsOf(Shallow)
  BY <1>1, ObjectIn
<1> QED BY <1>2, Depths

\* A derived schema is a schema, and no overlay has touched it.
LEMMA SchemaInvInit == SchemaInit => SchemaTypeOK /\ MergeIsExact
<1> SUFFICES ASSUME SchemaInit PROVE SchemaTypeOK /\ MergeIsExact
  OBVIOUS
<1>1. schema \in Schemas /\ previous = schema /\ overlay = Object(<<>>)
  BY DEF SchemaInit, Schemas
<1>2. Object(<<>>) \in Schemas
  BY EmptyIsSchema
<1>3. \A k : Member(overlay, k) = Missing
  BY <1>1 DEF Member, Object
<1>4. Missing.t = "missing" /\ overlay.t = "object" /\ \A k : Member(Missing, k) = Missing
  BY <1>1 DEF Member, Object, Missing
<1>5. \A p \in Paths : At(overlay, p).t \in {"object", "missing"}
  BY <1>3, <1>4, PathsOf
<1> QED BY <1>1, <1>2, <1>5 DEF SchemaTypeOK, MergeIsExact, OverlayWins, RestIsKept

\* An overlay keeps the schema a schema and exact.
LEMMA SchemaStep == SchemaTypeOK /\ MergeIsExact /\ [SchemaNext]_schemaVars => (SchemaTypeOK /\ MergeIsExact)'
<1>1. ASSUME SchemaTypeOK, MergeIsExact, UNCHANGED schemaVars PROVE (SchemaTypeOK /\ MergeIsExact)'
  BY <1>1 DEF schemaVars, SchemaTypeOK, MergeIsExact, OverlayWins, RestIsKept
<1> QED BY <1>1, OverlayKeepsExact DEF SchemaNext

\* The schema is of its type and the last merge was exact, in every state.
LEMMA SchemaInvariant == SchemaSpec => [](SchemaTypeOK /\ MergeIsExact)
BY SchemaInvInit, SchemaStep, PTL DEF SchemaSpec

\* merge_schema keeps schemas schemas, however often the operator overlays one.
THEOREM SchemaTypeCorrect == SchemaSpec => []SchemaTypeOK
BY SchemaInvariant, PTL

\* After every overlay, merge_schema has taken the operator's atom at every path
\* that has one and kept the schema's at every path the overlay leaves alone.
THEOREM MergeIsExactAlways == SchemaSpec => []MergeIsExact
BY SchemaInvariant, PTL

(***************************************************************************)
(* tools/list: what the chain makes of the registry                        *)
(***************************************************************************)

\* Pushing a tag that is not there.
LEMMA AppendNew ==
  ASSUME NEW T, NEW s \in Seq(T), IsInjective(s), NEW t \in T, ~Contains(s, t)
  PROVE  /\ Append(s, t) \in Seq(T) /\ IsInjective(Append(s, t))
         /\ Range(Append(s, t)) = Range(s) \cup {t}
<1> DEFINE r == Append(s, t)
<1>1. /\ r \in Seq(T) /\ Len(r) = Len(s) + 1 /\ Len(s) \in Nat
      /\ DOMAIN r = 1..(Len(s) + 1) /\ DOMAIN s = 1..Len(s)
      /\ \A i \in 1..Len(s) : r[i] = s[i]
      /\ r[Len(s) + 1] = t
  OBVIOUS
<1> HIDE DEF r
<1>2. IsInjective(r)
  <2> SUFFICES ASSUME NEW i \in 1..(Len(s) + 1), NEW j \in 1..(Len(s) + 1), r[i] = r[j] PROVE i = j
    BY <1>1 DEF IsInjective
  <2>1. \A k \in 1..Len(s) : s[k] # t
    BY DEF Contains
  <2>2. \A k \in 1..(Len(s) + 1) : k \in 1..Len(s) \/ k = Len(s) + 1
    BY <1>1
  <2> QED BY <1>1, <2>1, <2>2 DEF IsInjective
<1>3. Range(r) = Range(s) \cup {t}
  <2>1. \A k \in 1..(Len(s) + 1) : k \in 1..Len(s) \/ k = Len(s) + 1
    BY <1>1
  <2>2. Len(s) + 1 \in 1..(Len(s) + 1) /\ 1..Len(s) \subseteq 1..(Len(s) + 1)
    BY <1>1
  <2> QED BY <1>1, <2>1, <2>2 DEF Range
<1> QED BY <1>1, <1>2, <1>3 DEF r

\* The loop over the incoming tags: by induction on its turns, every tag so far is
\* there, once.
LEMMA PushNewOf ==
  ASSUME NEW T, NEW tags \in Seq(T), NEW incoming \in Seq(T), IsInjective(tags)
  PROVE  /\ push_new(tags, incoming) \in Seq(T) /\ IsInjective(push_new(tags, incoming))
         /\ Range(push_new(tags, incoming)) = Range(tags) \cup Range(incoming)
<1> DEFINE L == Len(incoming)
           turn == [p \in Seq(T) \X (1..L) |->
                      IF Contains(p[1], incoming[p[2]]) THEN p[1] ELSE Append(p[1], incoming[p[2]])]
           Is(f) == f = [n \in 0..L |->
                          IF n = 0 THEN tags
                          ELSE IF Contains(f[n - 1], incoming[n]) THEN f[n - 1]
                          ELSE Append(f[n - 1], incoming[n])]
           a == CHOOSE f : Is(f)
<1>1. L \in Nat /\ \A n \in 1..L : incoming[n] \in T
  OBVIOUS
<1>2. turn \in [Seq(T) \X (1..L) -> Seq(T)]
  OBVIOUS
<1>3. \E f : Is(f)
  <2> HIDE DEF turn, L
  <2>1. PICK f \in [0..L -> Seq(T)] : f[0] = tags /\ \A n \in 1..L : f[n] = turn[<<f[n - 1], n>>]
    <3>1. turn \in Turns(Seq(T), L)
      BY <1>2 DEF Turns
    <3>2. \E f : Follows(f, Seq(T), tags, L, turn)
      BY <1>1, <3>1, Recursion
    <3> QED BY <3>2 DEF Follows
  <2>2. ASSUME NEW n \in 1..L
        PROVE  f[n] = IF Contains(f[n - 1], incoming[n]) THEN f[n - 1] ELSE Append(f[n - 1], incoming[n])
    <3>1. f[n - 1] \in Seq(T)
      BY <1>1
    <3>2. turn[<<f[n - 1], n>>] = IF Contains(f[n - 1], incoming[n]) THEN f[n - 1] ELSE Append(f[n - 1], incoming[n])
      BY <3>1 DEF turn
    <3> QED BY <2>1, <3>2
  <2>3. \A n \in 0..L : n = 0 \/ n \in 1..L
    BY <1>1
  <2>4. f = [n \in 0..L |-> f[n]]
    OBVIOUS
  <2> QED BY <2>1, <2>2, <2>3, <2>4
<1>4. Is(a)
  <2> HIDE DEF Is
  <2> QED BY <1>3
<1>5. push_new(tags, incoming) = a[L]
  BY DEF push_new
<1>6. a[0] = tags /\ \A n \in 1..L : a[n] = IF Contains(a[n - 1], incoming[n]) THEN a[n - 1]
                                            ELSE Append(a[n - 1], incoming[n])
  <2> HIDE DEF a, L
  <2>1. 0 \in 0..L /\ \A n \in 1..L : n \in 0..L /\ n # 0
    BY <1>1
  <2> QED BY <1>4, <2>1
<1> DEFINE Good(n) == /\ a[n] \in Seq(T) /\ IsInjective(a[n])
                      /\ Range(a[n]) = Range(tags) \cup {incoming[i] : i \in 1..n}
           S == {n \in Nat : n <= L => Good(n)}
<1> HIDE DEF a, L, Is, turn
<1>7. 0 \in S
  <2>1. {incoming[i] : i \in 1..0} = {}
    OBVIOUS
  <2> QED BY <1>6, <2>1
<1>8. ASSUME NEW n \in S PROVE n + 1 \in S
  <2> SUFFICES ASSUME n + 1 <= L PROVE Good(n + 1)
    BY <1>8
  <2>1. n \in Nat /\ n + 1 \in 1..L /\ n <= L /\ (n + 1) - 1 = n
    BY <1>1, <1>8
  <2>2. Good(n)
    BY <1>8, <2>1
  <2> DEFINE t == incoming[n + 1]
             done == {incoming[i] : i \in 1..n}
  <2>3. {incoming[i] : i \in 1..(n + 1)} = done \cup {t}
    <3>1. \A i \in 1..(n + 1) : i \in 1..n \/ i = n + 1
      BY <2>1
    <3>2. 1..n \subseteq 1..(n + 1) /\ n + 1 \in 1..(n + 1)
      BY <2>1
    <3> QED BY <3>1, <3>2
  <2>4. t \in T
    BY <1>1, <2>1
  <2>5. a[n + 1] = IF Contains(a[n], t) THEN a[n] ELSE Append(a[n], t)
    BY <1>6, <2>1
  <2> HIDE DEF t, done
  <2>6. CASE Contains(a[n], t)
    <3>1. t \in Range(a[n])
      BY <2>2, <2>6 DEF Contains, Range
    <3> QED BY <2>2, <2>3, <2>5, <2>6, <3>1 DEF done
  <2>7. CASE ~Contains(a[n], t)
    <3>1. /\ Append(a[n], t) \in Seq(T) /\ IsInjective(Append(a[n], t))
          /\ Range(Append(a[n], t)) = Range(a[n]) \cup {t}
      BY <2>2, <2>4, <2>7, AppendNew
    <3> QED BY <2>2, <2>3, <2>5, <2>7, <3>1 DEF done
  <2> QED BY <2>6, <2>7
<1>9. S = Nat
  <2>1. S \in SUBSET Nat
    OBVIOUS
  <2> HIDE DEF S
  <2> QED BY <1>7, <1>8, <2>1, Induction
<1>10. Good(L)
  <2> HIDE DEF Good
  <2> QED BY <1>1, <1>9
<1>11. {incoming[i] : i \in 1..L} = Range(incoming)
  BY DEF Range, L
<1> QED BY <1>5, <1>10, <1>11

\* The tags providers may bring.
ProviderTags == UNION {Range(md.tags) : md \in Metadata}

\* v is the first value the first n providers have for scalar f of tool t, None
\* when they have none.
FirstOf(t, n, f, v) ==
  \/ v = Unset /\ \A m \in 1..n : chain[m].holds[t].scalars[f] = Unset
  \/ \E k \in 1..n : /\ chain[k].holds[t].scalars[f] # Unset /\ v = chain[k].holds[t].scalars[f]
                     /\ \A m \in 1..(k - 1) : chain[m].holds[t].scalars[f] = Unset

\* Provider m of the chain does not let a caller of level c see tool t: it hides
\* it, or the trust the providers up to m ask for is more than the caller has.
Withheld(c, m, t) ==
  \/ t \in chain[m].hides
  \/ chain[m].checks_trust /\ \E r : FirstOf(t, m, "trust_required", r) /\ r # Unset /\ ~trust_level_meets(c, r)

\* What the first n providers let a caller of level c see.
Visible(c, n) == {t \in Tools : \A m \in 1..n : ~Withheld(c, m, t)}

\* Metadata on the list has every scalar field and a sequence of tags.
ShapeInv ==
  \A t \in DOMAIN list :
    /\ list[t].catalog.scalars = [f \in Scalars |-> list[t].catalog.scalars[f]]
    /\ list[t].catalog.tags \in Seq(ProviderTags)

\* Each scalar is that of the first provider that has one.
ScalarInv == \A t \in DOMAIN list, f \in Scalars : FirstOf(t, at, f, list[t].catalog.scalars[f])

\* Each attribute is that of the first provider that has its key.
AttributeInv ==
  \A t \in DOMAIN list :
    LET a == list[t].catalog.attributes
    IN /\ DOMAIN a = UNION {DOMAIN chain[n].holds[t].attributes : n \in 1..at}
       /\ \A k \in DOMAIN a : \E n \in 1..at :
            /\ k \in DOMAIN chain[n].holds[t].attributes
            /\ a[k] = chain[n].holds[t].attributes[k]
            /\ \A m \in 1..(n - 1) : k \notin DOMAIN chain[m].holds[t].attributes

\* The tags are the providers', each once.
TagInv ==
  \A t \in DOMAIN list :
    /\ Range(list[t].catalog.tags) = UNION {Range(chain[n].holds[t].tags) : n \in 1..at}
    /\ IsInjective(list[t].catalog.tags)

\* The list is what the providers so far let the caller see: it depends on the
\* chain and the trust level, on nothing else.
ListInv == IF caller = Unset THEN DOMAIN list = {} ELSE DOMAIN list = Visible(caller, at)

\* What a caller was shown is what the whole chain lets its level see.
ShownInv == \A c \in DOMAIN shown : shown[c] = Visible(c, Len(chain))

\* The inductive invariant of a tools/list request.
CatalogInv ==
  CatalogTypeOK /\ ShapeInv /\ ScalarInv /\ AttributeInv /\ TagInv /\ ListInv /\ ShownInv

\* There is one first value.
LEMMA FirstIsOne ==
  ASSUME NEW t, NEW n \in Nat, NEW f, NEW v, NEW w, FirstOf(t, n, f, v), FirstOf(t, n, f, w)
  PROVE  v = w
<1>1. CASE v = Unset /\ \A m \in 1..n : chain[m].holds[t].scalars[f] = Unset
  BY <1>1 DEF FirstOf
<1>2. ASSUME NEW k \in 1..n, chain[k].holds[t].scalars[f] # Unset, v = chain[k].holds[t].scalars[f],
             \A m \in 1..(k - 1) : chain[m].holds[t].scalars[f] = Unset
      PROVE  v = w
  <2>1. PICK l \in 1..n : /\ chain[l].holds[t].scalars[f] # Unset /\ w = chain[l].holds[t].scalars[f]
                          /\ \A m \in 1..(l - 1) : chain[m].holds[t].scalars[f] = Unset
    BY <1>2 DEF FirstOf
  <2>2. ~(k < l) /\ ~(l < k)
    BY <1>2, <2>1
  <2>3. k = l
    BY <2>2
  <2> QED BY <1>2, <2>1, <2>3
<1> QED BY <1>1, <1>2 DEF FirstOf

\* What one level sees, a level of no lower rank sees.
LEMMA Monotone ==
  ASSUME NEW c, NEW d, trust_level_rank(c) <= trust_level_rank(d), NEW n
  PROVE  Visible(c, n) \subseteq Visible(d, n)
<1>1. \A l : trust_level_rank(l) \in {-1, 0, 1, 2}
  BY DEF trust_level_rank
<1>2. \A r : trust_level_meets(c, r) => trust_level_meets(d, r)
  BY <1>1 DEF trust_level_meets
<1> QED BY <1>2 DEF Visible, Withheld

\* What a provider of the chain holds for a tool.
LEMMA ProviderOf ==
  ASSUME CatalogTypeOK, NEW n \in 1..Len(chain), NEW t \in Tools
  PROVE  /\ chain[n] \in Providers /\ chain[n].holds[t] \in Metadata
         /\ chain[n].holds[t].scalars = [f \in Scalars |-> chain[n].holds[t].scalars[f]]
         /\ chain[n].holds[t].tags \in Seq(ProviderTags)
<1>1. chain \in Seq(Providers)
  BY ChainsAreProviders DEF CatalogTypeOK
<1>2. chain[n] \in Providers
  BY <1>1
<1>3. chain[n].holds[t] \in Metadata
  BY <1>2 DEF Providers
<1> DEFINE md == chain[n].holds[t]
<1>4. md.scalars = [f \in Scalars |-> md.scalars[f]] /\ md.tags \in Seq(Range(md.tags))
  BY <1>3, MetadataIsWhole
<1>5. Range(md.tags) \subseteq ProviderTags
  BY <1>3 DEF ProviderTags
<1>6. \A s, A, B : A \subseteq B /\ s \in Seq(A) => s \in Seq(B)
  OBVIOUS
<1> HIDE DEF md
<1>7. md.tags \in Seq(ProviderTags)
  BY <1>4, <1>5, <1>6
<1> QED BY <1>2, <1>3, <1>4, <1>7 DEF md

\* The first value, with one provider more.
LEMMA FirstNext ==
  ASSUME NEW t, NEW n \in Nat, NEW f, NEW v, FirstOf(t, n, f, v)
  PROVE  FirstOf(t, n + 1, f, IF v = Unset THEN chain[n + 1].holds[t].scalars[f] ELSE v)
<1> DEFINE w == chain[n + 1].holds[t].scalars[f]
<1>1. CASE v = Unset /\ \A m \in 1..n : chain[m].holds[t].scalars[f] = Unset
  <2>1. CASE w = Unset
    <3>1. \A m \in 1..(n + 1) : m \in 1..n \/ m = n + 1
      OBVIOUS
    <3> QED BY <1>1, <2>1, <3>1 DEF FirstOf
  <2>2. CASE w # Unset
    <3>1. n + 1 \in 1..(n + 1) /\ 1..(n + 1 - 1) = 1..n
      OBVIOUS
    <3> QED BY <1>1, <2>2, <3>1 DEF FirstOf
  <2> QED BY <2>1, <2>2
<1>2. ASSUME NEW k \in 1..n, chain[k].holds[t].scalars[f] # Unset, v = chain[k].holds[t].scalars[f],
             \A m \in 1..(k - 1) : chain[m].holds[t].scalars[f] = Unset
      PROVE  FirstOf(t, n + 1, f, IF v = Unset THEN w ELSE v)
  <2>1. k \in 1..(n + 1)
    OBVIOUS
  <2> QED BY <1>2, <2>1 DEF FirstOf
<1> QED BY <1>1, <1>2 DEF FirstOf

\* What is visible, with one provider more.
LEMMA VisibleNext ==
  ASSUME NEW c, NEW n \in Nat
  PROVE  Visible(c, n + 1) = {t \in Visible(c, n) : ~Withheld(c, n + 1, t)}
<1>1. 1..(n + 1) = 1..n \cup {n + 1}
  OBVIOUS
<1> QED BY <1>1 DEF Visible

\* filter_and_enrich: one provider more has had its say about every tool listed.
LEMMA EnrichKeepsInv ==
  ASSUME CatalogInv, filter_and_enrich
  PROVE  CatalogInv'
<1> DEFINE n == at + 1
           p == chain[n]
           kept == {u \in DOMAIN list : ~Drops(p, u)}
<1>1. /\ at \in Nat /\ at \in 0..Len(chain) /\ at < Len(chain) /\ Len(chain) \in Nat
      /\ caller # Unset /\ DOMAIN list \subseteq Tools
  <2>1. chain \in Seq(Providers)
    BY ChainsAreProviders DEF CatalogInv, CatalogTypeOK
  <2>2. Len(chain) \in Nat
    BY <2>1
  <2> QED BY <2>2 DEF filter_and_enrich, CatalogInv, CatalogTypeOK
<1>2. n \in 1..Len(chain) /\ n \in 0..Len(chain) /\ n \in Nat
  BY <1>1
<1>3. /\ list' = [t \in kept |-> Enrich(p, t)] /\ at' = n
      /\ chain' = chain /\ caller' = caller /\ shown' = shown
  BY DEF filter_and_enrich
<1>4. DOMAIN list' = kept /\ \A t \in kept : list'[t] = Enrich(p, t)
  BY <1>3
<1>5. ASSUME NEW t \in DOMAIN list
      PROVE  LET md == list[t].catalog
                 inc == p.holds[t]
                 r == Enrich(p, t).catalog
             IN /\ t \in Tools
                /\ Enrich(p, t).enriched <=> ~is_empty(r)
                /\ r.scalars = [f \in Scalars |-> r.scalars[f]] /\ DOMAIN r.scalars = Scalars
                /\ \A f \in Scalars : FirstOf(t, n, f, r.scalars[f])
                /\ r.tags \in Seq(ProviderTags) /\ IsInjective(r.tags)
                /\ Range(r.tags) = Range(md.tags) \cup Range(inc.tags)
                /\ DOMAIN r.attributes = DOMAIN md.attributes \cup DOMAIN inc.attributes
                /\ \A k \in DOMAIN r.attributes :
                     r.attributes[k] = IF k \in DOMAIN md.attributes THEN md.attributes[k]
                                       ELSE inc.attributes[k]
  <2> DEFINE md == list[t].catalog
             inc == p.holds[t]
             r == Enrich(p, t).catalog
  <2>1. t \in Tools
    BY <1>1
  <2>2. r = merge_from(md, inc) /\ (Enrich(p, t).enriched <=> ~is_empty(r))
    BY DEF Enrich
  <2>3. "owner" \in Scalars
    BY DEF Scalars
  <2> HIDE DEF r, md, inc
  <2>4. /\ r.scalars = [f \in Scalars |-> r.scalars[f]] /\ r.tags = push_new(md.tags, inc.tags)
        /\ DOMAIN r.attributes = DOMAIN md.attributes \cup DOMAIN inc.attributes
        /\ \A k \in DOMAIN r.attributes :
             r.attributes[k] = IF k \in DOMAIN md.attributes THEN md.attributes[k]
                               ELSE inc.attributes[k]
    BY <2>2 DEF merge_from, CatalogMetadata
  <2>5. ASSUME NEW f \in Scalars PROVE FirstOf(t, n, f, r.scalars[f])
    <3>1. FirstOf(t, at, f, md.scalars[f])
      BY DEF CatalogInv, ScalarInv, md
    <3>2. r.scalars[f] = IF md.scalars[f] = Unset THEN inc.scalars[f] ELSE md.scalars[f]
      BY <2>2 DEF merge_from, CatalogMetadata
    <3>3. FirstOf(t, at + 1, f, IF md.scalars[f] = Unset THEN chain[at + 1].holds[t].scalars[f] ELSE md.scalars[f])
      BY <1>1, <3>1, FirstNext
    <3> QED BY <3>2, <3>3 DEF inc
  <2>6. md.tags \in Seq(ProviderTags) /\ IsInjective(md.tags)
    BY DEF CatalogInv, ShapeInv, TagInv, md
  <2>7. inc.tags \in Seq(ProviderTags)
    BY <1>2, <2>1, ProviderOf DEF CatalogInv, inc
  <2>8. /\ r.tags \in Seq(ProviderTags) /\ IsInjective(r.tags)
        /\ Range(r.tags) = Range(md.tags) \cup Range(inc.tags)
    BY <2>4, <2>6, <2>7, PushNewOf
  <2>9. DOMAIN r.scalars = Scalars
    BY <2>4
  <2> QED BY <2>1, <2>2, <2>4, <2>5, <2>8, <2>9 DEF r, md, inc
<1> HIDE DEF p, n
<1>6. ASSUME NEW t \in DOMAIN list PROVE Drops(p, t) <=> Withheld(caller, n, t)
  <2> DEFINE r == Enrich(p, t).catalog.scalars["trust_required"]
  <2>1. FirstOf(t, n, "trust_required", r)
    <3>1. "trust_required" \in Scalars
      BY DEF Scalars
    <3> QED BY <1>5, <3>1
  <2>2. Drops(p, t) <=> t \in p.hides \/ (p.checks_trust /\ r # Unset /\ ~trust_level_meets(caller, r))
    BY DEF Drops
  <2> HIDE DEF r
  <2>3. \A w : FirstOf(t, n, "trust_required", w) <=> w = r
    BY <1>2, <2>1, FirstIsOne
  <2> QED BY <2>2, <2>3 DEF Withheld, p
<1>7. ShapeInv'
  BY <1>4, <1>5 DEF ShapeInv
<1>8. ScalarInv'
  <2> SUFFICES ASSUME NEW t \in DOMAIN list', NEW f \in Scalars
               PROVE  FirstOf(t, n, f, list'[t].catalog.scalars[f])
    BY <1>3 DEF ScalarInv, FirstOf
  <2> QED BY <1>4, <1>5
<1>9. CatalogTypeOK'
  BY <1>1, <1>2, <1>3, <1>4, <1>5 DEF CatalogInv, CatalogTypeOK
<1>10. ListInv'
  <2>1. DOMAIN list = Visible(caller, at)
    BY <1>1 DEF CatalogInv, ListInv
  <2>2. kept = {t \in DOMAIN list : ~Withheld(caller, n, t)}
    BY <1>6
  <2>3. kept = Visible(caller, n)
    BY <1>1, <2>1, <2>2, VisibleNext DEF n
  <2>4. Visible(caller, n) = Visible(caller, at)'
    BY <1>3 DEF Visible, Withheld, FirstOf
  <2> QED BY <1>1, <1>3, <1>4, <2>3, <2>4 DEF ListInv
<1>11. ShownInv'
  BY <1>3 DEF CatalogInv, ShownInv, Visible, Withheld, FirstOf
<1>12. 1..n = 1..at \cup {n} /\ 1..(n - 1) = 1..at
  BY <1>1 DEF n
<1>13. TagInv'
  <2> SUFFICES ASSUME NEW t \in kept
               PROVE  /\ Range(list'[t].catalog.tags) = UNION {Range(chain[m].holds[t].tags) : m \in 1..n}
                      /\ IsInjective(list'[t].catalog.tags)
    BY <1>3, <1>4 DEF TagInv
  <2>1. Range(list[t].catalog.tags) = UNION {Range(chain[m].holds[t].tags) : m \in 1..at}
    BY DEF CatalogInv, TagInv
  <2>2. /\ Range(list'[t].catalog.tags) = Range(list[t].catalog.tags) \cup Range(chain[n].holds[t].tags)
        /\ IsInjective(list'[t].catalog.tags)
    BY <1>4, <1>5 DEF p
  <2> QED BY <1>12, <2>1, <2>2
<1>14. AttributeInv'
  <2> SUFFICES ASSUME NEW t \in kept
               PROVE  LET a == list'[t].catalog.attributes
                      IN /\ DOMAIN a = UNION {DOMAIN chain[m].holds[t].attributes : m \in 1..n}
                         /\ \A k \in DOMAIN a : \E m \in 1..n :
                              /\ k \in DOMAIN chain[m].holds[t].attributes
                              /\ a[k] = chain[m].holds[t].attributes[k]
                              /\ \A l \in 1..(m - 1) : k \notin DOMAIN chain[l].holds[t].attributes
    BY <1>3, <1>4 DEF AttributeInv
  <2> DEFINE a == list'[t].catalog.attributes
             b == list[t].catalog.attributes
             c == chain[n].holds[t].attributes
  <2>1. /\ DOMAIN b = UNION {DOMAIN chain[m].holds[t].attributes : m \in 1..at}
        /\ \A k \in DOMAIN b : \E m \in 1..at :
             /\ k \in DOMAIN chain[m].holds[t].attributes
             /\ b[k] = chain[m].holds[t].attributes[k]
             /\ \A l \in 1..(m - 1) : k \notin DOMAIN chain[l].holds[t].attributes
    BY DEF CatalogInv, AttributeInv
  <2>2. /\ DOMAIN a = DOMAIN b \cup DOMAIN c
        /\ \A k \in DOMAIN a : a[k] = IF k \in DOMAIN b THEN b[k] ELSE c[k]
    <3>1. t \in DOMAIN list /\ list'[t] = Enrich(p, t)
      BY <1>4
    <3> DEFINE r == Enrich(p, t).catalog.attributes
    <3>2. /\ DOMAIN r = DOMAIN b \cup DOMAIN p.holds[t].attributes
          /\ \A k \in DOMAIN r : r[k] = IF k \in DOMAIN b THEN b[k] ELSE p.holds[t].attributes[k]
      BY <1>5, <3>1
    <3>3. a = r /\ c = p.holds[t].attributes
      BY <3>1 DEF p
    <3> HIDE DEF r, a, b, c, p
    <3> QED BY <3>2, <3>3
  <2> HIDE DEF a, b
  <2>3. DOMAIN a = UNION {DOMAIN chain[m].holds[t].attributes : m \in 1..n}
    BY <1>12, <2>1, <2>2
  <2>4. ASSUME NEW k \in DOMAIN a
        PROVE  \E m \in 1..n : /\ k \in DOMAIN chain[m].holds[t].attributes
                               /\ a[k] = chain[m].holds[t].attributes[k]
                               /\ \A l \in 1..(m - 1) : k \notin DOMAIN chain[l].holds[t].attributes
    <3>1. CASE k \in DOMAIN b
      <4>1. PICK m \in 1..at : /\ k \in DOMAIN chain[m].holds[t].attributes
                               /\ b[k] = chain[m].holds[t].attributes[k]
                               /\ \A l \in 1..(m - 1) : k \notin DOMAIN chain[l].holds[t].attributes
        BY <2>1, <3>1
      <4>2. a[k] = b[k]
        BY <2>2, <2>4, <3>1
      <4>3. m \in 1..n
        BY <1>12
      <4> QED BY <4>1, <4>2, <4>3
    <3>2. CASE k \notin DOMAIN b
      <4>1. \A l \in 1..(n - 1) : k \notin DOMAIN chain[l].holds[t].attributes
        BY <1>12, <2>1, <3>2
      <4>2. n \in 1..n /\ k \in DOMAIN c /\ a[k] = c[k]
        BY <1>2, <2>2, <2>4, <3>2
      <4> QED BY <4>1, <4>2
    <3> QED BY <3>1, <3>2
  <2> QED BY <2>3, <2>4 DEF a
<1> QED BY <1>7, <1>8, <1>9, <1>10, <1>11, <1>13, <1>14 DEF CatalogInv

\* A request starts from the registry: every tool, no metadata, no provider yet.
LEMMA RequestKeepsInv ==
  ASSUME CatalogInv, NEW c \in Callers, Request(c)
  PROVE  CatalogInv'
<1>1. /\ list' = [t \in Tools |-> from_base] /\ at' = 0 /\ caller' = c
      /\ chain' = chain /\ shown' = shown /\ c # Unset
  BY CallersAreSet DEF Request
<1>2. DOMAIN list' = Tools /\ \A t \in Tools : list'[t].catalog = Default /\ list'[t].enriched = FALSE
  BY <1>1 DEF from_base
<1>3. /\ Default.tags = <<>> /\ Default.attributes = <<>>
      /\ Default.scalars = [f \in Scalars |-> Unset] /\ is_empty(Default)
  BY DEF Default, CatalogMetadata, is_empty
<1>4. chain \in Seq(Providers)
  BY ChainsAreProviders DEF CatalogInv, CatalogTypeOK
<1>5. 1..0 = {} /\ 0 \in 0..Len(chain)
  BY <1>4
<1>6. /\ Range(<<>>) = {} /\ IsInjective(<<>>) /\ <<>> \in Seq(ProviderTags) /\ DOMAIN <<>> = {}
  BY DEF Range, IsInjective
<1>7. ShapeInv' /\ ScalarInv'
  BY <1>1, <1>2, <1>3, <1>5, <1>6 DEF ShapeInv, ScalarInv, FirstOf
<1>8. AttributeInv' /\ TagInv'
  BY <1>1, <1>2, <1>3, <1>5, <1>6 DEF AttributeInv, TagInv
<1>9. CatalogTypeOK'
  BY <1>1, <1>2, <1>3, <1>5 DEF CatalogInv, CatalogTypeOK
<1>10. ListInv' /\ ShownInv'
  BY <1>1, <1>2, <1>5 DEF CatalogInv, ListInv, ShownInv, Visible, Withheld, FirstOf
<1> QED BY <1>7, <1>8, <1>9, <1>10 DEF CatalogInv

\* The response shows the list after the whole chain, and the next request
\* starts afresh.
LEMMA RespondKeepsInv ==
  ASSUME CatalogInv, Respond
  PROVE  CatalogInv'
<1>1. /\ list' = <<>> /\ at' = 0 /\ caller' = Unset /\ chain' = chain /\ caller # Unset /\ at = Len(chain)
      /\ shown' = [c \in DOMAIN shown \cup {caller} |-> IF c = caller THEN DOMAIN list ELSE shown[c]]
  BY DEF Respond
<1>2. DOMAIN list' = {} /\ Unset \in Callers \cup {Unset}
  BY <1>1
<1>3. chain \in Seq(Providers)
  BY ChainsAreProviders DEF CatalogInv, CatalogTypeOK
<1>4. 0 \in 0..Len(chain)
  BY <1>3
<1>5. ShapeInv' /\ ScalarInv' /\ AttributeInv' /\ TagInv'
  BY <1>2 DEF ShapeInv, ScalarInv, AttributeInv, TagInv
<1>6. CatalogTypeOK'
  BY <1>1, <1>2, <1>4 DEF CatalogInv, CatalogTypeOK
<1>7. ListInv'
  BY <1>1, <1>2 DEF ListInv
<1>8. ShownInv'
  <2>1. DOMAIN list = Visible(caller, Len(chain))
    BY <1>1 DEF CatalogInv, ListInv
  <2> SUFFICES ASSUME NEW c \in DOMAIN shown'
               PROVE  shown'[c] = Visible(c, Len(chain))
    <3>1. ShownInv' <=> \A c \in DOMAIN shown' : shown'[c] = Visible(c, Len(chain))'
      BY DEF ShownInv
    <3>2. \A c : Visible(c, Len(chain))' = Visible(c, Len(chain))
      BY <1>1 DEF Visible, Withheld, FirstOf
    <3> QED BY <3>1, <3>2
  <2>2. DOMAIN shown' = DOMAIN shown \cup {caller}
    BY <1>1
  <2>3. shown'[c] = IF c = caller THEN DOMAIN list ELSE shown[c]
    BY <1>1
  <2> QED BY <2>1, <2>2, <2>3 DEF CatalogInv, ShownInv
<1> QED BY <1>5, <1>6, <1>7, <1>8 DEF CatalogInv

\* Before the first request.
LEMMA CatalogInvInit == CatalogInit => CatalogInv
<1> SUFFICES ASSUME CatalogInit PROVE CatalogInv
  OBVIOUS
<1>1. DOMAIN list = {} /\ DOMAIN shown = {} /\ at = 0 /\ caller = Unset /\ chain \in Seq(Providers) /\ chain \in Chains
  BY ChainsAreProviders DEF CatalogInit
<1>2. 0 \in 0..Len(chain)
  BY <1>1
<1> QED BY <1>1, <1>2 DEF CatalogInv, CatalogTypeOK, ShapeInv, ScalarInv, AttributeInv, TagInv, ListInv, ShownInv

\* A request, a provider's turn and an answer keep the invariant.
LEMMA CatalogStep == CatalogInv /\ [CatalogNext]_catalogVars => CatalogInv'
<1>1. ASSUME CatalogInv, UNCHANGED catalogVars PROVE CatalogInv'
  <2>1. chain' = chain /\ caller' = caller /\ list' = list /\ at' = at /\ shown' = shown
    BY <1>1 DEF catalogVars
  <2>2. CatalogTypeOK'
    BY <1>1, <2>1 DEF CatalogInv, CatalogTypeOK
  <2>3. ShapeInv' /\ TagInv'
    <3>1. ShapeInv'
      BY <1>1, <2>1 DEF CatalogInv, ShapeInv
    <3>2. TagInv'
      BY <1>1, <2>1 DEF CatalogInv, TagInv
    <3> QED BY <3>1, <3>2
  <2>4. ScalarInv'
    BY <1>1, <2>1 DEF CatalogInv, ScalarInv, FirstOf
  <2>5. AttributeInv'
    BY <1>1, <2>1 DEF CatalogInv, AttributeInv
  <2>6. ListInv'
    BY <1>1, <2>1 DEF CatalogInv, ListInv, Visible, Withheld, FirstOf
  <2>7. ShownInv'
    BY <1>1, <2>1 DEF CatalogInv, ShownInv, Visible, Withheld, FirstOf
  <2> QED BY <2>2, <2>3, <2>4, <2>5, <2>6, <2>7 DEF CatalogInv
<1> QED BY <1>1, RequestKeepsInv, EnrichKeepsInv, RespondKeepsInv DEF CatalogNext

\* The invariant holds in every state.
LEMMA CatalogInvariant == CatalogSpec => []CatalogInv
BY CatalogInvInit, CatalogStep, PTL DEF CatalogSpec

\* The type invariant: at no point is a tool on the list that the registry does
\* not have, or marked enriched while its metadata is empty.
THEOREM CatalogTypeCorrect == CatalogSpec => []CatalogTypeOK
<1>1. CatalogInv => CatalogTypeOK
  BY DEF CatalogInv
<1> QED BY <1>1, CatalogInvariant, PTL

\* For every chain of providers and every sequence of callers: the list's scalars
\* and attributes are the first provider's that has them, its tags the union of
\* their tags, each once, and more trust never shows less.
THEOREM ListedAsConfiguredAlways == CatalogSpec => []ListedAsConfigured
<1>1. ASSUME CatalogInv PROVE FirstWriteWins
  <2> SUFFICES ASSUME NEW t \in DOMAIN list
               PROVE  LET held == Held(t)
        md == list[t].catalog
    IN /\ \A f \in Scalars :
            \/ md.scalars[f] = Unset /\ \A n \in 1..at : held[n].scalars[f] = Unset
            \/ \E n \in 1..at :
                 /\ held[n].scalars[f] # Unset /\ md.scalars[f] = held[n].scalars[f]
                 /\ \A m \in 1..(n - 1) : held[m].scalars[f] = Unset
       /\ DOMAIN md.attributes = UNION {DOMAIN held[n].attributes : n \in 1..at}
       /\ \A k \in DOMAIN md.attributes : \E n \in 1..at :
            /\ k \in DOMAIN held[n].attributes
            /\ md.attributes[k] = held[n].attributes[k]
            /\ \A m \in 1..(n - 1) : k \notin DOMAIN held[m].attributes
    BY DEF FirstWriteWins
  <2>1. \A n \in 1..at : Held(t)[n] = chain[n].holds[t] /\ \A m \in 1..(n - 1) : Held(t)[m] = chain[m].holds[t]
    <3>1. at \in Nat
      BY <1>1, ChainsAreProviders DEF CatalogInv, CatalogTypeOK
    <3>2. \A n \in 1..at : \A m : m \in 1..(n - 1) => m \in 1..at
      BY <3>1
    <3> QED BY <3>2 DEF Held
  <2>2. \A f \in Scalars : FirstOf(t, at, f, list[t].catalog.scalars[f])
    BY <1>1 DEF CatalogInv, ScalarInv
  <2> DEFINE a == list[t].catalog.attributes
  <2>3. /\ DOMAIN a = UNION {DOMAIN chain[n].holds[t].attributes : n \in 1..at}
        /\ \A k \in DOMAIN a : \E n \in 1..at :
            /\ k \in DOMAIN chain[n].holds[t].attributes
            /\ a[k] = chain[n].holds[t].attributes[k]
            /\ \A m \in 1..(n - 1) : k \notin DOMAIN chain[m].holds[t].attributes
    BY <1>1 DEF CatalogInv, AttributeInv
  <2> QED BY <2>1, <2>2, <2>3 DEF FirstOf
<1>2. ASSUME CatalogInv PROVE TagsAreUnion
  BY <1>2 DEF CatalogInv, TagInv, TagsAreUnion, Held
<1>3. ASSUME CatalogInv PROVE MoreTrustShowsMore
  BY <1>3, Monotone DEF CatalogInv, ShownInv, MoreTrustShowsMore
<1> QED BY <1>1, <1>2, <1>3, CatalogInvariant, PTL DEF ListedAsConfigured

(***************************************************************************)
(* The credential cache: the hash tells apart exactly the authorities      *)
(***************************************************************************)

\* C is a self-delimiting code over S: what starts with a word of C starts with one
\* word of C only.
Codes(C, S) ==
  C \subseteq Seq(S) /\ \A u, w \in C : \A x, y \in Seq(S) : Then(u, x) = Then(w, y) => u = w /\ x = y

\* c and then s.
Before(c, s) == Then(<<c>>, s)

\* It stays within the alphabet.
LEMMA BeforeOf == \A S : \A c \in S, s \in Seq(S) : Before(c, s) \in Seq(S)
BY DEF Before, Then

\* Two sequences that start with pieces of one length agree on the pieces and on
\* what follows.
LEMMA SameLength ==
  ASSUME NEW S, NEW s \in Seq(S), NEW t \in Seq(S), NEW x \in Seq(S), NEW y \in Seq(S),
         Len(s) = Len(t), Then(s, x) = Then(t, y)
  PROVE  s = t /\ x = y
<1> DEFINE u == s \o x
<1>0. \A a, b \in Seq(S) : /\ Len(a) \in Nat /\ Len(b) \in Nat /\ Len(a \o b) = Len(a) + Len(b)
                           /\ \A i \in 1..Len(a) : (a \o b)[i] = a[i]
                           /\ \A i \in 1..Len(b) : (a \o b)[Len(a) + i] = b[i]
  BY ConcatOf
<1>1. /\ Len(u) = Len(s) + Len(x) /\ Len(s) \in Nat /\ Len(x) \in Nat
      /\ \A i \in 1..Len(s) : u[i] = s[i]
      /\ \A i \in 1..Len(x) : u[Len(s) + i] = x[i]
  BY <1>0
<1>2. u = t \o y
  BY DEF Then
<1> HIDE DEF u
<1>3. /\ Len(u) = Len(t) + Len(y) /\ Len(t) \in Nat /\ Len(y) \in Nat
      /\ \A i \in 1..Len(t) : u[i] = t[i]
      /\ \A i \in 1..Len(y) : u[Len(t) + i] = y[i]
  BY <1>0, <1>2
<1>4. Len(x) = Len(y)
  BY <1>1, <1>3
<1>5. s = t
  BY <1>1, <1>3, SeqsEqual
<1>6. x = y
  BY <1>1, <1>3, <1>4, SeqsEqual
<1> QED BY <1>5, <1>6

\* Two sequences with a symbol in front agree on the symbol and on what follows.
LEMMA Prefixed ==
  ASSUME NEW S, NEW c \in S, NEW s \in Seq(S), NEW d \in S, NEW t \in Seq(S),
         Before(c, s) = Before(d, t)
  PROVE  c = d /\ s = t
<1>1. <<c>> \in Seq(S) /\ <<d>> \in Seq(S) /\ Len(<<c>>) = Len(<<d>>)
  OBVIOUS
<1>2. Then(<<c>>, s) = Then(<<d>>, t)
  BY DEF Before
<1>3. <<c>> = <<d>> /\ s = t
  BY <1>1, <1>2, SameLength
<1> QED BY <1>3

\* What feed writes: the label, the length, the value.
LEMMA FeedOf ==
  ASSUME NEW label \in Bytes, NEW v, IsText(v)
  PROVE  /\ feed(label, v) \in Seq(Bytes)
         /\ \A x \in Seq(Bytes) :
              Then(feed(label, v), x) = Before(label, Before(to_le_bytes[Len(v)], Then(v, x)))
<1>1. v \in Seq(Bytes) /\ Len(v) \in 0..MaxLength
  BY LengthsAreWritten DEF IsText
<1> DEFINE l == to_le_bytes[Len(v)]
<1>2. l \in Bytes
  BY <1>1, LengthsAreWritten
<1>3. feed(label, v) = Then(<<label, l>>, v)
  BY DEF feed, Then
<1> HIDE DEF l
<1> DEFINE two == <<label, l>>
           one == <<label>>
           len == <<l>>
<1>4. two \in Seq(Bytes) /\ two = Then(one, len) /\ one \in Seq(Bytes) /\ len \in Seq(Bytes)
  BY <1>2 DEF Then
<1>0. feed(label, v) = Then(two, v) /\ \A t : Before(label, t) = Then(one, t) /\ Before(l, t) = Then(len, t)
  BY <1>3 DEF Before
<1> HIDE DEF two, one, len
<1>5. ASSUME NEW x \in Seq(Bytes) PROVE Then(feed(label, v), x) = Before(label, Before(l, Then(v, x)))
  <2>1. Then(v, x) \in Seq(Bytes)
    BY <1>1, Concat
  <2>2. Then(Then(two, v), x) = Then(two, Then(v, x))
    BY <1>1, <1>4, Associative
  <2>3. Then(Then(one, len), Then(v, x)) = Then(one, Then(len, Then(v, x)))
    BY <1>4, <2>1, Associative
  <2> QED BY <1>0, <1>4, <2>2, <2>3
<1>6. feed(label, v) \in Seq(Bytes)
  BY <1>0, <1>1, <1>4, Concat
<1> QED BY <1>5, <1>6 DEF l

\* A fed value can be read back: the length in front says where the value ends.
LEMMA FeedReads ==
  ASSUME NEW label \in Bytes, NEW v, IsText(v), NEW w, IsText(w), NEW x \in Seq(Bytes), NEW y \in Seq(Bytes),
         Then(feed(label, v), x) = Then(feed(label, w), y)
  PROVE  v = w /\ x = y
<1>1. /\ v \in Seq(Bytes) /\ Len(v) \in 0..MaxLength
      /\ w \in Seq(Bytes) /\ Len(w) \in 0..MaxLength
  BY LengthsAreWritten DEF IsText
<1> DEFINE l == to_le_bytes[Len(v)]
           m == to_le_bytes[Len(w)]
           a == Then(v, x)
           b == Then(w, y)
<1>2. l \in Bytes /\ m \in Bytes
  BY <1>1, LengthsAreWritten
<1>3. Before(label, Before(l, a)) = Before(label, Before(m, b))
  BY FeedOf
<1> HIDE DEF l, m
<1>4. a \in Seq(Bytes) /\ b \in Seq(Bytes)
  BY <1>1, Concat
<1> HIDE DEF a, b
<1>5. Before(l, a) \in Seq(Bytes) /\ Before(m, b) \in Seq(Bytes)
  BY <1>2, <1>4, BeforeOf
<1>6. Before(l, a) = Before(m, b)
  BY <1>3, <1>5, Prefixed
<1>7. l = m /\ a = b
  BY <1>2, <1>4, <1>6, Prefixed
<1>8. Len(v) = Len(w)
  BY <1>1, <1>7, LengthsAreWritten DEF IsInjective, l, m
<1> QED BY <1>1, <1>7, <1>8, SameLength DEF a, b

\* g[i] is the first i pieces of seqs.
Piecewise(g, seqs, S) ==
  /\ g \in [0..Len(seqs) -> Seq(S)] /\ g[0] = <<>>
  /\ \A i \in 1..Len(seqs) : g[i] = Then(g[i - 1], seqs[i])

\* What FlattenSeq folds is the pieces in their order.
LEMMA FlattenOf ==
  ASSUME NEW S, NEW seqs \in Seq(Seq(S))
  PROVE  \E g : Piecewise(g, seqs, S) /\ FlattenSeq(seqs) = g[Len(seqs)]
<1> DEFINE L == Len(seqs)
           turn == [p \in Seq(S) \X (1..L) |-> Then(p[1], seqs[p[2]])]
           Is(f) == f = [i \in 1..L |-> IF i = 1 THEN seqs[i] ELSE Then(f[i - 1], seqs[i])]
           a == CHOOSE f : Is(f)
           g == [i \in 0..L |-> IF i = 0 THEN <<>> ELSE a[i]]
<1>1. L \in Nat /\ (\A i \in 1..L : seqs[i] \in Seq(S)) /\ <<>> \in Seq(S)
  OBVIOUS
<1>2. CASE L = 0
  <2>1. FlattenSeq(seqs) = seqs /\ seqs = <<>>
    BY <1>2 DEF FlattenSeq
  <2> DEFINE e == [i \in 0..0 |-> <<>>]
  <2>2. e \in [0..0 -> Seq(S)] /\ e[0] = <<>>
    OBVIOUS
  <2>3. \A i \in 1..0 : FALSE
    OBVIOUS
  <2> HIDE DEF e
  <2> QED BY <1>2, <2>1, <2>2, <2>3 DEF Piecewise
<1>3. CASE L # 0
  <2>1. \E f : Is(f)
    <3>1. turn \in Turns(Seq(S), L)
      <4>1. \A v \in Seq(S), i \in 1..L : Then(v, seqs[i]) \in Seq(S)
        BY <1>1, Concat
      <4> HIDE DEF L
      <4> QED BY <4>1 DEF Turns
    <3> HIDE DEF turn, L
    <3>2. PICK f : Follows(f, Seq(S), <<>>, L, turn)
      BY <1>1, <3>1, Recursion
    <3>3. f \in [0..L -> Seq(S)] /\ f[0] = <<>>
      BY <3>2 DEF Follows
    <3>4. ASSUME NEW i \in 1..L PROVE f[i] = Then(f[i - 1], seqs[i]) /\ f[i - 1] \in Seq(S)
      <4>1. f[i - 1] \in Seq(S) /\ f[i] = turn[<<f[i - 1], i>>]
        BY <1>1, <3>2, <3>3 DEF Follows
      <4> QED BY <4>1 DEF turn
    <3>5. ASSUME 1 \in 1..L PROVE f[1] = seqs[1]
      <4>1. f[1] = Then(<<>>, seqs[1]) /\ seqs[1] \in Seq(S)
        BY <1>1, <3>3, <3>4, <3>5
      <4> QED BY <4>1, ConcatEmpty
    <3> DEFINE h == [i \in 1..L |-> f[i]]
    <3>6. h = [i \in 1..L |-> IF i = 1 THEN seqs[i] ELSE Then(h[i - 1], seqs[i])]
      <4>1. \A i \in 1..L : i # 1 => i - 1 \in 1..L
        BY <1>1
      <4>2. \A i \in 1..L : h[i] = IF i = 1 THEN seqs[i] ELSE Then(h[i - 1], seqs[i])
        BY <3>4, <3>5, <4>1
      <4>3. h = [i \in 1..L |-> h[i]]
        OBVIOUS
      <4> HIDE DEF h
      <4> QED BY <4>2, <4>3
    <3> HIDE DEF h
    <3> QED BY <3>6
  <2>2. Is(a)
    <3> HIDE DEF Is
    <3> QED BY <2>1
  <2>3. FlattenSeq(seqs) = a[L]
    BY <1>3 DEF FlattenSeq, Then
  <2> HIDE DEF a, L, turn
  <2>4. a[1] = seqs[1] /\ \A i \in 2..L : a[i] = Then(a[i - 1], seqs[i])
    <3>1. 1 \in 1..L /\ \A i \in 2..L : i \in 1..L /\ i # 1
      BY <1>1, <1>3
    <3> HIDE DEF Is
    <3>2. a = [i \in 1..L |-> IF i = 1 THEN seqs[i] ELSE Then(a[i - 1], seqs[i])]
      BY <2>2 DEF Is
    <3> QED BY <3>1, <3>2
  <2> HIDE DEF Is
  <2> DEFINE T == {n \in Nat : n + 1 <= L => a[n + 1] \in Seq(S)}
  <2>5. 0 \in T
    BY <1>1, <1>3, <2>4
  <2>6. ASSUME NEW n \in T PROVE n + 1 \in T
    <3> SUFFICES ASSUME n + 1 + 1 <= L PROVE a[n + 1 + 1] \in Seq(S)
      BY <2>6
    <3>1. n \in Nat /\ n + 1 <= L /\ n + 1 + 1 \in 2..L /\ n + 1 + 1 \in 1..L /\ n + 1 + 1 - 1 = n + 1
      BY <1>1, <2>6
    <3>2. a[n + 1] \in Seq(S)
      BY <2>6, <3>1
    <3>3. a[n + 1 + 1] = Then(a[n + 1], seqs[n + 1 + 1]) /\ seqs[n + 1 + 1] \in Seq(S)
      BY <1>1, <2>4, <3>1
    <3> QED BY <3>2, <3>3, Concat
  <2>7. T = Nat
    <3>1. T \in SUBSET Nat
      OBVIOUS
    <3> HIDE DEF T
    <3> QED BY <2>5, <2>6, <3>1, Induction
  <2>8. \A i \in 1..L : a[i] \in Seq(S)
    <3> TAKE i \in 1..L
    <3>1. i - 1 \in Nat /\ (i - 1) + 1 = i /\ i <= L
      BY <1>1
    <3> QED BY <2>7, <3>1
  <2>9. g \in [0..L -> Seq(S)] /\ g[0] = <<>> /\ g[L] = a[L]
    <3>1. \A i \in 0..L : i = 0 \/ i \in 1..L
      BY <1>1
    <3> QED BY <1>1, <1>3, <2>8, <3>1
  <2>10. ASSUME NEW i \in 1..L PROVE g[i] = Then(g[i - 1], seqs[i])
    <3>1. i \in 0..L /\ i - 1 \in 0..L /\ i # 0
      BY <1>1
    <3>2. CASE i = 1
      <4>1. g[i] = seqs[1] /\ g[i - 1] = <<>> /\ seqs[i] \in Seq(S)
        BY <1>1, <2>4, <3>1, <3>2
      <4> HIDE DEF g
      <4> QED BY <3>2, <4>1, ConcatEmpty
    <3>3. CASE i # 1
      <4>1. i \in 2..L /\ i - 1 # 0
        BY <1>1, <3>3
      <4>2. g[i] = a[i] /\ g[i - 1] = a[i - 1]
        BY <3>1, <4>1
      <4> HIDE DEF g
      <4> QED BY <2>4, <4>1, <4>2
    <3> QED BY <3>2, <3>3
  <2> HIDE DEF g
  <2> QED BY <2>3, <2>9, <2>10 DEF Piecewise, L
<1> QED BY <1>2, <1>3

\* It stays within the alphabet.
LEMMA FlattenIn ==
  ASSUME NEW S, NEW seqs \in Seq(Seq(S))
  PROVE  FlattenSeq(seqs) \in Seq(S)
<1>1. PICK g : Piecewise(g, seqs, S) /\ FlattenSeq(seqs) = g[Len(seqs)]
  BY FlattenOf
<1>2. Len(seqs) \in 0..Len(seqs)
  OBVIOUS
<1> QED BY <1>1, <1>2 DEF Piecewise

\* Words of a code, as many in one sequence as in the other, can be read back one by
\* one.
LEMMA FlattenReads ==
  ASSUME NEW S, NEW C, Codes(C, S), NEW s \in Seq(C), NEW t \in Seq(C), Len(s) = Len(t),
         NEW x \in Seq(S), NEW y \in Seq(S), Then(FlattenSeq(s), x) = Then(FlattenSeq(t), y)
  PROVE  s = t /\ x = y
<1> DEFINE L == Len(s)
<1>1. /\ L \in Nat /\ s \in Seq(Seq(S)) /\ t \in Seq(Seq(S))
      /\ \A i \in 1..L : s[i] \in C /\ t[i] \in C /\ s[i] \in Seq(S) /\ t[i] \in Seq(S)
  BY DEF Codes
<1>2. PICK g : Piecewise(g, s, S) /\ FlattenSeq(s) = g[L]
  BY <1>1, FlattenOf
<1>3. PICK h : Piecewise(h, t, S) /\ FlattenSeq(t) = h[L]
  BY <1>1, FlattenOf
<1> HIDE DEF L
<1>4. /\ g \in [0..L -> Seq(S)] /\ g[0] = <<>> /\ \A i \in 1..L : g[i] = Then(g[i - 1], s[i])
      /\ h \in [0..L -> Seq(S)] /\ h[0] = <<>> /\ \A i \in 1..L : h[i] = Then(h[i - 1], t[i])
  BY <1>2, <1>3 DEF Piecewise, L
<1> DEFINE P(n) == \A u, w \in Seq(S) : Then(g[n], u) = Then(h[n], w) => (\A i \in 1..n : s[i] = t[i]) /\ u = w
           N == {n \in Nat : n <= L => P(n)}
<1>5. 0 \in N
  <2>1. \A i \in 1..0 : FALSE
    OBVIOUS
  <2>2. \A u, w \in Seq(S) : Then(g[0], u) = u /\ Then(h[0], w) = w
    BY <1>4, ConcatEmpty
  <2> QED BY <2>1, <2>2
<1>6. ASSUME NEW n \in N PROVE n + 1 \in N
  <2> SUFFICES ASSUME n + 1 <= L, NEW u \in Seq(S), NEW w \in Seq(S), Then(g[n + 1], u) = Then(h[n + 1], w)
               PROVE  (\A i \in 1..(n + 1) : s[i] = t[i]) /\ u = w
    BY <1>6
  <2>1. n \in Nat /\ n <= L /\ n \in 0..L /\ n + 1 \in 1..L /\ n + 1 - 1 = n
    BY <1>1, <1>6
  <2> DEFINE c == s[n + 1]
             d == t[n + 1]
             m == g[n]
             k == h[n]
  <2>2. c \in C /\ d \in C /\ c \in Seq(S) /\ d \in Seq(S) /\ m \in Seq(S) /\ k \in Seq(S)
    BY <1>1, <1>4, <2>1
  <2>3. g[n + 1] = Then(m, c) /\ h[n + 1] = Then(k, d)
    BY <1>4, <2>1
  <2>4. P(n)
    BY <1>6, <2>1
  <2> HIDE DEF c, d, m, k
  <2>5. Then(c, u) \in Seq(S) /\ Then(d, w) \in Seq(S)
    BY <2>2, Concat
  <2>6. Then(m, Then(c, u)) = Then(k, Then(d, w))
    <3>1. Then(Then(m, c), u) = Then(m, Then(c, u))
      BY <2>2, Associative
    <3>2. Then(Then(k, d), w) = Then(k, Then(d, w))
      BY <2>2, Associative
    <3>3. Then(Then(m, c), u) = Then(Then(k, d), w)
      BY <2>3
    <3> QED BY <3>1, <3>2, <3>3
  <2>7. (\A i \in 1..n : s[i] = t[i]) /\ Then(c, u) = Then(d, w)
    BY <2>4, <2>5, <2>6 DEF m, k
  <2>8. c = d /\ u = w
    BY <2>2, <2>7 DEF Codes
  <2>9. \A i \in 1..(n + 1) : i \in 1..n \/ i = n + 1
    BY <2>1
  <2> QED BY <2>7, <2>8, <2>9 DEF c, d
<1>7. N = Nat
  <2>1. N \in SUBSET Nat
    OBVIOUS
  <2> HIDE DEF N
  <2> QED BY <1>5, <1>6, <2>1, Induction
<1>8. P(L)
  <2>1. L \in Nat /\ L <= L
    BY <1>1
  <2>2. L \in N
    BY <1>7, <2>1
  <2> HIDE DEF P
  <2> QED BY <2>1, <2>2
<1>9. (\A i \in 1..L : s[i] = t[i]) /\ x = y
  BY <1>2, <1>3, <1>8
<1> QED BY <1>9, SeqsEqual DEF L

\* Where v stands in a list.
Places(items, v) == {i \in DOMAIN items : items[i] = v}

\* They are finitely many, and as many as v counts.
LEMMA PlacesOf ==
  ASSUME NEW T, NEW items \in Seq(T), NEW v
  PROVE  IsFiniteSet(DOMAIN items) /\ IsFiniteSet(Places(items, v)) /\ Count(items, v) = Cardinality(Places(items, v))
         /\ Cardinality(DOMAIN items) = Len(items) /\ Len(items) \in Nat /\ DOMAIN items = 1..Len(items)
<1>1. DOMAIN items = 1..Len(items) /\ Len(items) \in Nat
  OBVIOUS
<1>2. IsFiniteSet(DOMAIN items) /\ Cardinality(DOMAIN items) = Len(items)
  BY <1>1, FS_Interval
<1>3. Places(items, v) \in SUBSET DOMAIN items
  BY DEF Places
<1>4. IsFiniteSet(Places(items, v))
  BY <1>2, <1>3, FS_Subset
<1> QED BY <1>1, <1>2, <1>4 DEF Places, Count

\* A reordering has the items of the list, each as often.
LEMMA ReorderedCount ==
  ASSUME NEW T, NEW items \in Seq(T), NEW s \in Reorderings(items)
  PROVE  /\ s \in Seq(T) /\ Len(s) = Len(items) /\ DOMAIN s = DOMAIN items
         /\ \A v : Count(s, v) = Count(items, v)
         /\ \A i \in DOMAIN s : \E j \in DOMAIN items : s[i] = items[j]
<1> DEFINE D == DOMAIN items
<1>1. D = 1..Len(items) /\ Len(items) \in Nat /\ IsFiniteSet(D) /\ \A i \in D : items[i] \in T
  BY PlacesOf
<1>2. PICK p \in [D -> D] : IsInjective(p) /\ s = [i \in D |-> items[p[i]]]
  BY DEF Reorderings
<1>3. p \in Surjection(D, D)
  <2>1. p \in Injection(D, D)
    BY <1>2 DEF Injection, IsInjective
  <2> HIDE DEF D
  <2> QED BY <1>1, <2>1, FS_Injection
<1>4. DOMAIN s = D /\ \A i \in D : s[i] = items[p[i]]
  BY <1>2
<1>5. \A i \in D : p[i] \in D
  BY <1>2
<1> HIDE DEF D
<1>6. s \in [D -> T]
  BY <1>1, <1>2, <1>5
<1>7. s \in Seq(T) /\ Len(s) = Len(items)
  BY <1>1, <1>6
<1>8. ASSUME NEW v PROVE Count(s, v) = Count(items, v)
  <2> DEFINE A == Places(s, v)
             B == Places(items, v)
             g == [i \in A |-> p[i]]
  <2>1. /\ A \subseteq D /\ B \subseteq D /\ \A i \in D : i \in A <=> p[i] \in B
    BY <1>4, <1>5 DEF Places, D
  <2>2. /\ IsFiniteSet(A) /\ Count(s, v) = Cardinality(A) /\ Count(items, v) = Cardinality(B)
    BY <1>7, PlacesOf
  <2>3. g \in Bijection(A, B)
    <3> HIDE DEF A, B
    <3>1. g \in [A -> B]
      BY <2>1
    <3>2. \A i, j \in A : g[i] = g[j] => i = j
      <4>1. \A i, j \in D : p[i] = p[j] => i = j
        BY <1>2 DEF IsInjective
      <4> QED BY <2>1, <4>1
    <3>3. \A b \in B : \E i \in A : g[i] = b
      <4>1. \A b \in D : \E i \in D : p[i] = b
        BY <1>3 DEF Surjection
      <4> QED BY <2>1, <4>1
    <3> HIDE DEF g
    <3> QED BY <3>1, <3>2, <3>3 DEF Bijection, Injection, Surjection, IsInjective
  <2> HIDE DEF A, B, g
  <2>4. ExistsBijection(A, B)
    BY <2>3 DEF ExistsBijection
  <2> QED BY <2>2, <2>4, FS_Bijection
<1>9. DOMAIN s = DOMAIN items
  BY <1>4 DEF D
<1>10. \A i \in DOMAIN s : \E j \in DOMAIN items : s[i] = items[j]
  BY <1>4, <1>5 DEF D
<1> QED BY <1>7, <1>8, <1>9, <1>10

\* sorted returns a reordering.
LEMMA SortedIs ==
  ASSUME NEW T, NEW items \in Seq(T)
  PROVE  sorted(items) \in Reorderings(items)
<1> DEFINE D == DOMAIN items
           e == [i \in D |-> i]
<1>1. e \in [D -> D] /\ IsInjective(e)
  BY DEF IsInjective
<1>2. Reorderings(items) # {}
  <2> HIDE DEF e
  <2> QED BY <1>1 DEF Reorderings
<1> QED BY <1>2 DEF sorted

\* Two lists have the same items, each as often.
SameItems(a, b) == \A v \in Range(a) \cup Range(b) : Count(a, v) = Count(b, v)

\* q says where in a each item of b stands.
Matches(q, a, b) ==
  q \in [DOMAIN b -> DOMAIN a] /\ IsInjective(q) /\ \A i \in DOMAIN b : b[i] = a[q[i]]

\* Lists with the same items can be matched: the places of each item one to one.
LEMMA Matching ==
  ASSUME NEW T, NEW a \in Seq(T), NEW b \in Seq(T), SameItems(a, b)
  PROVE  (\E q : Matches(q, a, b)) /\ Len(b) <= Len(a)
<1> DEFINE bij(v) == CHOOSE f : f \in Bijection(Places(b, v), Places(a, v))
           q == [i \in DOMAIN b |-> bij(b[i])[i]]
<1>1. ASSUME NEW i \in DOMAIN b
      PROVE  /\ i \in Places(b, b[i])
             /\ bij(b[i])[i] \in Places(a, b[i])
             /\ \A k \in Places(b, b[i]) : bij(b[i])[k] = bij(b[i])[i] => k = i
  <2> DEFINE v == b[i]
  <2>1. i \in Places(b, v) /\ v \in Range(a) \cup Range(b)
    BY DEF Places, Range
  <2>2. Count(a, v) = Count(b, v)
    BY <2>1 DEF SameItems
  <2> HIDE DEF v
  <2>3. ExistsBijection(Places(b, v), Places(a, v))
    BY <2>2, PlacesOf, FS_SameCardinalityBij
  <2>4. bij(v) \in Bijection(Places(b, v), Places(a, v))
    BY <2>3 DEF ExistsBijection
  <2> HIDE DEF bij
  <2>5. /\ bij(v) \in [Places(b, v) -> Places(a, v)]
        /\ \A k, l \in Places(b, v) : bij(v)[k] = bij(v)[l] => k = l
    BY <2>4 DEF Bijection, Injection, IsInjective
  <2>6. bij(v)[i] \in Places(a, v) /\ \A k \in Places(b, v) : bij(v)[k] = bij(v)[i] => k = i
    BY <2>1, <2>5
  <2> QED BY <2>1, <2>6 DEF v
<1> HIDE DEF bij
<1>2. \A i \in DOMAIN b : q[i] \in DOMAIN a /\ a[q[i]] = b[i] /\ q[i] = bij(b[i])[i]
  BY <1>1 DEF Places
<1>3. q \in [DOMAIN b -> DOMAIN a]
  BY <1>2
<1>4. DOMAIN q = DOMAIN b
  OBVIOUS
<1> HIDE DEF q
<1>5. ASSUME NEW i \in DOMAIN b, NEW k \in DOMAIN b, q[i] = q[k] PROVE i = k
  <2>1. b[i] = b[k]
    BY <1>2, <1>5
  <2>2. k \in Places(b, b[i])
    BY <2>1 DEF Places
  <2>3. bij(b[i])[k] = bij(b[i])[i]
    BY <1>2, <1>5, <2>1
  <2> QED BY <1>1, <2>2, <2>3
<1>6. IsInjective(q)
  BY <1>4, <1>5 DEF IsInjective
<1>7. q \in Injection(DOMAIN b, DOMAIN a)
  BY <1>3, <1>6 DEF Injection
<1>8. Len(b) <= Len(a)
  BY <1>7, PlacesOf, FS_Injection
<1> QED BY <1>2, <1>3, <1>6, <1>8 DEF Matches

\* A reordering of one is a reordering of the other, by way of the matching.
LEMMA ReorderingsWithin ==
  ASSUME NEW T, NEW a \in Seq(T), NEW b \in Seq(T), SameItems(a, b), DOMAIN a = DOMAIN b
  PROVE  Reorderings(b) \subseteq Reorderings(a)
<1> DEFINE D == DOMAIN a
<1>1. PICK q \in [D -> D] : IsInjective(q) /\ \A i \in D : b[i] = a[q[i]]
  <2>1. PICK q \in [DOMAIN b -> DOMAIN a] : IsInjective(q) /\ \A i \in DOMAIN b : b[i] = a[q[i]]
    <3>1. \E q : Matches(q, a, b)
      BY Matching
    <3> QED BY <3>1 DEF Matches
  <2>2. q \in [D -> D] /\ \A i \in D : b[i] = a[q[i]]
    BY <2>1
  <2> QED BY <2>1, <2>2
<1>2. ASSUME NEW p \in [D -> D], IsInjective(p)
      PROVE  [i \in D |-> b[p[i]]] \in Reorderings(a)
  <2> DEFINE r == [i \in D |-> q[p[i]]]
  <2>1. r \in [D -> D]
    BY <1>1, <1>2
  <2>2. IsInjective(r)
    BY <1>1, <1>2, <2>1 DEF IsInjective
  <2>3. [i \in D |-> b[p[i]]] = [i \in D |-> a[r[i]]]
    BY <1>1, <1>2
  <2> HIDE DEF r
  <2> QED BY <2>1, <2>2, <2>3 DEF Reorderings
<1>3. ASSUME NEW s \in Reorderings(b) PROVE s \in Reorderings(a)
  <2>1. PICK p \in [DOMAIN b -> DOMAIN b] : IsInjective(p) /\ s = [i \in DOMAIN b |-> b[p[i]]]
    BY DEF Reorderings
  <2>2. p \in [D -> D] /\ s = [i \in D |-> b[p[i]]]
    BY <2>1
  <2> QED BY <1>2, <2>1, <2>2
<1> QED BY <1>3

\* Vec::sort forgets the order and nothing else: two lists sort to one exactly if
\* they have the same items.
LEMMA SortedAgree ==
  ASSUME NEW T, NEW a \in Seq(T), NEW b \in Seq(T)
  PROVE  /\ SameItems(a, b) => Len(a) = Len(b) /\ DOMAIN a = DOMAIN b /\ sorted(a) = sorted(b)
         /\ sorted(a) = sorted(b) => SameItems(a, b)
<1>1. ASSUME SameItems(a, b) PROVE Len(a) = Len(b) /\ DOMAIN a = DOMAIN b /\ sorted(a) = sorted(b)
  <2>1. SameItems(b, a)
    BY <1>1 DEF SameItems
  <2>2. Len(a) <= Len(b) /\ Len(b) <= Len(a) /\ Len(a) \in Nat /\ Len(b) \in Nat
    BY <1>1, <2>1, Matching, PlacesOf
  <2>3. Len(a) = Len(b) /\ DOMAIN a = DOMAIN b
    BY <2>2
  <2>4. Reorderings(a) \subseteq Reorderings(b) /\ Reorderings(b) \subseteq Reorderings(a)
    BY <1>1, <2>1, <2>3, ReorderingsWithin
  <2>5. Reorderings(a) = Reorderings(b)
    BY <2>4
  <2> QED BY <2>3, <2>5 DEF sorted
<1>2. ASSUME sorted(a) = sorted(b) PROVE SameItems(a, b)
  <2>1. \A v : Count(sorted(a), v) = Count(a, v) /\ Count(sorted(b), v) = Count(b, v)
    BY SortedIs, ReorderedCount
  <2> QED BY <1>2, <2>1 DEF SameItems
<1> QED BY <1>1, <1>2

\* The texts.
KeyTexts == {s \in Seq(Bytes) : IsText(s)}

\* What feed writes under a label.
FeedCodes(label) == {feed(label, v) : v \in KeyTexts}

\* An attribute as the hash feeds it: its name and its value.
AttrPair(kv) == feed("attr.k", <<kv[1]>>) \o feed("attr.v", kv[2])

\* What is fed for attributes.
AttrPairCodes == {AttrPair(kv) : kv \in Bytes \X KeyTexts}

\* The feeds of one label are a code.
LEMMA FeedsAreCodes ==
  ASSUME NEW label \in Bytes
  PROVE  Codes(FeedCodes(label), Bytes)
<1>1. \A v \in KeyTexts : IsText(v)
  BY DEF KeyTexts
<1>2. FeedCodes(label) \subseteq Seq(Bytes)
  BY <1>1, FeedOf DEF FeedCodes
<1>3. ASSUME NEW u \in FeedCodes(label), NEW w \in FeedCodes(label), NEW x \in Seq(Bytes), NEW y \in Seq(Bytes),
             Then(u, x) = Then(w, y)
      PROVE  u = w /\ x = y
  <2>1. PICK v \in KeyTexts : u = feed(label, v)
    BY DEF FeedCodes
  <2>2. PICK t \in KeyTexts : w = feed(label, t)
    BY DEF FeedCodes
  <2>3. v = t /\ x = y
    BY <1>1, <1>3, <2>1, <2>2, FeedReads
  <2> QED BY <2>1, <2>2, <2>3
<1> QED BY <1>2, <1>3 DEF Codes

\* feed loses nothing of the value.
LEMMA FeedInjective ==
  ASSUME NEW label \in Bytes, NEW v, IsText(v), NEW w, IsText(w), feed(label, v) = feed(label, w)
  PROVE  v = w
<1>1. <<>> \in Seq(Bytes)
  OBVIOUS
<1>2. Then(feed(label, v), <<>>) = Then(feed(label, w), <<>>)
  OBVIOUS
<1> QED BY <1>1, <1>2, FeedReads

\* An attribute name is a text.
LEMMA KeyIsText == \A k \in Bytes : IsText(<<k>>)
BY LengthsAreWritten DEF IsText

\* A fed attribute can be read back.
LEMMA PairReads ==
  ASSUME NEW kv \in Bytes \X KeyTexts, NEW lw \in Bytes \X KeyTexts, NEW x \in Seq(Bytes), NEW y \in Seq(Bytes),
         Then(AttrPair(kv), x) = Then(AttrPair(lw), y)
  PROVE  kv = lw /\ x = y
<1>1. "attr.k" \in Bytes /\ "attr.v" \in Bytes
  BY LabelsAreBytes
<1>2. /\ IsText(<<kv[1]>>) /\ IsText(kv[2]) /\ IsText(<<lw[1]>>) /\ IsText(lw[2])
  BY KeyIsText DEF KeyTexts
<1> DEFINE k == feed("attr.k", <<kv[1]>>)
           v == feed("attr.v", kv[2])
           l == feed("attr.k", <<lw[1]>>)
           w == feed("attr.v", lw[2])
<1>3. k \in Seq(Bytes) /\ v \in Seq(Bytes) /\ l \in Seq(Bytes) /\ w \in Seq(Bytes)
  BY <1>1, <1>2, FeedOf
<1>4. AttrPair(kv) = Then(k, v) /\ AttrPair(lw) = Then(l, w)
  BY DEF AttrPair, Then
<1>5. Then(k, Then(v, x)) = Then(l, Then(w, y)) /\ Then(v, x) \in Seq(Bytes) /\ Then(w, y) \in Seq(Bytes)
  <2> HIDE DEF k, v, l, w
  <2>1. Then(Then(k, v), x) = Then(k, Then(v, x)) /\ Then(Then(l, w), y) = Then(l, Then(w, y))
    BY <1>3, Associative
  <2>2. Then(v, x) \in Seq(Bytes) /\ Then(w, y) \in Seq(Bytes)
    BY <1>3, Concat
  <2> QED BY <1>4, <2>1, <2>2
<1>6. <<kv[1]>> = <<lw[1]>> /\ Then(v, x) = Then(w, y)
  <2> DEFINE p == Then(v, x)
             q == Then(w, y)
  <2>1. Then(k, p) = Then(l, q) /\ p \in Seq(Bytes) /\ q \in Seq(Bytes)
    BY <1>5
  <2> HIDE DEF p, q, v, w
  <2>2. <<kv[1]>> = <<lw[1]>> /\ p = q
    BY <1>1, <1>2, <2>1, FeedReads
  <2> QED BY <2>2 DEF p, q
<1>7. kv[2] = lw[2] /\ x = y
  BY <1>1, <1>2, <1>6, FeedReads
<1>8. kv[1] = lw[1]
  BY <1>6
<1> QED BY <1>7, <1>8

\* The fed attributes are a code.
LEMMA PairsAreCodes == Codes(AttrPairCodes, Bytes)
<1>1. AttrPairCodes \subseteq Seq(Bytes)
  <2> SUFFICES ASSUME NEW kv \in Bytes \X KeyTexts PROVE AttrPair(kv) \in Seq(Bytes)
    BY DEF AttrPairCodes
  <2>1. "attr.k" \in Bytes /\ "attr.v" \in Bytes
    BY LabelsAreBytes
  <2>2. IsText(<<kv[1]>>) /\ IsText(kv[2])
    BY KeyIsText DEF KeyTexts
  <2>3. feed("attr.k", <<kv[1]>>) \in Seq(Bytes) /\ feed("attr.v", kv[2]) \in Seq(Bytes)
    BY <2>1, <2>2, FeedOf
  <2> QED BY <2>3, Concat DEF AttrPair, Then
<1>2. ASSUME NEW u \in AttrPairCodes, NEW w \in AttrPairCodes, NEW x \in Seq(Bytes), NEW y \in Seq(Bytes),
             Then(u, x) = Then(w, y)
      PROVE  u = w /\ x = y
  <2>1. PICK kv \in Bytes \X KeyTexts : u = AttrPair(kv)
    BY DEF AttrPairCodes
  <2>2. PICK lw \in Bytes \X KeyTexts : w = AttrPair(lw)
    BY DEF AttrPairCodes
  <2>3. kv = lw /\ x = y
    BY <1>2, <2>1, <2>2, PairReads
  <2> QED BY <2>1, <2>2, <2>3
<1> QED BY <1>1, <1>2 DEF Codes

\* A length and as many words.
Counted(n, codes) == Before(to_le_bytes[n], FlattenSeq(codes))

\* It stays within the alphabet.
LEMMA CountedOf ==
  ASSUME NEW C, Codes(C, Bytes), NEW s \in Seq(C), Len(s) <= MaxLength
  PROVE  Counted(Len(s), s) \in Seq(Bytes)
<1>1. Len(s) \in 0..MaxLength /\ s \in Seq(Seq(Bytes))
  BY LengthsAreWritten DEF Codes
<1>3. FlattenSeq(s) \in Seq(Bytes)
  BY <1>1, FlattenIn
<1>4. to_le_bytes[Len(s)] \in Bytes
  BY <1>1, LengthsAreWritten
<1> QED BY <1>3, <1>4, BeforeOf DEF Counted

\* Words behind their number can be read back.
LEMMA CountedReads ==
  ASSUME NEW C, Codes(C, Bytes), NEW s \in Seq(C), Len(s) <= MaxLength, NEW t \in Seq(C), Len(t) <= MaxLength,
         NEW x \in Seq(Bytes), NEW y \in Seq(Bytes),
         Then(Counted(Len(s), s), x) = Then(Counted(Len(t), t), y)
  PROVE  s = t /\ x = y
<1> DEFINE f == FlattenSeq(s)
           g == FlattenSeq(t)
           l == to_le_bytes[Len(s)]
           m == to_le_bytes[Len(t)]
<1>1. Len(s) \in 0..MaxLength /\ s \in Seq(Seq(Bytes)) /\ Len(t) \in 0..MaxLength /\ t \in Seq(Seq(Bytes))
  BY LengthsAreWritten DEF Codes
<1>2. f \in Seq(Bytes) /\ g \in Seq(Bytes)
  BY <1>1, FlattenIn
<1>3. l \in Bytes /\ m \in Bytes
  BY <1>1, LengthsAreWritten
<1>4. Then(Before(l, f), x) = Then(Before(m, g), y)
  BY DEF Counted
<1>5. (l = m => Len(s) = Len(t))
  BY <1>1, LengthsAreWritten DEF IsInjective
<1>6. (Then(f, x) = Then(g, y) /\ Len(s) = Len(t) => s = t /\ x = y)
  BY FlattenReads
<1> HIDE DEF f, g, l, m
<1>7. <<l>> \in Seq(Bytes) /\ <<m>> \in Seq(Bytes)
  BY <1>3
<1> DEFINE a == <<l>>
           b == <<m>>
<1>8. Then(a, Then(f, x)) = Then(b, Then(g, y)) /\ Then(f, x) \in Seq(Bytes) /\ Then(g, y) \in Seq(Bytes)
  <2>1. a \in Seq(Bytes) /\ b \in Seq(Bytes) /\ Then(Then(a, f), x) = Then(Then(b, g), y)
    BY <1>4, <1>7 DEF Before
  <2> HIDE DEF a, b
  <2>2. Then(Then(a, f), x) = Then(a, Then(f, x)) /\ Then(Then(b, g), y) = Then(b, Then(g, y))
    BY <1>2, <2>1, Associative
  <2>3. Then(f, x) \in Seq(Bytes) /\ Then(g, y) \in Seq(Bytes)
    BY <1>2, Concat
  <2> QED BY <2>1, <2>2, <2>3
<1> DEFINE p == Then(f, x)
           q == Then(g, y)
<1>9. Before(l, p) = Before(m, q) /\ p \in Seq(Bytes) /\ q \in Seq(Bytes)
  BY <1>8 DEF Before
<1> HIDE DEF p, q
<1>10. l = m /\ p = q
  BY <1>3, <1>9, Prefixed
<1> QED BY <1>5, <1>6, <1>10 DEF p, q

\* What feed_list writes: the number of items, then the sorted items, each fed.
LEMMA FeedListOf ==
  ASSUME NEW label \in Bytes, NEW items, IsList(items)
  PROVE  \E s \in Seq(FeedCodes(label)) :
           /\ Len(s) = Len(items) /\ Len(s) <= MaxLength /\ DOMAIN s = DOMAIN items
           /\ \A i \in DOMAIN s : s[i] = feed(label, sorted(items)[i]) /\ IsText(sorted(items)[i])
           /\ s = [i \in DOMAIN items |-> feed(label, sorted(items)[i])]
           /\ feed_list(label, items) = Counted(Len(s), s)
           /\ DOMAIN sorted(items) = DOMAIN items /\ sorted(items) \in Seq(Seq(Bytes))
<1> DEFINE o == sorted(items)
           s == [i \in DOMAIN items |-> feed(label, o[i])]
<1>1. items \in Seq(Seq(Bytes)) /\ Len(items) <= MaxLength /\ \A i \in DOMAIN items : IsText(items[i])
  BY DEF IsList
<1>2. o \in Reorderings(items)
  BY <1>1, SortedIs
<1>3. /\ o \in Seq(Seq(Bytes)) /\ DOMAIN o = DOMAIN items
      /\ \A i \in DOMAIN o : \E j \in DOMAIN items : o[i] = items[j]
  BY <1>1, <1>2, ReorderedCount
<1>4. feed_list(label, items) = Counted(Len(items), s)
  BY DEF feed_list, Counted, Before, Then
<1> HIDE DEF o
<1>5. \A i \in DOMAIN items : IsText(o[i]) /\ o[i] \in KeyTexts
  BY <1>1, <1>3 DEF KeyTexts, IsText
<1>6. DOMAIN items = 1..Len(items) /\ Len(items) \in Nat
  BY <1>1
<1>7. s \in [1..Len(items) -> FeedCodes(label)] /\ DOMAIN s = DOMAIN items
  BY <1>5, <1>6 DEF FeedCodes
<1>8. \A i \in DOMAIN s : s[i] = feed(label, o[i])
  OBVIOUS
<1>9. s = [i \in DOMAIN items |-> feed(label, o[i])]
  OBVIOUS
<1> HIDE DEF s
<1>10. s \in Seq(FeedCodes(label)) /\ Len(s) = Len(items)
  BY <1>6, <1>7
<1> QED BY <1>1, <1>3, <1>4, <1>5, <1>7, <1>8, <1>9, <1>10 DEF o

\* A fed list can be read back, up to its order.
LEMMA ListReads ==
  ASSUME NEW label \in Bytes, NEW u, IsList(u), NEW w, IsList(w), NEW x \in Seq(Bytes), NEW y \in Seq(Bytes),
         Then(feed_list(label, u), x) = Then(feed_list(label, w), y)
  PROVE  sorted(u) = sorted(w) /\ x = y
<1>1. PICK s \in Seq(FeedCodes(label)) :
           /\ Len(s) = Len(u) /\ Len(s) <= MaxLength /\ DOMAIN s = DOMAIN u
           /\ \A i \in DOMAIN s : s[i] = feed(label, sorted(u)[i]) /\ IsText(sorted(u)[i])
           /\ feed_list(label, u) = Counted(Len(s), s)
           /\ DOMAIN sorted(u) = DOMAIN u /\ sorted(u) \in Seq(Seq(Bytes))
  BY FeedListOf
<1>2. PICK t \in Seq(FeedCodes(label)) :
           /\ Len(t) = Len(w) /\ Len(t) <= MaxLength /\ DOMAIN t = DOMAIN w
           /\ \A i \in DOMAIN t : t[i] = feed(label, sorted(w)[i]) /\ IsText(sorted(w)[i])
           /\ feed_list(label, w) = Counted(Len(t), t)
           /\ DOMAIN sorted(w) = DOMAIN w /\ sorted(w) \in Seq(Seq(Bytes))
  BY FeedListOf
<1>3. Codes(FeedCodes(label), Bytes)
  BY FeedsAreCodes
<1>4. s = t /\ x = y
  BY <1>1, <1>2, <1>3, CountedReads
<1> DEFINE o == sorted(u)
           p == sorted(w)
<1>5. /\ DOMAIN o = DOMAIN p /\ o \in Seq(Seq(Bytes)) /\ p \in Seq(Seq(Bytes))
      /\ \A i \in DOMAIN o : feed(label, o[i]) = feed(label, p[i]) /\ IsText(o[i]) /\ IsText(p[i])
  BY <1>1, <1>2, <1>4
<1> HIDE DEF o, p
<1>6. \A i \in DOMAIN o : o[i] = p[i]
  BY <1>5, FeedInjective
<1>7. Len(o) = Len(p) /\ \A i \in 1..Len(o) : o[i] = p[i]
  BY <1>5, <1>6
<1>8. o = p
  BY <1>5, <1>7, SeqsEqual
<1> QED BY <1>4, <1>8 DEF o, p

\* SetToSeq lists each member of a finite set once.
LEMMA SetSeqOf ==
  ASSUME NEW S, IsFiniteSet(S)
  PROVE  /\ SetToSeq(S) \in Seq(S) /\ Len(SetToSeq(S)) = Cardinality(S) /\ Cardinality(S) \in Nat
         /\ DOMAIN SetToSeq(S) = 1..Cardinality(S) /\ IsInjective(SetToSeq(S))
         /\ \A v \in S : \E i \in DOMAIN SetToSeq(S) : SetToSeq(S)[i] = v
<1> DEFINE n == Cardinality(S)
           f == SetToSeq(S)
<1>1. n \in Nat /\ ExistsBijection(1..n, S)
  BY FS_CardinalityType
<1>2. \E g \in [1..n -> S] : IsInjective(g)
  BY <1>1 DEF ExistsBijection, Bijection, Injection
<1>3. f \in [1..n -> S] /\ IsInjective(f)
  BY <1>2 DEF SetToSeq
<1> HIDE DEF f, n
<1>4. f \in Seq(S) /\ Len(f) = n /\ DOMAIN f = 1..n
  BY <1>1, <1>3
<1>5. f \in Surjection(1..n, S)
  <2>1. f \in Injection(1..n, S)
    BY <1>3 DEF Injection
  <2>2. Cardinality(1..n) = n
    BY <1>1, FS_Interval
  <2> QED BY <2>1, <2>2, FS_Injection DEF n
<1>6. \A v \in S : \E i \in 1..n : f[i] = v
  BY <1>5 DEF Surjection
<1> QED BY <1>1, <1>3, <1>4, <1>6 DEF f, n

\* The attributes that count are finitely many texts under names.
LEMMA AttrsOf ==
  ASSUME NEW id \in Identities
  PROVE  LET A == attrs(id, key_attributes)
         IN A \subseteq Bytes \X KeyTexts /\ IsFiniteSet(A) /\ Cardinality(A) <= MaxLength
<1> DEFINE A == attrs(id, key_attributes)
           D == DOMAIN id.attributes
           f == [p \in A |-> p[1]]
<1>1. /\ IsFiniteSet(D) /\ Cardinality(D) <= MaxLength /\ D \subseteq Bytes
      /\ \A a \in D : IsText(id.attributes[a])
  BY IdentitiesAreWhole DEF IsPluginIdentity
<1>2. ASSUME NEW p \in A PROVE p[1] \in D /\ p = <<p[1], id.attributes[p[1]]>>
  BY DEF attrs
<1> HIDE DEF A, D
<1>3. A \subseteq Bytes \X KeyTexts
  <2> SUFFICES ASSUME NEW p \in A PROVE p \in Bytes \X KeyTexts
    OBVIOUS
  <2>1. id.attributes[p[1]] \in KeyTexts /\ p[1] \in Bytes
    BY <1>1, <1>2 DEF KeyTexts, IsText
  <2> QED BY <1>2, <2>1
<1>4. f \in Injection(A, D)
  <2>1. f \in [A -> D]
    BY <1>2
  <2>2. \A p, q \in A : p[1] = q[1] => p = q
    BY <1>2
  <2> QED BY <2>1, <2>2 DEF Injection, IsInjective
<1>5. IsFiniteSet(A) /\ Cardinality(A) <= Cardinality(D)
  BY <1>1, <1>4, FS_Injection
<1>6. Cardinality(A) \in Nat /\ Cardinality(D) \in Nat /\ MaxLength \in Nat
  BY <1>1, <1>5, FS_CardinalityType, LengthsAreWritten
<1>7. Cardinality(A) <= MaxLength
  BY <1>1, <1>5, <1>6
<1> QED BY <1>3, <1>5, <1>7 DEF A

\* The attributes that count, as they are fed.
AttrPairs(id) ==
  LET kv == SetToSeq(attrs(id, key_attributes)) IN [i \in DOMAIN kv |-> AttrPair(kv[i])]

\* They are words, one per attribute.
LEMMA AttrPairsOf ==
  ASSUME NEW id \in Identities
  PROVE  LET kv == SetToSeq(attrs(id, key_attributes))
         IN /\ AttrPairs(id) \in Seq(AttrPairCodes) /\ Len(AttrPairs(id)) = Len(kv) /\ Len(kv) <= MaxLength
            /\ DOMAIN AttrPairs(id) = DOMAIN kv
            /\ kv \in Seq(Bytes \X KeyTexts) /\ \A i \in DOMAIN kv : AttrPairs(id)[i] = AttrPair(kv[i])
            /\ attrs(id, key_attributes) = {kv[i] : i \in DOMAIN kv}
<1> DEFINE A == attrs(id, key_attributes)
           kv == SetToSeq(A)
           s == AttrPairs(id)
<1>1. A \subseteq Bytes \X KeyTexts /\ IsFiniteSet(A) /\ Cardinality(A) <= MaxLength
  BY AttrsOf
<1>2. s = [i \in DOMAIN kv |-> AttrPair(kv[i])]
  BY DEF AttrPairs
<1> HIDE DEF A, s
<1>3. /\ kv \in Seq(A) /\ Len(kv) = Cardinality(A) /\ Cardinality(A) \in Nat /\ DOMAIN kv = 1..Cardinality(A)
      /\ \A v \in A : \E i \in DOMAIN kv : kv[i] = v
  BY <1>1, SetSeqOf
<1> HIDE DEF kv
<1>4. A = {kv[i] : i \in DOMAIN kv}
  BY <1>3
<1>5. \A i \in DOMAIN kv : kv[i] \in Bytes \X KeyTexts
  BY <1>1, <1>3
<1>6. kv \in Seq(Bytes \X KeyTexts)
  BY <1>3, <1>5
<1>7. s \in [1..Cardinality(A) -> AttrPairCodes] /\ DOMAIN s = DOMAIN kv /\ \A i \in DOMAIN kv : s[i] = AttrPair(kv[i])
  BY <1>2, <1>3, <1>5 DEF AttrPairCodes
<1>8. s \in Seq(AttrPairCodes) /\ Len(s) = Cardinality(A)
  BY <1>3, <1>7
<1> QED BY <1>1, <1>3, <1>4, <1>6, <1>7, <1>8 DEF kv, A, s

\* What is fed to the hash from its n-th piece on: the attributes last.
Tail9(id) == Counted(Len(AttrPairs(id)), AttrPairs(id))
Tail8(id) == Then(feed_list("scope", id.scopes), Tail9(id))
Tail7(id) == Then(feed_list("group", id.groups), Tail8(id))
Tail6(id) == Then(feed_list("role", id.roles), Tail7(id))
Tail5(id) == Then(feed("issuer", OrEmpty(id.issuer)), Tail6(id))
Tail4(id) == Then(feed("auth_provider", OrEmpty(id.auth_provider)), Tail5(id))
Tail3(id) == Then(feed("subject_id", OrEmpty(id.subject_id)), Tail4(id))
Tail2(id) == Then(feed("trust_level", id.trust_level), Tail3(id))
Tail1(id) == Then(feed("kind", id.kind), Tail2(id))

\* The parts of an identity that are fed are texts and lists.
LEMMA TextsOf ==
  ASSUME NEW id \in Identities
  PROVE  /\ IsText(id.kind) /\ IsText(id.trust_level) /\ IsText(OrEmpty(id.subject_id))
         /\ IsText(OrEmpty(id.auth_provider)) /\ IsText(OrEmpty(id.issuer))
         /\ IsList(id.roles) /\ IsList(id.groups) /\ IsList(id.scopes)
<1>1. IsText(<<>>)
  BY LengthsAreWritten DEF IsText
<1>2. IsPluginIdentity(id)
  BY IdentitiesAreWhole
<1> QED BY <1>1, <1>2 DEF IsPluginIdentity, OrEmpty

\* Each piece is of the alphabet.
LEMMA SegmentsOf ==
  ASSUME NEW id \in Identities
  PROVE  /\ feed("kind", id.kind) \in Seq(Bytes) /\ feed("trust_level", id.trust_level) \in Seq(Bytes)
         /\ feed("subject_id", OrEmpty(id.subject_id)) \in Seq(Bytes)
         /\ feed("auth_provider", OrEmpty(id.auth_provider)) \in Seq(Bytes)
         /\ feed("issuer", OrEmpty(id.issuer)) \in Seq(Bytes)
         /\ feed_list("role", id.roles) \in Seq(Bytes) /\ feed_list("group", id.groups) \in Seq(Bytes)
         /\ feed_list("scope", id.scopes) \in Seq(Bytes)
<1>2. \A label \in Bytes : \A l : IsList(l) => feed_list(label, l) \in Seq(Bytes)
  BY FeedListOf, FeedsAreCodes, CountedOf
<1>3. \A label \in Bytes : \A v : IsText(v) => feed(label, v) \in Seq(Bytes)
  BY FeedOf
<1> QED BY <1>2, <1>3, TextsOf, LabelsAreBytes

\* So is what follows it.
LEMMA TailsOf ==
  ASSUME NEW id \in Identities
  PROVE  /\ Tail1(id) \in Seq(Bytes) /\ Tail2(id) \in Seq(Bytes) /\ Tail3(id) \in Seq(Bytes)
         /\ Tail4(id) \in Seq(Bytes) /\ Tail5(id) \in Seq(Bytes) /\ Tail6(id) \in Seq(Bytes)
         /\ Tail7(id) \in Seq(Bytes) /\ Tail8(id) \in Seq(Bytes) /\ Tail9(id) \in Seq(Bytes)
<1>1. Tail9(id) \in Seq(Bytes)
  <2>1. AttrPairs(id) \in Seq(AttrPairCodes) /\ Len(AttrPairs(id)) <= MaxLength
    BY AttrPairsOf
  <2> QED BY <2>1, PairsAreCodes, CountedOf DEF Tail9
<1>4. Tail8(id) \in Seq(Bytes)
  BY <1>1, SegmentsOf, Concat DEF Tail8
<1>5. Tail7(id) \in Seq(Bytes)
  BY <1>4, SegmentsOf, Concat DEF Tail7
<1>6. Tail6(id) \in Seq(Bytes)
  BY <1>5, SegmentsOf, Concat DEF Tail6
<1>7. Tail5(id) \in Seq(Bytes)
  BY <1>6, SegmentsOf, Concat DEF Tail5
<1>8. Tail4(id) \in Seq(Bytes)
  BY <1>7, SegmentsOf, Concat DEF Tail4
<1>9. Tail3(id) \in Seq(Bytes)
  BY <1>8, SegmentsOf, Concat DEF Tail3
<1>10. Tail2(id) \in Seq(Bytes)
  BY <1>9, SegmentsOf, Concat DEF Tail2
<1>11. Tail1(id) \in Seq(Bytes)
  BY <1>10, SegmentsOf, Concat DEF Tail1
<1> QED BY <1>1, <1>4, <1>5, <1>6, <1>7, <1>8, <1>9, <1>10, <1>11

\* identity_hash_with_attrs feeds the pieces in this order.
LEMMA HashIs ==
  ASSUME NEW id \in Identities
  PROVE  identity_hash_with_attrs(id, key_attributes) = Tail1(id)
<1> DEFINE a1 == feed("kind", id.kind)
           a2 == feed("trust_level", id.trust_level)
           a3 == feed("subject_id", OrEmpty(id.subject_id))
           a4 == feed("auth_provider", OrEmpty(id.auth_provider))
           a5 == feed("issuer", OrEmpty(id.issuer))
           a6 == feed_list("role", id.roles)
           a7 == feed_list("group", id.groups)
           a8 == feed_list("scope", id.scopes)
           kv == SetToSeq(attrs(id, key_attributes))
           a9 == <<to_le_bytes[Len(kv)]>>
           a10 == FlattenSeq(AttrPairs(id))
           x2 == Then(a1, a2)
           x3 == Then(x2, a3)
           x4 == Then(x3, a4)
           x5 == Then(x4, a5)
           x6 == Then(x5, a6)
           x7 == Then(x6, a7)
           x8 == Then(x7, a8)
<1>1. identity_hash_with_attrs(id, key_attributes) = Then(Then(x8, a9), a10)
  BY DEF identity_hash_with_attrs, AttrPairs, AttrPair, Then
<1>2. /\ a1 \in Seq(Bytes) /\ a2 \in Seq(Bytes) /\ a3 \in Seq(Bytes) /\ a4 \in Seq(Bytes) /\ a5 \in Seq(Bytes)
      /\ a6 \in Seq(Bytes) /\ a7 \in Seq(Bytes) /\ a8 \in Seq(Bytes)
  BY SegmentsOf
<1>3. a9 \in Seq(Bytes) /\ a10 \in Seq(Bytes) /\ Tail9(id) = Then(a9, a10)
  <2>1. /\ AttrPairs(id) \in Seq(AttrPairCodes) /\ Len(AttrPairs(id)) = Len(kv) /\ Len(kv) <= MaxLength
        /\ kv \in Seq(Bytes \X KeyTexts)
    BY AttrPairsOf
  <2>2. AttrPairs(id) \in Seq(Seq(Bytes))
    BY <2>1, PairsAreCodes DEF Codes
  <2>3. a10 \in Seq(Bytes)
    BY <2>2, FlattenIn
  <2>4. to_le_bytes[Len(kv)] \in Bytes
    <3>1. Len(kv) \in 0..MaxLength
      BY <2>1
    <3> HIDE DEF kv
    <3> QED BY <3>1, LengthsAreWritten
  <2>5. Tail9(id) = Then(a9, a10)
    BY <2>1 DEF Tail9, Counted, Before
  <2> HIDE DEF kv
  <2>6. a9 \in Seq(Bytes)
    BY <2>4
  <2> QED BY <2>3, <2>5, <2>6
<1>4. /\ Tail8(id) = Then(a8, Tail9(id)) /\ Tail7(id) = Then(a7, Tail8(id)) /\ Tail6(id) = Then(a6, Tail7(id))
      /\ Tail5(id) = Then(a5, Tail6(id)) /\ Tail4(id) = Then(a4, Tail5(id)) /\ Tail3(id) = Then(a3, Tail4(id))
      /\ Tail2(id) = Then(a2, Tail3(id)) /\ Tail1(id) = Then(a1, Tail2(id))
  BY DEF Tail8, Tail7, Tail6, Tail5, Tail4, Tail3, Tail2, Tail1
<1> HIDE DEF a1, a2, a3, a4, a5, a6, a7, a8, a9, a10
<1>5. /\ x2 \in Seq(Bytes) /\ x3 \in Seq(Bytes) /\ x4 \in Seq(Bytes) /\ x5 \in Seq(Bytes)
      /\ x6 \in Seq(Bytes) /\ x7 \in Seq(Bytes) /\ x8 \in Seq(Bytes)
  <2>2. x2 \in Seq(Bytes)
    BY <1>2, Concat
  <2> HIDE DEF x2
  <2>3. x3 \in Seq(Bytes)
    BY <1>2, <2>2, Concat
  <2> HIDE DEF x3
  <2>4. x4 \in Seq(Bytes)
    BY <1>2, <2>3, Concat
  <2> HIDE DEF x4
  <2>5. x5 \in Seq(Bytes)
    BY <1>2, <2>4, Concat
  <2> HIDE DEF x5
  <2>6. x6 \in Seq(Bytes)
    BY <1>2, <2>5, Concat
  <2> HIDE DEF x6
  <2>7. x7 \in Seq(Bytes)
    BY <1>2, <2>6, Concat
  <2> HIDE DEF x7
  <2>8. x8 \in Seq(Bytes)
    BY <1>2, <2>7, Concat
  <2> QED BY <2>2, <2>3, <2>4, <2>5, <2>6, <2>7, <2>8
<1>6. \A s, t, u \in Seq(Bytes) : Then(Then(s, t), u) = Then(s, Then(t, u))
  BY Associative
<1>7. Then(Then(x8, a9), a10) = Then(x8, Tail9(id))
  <2> HIDE DEF x8
  <2> QED BY <1>3, <1>5, <1>6
<1>8. Then(x8, Tail9(id)) = Then(x7, Tail8(id))
  <2> HIDE DEF x7
  <2> QED BY <1>2, <1>4, <1>5, <1>6, TailsOf
<1>9. Then(x7, Tail8(id)) = Then(x6, Tail7(id))
  <2> HIDE DEF x6
  <2> QED BY <1>2, <1>4, <1>5, <1>6, TailsOf
<1>10. Then(x6, Tail7(id)) = Then(x5, Tail6(id))
  <2> HIDE DEF x5
  <2> QED BY <1>2, <1>4, <1>5, <1>6, TailsOf
<1>11. Then(x5, Tail6(id)) = Then(x4, Tail5(id))
  <2> HIDE DEF x4
  <2> QED BY <1>2, <1>4, <1>5, <1>6, TailsOf
<1>12. Then(x4, Tail5(id)) = Then(x3, Tail4(id))
  <2> HIDE DEF x3
  <2> QED BY <1>2, <1>4, <1>5, <1>6, TailsOf
<1>13. Then(x3, Tail4(id)) = Then(x2, Tail3(id))
  <2> HIDE DEF x2
  <2> QED BY <1>2, <1>4, <1>5, <1>6, TailsOf
<1>14. Then(x2, Tail3(id)) = Tail1(id)
  BY <1>2, <1>4, <1>6, TailsOf
<1> HIDE DEF x2, x3, x4, x5, x6, x7, x8
<1> QED BY <1>1, <1>7, <1>8, <1>9, <1>10, <1>11, <1>12, <1>13, <1>14

\* What the hash tells apart: equal hashes come from equal pieces, read back one after
\* the other.
LEMMA HashReads ==
  ASSUME NEW a \in Identities, NEW b \in Identities,
         identity_hash_with_attrs(a, key_attributes) = identity_hash_with_attrs(b, key_attributes)
  PROVE  /\ a.kind = b.kind /\ a.trust_level = b.trust_level
         /\ OrEmpty(a.subject_id) = OrEmpty(b.subject_id)
         /\ OrEmpty(a.auth_provider) = OrEmpty(b.auth_provider)
         /\ OrEmpty(a.issuer) = OrEmpty(b.issuer)
         /\ sorted(a.roles) = sorted(b.roles) /\ sorted(a.groups) = sorted(b.groups)
         /\ sorted(a.scopes) = sorted(b.scopes)
         /\ attrs(a, key_attributes) = attrs(b, key_attributes)
<1>1. Tail1(a) = Tail1(b)
  BY HashIs
<1>2. a.kind = b.kind /\ Tail2(a) = Tail2(b)
  <2>1. IsText(a.kind) /\ IsText(b.kind)
    BY TextsOf
  <2>2. Tail2(a) \in Seq(Bytes) /\ Tail2(b) \in Seq(Bytes)
    BY TailsOf
  <2>3. "kind" \in Bytes
    BY LabelsAreBytes
  <2>4. Then(feed("kind", a.kind), Tail2(a)) = Then(feed("kind", b.kind), Tail2(b))
    BY <1>1 DEF Tail1
  <2> QED BY <2>1, <2>2, <2>3, <2>4, FeedReads
<1>3. a.trust_level = b.trust_level /\ Tail3(a) = Tail3(b)
  <2>1. IsText(a.trust_level) /\ IsText(b.trust_level)
    BY TextsOf
  <2>2. Tail3(a) \in Seq(Bytes) /\ Tail3(b) \in Seq(Bytes)
    BY TailsOf
  <2>3. "trust_level" \in Bytes
    BY LabelsAreBytes
  <2>4. Then(feed("trust_level", a.trust_level), Tail3(a)) = Then(feed("trust_level", b.trust_level), Tail3(b))
    BY <1>2 DEF Tail2
  <2> QED BY <2>1, <2>2, <2>3, <2>4, FeedReads
<1>4. OrEmpty(a.subject_id) = OrEmpty(b.subject_id) /\ Tail4(a) = Tail4(b)
  <2>1. IsText(OrEmpty(a.subject_id)) /\ IsText(OrEmpty(b.subject_id))
    BY TextsOf
  <2>2. Tail4(a) \in Seq(Bytes) /\ Tail4(b) \in Seq(Bytes)
    BY TailsOf
  <2>3. "subject_id" \in Bytes
    BY LabelsAreBytes
  <2>4. Then(feed("subject_id", OrEmpty(a.subject_id)), Tail4(a)) = Then(feed("subject_id", OrEmpty(b.subject_id)), Tail4(b))
    BY <1>3 DEF Tail3
  <2> QED BY <2>1, <2>2, <2>3, <2>4, FeedReads
<1>5. OrEmpty(a.auth_provider) = OrEmpty(b.auth_provider) /\ Tail5(a) = Tail5(b)
  <2>1. IsText(OrEmpty(a.auth_provider)) /\ IsText(OrEmpty(b.auth_provider))
    BY TextsOf
  <2>2. Tail5(a) \in Seq(Bytes) /\ Tail5(b) \in Seq(Bytes)
    BY TailsOf
  <2>3. "auth_provider" \in Bytes
    BY LabelsAreBytes
  <2>4. Then(feed("auth_provider", OrEmpty(a.auth_provider)), Tail5(a)) = Then(feed("auth_provider", OrEmpty(b.auth_provider)), Tail5(b))
    BY <1>4 DEF Tail4
  <2> QED BY <2>1, <2>2, <2>3, <2>4, FeedReads
<1>6. OrEmpty(a.issuer) = OrEmpty(b.issuer) /\ Tail6(a) = Tail6(b)
  <2>1. IsText(OrEmpty(a.issuer)) /\ IsText(OrEmpty(b.issuer))
    BY TextsOf
  <2>2. Tail6(a) \in Seq(Bytes) /\ Tail6(b) \in Seq(Bytes)
    BY TailsOf
  <2>3. "issuer" \in Bytes
    BY LabelsAreBytes
  <2>4. Then(feed("issuer", OrEmpty(a.issuer)), Tail6(a)) = Then(feed("issuer", OrEmpty(b.issuer)), Tail6(b))
    BY <1>5 DEF Tail5
  <2> QED BY <2>1, <2>2, <2>3, <2>4, FeedReads
<1>7. sorted(a.roles) = sorted(b.roles) /\ Tail7(a) = Tail7(b)
  <2>1. IsList(a.roles) /\ IsList(b.roles)
    BY TextsOf
  <2>2. Tail7(a) \in Seq(Bytes) /\ Tail7(b) \in Seq(Bytes)
    BY TailsOf
  <2>3. "role" \in Bytes
    BY LabelsAreBytes
  <2>4. Then(feed_list("role", a.roles), Tail7(a)) = Then(feed_list("role", b.roles), Tail7(b))
    BY <1>6 DEF Tail6
  <2> QED BY <2>1, <2>2, <2>3, <2>4, ListReads
<1>8. sorted(a.groups) = sorted(b.groups) /\ Tail8(a) = Tail8(b)
  <2>1. IsList(a.groups) /\ IsList(b.groups)
    BY TextsOf
  <2>2. Tail8(a) \in Seq(Bytes) /\ Tail8(b) \in Seq(Bytes)
    BY TailsOf
  <2>3. "group" \in Bytes
    BY LabelsAreBytes
  <2>4. Then(feed_list("group", a.groups), Tail8(a)) = Then(feed_list("group", b.groups), Tail8(b))
    BY <1>7 DEF Tail7
  <2> QED BY <2>1, <2>2, <2>3, <2>4, ListReads
<1>9. sorted(a.scopes) = sorted(b.scopes) /\ Tail9(a) = Tail9(b)
  <2>1. IsList(a.scopes) /\ IsList(b.scopes)
    BY TextsOf
  <2>2. Tail9(a) \in Seq(Bytes) /\ Tail9(b) \in Seq(Bytes)
    BY TailsOf
  <2>3. "scope" \in Bytes
    BY LabelsAreBytes
  <2>4. Then(feed_list("scope", a.scopes), Tail9(a)) = Then(feed_list("scope", b.scopes), Tail9(b))
    BY <1>8 DEF Tail8
  <2> QED BY <2>1, <2>2, <2>3, <2>4, ListReads
<1>10. AttrPairs(a) = AttrPairs(b)
  <2> DEFINE s == AttrPairs(a)
             t == AttrPairs(b)
  <2>1. s \in Seq(AttrPairCodes) /\ t \in Seq(AttrPairCodes) /\ Len(s) <= MaxLength /\ Len(t) <= MaxLength
    BY AttrPairsOf
  <2>2. Counted(Len(s), s) = Counted(Len(t), t)
    BY <1>9 DEF Tail9
  <2> HIDE DEF s, t
  <2>3. Then(Counted(Len(s), s), <<>>) = Then(Counted(Len(t), t), <<>>) /\ <<>> \in Seq(Bytes)
    BY <2>2
  <2>4. s = t
    BY <2>1, <2>3, PairsAreCodes, CountedReads
  <2> QED BY <2>4 DEF s, t
<1>11. attrs(a, key_attributes) = attrs(b, key_attributes)
  <2> DEFINE kv == SetToSeq(attrs(a, key_attributes))
             lw == SetToSeq(attrs(b, key_attributes))
             s == AttrPairs(a)
  <2>1. /\ DOMAIN s = DOMAIN kv /\ kv \in Seq(Bytes \X KeyTexts) /\ \A i \in DOMAIN kv : s[i] = AttrPair(kv[i])
        /\ attrs(a, key_attributes) = {kv[i] : i \in DOMAIN kv}
    BY AttrPairsOf
  <2>2. /\ DOMAIN s = DOMAIN lw /\ lw \in Seq(Bytes \X KeyTexts) /\ \A i \in DOMAIN lw : s[i] = AttrPair(lw[i])
        /\ attrs(b, key_attributes) = {lw[i] : i \in DOMAIN lw}
    BY <1>10, AttrPairsOf
  <2> HIDE DEF kv, lw, s
  <2>3. ASSUME NEW i \in DOMAIN kv PROVE kv[i] = lw[i]
    <3>3. i \in DOMAIN lw /\ s[i] = AttrPair(kv[i]) /\ s[i] = AttrPair(lw[i])
      BY <2>1, <2>2
    <3>4. kv[i] \in Bytes \X KeyTexts /\ lw[i] \in Bytes \X KeyTexts
      BY <2>1, <2>2, <3>3, ItemIn
    <3>1. kv[i] \in Bytes \X KeyTexts /\ lw[i] \in Bytes \X KeyTexts /\ AttrPair(kv[i]) = AttrPair(lw[i])
      BY <3>3, <3>4
    <3>2. Then(AttrPair(kv[i]), <<>>) = Then(AttrPair(lw[i]), <<>>) /\ <<>> \in Seq(Bytes)
      BY <3>1
    <3> QED BY <3>1, <3>2, PairReads
  <2>4. {kv[i] : i \in DOMAIN kv} = {lw[i] : i \in DOMAIN lw}
    BY <2>1, <2>2, <2>3
  <2> QED BY <2>1, <2>2, <2>4
<1> QED BY <1>2, <1>3, <1>4, <1>5, <1>6, <1>7, <1>8, <1>9, <1>11

\* What it does not: identities that differ in list order or in None against "" hash
\* alike.
LEMMA HashWrites ==
  ASSUME NEW a \in Identities, NEW b \in Identities,
         a.kind = b.kind, a.trust_level = b.trust_level,
         OrEmpty(a.subject_id) = OrEmpty(b.subject_id),
         OrEmpty(a.auth_provider) = OrEmpty(b.auth_provider),
         OrEmpty(a.issuer) = OrEmpty(b.issuer),
         SameItems(a.roles, b.roles), SameItems(a.groups, b.groups), SameItems(a.scopes, b.scopes),
         attrs(a, key_attributes) = attrs(b, key_attributes)
  PROVE  identity_hash_with_attrs(a, key_attributes) = identity_hash_with_attrs(b, key_attributes)
<1>1. ASSUME NEW label, NEW u, IsList(u), NEW w, IsList(w), SameItems(u, w)
      PROVE  feed_list(label, u) = feed_list(label, w)
  <2>1. Len(u) = Len(w) /\ DOMAIN u = DOMAIN w /\ sorted(u) = sorted(w)
    BY <1>1, SortedAgree DEF IsList
  <2> QED BY <2>1 DEF feed_list
<1>2. /\ feed_list("role", a.roles) = feed_list("role", b.roles)
      /\ feed_list("group", a.groups) = feed_list("group", b.groups)
      /\ feed_list("scope", a.scopes) = feed_list("scope", b.scopes)
  BY <1>1, TextsOf
<1> QED BY <1>2 DEF identity_hash_with_attrs

\* The allow-listed attributes, the subject token apart, as SameAuthority has them.
Listed(id) == {<<k, id.attributes[k]>> : k \in (key_attributes \ {SUBJECT_TOKEN_ATTRIBUTE}) \cap DOMAIN id.attributes}

\* What stands for the subject token, as SameAuthority has it.
SubjectToken(id) ==
  IF vault_binding(id) THEN <<"vault", id.attributes[SUBJECT_TOKEN_BINDING_ATTRIBUTE]>>
  ELSE IF SUBJECT_TOKEN_ATTRIBUTE \in DOMAIN id.attributes
  THEN <<"bearer", id.attributes[SUBJECT_TOKEN_ATTRIBUTE]>>
  ELSE <<"none", <<>>>>

\* What the hash has of it.
SubjectAttr(id) ==
  IF vault_binding(id) THEN {<<SUBJECT_TOKEN_BINDING_ATTRIBUTE, id.attributes[SUBJECT_TOKEN_BINDING_ATTRIBUTE]>>}
  ELSE IF SUBJECT_TOKEN_ATTRIBUTE \in DOMAIN id.attributes
  THEN {<<SUBJECT_TOKEN_ATTRIBUTE, id.attributes[SUBJECT_TOKEN_ATTRIBUTE]>>}
  ELSE {}

\* The attributes that count are those two.
LEMMA AttrsSplit ==
  ASSUME NEW id
  PROVE  attrs(id, key_attributes) = Listed(id) \cup SubjectAttr(id)
<1> DEFINE D == DOMAIN id.attributes
           K == key_attributes
           v == id.attributes
           T == SUBJECT_TOKEN_ATTRIBUTE
           B == SUBJECT_TOKEN_BINDING_ATTRIBUTE
<1>1. CASE vault_binding(id)
  <2>1. B \in D
    BY <1>1 DEF vault_binding
  <2>2. attrs(id, K) = {<<k, v[k]>> : k \in ({k \in K : k # T} \cup {B}) \cap D}
    BY <1>1 DEF attrs
  <2>3. ({k \in K : k # T} \cup {B}) \cap D = ((K \ {T}) \cap D) \cup {B}
    BY <2>1
  <2>4. attrs(id, K) = {<<k, v[k]>> : k \in ((K \ {T}) \cap D) \cup {B}}
    BY <2>2, <2>3
  <2> QED BY <1>1, <2>4 DEF Listed, SubjectAttr
<1>2. CASE ~vault_binding(id)
  <2>2. attrs(id, K) = {<<k, v[k]>> : k \in (K \cup {T}) \cap D}
    BY <1>2 DEF attrs
  <2>3. CASE T \in D
    <3>1. (K \cup {T}) \cap D = ((K \ {T}) \cap D) \cup {T}
      BY <2>3
    <3>2. attrs(id, K) = {<<k, v[k]>> : k \in ((K \ {T}) \cap D) \cup {T}}
      BY <2>2, <3>1
    <3> QED BY <1>2, <2>3, <3>2 DEF Listed, SubjectAttr
  <2>4. CASE T \notin D
    <3>1. (K \cup {T}) \cap D = (K \ {T}) \cap D
      BY <2>4
    <3> QED BY <1>2, <2>2, <2>4, <3>1 DEF Listed, SubjectAttr
  <2> QED BY <2>3, <2>4
<1> QED BY <1>1, <1>2

\* The attributes of an identity with one.
Sole(k, v) == {<<k, v>>}

\* They tell name and value.
LEMMA OnePair ==
  ASSUME NEW k, NEW l, NEW v, NEW w, Sole(k, v) = Sole(l, w)
  PROVE  k = l /\ v = w
<1>1. <<k, v>> \in {<<l, w>>}
  BY DEF Sole
<1>2. <<k, v>> = <<l, w>>
  BY <1>1
<1> QED BY <1>2

\* There is one.
LEMMA SoleSome == ASSUME NEW k, NEW v PROVE Sole(k, v) # {}
BY DEF Sole

\* The attributes that count agree exactly if the listed ones and the subject token
\* do.  That a vaulted token is fed under another name than a bearer token is what
\* keeps the two apart.
LEMMA AttrsExact ==
  ASSUME NEW a, NEW b
  PROVE  attrs(a, key_attributes) = attrs(b, key_attributes)
           <=> Listed(a) = Listed(b) /\ SubjectToken(a) = SubjectToken(b)
<1> DEFINE T == SUBJECT_TOKEN_ATTRIBUTE
           B == SUBJECT_TOKEN_BINDING_ATTRIBUTE
<1>1. T # B /\ B \notin key_attributes
  BY BindingIsNotListed DEF SUBJECT_TOKEN_ATTRIBUTE, SUBJECT_TOKEN_BINDING_ATTRIBUTE
<1>2. \A id : \A p \in Listed(id) : p[1] # T /\ p[1] # B
  BY <1>1 DEF Listed
<1>3. \A id : \A p \in SubjectAttr(id) : p[1] = T \/ p[1] = B
  BY DEF SubjectAttr
<1>4. \A id : attrs(id, key_attributes) = Listed(id) \cup SubjectAttr(id)
  BY AttrsSplit
<1>5. attrs(a, key_attributes) = attrs(b, key_attributes) <=> Listed(a) = Listed(b) /\ SubjectAttr(a) = SubjectAttr(b)
  <2>1. ASSUME NEW x, NEW y, attrs(x, key_attributes) = attrs(y, key_attributes), NEW p \in Listed(x)
        PROVE  p \in Listed(y)
    BY <2>1, <1>2, <1>3, <1>4
  <2>2. ASSUME NEW x, NEW y, attrs(x, key_attributes) = attrs(y, key_attributes), NEW p \in SubjectAttr(x)
        PROVE  p \in SubjectAttr(y)
    BY <2>2, <1>2, <1>3, <1>4
  <2>3. ASSUME attrs(a, key_attributes) = attrs(b, key_attributes)
        PROVE  Listed(a) = Listed(b) /\ SubjectAttr(a) = SubjectAttr(b)
    <3>1. Listed(a) = Listed(b)
      BY <2>1, <2>3
    <3>2. SubjectAttr(a) = SubjectAttr(b)
      BY <2>2, <2>3
    <3> QED BY <3>1, <3>2
  <2>4. ASSUME Listed(a) = Listed(b), SubjectAttr(a) = SubjectAttr(b)
        PROVE  attrs(a, key_attributes) = attrs(b, key_attributes)
    BY <1>4, <2>4
  <2> QED BY <2>3, <2>4
<1>6. SubjectAttr(a) = SubjectAttr(b) <=> SubjectToken(a) = SubjectToken(b)
  <2> DEFINE u == a.attributes[B]
             v == a.attributes[T]
             x == b.attributes[B]
             y == b.attributes[T]
  <2>2. \/ /\ vault_binding(a)
           /\ SubjectAttr(a) = Sole(B, u) /\ SubjectToken(a) = <<"vault", u>>
        \/ /\ ~vault_binding(a) /\ T \in DOMAIN a.attributes
           /\ SubjectAttr(a) = Sole(T, v) /\ SubjectToken(a) = <<"bearer", v>>
        \/ SubjectAttr(a) = {} /\ SubjectToken(a) = <<"none", <<>>>>
    BY DEF SubjectAttr, SubjectToken, Sole
  <2>3. \/ /\ vault_binding(b)
           /\ SubjectAttr(b) = Sole(B, x) /\ SubjectToken(b) = <<"vault", x>>
        \/ /\ ~vault_binding(b) /\ T \in DOMAIN b.attributes
           /\ SubjectAttr(b) = Sole(T, y) /\ SubjectToken(b) = <<"bearer", y>>
        \/ SubjectAttr(b) = {} /\ SubjectToken(b) = <<"none", <<>>>>
    BY DEF SubjectAttr, SubjectToken, Sole
  <2> HIDE DEF u, v, x, y, T, B
  <2>4. CASE SubjectAttr(a) = Sole(B, u) /\ SubjectToken(a) = <<"vault", u>>
    <3>1. CASE SubjectAttr(b) = Sole(B, x) /\ SubjectToken(b) = <<"vault", x>>
      <4>1. SubjectAttr(a) = SubjectAttr(b) <=> u = x
        BY <1>1, <2>4, <3>1, OnePair
      <4>2. SubjectToken(a) = SubjectToken(b) <=> u = x
        BY <2>4, <3>1
      <4> QED BY <4>1, <4>2
    <3>2. CASE SubjectAttr(b) = Sole(T, y) /\ SubjectToken(b) = <<"bearer", y>>
      <4>1. SubjectAttr(a) # SubjectAttr(b)
        BY <1>1, <2>4, <3>2, OnePair
      <4>2. SubjectToken(a) # SubjectToken(b)
        BY <2>4, <3>2
      <4> QED BY <4>1, <4>2
    <3>3. CASE SubjectAttr(b) = {} /\ SubjectToken(b) = <<"none", <<>>>>
      <4>1. SubjectAttr(a) # SubjectAttr(b)
        BY <2>4, <3>3, SoleSome
      <4>2. SubjectToken(a) # SubjectToken(b)
        BY <2>4, <3>3
      <4> QED BY <4>1, <4>2
    <3> QED BY <2>3, <3>1, <3>2, <3>3
  <2>5. CASE SubjectAttr(a) = Sole(T, v) /\ SubjectToken(a) = <<"bearer", v>>
    <3>1. CASE SubjectAttr(b) = Sole(B, x) /\ SubjectToken(b) = <<"vault", x>>
      <4>1. SubjectAttr(a) # SubjectAttr(b)
        BY <1>1, <2>5, <3>1, OnePair
      <4>2. SubjectToken(a) # SubjectToken(b)
        BY <2>5, <3>1
      <4> QED BY <4>1, <4>2
    <3>2. CASE SubjectAttr(b) = Sole(T, y) /\ SubjectToken(b) = <<"bearer", y>>
      <4>1. SubjectAttr(a) = SubjectAttr(b) <=> v = y
        BY <1>1, <2>5, <3>2, OnePair
      <4>2. SubjectToken(a) = SubjectToken(b) <=> v = y
        BY <2>5, <3>2
      <4> QED BY <4>1, <4>2
    <3>3. CASE SubjectAttr(b) = {} /\ SubjectToken(b) = <<"none", <<>>>>
      <4>1. SubjectAttr(a) # SubjectAttr(b)
        BY <2>5, <3>3, SoleSome
      <4>2. SubjectToken(a) # SubjectToken(b)
        BY <2>5, <3>3
      <4> QED BY <4>1, <4>2
    <3> QED BY <2>3, <3>1, <3>2, <3>3
  <2>6. CASE SubjectAttr(a) = {} /\ SubjectToken(a) = <<"none", <<>>>>
    <3>1. CASE SubjectAttr(b) = Sole(B, x) /\ SubjectToken(b) = <<"vault", x>>
      <4>1. SubjectAttr(a) # SubjectAttr(b)
        BY <2>6, <3>1, SoleSome
      <4>2. SubjectToken(a) # SubjectToken(b)
        BY <2>6, <3>1
      <4> QED BY <4>1, <4>2
    <3>2. CASE SubjectAttr(b) = Sole(T, y) /\ SubjectToken(b) = <<"bearer", y>>
      <4>1. SubjectAttr(a) # SubjectAttr(b)
        BY <2>6, <3>2, SoleSome
      <4>2. SubjectToken(a) # SubjectToken(b)
        BY <2>6, <3>2
      <4> QED BY <4>1, <4>2
    <3>3. CASE SubjectAttr(b) = {} /\ SubjectToken(b) = <<"none", <<>>>>
      <4>1. SubjectAttr(a) = SubjectAttr(b)
        BY <1>1, <2>6, <3>3
      <4>2. SubjectToken(a) = SubjectToken(b)
        BY <2>6, <3>3
      <4> QED BY <4>1, <4>2
    <3> QED BY <2>3, <3>1, <3>2, <3>3
  <2> QED BY <2>2, <2>4, <2>5, <2>6
<1> QED BY <1>5, <1>6

\* An option is fed as its value or as "", so None and "" are one and no other two.
LEMMA OptionSame ==
  ASSUME NEW v, NEW w
  PROVE  OrEmpty(v) = OrEmpty(w) <=> (v = w \/ {v, w} = {None, <<>>})
<1>1. ASSUME OrEmpty(v) = OrEmpty(w) PROVE v = w \/ {v, w} = {None, <<>>}
  BY <1>1 DEF OrEmpty
<1>2. ASSUME {v, w} = {None, <<>>} PROVE OrEmpty(v) = OrEmpty(w)
  <2>1. v \in {None, <<>>} /\ w \in {None, <<>>}
    BY <1>2
  <2> QED BY <2>1 DEF OrEmpty
<1> QED BY <1>1, <1>2

\* SameAuthority, in the terms of what is fed.
AuthorityParts(a, b) ==
  /\ a.kind = b.kind /\ a.trust_level = b.trust_level
  /\ OrEmpty(a.subject_id) = OrEmpty(b.subject_id)
  /\ OrEmpty(a.auth_provider) = OrEmpty(b.auth_provider)
  /\ OrEmpty(a.issuer) = OrEmpty(b.issuer)
  /\ SameItems(a.roles, b.roles) /\ SameItems(a.groups, b.groups) /\ SameItems(a.scopes, b.scopes)
  /\ Listed(a) = Listed(b) /\ SubjectToken(a) = SubjectToken(b)

\* It is the same.
LEMMA AuthorityIs ==
  ASSUME NEW a, NEW b
  PROVE  SameAuthority(a, b) <=> AuthorityParts(a, b)
<1>1. (\A f \in {"subject_id", "auth_provider", "issuer"} : a[f] = b[f] \/ {a[f], b[f]} = {None, <<>>})
        <=> /\ OrEmpty(a.subject_id) = OrEmpty(b.subject_id)
            /\ OrEmpty(a.auth_provider) = OrEmpty(b.auth_provider)
            /\ OrEmpty(a.issuer) = OrEmpty(b.issuer)
  <2>1. (\A f \in {"subject_id", "auth_provider", "issuer"} : a[f] = b[f] \/ {a[f], b[f]} = {None, <<>>})
          <=> (\A f \in {"subject_id", "auth_provider", "issuer"} : OrEmpty(a[f]) = OrEmpty(b[f]))
    BY OptionSame, Zenon
  <2>2. (\A f \in {"subject_id", "auth_provider", "issuer"} : OrEmpty(a[f]) = OrEmpty(b[f]))
          <=> /\ OrEmpty(a.subject_id) = OrEmpty(b.subject_id)
              /\ OrEmpty(a.auth_provider) = OrEmpty(b.auth_provider)
              /\ OrEmpty(a.issuer) = OrEmpty(b.issuer)
    OBVIOUS
  <2> QED BY <2>1, <2>2
<1>2. (\A f \in {"roles", "groups", "scopes"} :
         \A v \in Range(a[f]) \cup Range(b[f]) : Count(a[f], v) = Count(b[f], v))
        <=> SameItems(a.roles, b.roles) /\ SameItems(a.groups, b.groups) /\ SameItems(a.scopes, b.scopes)
  <2>1. (\A f \in {"roles", "groups", "scopes"} : SameItems(a[f], b[f]))
        <=> SameItems(a.roles, b.roles) /\ SameItems(a.groups, b.groups) /\ SameItems(a.scopes, b.scopes)
    OBVIOUS
  <2> QED BY <2>1 DEF SameItems
<1>3. SUBJECT_TOKEN_SOURCE_IDP_VAULT = <<"idp_vault">>
  BY DEF SUBJECT_TOKEN_SOURCE_IDP_VAULT
<1>4. SameAuthority(a, b)
        <=> /\ a.kind = b.kind /\ a.trust_level = b.trust_level
            /\ (\A f \in {"subject_id", "auth_provider", "issuer"} : a[f] = b[f] \/ {a[f], b[f]} = {None, <<>>})
            /\ (\A f \in {"roles", "groups", "scopes"} :
                  \A v \in Range(a[f]) \cup Range(b[f]) : Count(a[f], v) = Count(b[f], v))
            /\ Listed(a) = Listed(b) /\ SubjectToken(a) = SubjectToken(b)
  BY <1>3, Zenon DEF SameAuthority, Listed, SubjectToken, vault_binding
<1> QED BY <1>1, <1>2, <1>4 DEF AuthorityParts

\* The identity hash is exact: two identities hash alike if and only if they have the
\* same authority.
LEMMA HashExact ==
  ASSUME NEW a \in Identities, NEW b \in Identities
  PROVE  SameAuthority(a, b) <=> HashOf[a] = HashOf[b]
<1>1. HashOf[a] = identity_hash_with_attrs(a, key_attributes)
  BY DEF HashOf
<1>2. HashOf[b] = identity_hash_with_attrs(b, key_attributes)
  BY DEF HashOf
<1>3. ASSUME HashOf[a] = HashOf[b] PROVE AuthorityParts(a, b)
  <2>1. /\ a.kind = b.kind /\ a.trust_level = b.trust_level
        /\ OrEmpty(a.subject_id) = OrEmpty(b.subject_id)
        /\ OrEmpty(a.auth_provider) = OrEmpty(b.auth_provider)
        /\ OrEmpty(a.issuer) = OrEmpty(b.issuer)
        /\ sorted(a.roles) = sorted(b.roles) /\ sorted(a.groups) = sorted(b.groups)
        /\ sorted(a.scopes) = sorted(b.scopes)
        /\ attrs(a, key_attributes) = attrs(b, key_attributes)
    BY <1>1, <1>2, <1>3, HashReads
  <2>2. ASSUME NEW u, NEW w, IsList(u), IsList(w), sorted(u) = sorted(w) PROVE SameItems(u, w)
    BY <2>2, SortedAgree DEF IsList
  <2>3. SameItems(a.roles, b.roles)
    BY <2>1, <2>2, TextsOf
  <2>4. SameItems(a.groups, b.groups)
    BY <2>1, <2>2, TextsOf
  <2>5. SameItems(a.scopes, b.scopes)
    BY <2>1, <2>2, TextsOf
  <2>6. Listed(a) = Listed(b) /\ SubjectToken(a) = SubjectToken(b)
    BY <2>1, AttrsExact
  <2> QED BY <2>1, <2>3, <2>4, <2>5, <2>6 DEF AuthorityParts
<1>4. ASSUME AuthorityParts(a, b) PROVE HashOf[a] = HashOf[b]
  <2>1. attrs(a, key_attributes) = attrs(b, key_attributes)
    BY <1>4, AttrsExact DEF AuthorityParts
  <2> QED BY <1>1, <1>2, <1>4, <2>1, HashWrites DEF AuthorityParts
<1> QED BY <1>3, <1>4, AuthorityIs

\* The parts every minted credential has.
AllParts == ({r.part : r \in Refs} \ {None}) \cup {<<"value">>}

\* A cache entry: its key is the hash of the caller it was minted for and its target,
\* it has all parts, one of the serials given out so far, and has not expired.
WellCached(k, c, n, t) ==
  /\ c.identity \in Identities /\ k = <<HashOf[c.identity], c.target>>
  /\ c.parts = AllParts /\ c.serial \in 1..n /\ c.expires \in Int /\ c.expires > t

\* The answer under way: its credentials are of callers with the hash of the one that
\* asks, each value is a part of its credential, and one target has one credential.
ReplyInv ==
  /\ reply.status \in Statuses /\ DOMAIN reply.values = DOMAIN reply.creds
  /\ \A r \in DOMAIN reply.creds :
       /\ reply.identity \in Identities /\ reply.creds[r].identity \in Identities
       /\ HashOf[reply.creds[r].identity] = HashOf[reply.identity]
       /\ reply.values[r][1] = reply.creds[r].serial
  /\ \A r, s \in DOMAIN reply.creds : cache_key(r) = cache_key(s) => reply.creds[r] = reply.creds[s]

\* The inductive invariant.
IssueInv ==
  /\ minted \in 0..MaxIssues /\ now \in 0..MaxTime
  /\ \A k \in DOMAIN cache : WellCached(k, cache[k], minted, now)
  /\ ReplyInv

\* An answer without credentials keeps it.
LEMMA NoReplyInv ==
  ASSUME NEW n \in Statuses
  PROVE  reply' = [NoReply EXCEPT !.status = n] => ReplyInv'
<1> SUFFICES ASSUME reply' = [NoReply EXCEPT !.status = n] PROVE ReplyInv'
  OBVIOUS
<1>1. reply'.status = n /\ reply'.values = <<>> /\ reply'.creds = <<>> /\ DOMAIN (<<>>) = {}
  BY DEF NoReply
<1> QED BY <1>1 DEF ReplyInv

\* The parts a reference may name are there, and tell the mint.
LEMMA PartOf ==
  ASSUME NEW c, c.parts = AllParts, NEW r \in Refs
  PROVE  part(c, r.part)[1] = c.serial
<1>1. CASE r.part = None
  BY <1>1 DEF part, AllParts
<1>2. CASE r.part # None
  BY <1>2 DEF part, AllParts
<1> QED BY <1>1, <1>2

\* Resolve keeps the invariant: what is missing is minted under its own key, with
\* serials of its own.
LEMMA ResolveStep ==
  ASSUME IssueInv, NEW id \in Identities, NEW refs \in SUBSET Refs, NEW ttl \in Lifetimes,
         Resolve(id, refs, ttl)
  PROVE  IssueInv'
<1> DEFINE missing == {key(id, r) : r \in refs} \ DOMAIN cache
           order == SetToSeq(missing)
           serial(k) == minted + CHOOSE i \in DOMAIN order : order[i] = k
           mint(k) == IssuedCredential(serial(k), id, k[2],
                        ({r.part : r \in Refs} \ {None}) \cup {<<"value">>}, now + ttl)
           after == [k \in DOMAIN cache \cup missing |-> IF k \in missing THEN mint(k) ELSE cache[k]]
           creds == [r \in refs |-> after[key(id, r)]]
           values == [r \in refs |-> part(after[key(id, r)], r.part)]
<1>1. /\ minted + Len(order) <= MaxIssues /\ cache' = after /\ minted' = minted + Len(order)
      /\ reply' = [identity |-> id, status |-> 200, values |-> values, creds |-> creds] /\ now' = now
  BY DEF Resolve
<1>2. /\ minted \in 0..MaxIssues /\ now \in 0..MaxTime /\ ttl \in Nat /\ ttl > 0
      /\ MaxIssues \in Nat /\ MaxTime \in Nat
      /\ \A k \in DOMAIN cache : WellCached(k, cache[k], minted, now)
  BY LengthsAreWritten, LifetimesArePositive DEF IssueInv
<1>3. IsFiniteSet(missing)
  <2>1. IsFiniteSet(refs)
    BY RefsAreFinite, FS_Subset
  <2>2. IsFiniteSet({key(id, r) : r \in refs})
    <3> DEFINE K == {key(id, r) : r \in refs}
               g == [r \in refs |-> key(id, r)]
    <3>1. g \in Surjection(refs, K)
      BY DEF Surjection
    <3> HIDE DEF K, g
    <3>2. IsFiniteSet(K)
      BY <2>1, <3>1, FS_Surjection
    <3> QED BY <3>2 DEF K
  <2> QED BY <2>2, FS_Difference
<1>4. Len(order) \in Nat /\ DOMAIN order = 1..Len(order) /\ \A k \in missing : \E i \in DOMAIN order : order[i] = k
  BY <1>3, SetSeqOf
<1>5. \A k \in missing : k = <<HashOf[id], k[2]>>
  BY DEF key
<1>6. ASSUME NEW k \in DOMAIN after PROVE WellCached(k, after[k], minted + Len(order), now)
  <2>1. CASE k \in missing
    <3> DEFINE i == CHOOSE j \in DOMAIN order : order[j] = k
               c == IssuedCredential(minted + i, id, k[2], AllParts, now + ttl)
    <3>1. i \in 1..Len(order)
      BY <1>4, <2>1
    <3>2. after[k] = c
      BY <2>1 DEF AllParts
    <3>3. /\ c.identity = id /\ c.target = k[2] /\ c.parts = AllParts /\ c.serial = minted + i
          /\ c.expires = now + ttl
      BY DEF IssuedCredential
    <3>4. k = <<HashOf[id], k[2]>>
      BY <1>5, <2>1
    <3> HIDE DEF i, c, after
    <3>5. c.serial \in 1..(minted + Len(order)) /\ c.expires \in Int /\ c.expires > now
      <4> HIDE DEF order
      <4> QED BY <1>2, <1>4, <3>1, <3>3
    <3> QED BY <3>2, <3>3, <3>4, <3>5 DEF WellCached
  <2>2. CASE k \notin missing
    <3>1. k \in DOMAIN cache /\ after[k] = cache[k]
      BY <2>2
    <3>2. WellCached(k, cache[k], minted, now)
      BY <1>2, <3>1
    <3> HIDE DEF after, order
    <3>3. cache[k].serial \in 1..(minted + Len(order))
      BY <1>2, <1>4, <3>2 DEF WellCached
    <3> QED BY <3>1, <3>2, <3>3 DEF WellCached
  <2> QED BY <2>1, <2>2
<1>7. minted' \in 0..MaxIssues /\ now' \in 0..MaxTime
  <2> HIDE DEF order
  <2> QED BY <1>1, <1>2, <1>4
<1>8. (\A k \in DOMAIN cache : WellCached(k, cache[k], minted, now))'
  <2> HIDE DEF after, order
  <2> QED BY <1>1, <1>6
<1>9. \A r \in refs : key(id, r) \in DOMAIN after
  OBVIOUS
<1>10. ASSUME NEW r \in refs
       PROVE  /\ creds[r].identity \in Identities /\ HashOf[creds[r].identity] = HashOf[id]
              /\ values[r][1] = creds[r].serial
  <2>1. WellCached(key(id, r), after[key(id, r)], minted + Len(order), now)
    BY <1>6, <1>9
  <2>2. creds[r] = after[key(id, r)] /\ values[r] = part(after[key(id, r)], r.part)
    OBVIOUS
  <2> HIDE DEF creds, values, after, order
  <2>3. creds[r].identity \in Identities /\ key(id, r) = <<HashOf[creds[r].identity], creds[r].target>>
    BY <2>1, <2>2 DEF WellCached
  <2>4. HashOf[creds[r].identity] = HashOf[id]
    BY <2>3 DEF key
  <2>5. values[r][1] = creds[r].serial
    BY <2>1, <2>2, PartOf DEF WellCached
  <2> QED BY <2>3, <2>4, <2>5
<1>11. \A r, s \in refs : cache_key(r) = cache_key(s) => creds[r] = creds[s]
  <2> HIDE DEF after
  <2> QED BY DEF key
<1>12. reply'.identity = id /\ reply'.status = 200 /\ reply'.values = values /\ reply'.creds = creds
  BY <1>1
<1>13. DOMAIN values = refs /\ DOMAIN creds = refs
  OBVIOUS
<1> HIDE DEF values, creds
<1>14. ReplyInv'
  BY <1>10, <1>11, <1>12, <1>13 DEF ReplyInv, Statuses
<1> QED BY <1>7, <1>8, <1>14 DEF IssueInv

\* Every step does.
LEMMA IssueStep ==
  ASSUME IssueInv, [IssueNext]_issueVars
  PROVE  IssueInv'
<1>1. ASSUME NEW id \in Identities, NEW refs \in (SUBSET Refs) \ {{}}, NEW ttl \in Lifetimes,
             Resolve(id, refs, ttl)
      PROVE  IssueInv'
  BY <1>1, ResolveStep
<1>2. ASSUME NEW e \in CredentialError, Refuse(e) PROVE IssueInv'
  <2>1. http_status(e) \in Statuses
    BY DEF CredentialError, http_status, Statuses
  <2>2. reply' = [NoReply EXCEPT !.status = http_status(e)] /\ UNCHANGED <<cache, minted, now>>
    BY <1>2 DEF Refuse
  <2>3. ReplyInv'
    BY <2>1, <2>2, NoReplyInv
  <2> QED BY <2>2, <2>3 DEF IssueInv
<1>3. CASE Tick
  <2> DEFINE live == {c \in DOMAIN cache : cache[c].expires > now + 1}
  <2>1. now < MaxTime /\ now' = now + 1 /\ cache' = [k \in live |-> cache[k]] /\ minted' = minted /\ reply' = reply
    BY <1>3 DEF Tick
  <2>2. now' \in 0..MaxTime /\ minted' \in 0..MaxIssues
    BY <2>1, LengthsAreWritten DEF IssueInv
  <2>3. ASSUME NEW k \in live PROVE WellCached(k, cache[k], minted, now + 1)
    <3>1. k \in DOMAIN cache /\ cache[k].expires > now + 1
      OBVIOUS
    <3>2. WellCached(k, cache[k], minted, now)
      BY <3>1 DEF IssueInv
    <3> QED BY <3>1, <3>2 DEF WellCached
  <2> HIDE DEF live
  <2>4. (\A k \in DOMAIN cache : WellCached(k, cache[k], minted, now))'
    BY <2>1, <2>3
  <2>5. ReplyInv'
    BY <2>1 DEF IssueInv, ReplyInv
  <2> QED BY <2>2, <2>4, <2>5 DEF IssueInv
<1>4. CASE Deliver
  <2>1. reply' = NoReply /\ UNCHANGED <<cache, minted, now>>
    BY <1>4 DEF Deliver
  <2>2. reply' = [NoReply EXCEPT !.status = 0] /\ 0 \in Statuses
    BY <2>1 DEF NoReply, Statuses
  <2>3. ReplyInv'
    BY <2>2, NoReplyInv
  <2> QED BY <2>1, <2>3 DEF IssueInv
<1>5. CASE UNCHANGED issueVars
  BY <1>5 DEF issueVars, IssueInv, ReplyInv
<1> QED BY <1>1, <1>2, <1>3, <1>4, <1>5 DEF IssueNext

\* An empty cache.
LEMMA IssueInvInit == IssueInit => IssueInv
<1> SUFFICES ASSUME IssueInit PROVE IssueInv
  OBVIOUS
<1>1. reply.status = 0 /\ reply.values = <<>> /\ reply.creds = <<>> /\ DOMAIN cache = {}
  BY DEF IssueInit, NoReply
<1>2. minted \in 0..MaxIssues /\ now \in 0..MaxTime
  BY LengthsAreWritten DEF IssueInit
<1>3. ReplyInv
  BY <1>1 DEF ReplyInv, Statuses
<1> QED BY <1>1, <1>2, <1>3 DEF IssueInv

\* The invariant holds in every state.
LEMMA IssueInvariant == IssueSpec => []IssueInv
BY IssueInvInit, IssueStep, PTL DEF IssueSpec

\* The invariant holds the type.
LEMMA IssueTypes == IssueInv => IssueTypeOK
<1> SUFFICES ASSUME IssueInv PROVE IssueTypeOK
  OBVIOUS
<1>1. ASSUME NEW k \in DOMAIN cache
      PROVE  cache[k].serial \in 1..minted /\ IsPluginIdentity(cache[k].identity) /\ cache[k].expires > now
  BY IdentitiesAreWhole DEF IssueInv, WellCached
<1> QED BY <1>1 DEF IssueInv, ReplyInv, IssueTypeOK

\* Every cached credential is one of those minted, for a whole identity, and has not
\* expired; the gateway answers with the statuses CredentialError maps to.
THEOREM IssueTypeCorrect == IssueSpec => []IssueTypeOK
BY IssueTypes, IssueInvariant, PTL

\* Whatever identities call, in whatever order, with whatever allow-list: a caller is
\* served credentials minted for its own authority only, callers of one authority
\* share them, and the parts of one target are parts of one mint.
THEOREM CacheKeysAreExactAlways == IssueSpec => []CacheKeysAreExact
<1>1. IssueInv => CacheKeysAreExact
  <2> SUFFICES ASSUME IssueInv PROVE CacheKeysAreExact
    OBVIOUS
  <2>1. ServedForSameAuthority
    BY HashExact DEF IssueInv, ReplyInv, ServedForSameAuthority
  <2>2. OneCredentialPerAuthority
    <3> SUFFICES ASSUME NEW k \in DOMAIN cache, NEW l \in DOMAIN cache, cache[k].target = cache[l].target,
                        SameAuthority(cache[k].identity, cache[l].identity)
                 PROVE  k = l
      BY DEF OneCredentialPerAuthority
    <3>1. /\ cache[k].identity \in Identities /\ k = <<HashOf[cache[k].identity], cache[k].target>>
          /\ cache[l].identity \in Identities /\ l = <<HashOf[cache[l].identity], cache[l].target>>
      BY DEF IssueInv, WellCached
    <3>2. HashOf[cache[k].identity] = HashOf[cache[l].identity]
      BY <3>1, HashExact
    <3> QED BY <3>1, <3>2
  <2>3. PartsOfOneMint
    <3> SUFFICES ASSUME NEW r \in DOMAIN reply.values, NEW s \in DOMAIN reply.values,
                        r.plugin_id = s.plugin_id, r.target = s.target
                 PROVE  reply.values[r][1] = reply.values[s][1]
      BY DEF PartsOfOneMint
    <3>1. cache_key(r) = cache_key(s)
      BY DEF cache_key
    <3> QED BY <3>1 DEF IssueInv, ReplyInv
  <2> QED BY <2>1, <2>2, <2>3 DEF CacheKeysAreExact
<1> QED BY <1>1, IssueInvariant, PTL

(***************************************************************************)
(* Redaction: what each helper makes of a string, of a text's words and of *)
(* a document, and that it leaves its own result alone                     *)
(***************************************************************************)

\* A character that may end an authority.
Delims == {"/", "?", "#"}
\* f is where the first separator of s starts; 0 stands for none.
FirstSep(s, f) ==
  \/ f = 0 /\ \A i \in 1..Len(s) : ~SeparatorAt(s, i)
  \/ f \in 1..Len(s) /\ SeparatorAt(s, f) /\ \A k \in 1..(f - 1) : ~SeparatorAt(s, k)

\* The least of some positions is one of them.
LEMMA LeastIn ==
  ASSUME NEW n \in Nat, NEW I \in SUBSET (1..n), I # {}
  PROVE  Min(I) \in I /\ \A i \in I : Min(I) <= i
<1>1. \E i \in I : \A j \in I : i <= j
  BY Extremes
<1> QED BY <1>1 DEF Min

\* The greatest of some positions is one of them.
LEMMA GreatestIn ==
  ASSUME NEW n \in Nat, NEW I \in SUBSET (1..n), I # {}
  PROVE  Max(I) \in I /\ \A i \in I : Max(I) >= i
<1>1. \E i \in I : \A j \in I : i >= j
  BY Extremes
<1> QED BY <1>1 DEF Max

\* find_separator returns where the first separator starts.
LEMMA FirstSepOf ==
  ASSUME NEW S, NEW s \in Seq(S)
  PROVE  FirstSep(s, find_separator(s))
<1> DEFINE q == [i \in 1..Len(s) |-> i]
           I == {i \in 1..Len(q) : SeparatorAt(s, q[i])}
<1>1. Len(s) \in Nat /\ q \in Seq(Nat) /\ Len(q) = Len(s)
  OBVIOUS
<1>2. I = {i \in 1..Len(s) : SeparatorAt(s, i)}
  BY <1>1
<1>3. find_separator(s) = IF I # {} THEN Min(I) ELSE 0
  BY DEF find_separator, SelectInSeq
<1> HIDE DEF I, q
<1>4. CASE I = {}
  BY <1>2, <1>3, <1>4 DEF FirstSep
<1>5. CASE I # {}
  <2>1. Min(I) \in I /\ \A i \in I : Min(I) <= i
    BY <1>1, <1>2, <1>5, LeastIn
  <2> DEFINE f == Min(I)
  <2>2. f \in 1..Len(s) /\ SeparatorAt(s, f)
    BY <1>2, <2>1
  <2>3. \A k \in 1..(f - 1) : ~SeparatorAt(s, k)
    <3> SUFFICES ASSUME NEW k \in 1..(f - 1), SeparatorAt(s, k) PROVE FALSE
      OBVIOUS
    <3> HIDE DEF f
    <3>1. k \in 1..Len(s) /\ k < f
      BY <1>1, <2>2
    <3>2. k \in I
      BY <1>2, <3>1
    <3> QED BY <2>1, <2>2, <3>1, <3>2 DEF f
  <2> QED BY <1>3, <1>5, <2>2, <2>3 DEF FirstSep
<1> QED BY <1>4, <1>5

\* A string has one first separator.
LEMMA FirstSepUnique ==
  ASSUME NEW s, Len(s) \in Nat, NEW f, FirstSep(s, f), NEW g, FirstSep(s, g)
  PROVE  f = g
BY DEF FirstSep

\* A separator is three characters.
LEMMA SepIs ==
  ASSUME NEW S, NEW s \in Seq(S), NEW i \in 1..Len(s)
  PROVE  SeparatorAt(s, i) <=> i + 2 <= Len(s) /\ s[i] = ":" /\ s[i + 1] = "/" /\ s[i + 2] = "/"
<1>1. CASE i + 2 <= Len(s)
  <2> DEFINE x == SubSeq(s, i, i + 2)
             y == <<":", "/", "/">>
  <2>1. i \in 1..(Len(s) + 1) /\ i + 2 \in 0..Len(s) /\ i + 2 >= i - 1 /\ (i + 2) - i + 1 = 3
    BY <1>1
  <2>2. /\ SubSeq(s, i, i + 2) \in Seq(S) /\ Len(SubSeq(s, i, i + 2)) = (i + 2) - i + 1
        /\ \A k \in 1..((i + 2) - i + 1) : SubSeq(s, i, i + 2)[k] = s[i + k - 1]
    BY <2>1, PieceOf
  <2>3. x \in Seq(S) /\ Len(x) = 3 /\ \A k \in 1..3 : x[k] = s[i + k - 1]
    BY <2>1, <2>2
  <2>4. y \in Seq({":", "/"}) /\ Len(y) = 3 /\ y[1] = ":" /\ y[2] = "/" /\ y[3] = "/"
    OBVIOUS
  <2> HIDE DEF x, y
  <2>5. x[1] = s[i] /\ x[2] = s[i + 1] /\ x[3] = s[i + 2]
    <3>1. 1 \in 1..3 /\ 2 \in 1..3 /\ 3 \in 1..3 /\ i + 1 - 1 = i /\ i + 2 - 1 = i + 1 /\ i + 3 - 1 = i + 2
      OBVIOUS
    <3> QED BY <2>3, <3>1
  <2>6. x = y <=> x[1] = y[1] /\ x[2] = y[2] /\ x[3] = y[3]
    <3>1. ASSUME x[1] = y[1], x[2] = y[2], x[3] = y[3] PROVE x = y
      <4>1. x \in Seq(S \cup {":", "/"}) /\ y \in Seq(S \cup {":", "/"})
        BY <2>3, <2>4
      <4>2. \A k \in 1..Len(x) : x[k] = y[k]
        BY <2>3, <3>1
      <4> QED BY <2>3, <2>4, <4>1, <4>2, SeqsEqual
    <3> QED BY <3>1
  <2>7. SeparatorAt(s, i) <=> x = y
    BY <1>1 DEF SeparatorAt, Separator, x, y
  <2> QED BY <1>1, <2>4, <2>5, <2>6, <2>7
<1>2. CASE ~(i + 2 <= Len(s))
  BY <1>2 DEF SeparatorAt
<1> QED BY <1>1, <1>2

\* The authority of s is from a to e, and l is its last @; 0 stands for none.
Authority(s, a, e, l) ==
  /\ e \in (a - 1)..Len(s) /\ \A k \in a..e : s[k] \notin Delims
  /\ e = Len(s) \/ s[e + 1] \in Delims
  /\ \/ l = 0 /\ \A k \in a..e : s[k] # "@"
     \/ l \in a..e /\ s[l] = "@" /\ \A k \in (l + 1)..e : s[k] # "@"

\* authority_end and last_at delimit the authority and its userinfo.
LEMMA AuthorityOf ==
  ASSUME NEW S, NEW s \in Seq(S), NEW a \in 1..(Len(s) + 1), authority_start(s) = a
  PROVE  Authority(s, a, authority_end(s), last_at(s))
<1> DEFINE I == {i \in a..Len(s) : s[i] \in {"/", "?", "#"}}
           e == authority_end(s)
           J == {i \in a..e : s[i] = "@"}
<1>0. Len(s) \in Nat
  OBVIOUS
<1>1. e = LET i == IF I # {} THEN Min(I) ELSE 0 IN IF i = 0 THEN Len(s) ELSE i - 1
  BY DEF authority_end, SelectInSubSeq
<1>2. /\ e \in (a - 1)..Len(s) /\ \A k \in a..e : s[k] \notin Delims
      /\ e = Len(s) \/ s[e + 1] \in Delims
  <2>1. CASE I = {}
    <3>1. e = Len(s)
      BY <1>1, <2>1
    <3> HIDE DEF e
    <3> QED BY <1>0, <2>1, <3>1 DEF Delims
  <2>2. CASE I # {}
    <3> DEFINE m == Min(I)
    <3>1. I \in SUBSET (1..Len(s))
      BY <1>0
    <3>2. m \in I /\ \A i \in I : m <= i
      <4> HIDE DEF I
      <4> QED BY <1>0, <2>2, <3>1, LeastIn
    <3>3. m \in a..Len(s) /\ s[m] \in Delims
      BY <3>2 DEF Delims
    <3>4. e = m - 1
      BY <1>0, <1>1, <2>2, <3>3
    <3> HIDE DEF e, m
    <3>5. \A k \in a..e : s[k] \notin Delims
      <4> SUFFICES ASSUME NEW k \in a..e, s[k] \in Delims PROVE FALSE
        OBVIOUS
      <4>1. k \in a..Len(s) /\ k < m
        BY <1>0, <3>3, <3>4
      <4>2. k \in I
        BY <4>1 DEF Delims
      <4> HIDE DEF I
      <4> QED BY <3>2, <3>3, <4>1, <4>2
    <3>6. e + 1 = m /\ e \in (a - 1)..Len(s)
      BY <1>0, <3>3, <3>4
    <3> QED BY <3>3, <3>5, <3>6
  <2> QED BY <2>1, <2>2
<1>3. last_at(s) = IF J # {} THEN Max(J) ELSE 0
  BY DEF last_at, SelectLastInSubSeq
<1> HIDE DEF e
<1>4. CASE J = {}
  <2>1. \A k \in a..e : s[k] # "@"
    BY <1>4
  <2> QED BY <1>2, <1>3, <1>4, <2>1 DEF Authority, e
<1>5. CASE J # {}
  <2> DEFINE l == Max(J)
  <2>1. J \in SUBSET (1..Len(s))
    BY <1>0, <1>2
  <2>2. l \in J /\ \A i \in J : l >= i
    <3> HIDE DEF J
    <3> QED BY <1>0, <1>5, <2>1, GreatestIn
  <2>3. l \in a..e /\ s[l] = "@" /\ last_at(s) = l
    BY <1>3, <1>5, <2>2
  <2> HIDE DEF l
  <2>4. \A k \in (l + 1)..e : s[k] # "@"
    <3> SUFFICES ASSUME NEW k \in (l + 1)..e, s[k] = "@" PROVE FALSE
      OBVIOUS
    <3>1. k \in a..e /\ k > l
      BY <1>0, <1>2, <2>3
    <3>2. k \in J
      BY <3>1
    <3> HIDE DEF J
    <3> QED BY <2>2, <2>3, <3>1, <3>2
  <2> QED BY <1>2, <2>3, <2>4 DEF Authority, e
<1> QED BY <1>4, <1>5

\* The userinfo of s is from a, behind the first separator f, to its last @ at l, and
\* the authority ends at e.
Userinfo(s, f, e, l) ==
  /\ f \in 1..Len(s) /\ f + 2 <= Len(s) /\ FirstSep(s, f) /\ Authority(s, f + 3, e, l) /\ l # 0

\* A string has userinfo if redact_url_password finds it.
LEMMA UserinfoIs ==
  ASSUME NEW S, NEW s \in Seq(S)
  PROVE  /\ find_separator(s) # 0 /\ last_at(s) # 0
              => HasUserinfo(s) /\ Userinfo(s, find_separator(s), authority_end(s), last_at(s))
         /\ find_separator(s) = 0 \/ last_at(s) = 0 => ~HasUserinfo(s)
<1> DEFINE f == find_separator(s)
           l == last_at(s)
           e == authority_end(s)
<1>1. Len(s) \in Nat /\ FirstSep(s, f)
  BY FirstSepOf
<1>2. ASSUME f # 0 PROVE f \in 1..Len(s) /\ SeparatorAt(s, f) /\ f + 2 <= Len(s) /\ Authority(s, f + 3, e, l)
  <2>1. f \in 1..Len(s) /\ SeparatorAt(s, f)
    BY <1>1, <1>2 DEF FirstSep
  <2>2. f + 2 <= Len(s)
    BY <2>1 DEF SeparatorAt
  <2>3. f + 3 \in 1..(Len(s) + 1) /\ authority_start(s) = f + 3
    BY <1>1, <2>1, <2>2 DEF authority_start
  <2>4. Authority(s, f + 3, e, l)
    BY <2>3, AuthorityOf
  <2> QED BY <2>1, <2>2, <2>4
<1> HIDE DEF f, l, e
<1>3. ASSUME f # 0, l # 0 PROVE HasUserinfo(s) /\ Userinfo(s, f, e, l)
  <2>1. f \in 1..Len(s) /\ SeparatorAt(s, f) /\ f + 2 <= Len(s) /\ Authority(s, f + 3, e, l)
    BY <1>2, <1>3
  <2>2. Userinfo(s, f, e, l)
    BY <1>1, <1>3, <2>1 DEF Userinfo
  <2>3. \A k \in 1..(f - 1) : ~SeparatorAt(s, k)
    BY <1>1, <1>3 DEF FirstSep
  <2>4. e \in Int /\ e <= Len(s) /\ l \in (f + 3)..e /\ s[l] = "@" /\ \A k \in (f + 3)..e : s[k] \notin Delims
    BY <1>1, <1>3, <2>1 DEF Authority
  <2>5. l \in 1..Len(s) /\ l > f + 2 /\ \A k \in (f + 3)..l : s[k] \notin {"/", "?", "#"}
    BY <1>1, <2>1, <2>4 DEF Delims
  <2>6. HasUserinfo(s)
    BY <2>1, <2>3, <2>4, <2>5 DEF HasUserinfo
  <2> QED BY <2>2, <2>6
<1>4. ASSUME f = 0 \/ l = 0, HasUserinfo(s) PROVE FALSE
  <2>1. PICK i \in 1..Len(s), j \in 1..Len(s) :
          /\ SeparatorAt(s, i) /\ \A k \in 1..(i - 1) : ~SeparatorAt(s, k)
          /\ j > i + 2 /\ s[j] = "@" /\ \A k \in (i + 3)..j : s[k] \notin {"/", "?", "#"}
    BY <1>4 DEF HasUserinfo
  <2>2. i = f
    <3>1. FirstSep(s, i)
      BY <2>1 DEF FirstSep
    <3> QED BY <1>1, <3>1, FirstSepUnique
  <2>3. f # 0 /\ l = 0
    BY <1>1, <1>4, <2>2
  <2>4. Authority(s, f + 3, e, l) /\ f \in 1..Len(s)
    BY <1>2, <2>3
  <2>5. /\ e \in (f + 2)..Len(s) /\ (e = Len(s) \/ s[e + 1] \in Delims)
        /\ \A k \in (f + 3)..e : s[k] # "@"
    BY <1>1, <2>3, <2>4 DEF Authority
  <2>6. ~(j <= e)
    BY <1>1, <2>1, <2>2, <2>4, <2>5
  <2>7. e + 1 \in (f + 3)..j /\ e # Len(s)
    BY <1>1, <2>1, <2>2, <2>4, <2>5, <2>6
  <2> QED BY <2>1, <2>2, <2>5, <2>7 DEF Delims
<1> QED BY <1>3, <1>4 DEF f, l, e

\* What is left of s without the characters from a + 1 to l.
Spliced(s, a, l) == Then(SubSeq(s, 1, a), SubSeq(s, l + 1, Len(s)))

\* Its characters.
LEMMA SplicedOf ==
  ASSUME NEW S, NEW s \in Seq(S), NEW a \in 0..Len(s), NEW l \in a..Len(s)
  PROVE  LET t == Spliced(s, a, l)
         IN /\ t \in Seq(S) /\ Len(t) = Len(s) - (l - a) /\ Len(s) \in Nat
            /\ \A i \in 1..a : t[i] = s[i]
            /\ \A i \in (a + 1)..Len(t) : t[i] = s[i + (l - a)]
<1> DEFINE t == Spliced(s, a, l)
           x == SubSeq(s, 1, a)
           y == SubSeq(s, l + 1, Len(s))
<1>1. Len(s) \in Nat /\ 1 \in 1..(Len(s) + 1) /\ a \in 0..Len(s) /\ a >= 1 - 1 /\ a - 1 + 1 = a
  OBVIOUS
<1>2. l + 1 \in 1..(Len(s) + 1) /\ Len(s) \in 0..Len(s) /\ Len(s) >= l + 1 - 1 /\ Len(s) - (l + 1) + 1 = Len(s) - l
  BY <1>1
<1>3. x \in Seq(S) /\ Len(x) = a - 1 + 1 /\ \A i \in 1..(a - 1 + 1) : x[i] = s[1 + i - 1]
  BY <1>1, PieceOf
<1>4. y \in Seq(S) /\ Len(y) = Len(s) - (l + 1) + 1 /\ \A i \in 1..(Len(s) - (l + 1) + 1) : y[i] = s[l + 1 + i - 1]
  <2> DEFINE b == l + 1
             n == Len(s)
  <2>1. b \in 1..(Len(s) + 1) /\ n \in 0..Len(s) /\ n >= b - 1
    BY <1>2
  <2> HIDE DEF b, n
  <2>2. /\ SubSeq(s, b, n) \in Seq(S) /\ Len(SubSeq(s, b, n)) = n - b + 1
        /\ \A i \in 1..(n - b + 1) : SubSeq(s, b, n)[i] = s[b + i - 1]
    BY <2>1, PieceOf
  <2> QED BY <2>2 DEF b, n
<1>5. t = Then(x, y)
  BY DEF Spliced
<1> HIDE DEF t, x, y
<1>6. /\ Len(t) = Len(x) + Len(y) /\ t \in Seq(S)
      /\ \A i \in 1..Len(x) : t[i] = x[i]
      /\ \A i \in 1..Len(y) : t[Len(x) + i] = y[i]
  <2>1. x \in Seq(S) /\ y \in Seq(S)
    BY <1>3, <1>4
  <2>2. Then(x, y) \in Seq(S)
    BY Zenon, <2>1, Concat
  <2>3. /\ Len(Then(x, y)) = Len(x) + Len(y)
        /\ \A i \in 1..Len(x) : Then(x, y)[i] = x[i]
        /\ \A i \in 1..Len(y) : Then(x, y)[Len(x) + i] = y[i]
    BY <2>1, ThenOf
  <2> QED BY <1>5, <2>2, <2>3
<1>7. Len(t) = Len(s) - (l - a)
  BY <1>1, <1>2, <1>3, <1>4, <1>6
<1>8. \A i \in 1..a : t[i] = s[i]
  <2> TAKE i \in 1..a
  <2>1. i \in 1..Len(x) /\ i \in 1..(a - 1 + 1) /\ 1 + i - 1 = i
    BY <1>1, <1>3
  <2> QED BY <1>3, <1>6, <2>1
<1>9. \A i \in (a + 1)..Len(t) : t[i] = s[i + (l - a)]
  <2> TAKE i \in (a + 1)..Len(t)
  <2>1. /\ i - a \in 1..Len(y) /\ i - a \in 1..(Len(s) - (l + 1) + 1)
        /\ Len(x) + (i - a) = i /\ l + 1 + (i - a) - 1 = i + (l - a)
    BY <1>1, <1>2, <1>3, <1>4, <1>7
  <2>2. t[Len(x) + (i - a)] = y[i - a] /\ y[i - a] = s[l + 1 + (i - a) - 1]
    BY <1>4, <1>6, <2>1
  <2> QED BY <2>1, <2>2
<1> QED BY <1>1, <1>6, <1>7, <1>8, <1>9 DEF t

\* Whether a separator starts at i is a matter of three characters.
LEMMA SepCopied ==
  ASSUME NEW S, NEW s \in Seq(S), NEW t \in Seq(S), NEW i \in 1..Len(s), i + 2 <= Len(s), i + 2 <= Len(t),
         t[i] = s[i], t[i + 1] = s[i + 1], t[i + 2] = s[i + 2]
  PROVE  SeparatorAt(t, i) <=> SeparatorAt(s, i)
<1>1. Len(s) \in Nat /\ Len(t) \in Nat /\ i \in 1..Len(t)
  OBVIOUS
<1>2. SeparatorAt(s, i) <=> i + 2 <= Len(s) /\ s[i] = ":" /\ s[i + 1] = "/" /\ s[i + 2] = "/"
  BY SepIs
<1>3. SeparatorAt(t, i) <=> i + 2 <= Len(t) /\ t[i] = ":" /\ t[i + 1] = "/" /\ t[i + 2] = "/"
  BY <1>1, SepIs
<1> QED BY <1>2, <1>3

\* A string that is the same up to the end of its first separator has the same first
\* separator.
LEMMA FirstSepCopied ==
  ASSUME NEW S, NEW s \in Seq(S), NEW t \in Seq(S), NEW f \in 1..Len(s), FirstSep(s, f),
         f + 2 <= Len(t), \A i \in 1..(f + 2) : t[i] = s[i]
  PROVE  FirstSep(t, f)
<1>1. Len(s) \in Nat /\ Len(t) \in Nat /\ f \in 1..Len(t)
  OBVIOUS
<1>2. SeparatorAt(s, f) /\ \A k \in 1..(f - 1) : ~SeparatorAt(s, k)
  BY <1>1 DEF FirstSep
<1>3. f + 2 <= Len(s)
  BY <1>2 DEF SeparatorAt
<1>4. \A k \in 1..f : SeparatorAt(t, k) <=> SeparatorAt(s, k)
  <2> TAKE k \in 1..f
  <2>1. k \in 1..Len(s) /\ k + 2 <= Len(s) /\ k + 2 <= Len(t)
    BY <1>1, <1>3
  <2>2. t[k] = s[k] /\ t[k + 1] = s[k + 1] /\ t[k + 2] = s[k + 2]
    <3>1. k \in 1..(f + 2) /\ k + 1 \in 1..(f + 2) /\ k + 2 \in 1..(f + 2)
      BY <1>1
    <3> QED BY <3>1
  <2> QED BY <2>1, <2>2, SepCopied
<1>5. f \in 1..f /\ \A k \in 1..(f - 1) : k \in 1..f
  BY <1>1
<1> QED BY <1>1, <1>2, <1>4, <1>5 DEF FirstSep

\* Without its userinfo a string has none.
LEMMA NoneLeft ==
  ASSUME NEW S, NEW s \in Seq(S), NEW f, NEW e, NEW l, Userinfo(s, f, e, l)
  PROVE  LET t == Spliced(s, f + 2, l)
         IN t \in Seq(S) /\ FirstSep(t, f) /\ f + 2 <= Len(t) /\ ~HasUserinfo(t)
<1> DEFINE t == Spliced(s, f + 2, l)
           d == l - (f + 2)
<1>1. /\ f \in 1..Len(s) /\ f + 2 <= Len(s) /\ FirstSep(s, f) /\ Len(s) \in Nat
      /\ e \in (f + 2)..Len(s) /\ (e = Len(s) \/ s[e + 1] \in Delims)
      /\ l \in (f + 3)..e /\ \A k \in (l + 1)..e : s[k] # "@"
  <2>1. f \in 1..Len(s) /\ f + 2 <= Len(s) /\ FirstSep(s, f) /\ Authority(s, f + 3, e, l) /\ l # 0 /\ Len(s) \in Nat
    BY DEF Userinfo
  <2>2. /\ e \in (f + 3 - 1)..Len(s) /\ (e = Len(s) \/ s[e + 1] \in Delims)
        /\ l \in (f + 3)..e /\ \A k \in (l + 1)..e : s[k] # "@"
    BY <2>1 DEF Authority
  <2>3. f + 3 - 1 = f + 2
    BY <2>1
  <2> QED BY <2>1, <2>2, <2>3
<1>2. f + 2 \in 0..Len(s) /\ l \in (f + 2)..Len(s)
  BY <1>1
<1>3. /\ t \in Seq(S) /\ Len(t) = Len(s) - d
      /\ \A i \in 1..(f + 2) : t[i] = s[i]
      /\ \A i \in (f + 2 + 1)..Len(t) : t[i] = s[i + d]
  BY <1>2, SplicedOf
<1> HIDE DEF t
<1>4. f + 2 <= Len(t) /\ Len(t) \in Nat
  BY <1>1, <1>3
<1>5. FirstSep(t, f)
  BY <1>1, <1>3, <1>4, FirstSepCopied
<1>6. ASSUME HasUserinfo(t) PROVE FALSE
  <2>1. PICK i \in 1..Len(t), j \in 1..Len(t) :
          /\ SeparatorAt(t, i) /\ \A k \in 1..(i - 1) : ~SeparatorAt(t, k)
          /\ j > i + 2 /\ t[j] = "@" /\ \A k \in (i + 3)..j : t[k] \notin {"/", "?", "#"}
    BY <1>6 DEF HasUserinfo
  <2>2. i = f
    <3>1. FirstSep(t, i)
      BY <2>1 DEF FirstSep
    <3> QED BY <1>4, <1>5, <3>1, FirstSepUnique
  <2>3. j \in (f + 2 + 1)..Len(t) /\ j + d \in (l + 1)..Len(s)
    BY <1>1, <1>3, <1>4, <2>1, <2>2
  <2>4. s[j + d] = "@"
    BY <1>3, <2>1, <2>3
  <2>5. ~(j + d <= e)
    BY <1>1, <2>3, <2>4
  <2>6. e # Len(s) /\ e + 1 - d \in (f + 2 + 1)..Len(t) /\ e + 1 - d \in (i + 3)..j /\ e + 1 - d + d = e + 1
    BY <1>1, <1>3, <1>4, <2>1, <2>2, <2>3, <2>5
  <2>7. t[e + 1 - d] = s[e + 1]
    <3>1. t[e + 1 - d] = s[e + 1 - d + d]
      BY <1>3, <2>6
    <3> QED BY <2>6, <3>1
  <2> QED BY <1>1, <2>1, <2>6, <2>7 DEF Delims
<1> QED BY <1>3, <1>4, <1>5, <1>6 DEF t

\* What redact_url_password returns.
LEMMA PasswordOf ==
  ASSUME NEW S, NEW s \in Seq(S)
  PROVE  LET t == redact_url_password(s)
             f == find_separator(s)
             l == last_at(s)
         IN /\ t \in Seq(S) /\ ~HasUserinfo(t)
            /\ \/ ~HasUserinfo(s) /\ t = s
               \/ Userinfo(s, f, authority_end(s), l) /\ t = Spliced(s, f + 2, l)
<1> DEFINE t == redact_url_password(s)
           f == find_separator(s)
           l == last_at(s)
<1>1. CASE f = 0 \/ l = 0
  <2>1. t = s
    BY <1>1 DEF redact_url_password
  <2>2. ~HasUserinfo(s)
    BY <1>1, UserinfoIs
  <2> QED BY <2>1, <2>2
<1>2. CASE ~(f = 0 \/ l = 0)
  <2>1. Userinfo(s, f, authority_end(s), l)
    BY <1>2, UserinfoIs
  <2>2. authority_start(s) - 1 = f + 2
    <3>1. f \in 1..Len(s) /\ Len(s) \in Nat
      BY <2>1 DEF Userinfo
    <3>2. authority_start(s) = f + 3
      BY DEF authority_start
    <3> HIDE DEF f
    <3> QED BY <3>1, <3>2
  <2>3. t = SubSeq(s, 1, authority_start(s) - 1) \o SubSeq(s, l + 1, Len(s))
    BY <1>2 DEF redact_url_password
  <2>4. t = Spliced(s, f + 2, l)
    BY <2>2, <2>3 DEF Spliced, Then
  <2> HIDE DEF t, f, l
  <2>5. t \in Seq(S) /\ ~HasUserinfo(t)
    BY <2>1, <2>4, NoneLeft
  <2> QED BY <2>1, <2>4, <2>5 DEF t, f, l
<1> QED BY <1>1, <1>2

\* s has a separator.
HasSep(s) == \E i \in 1..Len(s) : SeparatorAt(s, i)
\* A URL has its scheme in front of its query.
SchemeFirst(s) ==
  \A k \in 1..Len(s) : s[k] = "?" => \E i \in 1..(k - 1) : SeparatorAt(s, i)

\* A string without userinfo is left as it is.
LEMMA PasswordRests ==
  ASSUME NEW S, NEW s \in Seq(S), ~HasUserinfo(s)
  PROVE  redact_url_password(s) = s
BY UserinfoIs DEF redact_url_password

\* A separator of the first part is one of the whole.
LEMMA ThenKeepsSep ==
  ASSUME NEW S, NEW x \in Seq(S), NEW y \in Seq(S), NEW i \in 1..Len(x), SeparatorAt(x, i)
  PROVE  i \in 1..Len(Then(x, y)) /\ SeparatorAt(Then(x, y), i)
<1> DEFINE t == Then(x, y)
<1>1. /\ Len(x) \in Nat /\ Len(y) \in Nat /\ Len(t) = Len(x) + Len(y)
      /\ \A k \in 1..Len(x) : t[k] = x[k]
  BY ThenOf
<1>2. t \in Seq(S)
  BY Zenon, Concat
<1> HIDE DEF t
<1>3. i + 2 <= Len(x) /\ i + 2 <= Len(t)
  BY <1>1 DEF SeparatorAt
<1>4. t[i] = x[i] /\ t[i + 1] = x[i + 1] /\ t[i + 2] = x[i + 2]
  <2>1. i \in 1..Len(x) /\ i + 1 \in 1..Len(x) /\ i + 2 \in 1..Len(x)
    BY <1>1, <1>3
  <2> QED BY <1>1, <2>1
<1>5. SeparatorAt(t, i) <=> SeparatorAt(x, i)
  BY <1>2, <1>3, <1>4, SepCopied
<1>6. i \in 1..Len(t)
  BY <1>1
<1> QED BY <1>5, <1>6 DEF t

\* What is behind a URL in a word has no query.
LEMMA ThenKeepsScheme ==
  ASSUME NEW S, NEW x \in Seq(S), NEW y \in Seq(S), SchemeFirst(x),
         \A k \in 1..Len(y) : y[k] # "?"
  PROVE  SchemeFirst(Then(x, y))
<1> DEFINE t == Then(x, y)
<1>1. /\ Len(x) \in Nat /\ Len(y) \in Nat /\ Len(t) = Len(x) + Len(y)
      /\ \A k \in 1..Len(x) : t[k] = x[k]
      /\ \A k \in 1..Len(y) : t[Len(x) + k] = y[k]
  BY ThenOf
<1> SUFFICES ASSUME NEW k \in 1..Len(t), t[k] = "?" PROVE \E i \in 1..(k - 1) : SeparatorAt(t, i)
  BY DEF SchemeFirst
<1> HIDE DEF t
<1>2. k \in 1..Len(x)
  <2> SUFFICES ASSUME k \notin 1..Len(x) PROVE FALSE
    OBVIOUS
  <2>1. k - Len(x) \in 1..Len(y) /\ Len(x) + (k - Len(x)) = k
    BY <1>1
  <2> QED BY <1>1, <2>1
<1>3. PICK i \in 1..(k - 1) : SeparatorAt(x, i)
  BY <1>1, <1>2 DEF SchemeFirst
<1>4. i \in 1..Len(x)
  BY <1>1, <1>2
<1>5. SeparatorAt(t, i)
  BY <1>3, <1>4, ThenKeepsSep DEF t
<1> QED BY <1>5

\* The first part of a URL.
LEMMA FrontKeepsScheme ==
  ASSUME NEW S, NEW s \in Seq(S), SchemeFirst(s), NEW n \in 0..Len(s)
  PROVE  SchemeFirst(SubSeq(s, 1, n))
<1> DEFINE x == SubSeq(s, 1, n)
<1>1. x \in Seq(S) /\ Len(x) = n /\ Len(s) \in Nat /\ \A k \in 1..n : x[k] = s[k]
  <2>1. n >= 1 - 1 /\ 1 \in 1..(Len(s) + 1) /\ n - 1 + 1 = n /\ Len(s) \in Nat
    OBVIOUS
  <2>2. x \in Seq(S) /\ Len(x) = n - 1 + 1 /\ \A k \in 1..(n - 1 + 1) : x[k] = s[1 + k - 1]
    BY <2>1, PieceOf
  <2>3. \A k \in 1..n : 1 + k - 1 = k
    BY <2>1
  <2> QED BY <2>1, <2>2, <2>3
<1> HIDE DEF x
<1> SUFFICES ASSUME NEW k \in 1..Len(x), x[k] = "?" PROVE \E i \in 1..(k - 1) : SeparatorAt(x, i)
  BY DEF SchemeFirst, x
<1>2. k \in 1..Len(s) /\ s[k] = "?" /\ k <= n
  BY <1>1
<1>3. PICK i \in 1..(k - 1) : SeparatorAt(s, i)
  BY <1>2 DEF SchemeFirst
<1>4. i \in 1..Len(s) /\ i + 2 <= Len(s) /\ s[i] = ":" /\ s[i + 1] = "/" /\ s[i + 2] = "/"
  <2>1. i \in 1..Len(s)
    BY <1>1, <1>2
  <2> QED BY <1>3, <2>1, SepIs
<1>5. i + 2 < k
  BY <1>1, <1>2, <1>4
<1>6. i + 2 <= Len(x) /\ x[i] = s[i] /\ x[i + 1] = s[i + 1] /\ x[i + 2] = s[i + 2]
  <2>1. i \in 1..n /\ i + 1 \in 1..n /\ i + 2 \in 1..n
    BY <1>1, <1>2, <1>5
  <2> QED BY <1>1, <2>1
<1>7. SeparatorAt(x, i)
  BY <1>1, <1>3, <1>4, <1>6, SepCopied
<1> QED BY <1>7

\* Without its userinfo a URL is still one.
LEMMA PasswordKeepsScheme ==
  ASSUME NEW S, NEW s \in Seq(S)
  PROVE  /\ SchemeFirst(s) => SchemeFirst(redact_url_password(s))
         /\ HasSep(s) => HasSep(redact_url_password(s))
<1> DEFINE t == redact_url_password(s)
           f == find_separator(s)
           l == last_at(s)
           e == authority_end(s)
<1>1. \/ t = s
      \/ Userinfo(s, f, e, l) /\ t = Spliced(s, f + 2, l)
  BY PasswordOf
<1> HIDE DEF t, f, l, e
<1>2. CASE t = s
  BY <1>2 DEF t
<1>3. CASE Userinfo(s, f, e, l) /\ t = Spliced(s, f + 2, l)
  <2>1. t \in Seq(S) /\ FirstSep(t, f) /\ f + 2 <= Len(t)
    BY <1>3, NoneLeft
  <2>2. /\ f \in 1..Len(s) /\ f + 2 <= Len(s) /\ FirstSep(s, f) /\ Len(s) \in Nat /\ Len(t) \in Nat
        /\ Authority(s, f + 3, e, l) /\ l # 0
    BY <1>3, <2>1 DEF Userinfo
  <2>3. l \in (f + 2)..Len(s)
    BY <2>2 DEF Authority
  <2>4. \A i \in 1..(f + 2) : t[i] = s[i]
    <3>1. f + 2 \in 0..Len(s)
      BY <2>2
    <3> QED BY <1>3, <2>3, <3>1, SplicedOf
  <2>5. SeparatorAt(t, f) /\ f \in 1..Len(t)
    BY <2>1, <2>2 DEF FirstSep
  <2>6. HasSep(t)
    BY <2>5 DEF HasSep
  <2>7. ASSUME SchemeFirst(s), NEW k \in 1..Len(t), t[k] = "?" PROVE \E i \in 1..(k - 1) : SeparatorAt(t, i)
    <3>1. CASE k <= f + 2
      <4>1. k \in 1..Len(s) /\ s[k] = "?"
        BY <2>2, <2>4, <2>7, <3>1
      <4>2. PICK i \in 1..(k - 1) : SeparatorAt(s, i)
        BY <2>7, <4>1 DEF SchemeFirst
      <4>3. SeparatorAt(s, f) /\ ~(i \in 1..(f - 1))
        BY <2>2, <4>2 DEF FirstSep
      <4>4. s[f + 1] = "/" /\ s[f + 2] = "/"
        BY <2>2, <4>3, SepIs
      <4>5. k = f + 1 \/ k = f + 2
        BY <2>2, <3>1, <4>3
      <4> QED BY <4>1, <4>4, <4>5
    <3>2. CASE ~(k <= f + 2)
      <4>1. f \in 1..(k - 1)
        BY <2>2, <3>2
      <4> QED BY <2>5, <4>1
    <3> QED BY <3>1, <3>2
  <2>8. SchemeFirst(s) => SchemeFirst(t)
    BY <2>7 DEF SchemeFirst
  <2> QED BY <2>6, <2>8 DEF t
<1> QED BY <1>1, <1>2, <1>3

\* The core of tok ends at n.
CoreEnds(tok, n) ==
  /\ n \in 0..Len(tok) /\ (n = 0 \/ tok[n] \notin Punctuation)
  /\ \A k \in (n + 1)..Len(tok) : tok[k] \in Punctuation

\* split_trailing_punct finds that end.
LEMMA CoreEndOf ==
  ASSUME NEW S, NEW tok \in Seq(S)
  PROVE  CoreEnds(tok, core_end(tok))
<1> DEFINE I == {i \in 1..Len(tok) : tok[i] \notin Punctuation}
<1>0. Len(tok) \in Nat
  OBVIOUS
<1>1. core_end(tok) = IF I # {} THEN Max(I) ELSE 0
  BY DEF core_end, SelectLastInSeq
<1>2. CASE I = {}
  BY <1>0, <1>1, <1>2 DEF CoreEnds
<1>3. CASE I # {}
  <2> DEFINE n == Max(I)
  <2>1. n \in I /\ \A i \in I : n >= i
    <3>1. I \in SUBSET (1..Len(tok))
      OBVIOUS
    <3> HIDE DEF I
    <3> QED BY <1>0, <1>3, <3>1, GreatestIn
  <2>2. n \in 1..Len(tok) /\ tok[n] \notin Punctuation /\ core_end(tok) = n
    BY <1>1, <1>3, <2>1
  <2> HIDE DEF n
  <2>3. \A k \in (n + 1)..Len(tok) : tok[k] \in Punctuation
    <3> SUFFICES ASSUME NEW k \in (n + 1)..Len(tok), tok[k] \notin Punctuation PROVE FALSE
      OBVIOUS
    <3>1. k \in I /\ ~(n >= k)
      BY <1>0, <2>2
    <3> HIDE DEF I
    <3> QED BY <2>1, <3>1
  <2> QED BY <1>0, <2>2, <2>3 DEF CoreEnds
<1> QED BY <1>2, <1>3

\* There is one such end.
LEMMA CoreEndUnique ==
  ASSUME NEW S, NEW tok \in Seq(S), NEW n, CoreEnds(tok, n), NEW m, CoreEnds(tok, m)
  PROVE  n = m
BY DEF CoreEnds

\* A word in its two parts: up to its trailing punctuation, and that.
Core(tok) == SubSeq(tok, 1, core_end(tok))
Trail(tok) == SubSeq(tok, core_end(tok) + 1, Len(tok))

\* redact_token, in these names.
LEMMA TokenUnfolds ==
  \A tok : redact_token(tok) = IF find_separator(Core(tok)) = 0 \/ redact_url_password(Core(tok)) = Core(tok)
                               THEN tok ELSE Then(redact_url_password(Core(tok)), Trail(tok))
BY Zenon DEF redact_token, Core, Trail, Then

\* The characters of the parts.
LEMMA PartsOf ==
  ASSUME NEW S, NEW tok \in Seq(S)
  PROVE  LET n == core_end(tok)
         IN /\ n \in 0..Len(tok) /\ Core(tok) \in Seq(S) /\ Len(Core(tok)) = n /\ Len(tok) \in Nat
            /\ \A k \in 1..n : Core(tok)[k] = tok[k]
            /\ n = 0 \/ Core(tok)[n] \notin Punctuation
            /\ Trail(tok) \in Seq(S) /\ \A k \in 1..Len(Trail(tok)) : Trail(tok)[k] \in Punctuation
<1> DEFINE n == core_end(tok)
           L == Len(tok)
<1>1. CoreEnds(tok, n) /\ L \in Nat
  BY CoreEndOf
<1> HIDE DEF n
<1>2. n \in 0..L /\ (n = 0 \/ tok[n] \notin Punctuation) /\ \A k \in (n + 1)..L : tok[k] \in Punctuation
  BY <1>1 DEF CoreEnds
<1>3. Core(tok) \in Seq(S) /\ Len(Core(tok)) = n /\ \A k \in 1..n : Core(tok)[k] = tok[k]
  <2>1. n >= 1 - 1 /\ 1 \in 1..(L + 1) /\ n - 1 + 1 = n
    BY <1>1, <1>2
  <2>2. /\ SubSeq(tok, 1, n) \in Seq(S) /\ Len(SubSeq(tok, 1, n)) = n - 1 + 1
        /\ \A k \in 1..(n - 1 + 1) : SubSeq(tok, 1, n)[k] = tok[1 + k - 1]
    BY <1>2, <2>1, PieceOf
  <2>3. \A k \in 1..n : 1 + k - 1 = k
    BY <1>1, <1>2
  <2> QED BY <2>1, <2>2, <2>3 DEF Core, n
<1>4. Trail(tok) \in Seq(S) /\ \A k \in 1..Len(Trail(tok)) : Trail(tok)[k] \in Punctuation
  <2> DEFINE b == n + 1
             y == SubSeq(tok, b, L)
  <2>1. b \in 1..(L + 1) /\ L \in 0..L /\ L >= b - 1 /\ L - b + 1 = L - n
    BY <1>1, <1>2
  <2>2. Trail(tok) = y
    BY DEF Trail, n
  <2> HIDE DEF b
  <2>3. y \in Seq(S) /\ Len(y) = L - b + 1 /\ \A k \in 1..(L - b + 1) : y[k] = tok[b + k - 1]
    BY <2>1, PieceOf
  <2> HIDE DEF y
  <2>4. \A k \in 1..Len(y) : y[k] \in Punctuation
    <3> TAKE k \in 1..Len(y)
    <3>1. b + k - 1 \in (n + 1)..L /\ k \in 1..(L - b + 1)
      BY <1>1, <1>2, <2>1, <2>3 DEF b
    <3> QED BY <1>2, <2>3, <3>1
  <2> QED BY <2>2, <2>3, <2>4
<1>5. n = 0 \/ Core(tok)[n] \notin Punctuation
  BY <1>1, <1>2, <1>3
<1> QED BY <1>1, <1>2, <1>3, <1>4, <1>5 DEF n

\* The front of a concatenation is its first part.
LEMMA FrontOf ==
  ASSUME NEW S, NEW x \in Seq(S), NEW y \in Seq(S)
  PROVE  SubSeq(Then(x, y), 1, Len(x)) = x
<1> DEFINE t == Then(x, y)
           n == Len(x)
<1>1. /\ n \in Nat /\ Len(y) \in Nat /\ Len(t) = n + Len(y)
      /\ \A k \in 1..n : t[k] = x[k]
  BY ThenOf
<1>2. t \in Seq(S)
  BY Zenon, Concat
<1> HIDE DEF t, n
<1>3. n \in 0..Len(t) /\ n >= 1 - 1 /\ 1 \in 1..(Len(t) + 1) /\ n - 1 + 1 = n
  BY <1>1
<1>4. /\ SubSeq(t, 1, n) \in Seq(S) /\ Len(SubSeq(t, 1, n)) = n - 1 + 1
      /\ \A k \in 1..(n - 1 + 1) : SubSeq(t, 1, n)[k] = t[1 + k - 1]
  BY <1>2, <1>3, PieceOf
<1>5. \A k \in 1..n : SubSeq(t, 1, n)[k] = x[k]
  <2> TAKE k \in 1..n
  <2>1. 1 + k - 1 = k
    BY <1>1
  <2> QED BY <1>1, <1>3, <1>4, <2>1
<1>6. SubSeq(t, 1, n) = x
  BY <1>3, <1>4, <1>5, SeqsEqual DEF n
<1> QED BY <1>6 DEF t, n

\* What redact_token writes for a word is a word without userinfo that it would leave
\* as it is.
LEMMA TokenOf ==
  ASSUME NEW S, NEW tok \in Seq(S)
  PROVE  LET r == redact_token(tok)
         IN /\ r \in Seq(S) /\ (tok # <<>> => r # <<>>)
            /\ ~HasUserinfo(Core(r)) /\ redact_token(r) = r
            /\ SchemeFirst(tok) => SchemeFirst(r)
            /\ HasSep(tok) => HasSep(r)
<1> DEFINE r == redact_token(tok)
           c == Core(tok)
           w == Trail(tok)
           d == redact_url_password(c)
           n == core_end(tok)
           f == find_separator(c)
           l == last_at(c)
           e == authority_end(c)
<1>1. /\ n \in 0..Len(tok) /\ c \in Seq(S) /\ Len(c) = n /\ Len(tok) \in Nat
      /\ \A k \in 1..n : c[k] = tok[k]
      /\ n = 0 \/ c[n] \notin Punctuation
      /\ w \in Seq(S) /\ \A k \in 1..Len(w) : w[k] \in Punctuation
  BY PartsOf
<1>2. r = IF f = 0 \/ d = c THEN tok ELSE Then(d, w)
  BY Zenon, TokenUnfolds
<1> HIDE DEF c
<1>3. /\ d \in Seq(S) /\ ~HasUserinfo(d)
      /\ \/ ~HasUserinfo(c) /\ d = c
         \/ Userinfo(c, f, e, l) /\ d = Spliced(c, f + 2, l)
  BY <1>1, PasswordOf
<1>4. /\ SchemeFirst(c) => SchemeFirst(d)
      /\ HasSep(c) => HasSep(d)
  BY <1>1, PasswordKeepsScheme
<1> HIDE DEF r, w, d, n, f, l, e
<1>5. CASE f = 0 \/ d = c
  <2>1. r = tok
    BY <1>2, <1>5
  <2>2. ~HasUserinfo(c)
    <3>1. Userinfo(c, f, e, l) => f # 0
      BY DEF Userinfo
    <3> QED BY <1>3, <1>5, <3>1
  <2>3. redact_token(r) = r
    BY <2>1 DEF r
  <2> QED BY <2>1, <2>2, <2>3 DEF r, c
<1>6. CASE ~(f = 0 \/ d = c)
  <2>1. r = Then(d, w)
    BY <1>2, <1>6
  <2>2. Userinfo(c, f, e, l) /\ d = Spliced(c, f + 2, l)
    BY <1>3, <1>6
  <2>3. /\ f \in 1..Len(c) /\ f + 2 <= Len(c) /\ FirstSep(c, f) /\ Authority(c, f + 3, e, l) /\ l # 0
        /\ Len(c) \in Nat
    BY <1>1, <2>2 DEF Userinfo
  <2>4. l \in (f + 3)..Len(c) /\ SeparatorAt(c, f)
    <3>1. l \in (f + 3)..Len(c)
      BY <2>3 DEF Authority
    <3>2. SeparatorAt(c, f)
      BY <2>3 DEF FirstSep
    <3> QED BY <3>1, <3>2
  <2>5. /\ Len(d) = Len(c) - (l - (f + 2))
        /\ \A i \in 1..(f + 2) : d[i] = c[i]
        /\ \A i \in (f + 2 + 1)..Len(d) : d[i] = c[i + (l - (f + 2))]
    <3>1. f + 2 \in 0..Len(c) /\ l \in (f + 2)..Len(c)
      BY <2>3, <2>4
    <3> DEFINE g == f + 2
    <3> HIDE DEF g
    <3>2. c \in Seq(S) /\ g \in 0..Len(c) /\ l \in g..Len(c) /\ d = Spliced(c, g, l)
      BY <1>1, <2>2, <3>1 DEF g
    <3>3. /\ Len(Spliced(c, g, l)) = Len(c) - (l - g)
          /\ \A i \in 1..g : Spliced(c, g, l)[i] = c[i]
          /\ \A i \in (g + 1)..Len(Spliced(c, g, l)) : Spliced(c, g, l)[i] = c[i + (l - g)]
      BY <3>2, SplicedOf
    <3> QED BY <3>2, <3>3 DEF g
  <2>6. Len(d) \in Nat /\ Len(d) >= f + 2 /\ Len(d) # 0
    BY <2>3, <2>4, <2>5
  <2>7. d[Len(d)] \notin Punctuation
    <3>1. CASE l = Len(c)
      <4>1. Len(d) = f + 2 /\ f + 2 \in 1..(f + 2)
        BY <2>3, <2>5, <3>1
      <4>2. c[f + 2] = "/"
        BY <1>1, <2>3, <2>4, SepIs
      <4> QED BY <2>5, <4>1, <4>2 DEF Punctuation
    <3>2. CASE l # Len(c)
      <4>1. Len(d) \in (f + 2 + 1)..Len(d) /\ Len(d) + (l - (f + 2)) = Len(c) /\ n # 0
        BY <1>1, <2>3, <2>4, <2>5, <3>2
      <4>2. d[Len(d)] = c[Len(c)]
        BY <2>5, <4>1
      <4> QED BY <1>1, <4>1, <4>2
    <3> QED BY <3>1, <3>2
  <2>8. /\ Len(w) \in Nat /\ Len(r) = Len(d) + Len(w) /\ r \in Seq(S)
        /\ \A k \in 1..Len(d) : r[k] = d[k]
        /\ \A k \in 1..Len(w) : r[Len(d) + k] = w[k]
    <3>1. Then(d, w) \in Seq(S)
      BY <1>1, <1>3, Concat
    <3>2. /\ Len(w) \in Nat /\ Len(Then(d, w)) = Len(d) + Len(w)
          /\ \A k \in 1..Len(d) : Then(d, w)[k] = d[k]
          /\ \A k \in 1..Len(w) : Then(d, w)[Len(d) + k] = w[k]
      <4>1. d \in Seq(S) /\ w \in Seq(S)
        BY <1>1, <1>3
      <4> QED BY <4>1, ThenOf
    <3> QED BY <2>1, <3>1, <3>2
  <2>9. CoreEnds(r, Len(d))
    <3>1. Len(d) \in 0..Len(r) /\ Len(d) \in 1..Len(d)
      BY <2>6, <2>8
    <3>2. \A k \in (Len(d) + 1)..Len(r) : r[k] \in Punctuation
      <4> TAKE k \in (Len(d) + 1)..Len(r)
      <4>1. k - Len(d) \in 1..Len(w) /\ Len(d) + (k - Len(d)) = k
        BY <2>6, <2>8
      <4>2. r[Len(d) + (k - Len(d))] = w[k - Len(d)]
        BY <2>8, <4>1
      <4> QED BY <1>1, <4>1, <4>2
    <3>3. r[Len(d)] \notin Punctuation
      BY <2>7, <2>8, <3>1
    <3> QED BY <3>1, <3>2, <3>3 DEF CoreEnds
  <2>10. core_end(r) = Len(d)
    BY <2>8, <2>9, CoreEndOf, CoreEndUnique
  <2>11. Core(r) = d
    BY <1>1, <1>3, <2>1, <2>10, FrontOf DEF Core
  <2>12. redact_token(r) = r
    <3>1. redact_url_password(d) = d
      BY <1>3, PasswordRests
    <3> QED BY <2>11, <3>1, TokenUnfolds
  <2>13. r # <<>>
    <3>1. Len(r) # 0
      BY <2>6, <2>8
    <3> QED BY <3>1
  <2>14. SchemeFirst(tok) => SchemeFirst(r)
    <3> SUFFICES ASSUME SchemeFirst(tok) PROVE SchemeFirst(r)
      OBVIOUS
    <3>1. SchemeFirst(c)
      BY <1>1, FrontKeepsScheme DEF c, Core, n
    <3>2. \A k \in 1..Len(w) : w[k] # "?"
      BY <1>1 DEF Punctuation
    <3> QED BY <1>1, <1>3, <1>4, <2>1, <3>1, <3>2, ThenKeepsScheme
  <2>15. HasSep(r)
    <3>1. HasSep(c)
      BY <2>3, <2>4 DEF HasSep
    <3>2. PICK i \in 1..Len(d) : SeparatorAt(d, i)
      BY <1>4, <3>1 DEF HasSep
    <3>3. i \in 1..Len(r) /\ SeparatorAt(r, i)
      BY <1>1, <1>3, <2>1, <3>2, ThenKeepsSep
    <3> QED BY <3>3 DEF HasSep
  <2> QED BY <1>3, <2>8, <2>11, <2>12, <2>13, <2>14, <2>15 DEF r
<1> QED BY <1>5, <1>6

\* The items of a longer sequence.
LEMMA AppendOf ==
  ASSUME NEW S, NEW s \in Seq(S), NEW x \in S
  PROVE  /\ Append(s, x) \in Seq(S) /\ Len(s) \in Nat /\ Len(Append(s, x)) = Len(s) + 1
         /\ \A k \in 1..Len(s) : Append(s, x)[k] = s[k]
         /\ Append(s, x)[Len(s) + 1] = x
OBVIOUS

\* Induction over sequences, said of a set: a set that has the empty one and every
\* longer one of its members has every sequence.
LEMMA SeqInduction ==
  ASSUME NEW A, NEW Q \in SUBSET Seq(A), <<>> \in Q, \A v \in Q : \A x \in A : Append(v, x) \in Q
  PROVE  Q = Seq(A)
<1> DEFINE C == {n \in Nat : \A v \in Seq(A) : Len(v) = n => v \in Q}
<1>1. 0 \in C
  <2>1. \A v \in Seq(A) : Len(v) = 0 => v = <<>>
    OBVIOUS
  <2> QED BY <2>1
<1>2. ASSUME NEW n \in C PROVE n + 1 \in C
  <2> SUFFICES ASSUME NEW v \in Seq(A), Len(v) = n + 1 PROVE v \in Q
    BY <1>2
  <2> DEFINE u == SubSeq(v, 1, n)
  <2>1. n \in Nat /\ n \in 0..Len(v) /\ 1 \in 1..(Len(v) + 1) /\ n >= 1 - 1 /\ n - 1 + 1 = n /\ n + 1 \in DOMAIN v
    BY <1>2
  <2>2. u \in Seq(A) /\ Len(u) = n - 1 + 1 /\ \A k \in 1..(n - 1 + 1) : u[k] = v[1 + k - 1]
    BY <2>1, PieceOf
  <2> HIDE DEF u
  <2>3. v[n + 1] \in A
    BY <2>1, ItemIn
  <2>4. Append(u, v[n + 1]) = v
    <3> DEFINE z == v[n + 1]
               w == Append(u, z)
    <3>0. z \in A /\ Len(u) = n
      BY <2>1, <2>2, <2>3
    <3> HIDE DEF z
    <3>1. w \in Seq(A) /\ Len(w) = n + 1 /\ w[n + 1] = z /\ \A k \in 1..n : w[k] = u[k]
      <4>1. u \in Seq(A) /\ z \in A
        BY <2>2, <3>0
      <4>2. w \in Seq(A) /\ Len(w) = Len(u) + 1 /\ w[Len(u) + 1] = z /\ \A k \in 1..Len(u) : w[k] = u[k]
        BY <4>1, AppendOf
      <4> HIDE DEF w
      <4> QED BY <3>0, <4>2
    <3> HIDE DEF w
    <3>2. \A k \in 1..Len(w) : w[k] = v[k]
      <4> TAKE k \in 1..Len(w)
      <4>1. k = n + 1 \/ (k \in 1..n /\ k \in 1..(n - 1 + 1) /\ 1 + k - 1 = k)
        BY <2>1, <3>1
      <4> QED BY <2>2, <3>1, <4>1 DEF z
    <3> QED BY <3>1, <3>2, SeqsEqual DEF w, z
  <2>5. u \in Q
    BY <1>2, <2>1, <2>2
  <2>6. Append(u, v[n + 1]) \in Q
    BY <2>3, <2>5
  <2> QED BY <2>4, <2>6
<1>3. C = Nat
  <2>1. C \in SUBSET Nat
    OBVIOUS
  <2> HIDE DEF C
  <2> QED BY <1>1, <1>2, <2>1, Induction
<1>4. \A v \in Seq(A) : v \in Q
  <2> TAKE v \in Seq(A)
  <2>1. Len(v) \in Nat
    OBVIOUS
  <2> QED BY <1>3, <2>1
<1> QED BY <1>4

\* A sequence that is not empty has a last item.
LEMMA LastOf ==
  ASSUME NEW A, NEW P \in Seq(A)
  PROVE  P = <<>> \/ \E u \in Seq(A), v \in A : P = Append(u, v)
<1> DEFINE Q == {p \in Seq(A) : p = <<>> \/ \E u \in Seq(A), v \in A : p = Append(u, v)}
<1>1. <<>> \in Q /\ Q \in SUBSET Seq(A)
  OBVIOUS
<1>2. \A p \in Q : \A x \in A : Append(p, x) \in Q
  <2> TAKE p \in Q
  <2> TAKE x \in A
  <2>1. p \in Seq(A) /\ Append(p, x) \in Seq(A)
    OBVIOUS
  <2> QED BY <2>1
<1>3. Q = Seq(A)
  <2> HIDE DEF Q
  <2> QED BY <1>1, <1>2, SeqInduction
<1> QED BY <1>3

\* s has no c.
Lacks(s, c) == \A i \in 1..Len(s) : s[i] # c
\* x and y with a c between them.
Cut(x, c, y) == Then(x, Then(<<c>>, y))

\* That is a matter of the alphabet.
LEMMA LacksIs ==
  ASSUME NEW S, NEW s \in Seq(S), NEW c
  PROVE  Lacks(s, c) <=> s \in Seq(S \ {c})
<1>1. ASSUME Lacks(s, c) PROVE s \in Seq(S \ {c})
  <2>1. s \in [1..Len(s) -> S] /\ Len(s) \in Nat
    OBVIOUS
  <2>2. \A i \in 1..Len(s) : s[i] \in S \ {c}
    BY <1>1, <2>1 DEF Lacks
  <2>3. s \in [1..Len(s) -> S \ {c}]
    BY <2>1, <2>2
  <2> QED BY <2>1, <2>3
<1>2. ASSUME s \in Seq(S \ {c}) PROVE Lacks(s, c)
  <2>1. \A i \in DOMAIN s : s[i] \in S \ {c}
    BY <1>2, ItemIn
  <2>2. DOMAIN s = 1..Len(s)
    OBVIOUS
  <2> QED BY <2>1, <2>2 DEF Lacks
<1> QED BY <1>1, <1>2

\* A larger alphabet has the same texts and more.
LEMMA Wider ==
  ASSUME NEW S, NEW T, S \subseteq T, NEW s \in Seq(S)
  PROVE  s \in Seq(T)
OBVIOUS

\* t is x and y with a c between them, item by item.
IsCut(t, x, c, y, S) ==
  /\ t \in Seq(S) /\ Len(t) = Len(x) + 1 + Len(y) /\ Len(x) \in Nat /\ Len(y) \in Nat
  /\ \A k \in 1..Len(x) : t[k] = x[k]
  /\ t[Len(x) + 1] = c
  /\ \A k \in 1..Len(y) : t[Len(x) + 1 + k] = y[k]

\* The items of a cut.
LEMMA CutOf ==
  ASSUME NEW S, NEW x \in Seq(S), NEW c \in S, NEW y \in Seq(S)
  PROVE  IsCut(Cut(x, c, y), x, c, y, S)
<1> DEFINE z == Then(<<c>>, y)
           o == <<c>>
           t == Then(x, z)
<1>1. o \in Seq(S) /\ Len(o) = 1 /\ o[1] = c
  OBVIOUS
<1> HIDE DEF o
<1>2. z = Then(o, y)
  BY DEF o
<1> HIDE DEF z
<1>3. /\ Len(y) \in Nat /\ Len(z) = 1 + Len(y) /\ z \in Seq(S) /\ z[1] = c
      /\ \A k \in 1..Len(y) : z[1 + k] = y[k]
  <2>1. Then(o, y) \in Seq(S)
    BY <1>1, Concat
  <2>2. /\ Len(y) \in Nat /\ Len(Then(o, y)) = Len(o) + Len(y)
        /\ \A k \in 1..Len(o) : Then(o, y)[k] = o[k]
        /\ \A k \in 1..Len(y) : Then(o, y)[Len(o) + k] = y[k]
    <3>1. o \in Seq(S)
      BY <1>1
    <3> QED BY <3>1, ThenOf
  <2> QED BY <1>1, <1>2, <2>1, <2>2
<1>4. /\ Len(x) \in Nat /\ Len(t) = Len(x) + Len(z) /\ t \in Seq(S)
      /\ \A k \in 1..Len(x) : t[k] = x[k]
      /\ \A k \in 1..Len(z) : t[Len(x) + k] = z[k]
  <2>1. Then(x, z) \in Seq(S)
    BY <1>3, Concat
  <2>2. /\ Len(x) \in Nat /\ Len(Then(x, z)) = Len(x) + Len(z)
        /\ \A k \in 1..Len(x) : Then(x, z)[k] = x[k]
        /\ \A k \in 1..Len(z) : Then(x, z)[Len(x) + k] = z[k]
    BY <1>3, ThenOf
  <2> QED BY <2>1, <2>2
<1>5. Cut(x, c, y) = t
  BY DEF Cut, z
<1> HIDE DEF t
<1>6. t[Len(x) + 1] = c
  <2>1. 1 \in 1..Len(z)
    BY <1>3
  <2> QED BY <1>3, <1>4, <2>1
<1>7. \A k \in 1..Len(y) : t[Len(x) + 1 + k] = y[k]
  <2> TAKE k \in 1..Len(y)
  <2>1. 1 + k \in 1..Len(z) /\ Len(x) + (1 + k) = Len(x) + 1 + k
    BY <1>3, <1>4
  <2>2. t[Len(x) + (1 + k)] = z[1 + k]
    BY <1>4, <2>1
  <2> QED BY <1>3, <2>1, <2>2
<1>8. Len(t) = Len(x) + 1 + Len(y)
  BY <1>3, <1>4
<1> QED BY <1>3, <1>4, <1>5, <1>6, <1>7, <1>8 DEF IsCut

\* A text is cut at its first c in one way.
LEMMA CutUnique ==
  ASSUME NEW S, NEW c \in S, NEW x \in Seq(S), NEW y \in Seq(S), NEW u \in Seq(S), NEW v \in Seq(S),
         Cut(x, c, y) = Cut(u, c, v), Lacks(x, c), Lacks(u, c)
  PROVE  x = u /\ y = v
<1> DEFINE t == Cut(x, c, y)
<1>1. /\ Len(t) = Len(x) + 1 + Len(y) /\ Len(x) \in Nat /\ Len(y) \in Nat
      /\ \A k \in 1..Len(x) : t[k] = x[k]
      /\ t[Len(x) + 1] = c
      /\ \A k \in 1..Len(y) : t[Len(x) + 1 + k] = y[k]
  <2>1. IsCut(t, x, c, y, S)
    BY CutOf
  <2> HIDE DEF t
  <2> QED BY <2>1 DEF IsCut
<1>2. /\ Len(t) = Len(u) + 1 + Len(v) /\ Len(u) \in Nat /\ Len(v) \in Nat
      /\ \A k \in 1..Len(u) : t[k] = u[k]
      /\ t[Len(u) + 1] = c
      /\ \A k \in 1..Len(v) : t[Len(u) + 1 + k] = v[k]
  <2>1. t = Cut(u, c, v)
    OBVIOUS
  <2> HIDE DEF t
  <2>2. IsCut(t, u, c, v, S)
    BY <2>1, CutOf
  <2> QED BY <2>2 DEF IsCut
<1> HIDE DEF t
<1>3. Len(x) = Len(u)
  <2>1. ~(Len(x) < Len(u))
    <3> SUFFICES ASSUME Len(x) < Len(u) PROVE FALSE
      OBVIOUS
    <3>1. Len(x) + 1 \in 1..Len(u)
      BY <1>1, <1>2
    <3> QED BY <1>1, <1>2, <3>1 DEF Lacks
  <2>2. ~(Len(u) < Len(x))
    <3> SUFFICES ASSUME Len(u) < Len(x) PROVE FALSE
      OBVIOUS
    <3>1. Len(u) + 1 \in 1..Len(x)
      BY <1>1, <1>2
    <3> QED BY <1>1, <1>2, <3>1 DEF Lacks
  <2> QED BY <1>1, <1>2, <2>1, <2>2
<1>4. x = u
  <2>1. \A k \in 1..Len(x) : x[k] = u[k]
    BY <1>1, <1>2, <1>3
  <2> QED BY <1>3, <2>1, SeqsEqual
<1>5. y = v
  <2>1. Len(y) = Len(v)
    BY <1>1, <1>2, <1>3
  <2>2. \A k \in 1..Len(y) : y[k] = v[k]
    BY <1>1, <1>2, <1>3, <2>1
  <2> QED BY <2>1, <2>2, SeqsEqual
<1> QED BY <1>4, <1>5

\* split_once cuts a text at its first c, if it has one.
LEMMA SplitAtOf ==
  ASSUME NEW S, NEW c \in S, NEW s \in Seq(S)
  PROVE  \/ Lacks(s, c) /\ split_at(s, c) = <<s>>
         \/ \E x, y \in Seq(S) : Lacks(x, c) /\ s = Cut(x, c, y) /\ split_at(s, c) = <<x, y>>
<1> DEFINE I == {i \in 1..Len(s) : s[i] = c}
           m == IF I # {} THEN Min(I) ELSE 0
<1>0. Len(s) \in Nat
  OBVIOUS
<1>1. split_at(s, c) = IF m = 0 THEN <<s>> ELSE <<SubSeq(s, 1, m - 1), SubSeq(s, m + 1, Len(s))>>
  BY DEF split_at, SelectInSeq
<1>2. CASE I = {}
  <2>1. Lacks(s, c)
    BY <1>2 DEF Lacks
  <2> QED BY <1>1, <1>2, <2>1
<1>3. CASE I # {}
  <2>1. m \in I /\ \A i \in I : m <= i
    <3>1. I \in SUBSET (1..Len(s)) /\ m = Min(I)
      BY <1>3
    <3> HIDE DEF I, m
    <3> QED BY <1>0, <1>3, <3>1, LeastIn
  <2> HIDE DEF m
  <2>2. m \in 1..Len(s) /\ s[m] = c /\ \A i \in 1..(m - 1) : s[i] # c
    <3>1. m \in 1..Len(s) /\ s[m] = c
      BY <2>1
    <3>2. ASSUME NEW i \in 1..(m - 1), s[i] = c PROVE FALSE
      <4>1. i \in I /\ ~(m <= i)
        BY <1>0, <3>1, <3>2
      <4> HIDE DEF I
      <4> QED BY <2>1, <4>1
    <3> QED BY <3>1, <3>2
  <2> DEFINE x == SubSeq(s, 1, m - 1)
             y == SubSeq(s, m + 1, Len(s))
  <2>3. x \in Seq(S) /\ Len(x) = m - 1 /\ \A k \in 1..(m - 1) : x[k] = s[k]
    <3> DEFINE n == m - 1
    <3>1. n \in 0..Len(s) /\ n >= 1 - 1 /\ 1 \in 1..(Len(s) + 1) /\ n - 1 + 1 = n
      BY <1>0, <2>2
    <3>2. x = SubSeq(s, 1, n)
      OBVIOUS
    <3> HIDE DEF n, x
    <3>3. /\ SubSeq(s, 1, n) \in Seq(S) /\ Len(SubSeq(s, 1, n)) = n - 1 + 1
          /\ \A k \in 1..(n - 1 + 1) : SubSeq(s, 1, n)[k] = s[1 + k - 1]
      BY <3>1, PieceOf
    <3>4. \A k \in 1..n : 1 + k - 1 = k
      BY <3>1
    <3>5. x \in Seq(S) /\ Len(x) = n /\ \A k \in 1..n : x[k] = s[k]
      BY <3>1, <3>2, <3>3, <3>4
    <3> QED BY <3>5 DEF n
  <2>4. y \in Seq(S) /\ Len(y) = Len(s) - m /\ \A k \in 1..(Len(s) - m) : y[k] = s[m + k]
    <3> DEFINE b == m + 1
               n == Len(s)
    <3>1. b \in 1..(n + 1) /\ n \in 0..n /\ n >= b - 1 /\ n - b + 1 = n - m
      BY <1>0, <2>2
    <3>2. y = SubSeq(s, b, n)
      OBVIOUS
    <3> HIDE DEF b, y
    <3>3. /\ SubSeq(s, b, n) \in Seq(S) /\ Len(SubSeq(s, b, n)) = n - b + 1
          /\ \A k \in 1..(n - b + 1) : SubSeq(s, b, n)[k] = s[b + k - 1]
      BY <3>1, PieceOf
    <3>4. \A k \in 1..(n - m) : b + k - 1 = m + k
      BY <1>0, <2>2 DEF b
    <3> QED BY <3>1, <3>2, <3>3, <3>4
  <2>5. split_at(s, c) = <<x, y>>
    BY <1>0, <1>1, <2>2
  <2> HIDE DEF x, y
  <2>6. Lacks(x, c)
    BY <2>2, <2>3 DEF Lacks
  <2>7. s = Cut(x, c, y)
    <3> DEFINE t == Cut(x, c, y)
    <3>1. /\ t \in Seq(S) /\ Len(t) = Len(x) + 1 + Len(y)
          /\ \A k \in 1..Len(x) : t[k] = x[k]
          /\ t[Len(x) + 1] = c
          /\ \A k \in 1..Len(y) : t[Len(x) + 1 + k] = y[k]
      <4>1. IsCut(t, x, c, y, S)
        BY <2>3, <2>4, CutOf
      <4> HIDE DEF t
      <4> QED BY <4>1 DEF IsCut
    <3> HIDE DEF t
    <3>2. Len(t) = Len(s) /\ Len(x) + 1 = m
      BY <1>0, <2>2, <2>3, <2>4, <3>1
    <3>3. ASSUME NEW k \in 1..Len(s) PROVE s[k] = t[k]
      <4>1. CASE k \in 1..(m - 1)
        BY <2>3, <3>1, <4>1
      <4>2. CASE k = m
        BY <2>2, <3>1, <3>2, <4>2
      <4>3. CASE k > m
        <5>1. k - m \in 1..Len(y) /\ m + (k - m) = k /\ k - m \in 1..(Len(s) - m)
          BY <1>0, <2>2, <2>4, <4>3
        <5>2. t[m + (k - m)] = y[k - m] /\ y[k - m] = s[m + (k - m)]
          BY <2>4, <3>1, <3>2, <5>1
        <5> QED BY <5>1, <5>2
      <4> QED BY <1>0, <2>2, <4>1, <4>2, <4>3
    <3> QED BY <3>1, <3>2, <3>3, SeqsEqual DEF t
  <2> QED BY <2>3, <2>4, <2>5, <2>6, <2>7
<1> QED BY <1>2, <1>3

\* It finds the cut.
LEMMA SplitAtCut ==
  ASSUME NEW S, NEW c \in S, NEW x \in Seq(S), NEW y \in Seq(S), Lacks(x, c)
  PROVE  split_at(Cut(x, c, y), c) = <<x, y>>
<1> DEFINE t == Cut(x, c, y)
<1>1. t \in Seq(S) /\ Len(t) = Len(x) + 1 + Len(y) /\ Len(x) \in Nat /\ Len(y) \in Nat /\ t[Len(x) + 1] = c
  <2>1. IsCut(t, x, c, y, S)
    BY CutOf
  <2> HIDE DEF t
  <2> QED BY <2>1 DEF IsCut
<1> HIDE DEF t
<1>2. ~Lacks(t, c)
  <2>1. Len(x) + 1 \in 1..Len(t)
    BY <1>1
  <2> QED BY <1>1, <2>1 DEF Lacks
<1>3. PICK u \in Seq(S), v \in Seq(S) : Lacks(u, c) /\ t = Cut(u, c, v) /\ split_at(t, c) = <<u, v>>
  BY <1>1, <1>2, SplitAtOf
<1>4. x = u /\ y = v
  BY <1>3, CutUnique DEF t
<1> QED BY <1>3, <1>4 DEF t

\* What split has at each character: parts without a c, one at least.
SplitParts(S, c) == Seq(Seq(S \ {c})) \ {<<>>}

\* A c begins a part.
LEMMA SplitTurnNew ==
  ASSUME NEW S, NEW c, NEW P \in SplitParts(S, c)
  PROVE  split_turn(P, c, c) = Append(P, <<>>) /\ Append(P, <<>>) \in SplitParts(S, c)
<1> DEFINE T == Seq(S \ {c})
           e == <<>>
<1>1. e \in T /\ P \in Seq(T)
  BY DEF SplitParts
<1> HIDE DEF T, e
<1>2. Append(P, e) \in Seq(T) /\ Len(P) \in Nat /\ Len(Append(P, e)) = Len(P) + 1
  BY <1>1, AppendOf
<1>3. Append(P, e) # <<>>
  <2>1. Len(Append(P, e)) # 0
    BY <1>2
  <2> QED BY <2>1
<1> QED BY <1>2, <1>3 DEF split_turn, SplitParts, T, e

\* v is the last part, behind u, and x another character.
LastPart(x, u, v, S, c) == u \in Seq(Seq(S \ {c})) /\ v \in Seq(S \ {c}) /\ x \in S /\ x # c

\* Another character ends up in the last part.
LEMMA SplitTurnLast ==
  ASSUME NEW S, NEW c, NEW u, NEW v, NEW x, LastPart(x, u, v, S, c)
  PROVE  /\ split_turn(Append(u, v), x, c) = Append(u, Append(v, x))
         /\ Append(u, Append(v, x)) \in SplitParts(S, c)
<1> DEFINE T == Seq(S \ {c})
           P == Append(u, v)
           n == Len(u)
           w == Append(v, x)
           R == Append(u, w)
           Q == [P EXCEPT ![Len(P)] = Append(@, x)]
<1>1. w \in T
  <2>1. x \in S \ {c} /\ v \in Seq(S \ {c})
    BY DEF LastPart
  <2> QED BY <2>1, AppendOf
<1>2. v \in T /\ u \in Seq(T)
  BY DEF LastPart
<1> HIDE DEF T
<1>3. P \in Seq(T) /\ n \in Nat /\ Len(P) = n + 1 /\ P[n + 1] = v /\ \A k \in 1..n : P[k] = u[k]
  BY <1>2, AppendOf
<1> HIDE DEF w
<1>4. R \in Seq(T) /\ n \in Nat /\ Len(R) = n + 1 /\ R[n + 1] = w /\ \A k \in 1..n : R[k] = u[k]
  BY <1>1, <1>2, AppendOf
<1>5. split_turn(P, x, c) = Q
  BY DEF split_turn, LastPart
<1> HIDE DEF P, R, n
<1>6. Q = R
  <2>1. DOMAIN P = 1..(n + 1) /\ n + 1 \in 1..(n + 1)
    BY <1>3
  <2>2. /\ DOMAIN Q = 1..(n + 1) /\ Q[n + 1] = Append(P[n + 1], x)
        /\ \A k \in 1..n : Q[k] = P[k]
    <3>1. \A k \in 1..n : k \in 1..(n + 1) /\ k # n + 1
      BY <1>3
    <3> QED BY <1>3, <2>1, <3>1
  <2>3. Q \in Seq(T) /\ Len(Q) = n + 1
    <3>1. Q[n + 1] = w
      BY <1>3, <2>2 DEF w
    <3>2. Q = [k \in 1..(n + 1) |-> Q[k]]
      BY <2>1, <2>2
    <3> HIDE DEF Q
    <3>3. \A k \in 1..(n + 1) : Q[k] \in T
      <4> TAKE k \in 1..(n + 1)
      <4>1. k = n + 1 \/ k \in 1..n
        BY <1>3
      <4>2. \A i \in 1..n : P[i] \in T
        <5>1. \A i \in 1..n : i \in DOMAIN P
          BY <1>3, <2>1
        <5> QED BY <1>3, <5>1, ItemIn
      <4> QED BY <1>1, <2>2, <3>1, <4>1, <4>2
    <3>4. Q \in [1..(n + 1) -> T]
      BY <3>2, <3>3
    <3> QED BY <1>3, <2>2, <3>4
  <2>4. \A k \in 1..Len(Q) : Q[k] = R[k]
    <3> TAKE k \in 1..Len(Q)
    <3>1. k = n + 1 \/ k \in 1..n
      BY <1>3, <2>3
    <3>2. Q[n + 1] = w
      BY <1>3, <2>2 DEF w
    <3> HIDE DEF Q
    <3> QED BY <1>3, <1>4, <2>2, <3>1, <3>2
  <2> HIDE DEF Q
  <2> QED BY <1>4, <2>3, <2>4, SeqsEqual
<1>7. R # <<>>
  <2>1. Len(R) # 0
    BY <1>4
  <2> QED BY <2>1
<1> QED BY <1>4, <1>5, <1>6, <1>7 DEF SplitParts, P, R, T, w

\* A turn keeps the type.
LEMMA SplitTurnIn ==
  ASSUME NEW S, NEW c, NEW P \in SplitParts(S, c), NEW x \in S
  PROVE  split_turn(P, x, c) \in SplitParts(S, c)
<1>1. CASE x = c
  BY <1>1, SplitTurnNew
<1>2. CASE x # c
  <2>1. P \in Seq(Seq(S \ {c})) /\ P # <<>>
    BY DEF SplitParts
  <2>2. PICK u \in Seq(Seq(S \ {c})), v \in Seq(S \ {c}) : P = Append(u, v)
    BY <2>1, LastOf
  <2>3. LastPart(x, u, v, S, c)
    BY <1>2, <2>2 DEF LastPart
  <2>4. split_turn(Append(u, v), x, c) = Append(u, Append(v, x)) /\ Append(u, Append(v, x)) \in SplitParts(S, c)
    BY <2>3, SplitTurnLast
  <2> QED BY Zenon, <2>2, <2>4
<1> QED BY <1>1, <1>2

\* f is split's loop over s.
Splits(f, s, c, S) ==
  /\ f \in [0..Len(s) -> SplitParts(S, c)] /\ f[0] = << <<>> >>
  /\ \A n \in 1..Len(s) : f[n] = split_turn(f[n - 1], s[n], c)

\* One empty part is what it begins with.
LEMMA FirstPart == \A S : \A c : << <<>> >> \in SplitParts(S, c)
<1> TAKE S
<1> TAKE c
<1>1. <<>> \in Seq(S \ {c})
  OBVIOUS
<1>2. << <<>> >> \in Seq(Seq(S \ {c})) /\ << <<>> >> # <<>>
  BY <1>1
<1> QED BY <1>2 DEF SplitParts

\* split is what the loop ends with.
LEMMA SplitLoop ==
  ASSUME NEW S, NEW c, NEW s \in Seq(S)
  PROVE  \E f : Splits(f, s, c, S) /\ split(s, c) = f[Len(s)]
<1> DEFINE L == Len(s)
           V == SplitParts(S, c)
           o == << <<>> >>
           turn == [q \in V \X (1..L) |-> split_turn(q[1], s[q[2]], c)]
           Is(f) == f = [n \in 0..L |-> IF n = 0 THEN o ELSE split_turn(f[n - 1], s[n], c)]
           a == CHOOSE f : Is(f)
<1>0. L \in Nat
  OBVIOUS
<1>1. split(s, c) = a[L]
  BY DEF split
<1>2. \A v \in V, n \in 1..L : split_turn(v, s[n], c) \in V
  <2> TAKE v \in V, n \in 1..L
  <2>1. n \in DOMAIN s
    OBVIOUS
  <2>2. s[n] \in S
    BY <2>1, ItemIn
  <2> QED BY <2>2, SplitTurnIn
<1>3. o \in V
  BY FirstPart
<1> HIDE DEF V, o
<1>4. turn \in Turns(V, L)
  BY <1>2 DEF Turns
<1>5. \A v \in V, n \in 1..L : turn[<<v, n>>] = split_turn(v, s[n], c)
  OBVIOUS
<1> HIDE DEF turn
<1>6. PICK f : Follows(f, V, o, L, turn)
  BY <1>0, <1>3, <1>4, Recursion
<1>7. /\ f \in [0..L -> V] /\ f[0] = o
      /\ \A n \in 1..L : f[n] = split_turn(f[n - 1], s[n], c)
  <2>1. \A n \in 1..L : n - 1 \in 0..L
    BY <1>0
  <2> QED BY <1>5, <1>6, <2>1 DEF Follows
<1>8. Is(f)
  <2>1. \A n \in 0..L : n = 0 \/ n \in 1..L
    BY <1>0
  <2> QED BY <1>7, <2>1
<1>9. Is(a)
  <2> HIDE DEF Is
  <2> QED BY <1>8
<1> HIDE DEF a
<1>10. DOMAIN a = 0..L /\ a[0] = o /\ \A n \in 1..L : a[n] = split_turn(a[n - 1], s[n], c)
  <2>1. a = [n \in 0..L |-> a[n]]
    BY <1>9
  <2>2. \A n \in 1..L : n \in 0..L /\ n # 0
    BY <1>0
  <2>3. 0 \in 0..L
    BY <1>0
  <2> QED BY <1>9, <2>1, <2>2, <2>3
<1> HIDE DEF Is
<1> DEFINE C == {n \in Nat : n <= L => a[n] \in V}
<1>11. C = Nat
  <2>1. 0 \in C
    BY <1>3, <1>10
  <2>2. ASSUME NEW n \in C PROVE n + 1 \in C
    <3> SUFFICES ASSUME n + 1 <= L PROVE a[n + 1] \in V
      BY <2>2
    <3>1. n \in Nat /\ n + 1 \in 1..L /\ n + 1 - 1 = n /\ a[n] \in V
      BY <1>0, <2>2
    <3>2. a[n + 1] = split_turn(a[n], s[n + 1], c)
      BY <1>10, <3>1
    <3> QED BY <1>2, <3>1, <3>2
  <2>3. C \in SUBSET Nat
    OBVIOUS
  <2> HIDE DEF C
  <2> QED BY <2>1, <2>2, <2>3, Induction
<1>12. a \in [0..L -> V]
  <2>1. \A n \in 0..L : a[n] \in V
    BY <1>0, <1>11
  <2>2. a = [n \in 0..L |-> a[n]]
    BY <1>9 DEF Is
  <2> QED BY <2>1, <2>2
<1>13. Splits(a, s, c, S)
  BY <1>10, <1>12 DEF Splits, V, o
<1> QED BY <1>1, <1>13

\* split returns parts.
LEMMA SplitIn ==
  ASSUME NEW S, NEW c, NEW s \in Seq(S)
  PROVE  split(s, c) \in SplitParts(S, c)
<1>1. PICK f : Splits(f, s, c, S) /\ split(s, c) = f[Len(s)]
  BY SplitLoop
<1>2. Len(s) \in 0..Len(s)
  OBVIOUS
<1> QED BY <1>1, <1>2 DEF Splits

\* The empty string has one part.
LEMMA SplitEmpty == \A c : split(<<>>, c) = << <<>> >>
<1> TAKE c
<1> DEFINE s == <<>>
<1>1. s \in Seq({}) /\ Len(s) = 0
  OBVIOUS
<1> HIDE DEF s
<1>2. PICK f : Splits(f, s, c, {}) /\ split(s, c) = f[Len(s)]
  BY <1>1, SplitLoop
<1> QED BY <1>1, <1>2 DEF Splits, s

\* One more character is one more turn.
LEMMA SplitAppend ==
  ASSUME NEW S, NEW c, NEW s \in Seq(S), NEW x \in S
  PROVE  split(Append(s, x), c) = split_turn(split(s, c), x, c)
<1> DEFINE t == Append(s, x)
           L == Len(s)
<1>1. t \in Seq(S) /\ L \in Nat /\ Len(t) = L + 1 /\ t[L + 1] = x /\ \A k \in 1..L : t[k] = s[k]
  BY AppendOf
<1> HIDE DEF t
<1>2. PICK f : Splits(f, s, c, S) /\ split(s, c) = f[L]
  BY SplitLoop
<1>3. PICK g : Splits(g, t, c, S) /\ split(t, c) = g[Len(t)]
  BY <1>1, SplitLoop
<1> DEFINE C == {n \in Nat : n <= L => g[n] = f[n]}
<1>4. C = Nat
  <2>1. 0 \in C
    BY <1>2, <1>3 DEF Splits
  <2>2. ASSUME NEW n \in C PROVE n + 1 \in C
    <3> SUFFICES ASSUME n + 1 <= L PROVE g[n + 1] = f[n + 1]
      BY <2>2
    <3>1. n \in Nat /\ n + 1 \in 1..L /\ n + 1 - 1 = n /\ g[n] = f[n] /\ n + 1 \in 1..Len(t)
      BY <1>1, <2>2
    <3>2. f[n + 1] = split_turn(f[n], s[n + 1], c)
      BY <1>2, <3>1 DEF Splits
    <3>3. g[n + 1] = split_turn(g[n], t[n + 1], c)
      BY <1>3, <3>1 DEF Splits
    <3> QED BY <1>1, <3>1, <3>2, <3>3
  <2>3. C \in SUBSET Nat
    OBVIOUS
  <2> HIDE DEF C
  <2> QED BY <2>1, <2>2, <2>3, Induction
<1>5. g[L] = f[L]
  BY <1>1, <1>4
<1>6. L + 1 \in 1..Len(t) /\ L + 1 - 1 = L
  BY <1>1
<1>7. g[L + 1] = split_turn(g[L], t[L + 1], c)
  BY <1>3, <1>6 DEF Splits
<1> QED BY <1>1, <1>2, <1>3, <1>5, <1>7 DEF t

\* A longer second part.
LEMMA CutAppend ==
  ASSUME NEW S, NEW x \in Seq(S), NEW c \in S, NEW y \in Seq(S), NEW e \in S
  PROVE  /\ Cut(x, c, Append(y, e)) = Append(Cut(x, c, y), e)
         /\ Cut(x, c, <<>>) = Append(x, c)
<1>1. \A u \in Seq(S) : \A v \in S : Append(u, v) = Then(u, <<v>>)
  BY DEF Then
<1>2. <<c>> \in Seq(S) /\ <<e>> \in Seq(S) /\ <<>> \in Seq(S)
  OBVIOUS
<1> DEFINE o == <<c>>
           p == <<e>>
<1>3. o \in Seq(S) /\ p \in Seq(S)
  BY <1>2
<1>4. Cut(x, c, Append(y, e)) = Then(x, Then(o, Then(y, p)))
  BY <1>1 DEF Cut
<1>5. Cut(x, c, y) = Then(x, Then(o, y))
  BY DEF Cut
<1>6. Cut(x, c, <<>>) = Then(x, Then(o, <<>>))
  BY DEF Cut
<1>7. Append(x, c) = Then(x, o)
  BY <1>1
<1>8. Append(Cut(x, c, y), e) = Then(Cut(x, c, y), p)
  <2>1. Cut(x, c, y) \in Seq(S)
    BY CutOf DEF IsCut
  <2> QED BY <1>1, <2>1
<1> HIDE DEF o, p
<1>9. Then(o, <<>>) = o
  BY <1>3, ConcatEmpty
<1>10. Then(o, Then(y, p)) = Then(Then(o, y), p) /\ Then(o, y) \in Seq(S)
  BY <1>3, Associative, Concat
<1>11. Then(x, Then(Then(o, y), p)) = Then(Then(x, Then(o, y)), p)
  BY <1>3, <1>10, Associative
<1> QED BY <1>4, <1>5, <1>6, <1>7, <1>8, <1>9, <1>10, <1>11

\* A text without a c is one part.
LEMMA SplitPlain ==
  ASSUME NEW S, NEW c, NEW w \in Seq(S \ {c})
  PROVE  split(w, c) = <<w>>
<1> DEFINE A == S \ {c}
           Q == {v \in Seq(A) : split(v, c) = Append(<<>>, v)}
<1>1. <<>> \in Q /\ Q \in SUBSET Seq(A)
  <2>1. split(<<>>, c) = << <<>> >> /\ Append(<<>>, <<>>) = << <<>> >> /\ <<>> \in Seq(A)
    BY SplitEmpty
  <2> QED BY <2>1
<1>2. \A v \in Q : \A x \in A : Append(v, x) \in Q
  <2> TAKE v \in Q
  <2> TAKE x \in A
  <2>1. v \in Seq(A) /\ split(v, c) = Append(<<>>, v) /\ x \in S /\ x # c /\ v \in Seq(S) /\ <<>> \in Seq(Seq(A))
    OBVIOUS
  <2> HIDE DEF Q
  <2>2. split(Append(v, x), c) = split_turn(split(v, c), x, c)
    BY <2>1, SplitAppend
  <2>3. split_turn(Append(<<>>, v), x, c) = Append(<<>>, Append(v, x))
    <3> DEFINE u == <<>>
    <3>1. LastPart(x, u, v, S, c)
      BY <2>1 DEF LastPart
    <3> HIDE DEF u
    <3>2. split_turn(Append(u, v), x, c) = Append(u, Append(v, x))
      BY <3>1, SplitTurnLast
    <3> QED BY <3>2 DEF u
  <2>4. Append(v, x) \in Seq(A)
    BY <2>1, AppendOf
  <2> QED BY <2>1, <2>2, <2>3, <2>4 DEF Q
<1>3. Q = Seq(A)
  <2> HIDE DEF Q, A
  <2> QED BY <1>1, <1>2, SeqInduction
<1>4. Append(<<>>, w) = <<w>>
  OBVIOUS
<1> QED BY <1>3, <1>4

\* What is behind the last c is the last part.
LEMMA SplitCut ==
  ASSUME NEW S, NEW c \in S, NEW t \in Seq(S), NEW w \in Seq(S \ {c})
  PROVE  split(Cut(t, c, w), c) = Append(split(t, c), w)
<1> DEFINE A == S \ {c}
           P == split(t, c)
           Q == {v \in Seq(A) : split(Cut(t, c, v), c) = Append(P, v)}
<1>0. P \in SplitParts(S, c)
  BY SplitIn
<1> HIDE DEF P
<1>1. <<>> \in Q /\ Q \in SUBSET Seq(A)
  <2>1. Cut(t, c, <<>>) = Append(t, c)
    <3>1. <<>> \in Seq(S)
      OBVIOUS
    <3> QED BY <3>1, CutAppend
  <2>2. split(Append(t, c), c) = split_turn(P, c, c)
    BY SplitAppend DEF P
  <2>3. split_turn(P, c, c) = Append(P, <<>>)
    BY <1>0, SplitTurnNew
  <2>4. <<>> \in Seq(A)
    OBVIOUS
  <2> QED BY <2>1, <2>2, <2>3, <2>4
<1>2. \A v \in Q : \A x \in A : Append(v, x) \in Q
  <2> TAKE v \in Q
  <2> TAKE x \in A
  <2>1. v \in Seq(A) /\ split(Cut(t, c, v), c) = Append(P, v) /\ x \in S /\ x # c /\ v \in Seq(S)
    OBVIOUS
  <2> HIDE DEF Q
  <2>2. Cut(t, c, Append(v, x)) = Append(Cut(t, c, v), x) /\ Cut(t, c, v) \in Seq(S)
    BY <2>1, CutAppend, CutOf DEF IsCut
  <2>3. split(Append(Cut(t, c, v), x), c) = split_turn(Append(P, v), x, c)
    BY <2>1, <2>2, SplitAppend
  <2>4. split_turn(Append(P, v), x, c) = Append(P, Append(v, x))
    <3>1. LastPart(x, P, v, S, c)
      BY <1>0, <2>1 DEF SplitParts, LastPart
    <3> QED BY <3>1, SplitTurnLast
  <2>5. Append(v, x) \in Seq(A)
    BY <2>1, AppendOf
  <2> QED BY <2>2, <2>3, <2>4, <2>5 DEF Q
<1>3. Q = Seq(A)
  <2> HIDE DEF Q, A
  <2> QED BY <1>1, <1>2, SeqInduction
<1> QED BY <1>3 DEF P

\* One more piece of FlattenSeq.
LEMMA FlattenAppend ==
  ASSUME NEW S, NEW q \in Seq(Seq(S)), NEW v \in Seq(S)
  PROVE  FlattenSeq(Append(q, v)) = Then(FlattenSeq(q), v)
<1> DEFINE T == Seq(S)
           r == Append(q, v)
           L == Len(q)
<1>1. r \in Seq(T) /\ L \in Nat /\ Len(r) = L + 1 /\ r[L + 1] = v /\ \A k \in 1..L : r[k] = q[k]
  BY AppendOf
<1> HIDE DEF r
<1>2. PICK f : Piecewise(f, q, S) /\ FlattenSeq(q) = f[L]
  BY FlattenOf
<1>3. PICK g : Piecewise(g, r, S) /\ FlattenSeq(r) = g[Len(r)]
  BY <1>1, FlattenOf
<1> DEFINE C == {n \in Nat : n <= L => g[n] = f[n]}
<1>4. C = Nat
  <2>1. 0 \in C
    BY <1>2, <1>3 DEF Piecewise
  <2>2. ASSUME NEW n \in C PROVE n + 1 \in C
    <3> SUFFICES ASSUME n + 1 <= L PROVE g[n + 1] = f[n + 1]
      BY <2>2
    <3>1. n \in Nat /\ n + 1 \in 1..L /\ n + 1 - 1 = n /\ g[n] = f[n] /\ n + 1 \in 1..Len(r)
      BY <1>1, <2>2
    <3>2. f[n + 1] = Then(f[n], q[n + 1])
      BY <1>2, <3>1 DEF Piecewise
    <3>3. g[n + 1] = Then(g[n], r[n + 1])
      BY <1>3, <3>1 DEF Piecewise
    <3> QED BY <1>1, <3>1, <3>2, <3>3
  <2>3. C \in SUBSET Nat
    OBVIOUS
  <2> HIDE DEF C
  <2> QED BY <2>1, <2>2, <2>3, Induction
<1>5. g[L] = f[L]
  BY <1>1, <1>4
<1>6. L + 1 \in 1..Len(r) /\ L + 1 - 1 = L
  BY <1>1
<1>7. g[L + 1] = Then(g[L], r[L + 1])
  BY <1>3, <1>6 DEF Piecewise
<1> QED BY <1>1, <1>2, <1>3, <1>5, <1>7 DEF r

\* The parts as join puts them together.
Pieces(parts, c) == [k \in 1..Len(parts) |-> IF k = 1 THEN parts[k] ELSE <<c>> \o parts[k]]

\* They are texts, and another part is another piece.
LEMMA PiecesOf ==
  ASSUME NEW S, NEW c \in S, NEW P \in Seq(Seq(S)), NEW w \in Seq(S)
  PROVE  /\ Pieces(P, c) \in Seq(Seq(S))
         /\ Pieces(Append(P, w), c) = Append(Pieces(P, c), IF P = <<>> THEN w ELSE Then(<<c>>, w))
<1> DEFINE T == Seq(S)
           L == Len(P)
           R == Append(P, w)
           d(v) == <<c>> \o v
           q == Pieces(P, c)
           r == Pieces(R, c)
           e == IF P = <<>> THEN w ELSE d(w)
           z == Append(q, e)
<1>1. \A v \in T : d(v) \in T
  OBVIOUS
<1>2. L \in Nat /\ \A k \in 1..L : P[k] \in T
  OBVIOUS
<1>3. R \in Seq(T) /\ Len(R) = L + 1 /\ R[L + 1] = w /\ \A k \in 1..L : R[k] = P[k]
  BY AppendOf
<1>4. /\ q = [k \in 1..L |-> IF k = 1 THEN P[k] ELSE d(P[k])]
      /\ r = [k \in 1..Len(R) |-> IF k = 1 THEN R[k] ELSE d(R[k])]
  BY DEF Pieces
<1>5. e \in T
  BY <1>1
<1>6. P = <<>> <=> L = 0
  OBVIOUS
<1> HIDE DEF d, T, R, q, r
<1>7. q \in Seq(T) /\ Len(q) = L
  <2>1. q \in [1..L -> T] /\ DOMAIN q = 1..L
    BY <1>1, <1>2, <1>4
  <2> HIDE DEF L
  <2>2. L \in Nat
    BY <1>2
  <2> QED BY <2>1, <2>2
<1>8. z \in Seq(T) /\ Len(z) = L + 1 /\ z[L + 1] = e /\ \A k \in 1..L : z[k] = q[k]
  <2> HIDE DEF e
  <2>1. z \in Seq(T) /\ Len(z) = Len(q) + 1 /\ z[Len(q) + 1] = e /\ \A k \in 1..Len(q) : z[k] = q[k]
    <3>1. q \in Seq(T) /\ e \in T
      BY <1>5, <1>7
    <3> QED BY <3>1, AppendOf
  <2> HIDE DEF z
  <2> QED BY <1>7, <2>1
<1>9. r \in Seq(T) /\ Len(r) = L + 1
  <2>1. \A k \in 1..(L + 1) : R[k] \in T
    <3>1. DOMAIN R = 1..(L + 1)
      BY <1>3
    <3> QED BY <1>3, <3>1, ItemIn
  <2>2. r \in [1..(L + 1) -> T]
    BY <1>1, <1>3, <1>4, <2>1
  <2> QED BY <1>2, <2>2
<1>10. \A k \in 1..Len(r) : r[k] = z[k]
  <2> TAKE k \in 1..Len(r)
  <2>1. CASE k = L + 1
    <3>1. r[k] = IF L + 1 = 1 THEN w ELSE d(w)
      BY <1>2, <1>3, <1>4, <1>9, <2>1
    <3>2. L + 1 = 1 <=> P = <<>>
      BY <1>2, <1>6
    <3> QED BY <1>8, <2>1, <3>1, <3>2
  <2>2. CASE k # L + 1
    <3>1. k \in 1..L /\ k \in 1..Len(R)
      BY <1>2, <1>3, <1>9, <2>2
    <3>2. r[k] = (IF k = 1 THEN R[k] ELSE d(R[k])) /\ q[k] = (IF k = 1 THEN P[k] ELSE d(P[k]))
      BY <1>4, <3>1
    <3> QED BY <1>3, <1>8, <3>1, <3>2
  <2> QED BY <2>1, <2>2
<1>11. r = z
  <2> HIDE DEF z
  <2> QED BY <1>8, <1>9, <1>10, SeqsEqual
<1> QED BY <1>7, <1>11 DEF T, R, q, r, d, Then

\* join, one part at a time.
LEMMA JoinUnfolds == \A parts, c : join(parts, c) = FlattenSeq(Pieces(parts, c))
BY DEF join, Pieces

\* Joining no part.
LEMMA JoinEmpty == \A c : join(<<>>, c) = <<>>
<1> TAKE c
<1>1. Len(Pieces(<<>>, c)) = 0 /\ Pieces(<<>>, c) = <<>>
  BY DEF Pieces
<1>2. FlattenSeq(Pieces(<<>>, c)) = Pieces(<<>>, c)
  BY <1>1 DEF FlattenSeq
<1> QED BY <1>1, <1>2, JoinUnfolds

\* What is joined is over the same alphabet.
LEMMA JoinIn ==
  ASSUME NEW S, NEW c \in S, NEW P \in Seq(Seq(S))
  PROVE  join(P, c) \in Seq(S)
<1>1. <<>> \in Seq(S)
  OBVIOUS
<1>2. Pieces(P, c) \in Seq(Seq(S))
  BY <1>1, PiecesOf
<1>3. FlattenSeq(Pieces(P, c)) \in Seq(S)
  BY <1>2, FlattenIn
<1> QED BY <1>3, JoinUnfolds

\* Joining one part more.
LEMMA JoinAppend ==
  ASSUME NEW S, NEW c \in S, NEW P \in Seq(Seq(S)), NEW w \in Seq(S)
  PROVE  join(Append(P, w), c) = IF P = <<>> THEN w ELSE Cut(join(P, c), c, w)
<1> DEFINE d == Then(<<c>>, w)
           e == IF P = <<>> THEN w ELSE d
           q == Pieces(P, c)
<1>1. d \in Seq(S)
  <2>1. <<c>> \in Seq(S)
    OBVIOUS
  <2> QED BY <2>1, Concat
<1>2. Cut(join(P, c), c, w) = Then(join(P, c), d)
  BY DEF Cut
<1> HIDE DEF d
<1>3. q \in Seq(Seq(S)) /\ Pieces(Append(P, w), c) = Append(q, e)
  BY PiecesOf DEF d
<1>4. e \in Seq(S)
  BY <1>1
<1> HIDE DEF q, e
<1>5. FlattenSeq(Append(q, e)) = Then(FlattenSeq(q), e)
  BY <1>3, <1>4, FlattenAppend
<1>6. join(Append(P, w), c) = Then(join(P, c), e)
  BY <1>3, <1>5, JoinUnfolds DEF q
<1>7. CASE P = <<>>
  <2>1. join(P, c) = <<>> /\ e = w
    BY <1>7, JoinEmpty DEF e
  <2>2. Then(<<>>, w) = w
    BY ConcatEmpty
  <2> QED BY <1>6, <1>7, <2>1, <2>2
<1>8. CASE P # <<>>
  BY <1>2, <1>6, <1>8 DEF e
<1> QED BY <1>7, <1>8

\* What join puts together, split takes apart.
LEMMA SplitJoin ==
  ASSUME NEW S, NEW c \in S, NEW P \in SplitParts(S, c)
  PROVE  split(join(P, c), c) = P
<1> DEFINE T == Seq(S \ {c})
           Q == {p \in Seq(T) : p = <<>> \/ split(join(p, c), c) = p}
<1>0. T \subseteq Seq(S) /\ Seq(T) \subseteq Seq(Seq(S))
  <2>1. T \subseteq Seq(S)
    OBVIOUS
  <2> HIDE DEF T
  <2>2. Seq(T) \subseteq Seq(Seq(S))
    BY <2>1
  <2> QED BY <2>1, <2>2
<1>1. <<>> \in Q /\ Q \in SUBSET Seq(T)
  <2> HIDE DEF T
  <2> QED OBVIOUS
<1>2. \A p \in Q : \A w \in T : Append(p, w) \in Q
  <2> TAKE p \in Q
  <2> TAKE w \in T
  <2>1. p \in Seq(T) /\ (p = <<>> \/ split(join(p, c), c) = p)
    OBVIOUS
  <2>2. w \in Seq(S \ {c})
    OBVIOUS
  <2> HIDE DEF T, Q
  <2>3. Append(p, w) \in Seq(T)
    BY <2>1, AppendOf
  <2>4. w \in Seq(S) /\ p \in Seq(Seq(S))
    BY <1>0, <2>1
  <2>5. join(Append(p, w), c) = IF p = <<>> THEN w ELSE Cut(join(p, c), c, w)
    BY <2>4, JoinAppend
  <2>6. CASE p = <<>>
    <3>1. split(w, c) = <<w>>
      BY <2>2, SplitPlain
    <3>2. Append(p, w) = <<w>>
      BY <2>6
    <3> QED BY <2>3, <2>5, <2>6, <3>1, <3>2 DEF Q
  <2>7. CASE p # <<>>
    <3>1. join(p, c) \in Seq(S)
      BY <2>4, JoinIn
    <3>2. split(Cut(join(p, c), c, w), c) = Append(split(join(p, c), c), w)
      BY <2>2, <3>1, SplitCut
    <3> QED BY <2>1, <2>3, <2>5, <2>7, <3>2 DEF Q
  <2> QED BY <2>6, <2>7
<1>3. Q = Seq(T)
  <2> HIDE DEF Q, T
  <2> QED BY <1>1, <1>2, SeqInduction
<1>4. P \in Seq(T) /\ P # <<>>
  BY DEF SplitParts
<1> HIDE DEF T
<1> QED BY <1>3, <1>4

\* What split takes apart, join puts together.
LEMMA JoinSplit ==
  ASSUME NEW S, NEW c \in S, NEW s \in Seq(S)
  PROVE  join(split(s, c), c) = s
<1> DEFINE T == Seq(S \ {c})
           Q == {t \in Seq(S) : join(split(t, c), c) = t}
<1>0. T \subseteq Seq(S) /\ Seq(T) \subseteq Seq(Seq(S)) /\ <<>> \in Seq(S)
  <2>1. T \subseteq Seq(S) /\ <<>> \in Seq(S)
    OBVIOUS
  <2> HIDE DEF T
  <2>2. Seq(T) \subseteq Seq(Seq(S))
    BY <2>1
  <2> QED BY <2>1, <2>2
<1>1. <<>> \in Q /\ Q \in SUBSET Seq(S)
  <2> DEFINE e == <<>>
             o == <<>>
  <2>1. split(e, c) = Append(o, e) /\ e \in Seq(S) /\ o \in Seq(Seq(S)) /\ o = <<>>
    BY SplitEmpty
  <2> HIDE DEF e, o
  <2>2. join(Append(o, e), c) = e
    BY <2>1, JoinAppend
  <2> QED BY <2>1, <2>2 DEF e
<1>2. \A t \in Q : \A x \in S : Append(t, x) \in Q
  <2> TAKE t \in Q
  <2> TAKE x \in S
  <2> DEFINE P == split(t, c)
  <2>1. t \in Seq(S) /\ join(P, c) = t
    OBVIOUS
  <2>2. P \in SplitParts(S, c) /\ split(Append(t, x), c) = split_turn(P, x, c)
    BY <2>1, SplitIn, SplitAppend
  <2>3. Append(t, x) \in Seq(S)
    BY <2>1, AppendOf
  <2> HIDE DEF Q, P
  <2>4. P \in Seq(T) /\ P # <<>>
    BY <2>2 DEF SplitParts
  <2> HIDE DEF T
  <2>5. CASE x = c
    <3>1. split_turn(P, x, c) = Append(P, <<>>)
      BY <2>2, <2>5, SplitTurnNew
    <3>2. join(Append(P, <<>>), c) = Cut(join(P, c), c, <<>>)
      BY <1>0, <2>4, JoinAppend
    <3>3. Cut(t, c, <<>>) = Append(t, c)
      BY <1>0, <2>1, CutAppend
    <3> QED BY <2>1, <2>2, <2>3, <2>5, <3>1, <3>2, <3>3 DEF Q
  <2>6. CASE x # c
    <3>1. PICK u \in Seq(T), v \in T : P = Append(u, v)
      BY <2>4, LastOf
    <3>2. LastPart(x, u, v, S, c)
      BY <2>6, <3>1 DEF LastPart, T
    <3>3. split_turn(Append(u, v), x, c) = Append(u, Append(v, x))
      BY <3>2, SplitTurnLast
    <3>4. u \in Seq(Seq(S)) /\ v \in Seq(S) /\ Append(v, x) \in Seq(S)
      <4>1. u \in Seq(Seq(S)) /\ v \in Seq(S)
        BY <1>0, <3>1
      <4> QED BY <4>1, AppendOf
    <3>5. t = IF u = <<>> THEN v ELSE Cut(join(u, c), c, v)
      BY <2>1, <3>1, <3>4, JoinAppend
    <3>6. join(Append(u, Append(v, x)), c) = IF u = <<>> THEN Append(v, x) ELSE Cut(join(u, c), c, Append(v, x))
      BY <3>4, JoinAppend
    <3>7. Cut(join(u, c), c, Append(v, x)) = Append(Cut(join(u, c), c, v), x)
      <4>1. join(u, c) \in Seq(S)
        BY <3>4, JoinIn
      <4> QED BY <3>4, <4>1, CutAppend
    <3>8. join(Append(u, Append(v, x)), c) = Append(t, x)
      BY <3>5, <3>6, <3>7
    <3>9. split(Append(t, x), c) = Append(u, Append(v, x))
      BY <2>2, <3>1, <3>3
    <3> QED BY <2>3, <3>8, <3>9 DEF Q
  <2> QED BY <2>5, <2>6
<1>3. Q = Seq(S)
  <2> HIDE DEF Q
  <2> QED BY <1>1, <1>2, SeqInduction
<1> QED BY <1>3

\* A filter that everything passes leaves the list as it is.
LEMMA WithinAll ==
  ASSUME NEW T, NEW R \in Seq(T), NEW W, \A i \in 1..Len(R) : R[i] \in W
  PROVE  Within(R, W) = R
<1> DEFINE L == Len(R)
<1>0. L \in Nat
  OBVIOUS
<1>1. PICK f : Filters(f, R, W) /\ Within(R, W) = f[L]
  BY WithinLoop
<1>2. f \in [0..L -> Seq(W)] /\ f[0] = <<>> /\ \A n \in 1..L : f[n] = Append(f[n - 1], R[n])
  BY <1>1 DEF Filters
<1> DEFINE Is(n) == Len(f[n]) = n /\ \A k \in 1..n : f[n][k] = R[k]
           C == {n \in Nat : n <= L => Is(n)}
<1>3. C = Nat
  <2>1. 0 \in C
    BY <1>2
  <2>2. ASSUME NEW n \in C PROVE n + 1 \in C
    <3> SUFFICES ASSUME n + 1 <= L PROVE Is(n + 1)
      BY <2>2
    <3>1. n \in Nat /\ n + 1 \in 1..L /\ n + 1 - 1 = n /\ Is(n) /\ n \in 0..L
      BY <1>0, <2>2
    <3>2. f[n + 1] = Append(f[n], R[n + 1]) /\ f[n] \in Seq(W) /\ R[n + 1] \in W
      <4>1. f[n + 1] = Append(f[n + 1 - 1], R[n + 1])
        BY <1>2, <3>1
      <4>2. f[n] \in Seq(W)
        BY <1>2, <3>1
      <4> QED BY <3>1, <4>1, <4>2
    <3>3. /\ Len(Append(f[n], R[n + 1])) = Len(f[n]) + 1
          /\ \A k \in 1..Len(f[n]) : Append(f[n], R[n + 1])[k] = f[n][k]
          /\ Append(f[n], R[n + 1])[Len(f[n]) + 1] = R[n + 1]
      <4> DEFINE a == f[n]
                 b == R[n + 1]
      <4>1. a \in Seq(W) /\ b \in W
        BY <3>2
      <4> HIDE DEF a, b
      <4>2. /\ Len(Append(a, b)) = Len(a) + 1
            /\ \A k \in 1..Len(a) : Append(a, b)[k] = a[k]
            /\ Append(a, b)[Len(a) + 1] = b
        BY <4>1, AppendOf
      <4> QED BY <4>2 DEF a, b
    <3>4. Len(f[n]) = n /\ \A k \in 1..n : f[n][k] = R[k]
      BY <3>1
    <3>5. \A k \in 1..(n + 1) : k = n + 1 \/ k \in 1..n
      BY <3>1
    <3> QED BY <3>2, <3>3, <3>4, <3>5
  <2>3. C \in SUBSET Nat
    OBVIOUS
  <2> HIDE DEF C
  <2> QED BY <2>1, <2>2, <2>3, Induction
<1>4. Is(L)
  BY <1>0, <1>3
<1>5. f[L] \in Seq(W)
  BY <1>0, <1>2
<1>6. R \in Seq(W)
  <2>1. \A i \in DOMAIN R : R[i] \in W
    OBVIOUS
  <2>2. R \in [1..L -> W]
    BY <2>1
  <2> QED BY <1>0, <2>2
<1>7. f[L] = R
  BY <1>4, <1>5, <1>6, SeqsEqual
<1> QED BY <1>1, <1>7

\* words, with a name for the blank.
LEMMA WordsUnfold == \A s : words(s) = Within(split(s, Blank), Range(split(s, Blank)) \ {<<>>})
BY Zenon DEF words, Blank

\* split_whitespace returns words: they have characters, and no blank.
WordsOver(S) == Seq(S \ {Blank}) \ {<<>>}

\* The words of a string are such words.
LEMMA WordsIn ==
  ASSUME NEW S, NEW s \in Seq(S)
  PROVE  words(s) \in Seq(WordsOver(S))
<1> DEFINE P == split(s, Blank)
           W == Range(P) \ {<<>>}
<1>1. P \in Seq(Seq(S \ {Blank})) /\ Len(P) \in Nat
  <2>1. P \in Seq(Seq(S \ {Blank}))
    BY SplitIn DEF SplitParts
  <2> HIDE DEF P
  <2> QED BY <2>1
<1>2. words(s) = Within(P, W)
  BY WordsUnfold
<1> HIDE DEF P
<1>3. W \subseteq WordsOver(S)
  <2>1. \A k \in DOMAIN P : P[k] \in Seq(S \ {Blank})
    BY <1>1, ItemIn
  <2> QED BY <2>1 DEF WordsOver, Range
<1> HIDE DEF W
<1>4. Within(P, W) \in Seq(W)
  BY <1>1, WithinIs
<1> QED BY <1>2, <1>3, <1>4, Wider

\* No items, no sequence.
LEMMA NoItems == ASSUME NEW w \in Seq({}) PROVE w = <<>>
<1>1. 1 \in DOMAIN w => w[1] \in {}
  BY ItemIn
<1>2. Len(w) \in Nat /\ DOMAIN w = 1..Len(w)
  OBVIOUS
<1>3. Len(w) = 0
  BY <1>1, <1>2
<1> QED BY <1>3

\* Words joined by blanks are split into the same words.
LEMMA WordsJoin ==
  ASSUME NEW S, Blank \in S, NEW R \in Seq(WordsOver(S))
  PROVE  words(join(R, Blank)) = R
<1> DEFINE t == join(R, Blank)
           P == split(t, Blank)
<1>1. words(t) = Within(P, Range(P) \ {<<>>})
  BY WordsUnfold
<1>2. CASE R = <<>>
  <2>1. P = << <<>> >>
    BY <1>2, JoinEmpty, SplitEmpty
  <2> HIDE DEF P
  <2>2. Range(P) \ {<<>>} = {} /\ Len(P) \in Nat
    <3>1. DOMAIN P = {1} /\ P[1] = <<>> /\ Len(P) = 1
      BY <2>1
    <3> QED BY <3>1 DEF Range
  <2>3. Within(P, {}) = <<>>
    <3>1. Within(P, {}) \in Seq({})
      BY <2>2, WithinIs
    <3> QED BY <3>1, NoItems
  <2> QED BY <1>1, <1>2, <2>2, <2>3
<1>3. CASE R # <<>>
  <2> DEFINE T == Seq(S \ {Blank})
  <2>1. WordsOver(S) \subseteq T
    BY DEF WordsOver
  <2>2. R \in Seq(T)
    <3> HIDE DEF T
    <3> QED BY <2>1, Wider
  <2>3. R \in SplitParts(S, Blank)
    BY <1>3, <2>2 DEF SplitParts
  <2>4. P = R
    BY <2>3, SplitJoin
  <2>5. \A i \in 1..Len(R) : R[i] \in Range(R) \ {<<>>}
    <3> TAKE i \in 1..Len(R)
    <3>1. i \in DOMAIN R
      BY <2>2
    <3>2. R[i] \in WordsOver(S)
      BY <3>1, ItemIn
    <3>3. R[i] # <<>>
      BY <3>2 DEF WordsOver
    <3> QED BY <3>1, <3>3 DEF Range
  <2>6. Within(R, Range(R) \ {<<>>}) = R
    <3>1. R \in Seq(T)
      BY <2>2
    <3> HIDE DEF T
    <3> QED BY <2>5, <3>1, WithinAll
  <2> QED BY <1>1, <2>4, <2>6
<1> QED BY <1>2, <1>3

\* A query in a list of words has a separator in front of it (Clear); one of them
\* has a separator (SomeSep).
Clear(P) == \A m \in DOMAIN P : SchemeFirst(P[m]) \/ \E n \in 1..(m - 1) : HasSep(P[n])
SomeSep(P) == \E n \in DOMAIN P : HasSep(P[n])

\* One more word.
LEMMA ClearAppend ==
  ASSUME NEW T, NEW P \in Seq(T), NEW w \in T
  PROVE  /\ Clear(Append(P, w)) <=> Clear(P) /\ (SchemeFirst(w) \/ SomeSep(P))
         /\ SomeSep(Append(P, w)) <=> SomeSep(P) \/ HasSep(w)
<1> DEFINE R == Append(P, w)
           L == Len(P)
<1>1. R \in Seq(T) /\ L \in Nat /\ Len(R) = L + 1 /\ R[L + 1] = w /\ \A k \in 1..L : R[k] = P[k]
  BY AppendOf
<1>2. DOMAIN R = 1..(L + 1) /\ DOMAIN P = 1..L
  BY <1>1
<1> HIDE DEF R, L
<1>3. \A m \in 1..(L + 1) : m = L + 1 \/ m \in 1..L
  BY <1>1
<1>4. \A m \in 1..L : m \in 1..(L + 1) /\ \A n \in 1..(m - 1) : n \in 1..L
  BY <1>1
<1>5. L + 1 \in 1..(L + 1) /\ L + 1 - 1 = L
  BY <1>1
<1>6. SomeSep(R) <=> SomeSep(P) \/ HasSep(w)
  BY <1>1, <1>2, <1>3, <1>4, <1>5 DEF SomeSep
<1>7. ASSUME Clear(R) PROVE Clear(P) /\ (SchemeFirst(w) \/ SomeSep(P))
  <2>1. SchemeFirst(w) \/ SomeSep(P)
    BY <1>1, <1>2, <1>5, <1>7 DEF Clear, SomeSep
  <2>2. ASSUME NEW m \in 1..L PROVE SchemeFirst(P[m]) \/ \E n \in 1..(m - 1) : HasSep(P[n])
    <3>1. SchemeFirst(R[m]) \/ \E n \in 1..(m - 1) : HasSep(R[n])
      BY <1>2, <1>4, <1>7, <2>2 DEF Clear
    <3> QED BY <1>1, <1>4, <2>2, <3>1
  <2> QED BY <1>2, <2>1, <2>2 DEF Clear
<1>8. ASSUME Clear(P), SchemeFirst(w) \/ SomeSep(P) PROVE Clear(R)
  <2>1. ASSUME NEW m \in 1..(L + 1) PROVE SchemeFirst(R[m]) \/ \E n \in 1..(m - 1) : HasSep(R[n])
    <3>1. CASE m = L + 1
      BY <1>1, <1>2, <1>5, <1>8, <3>1 DEF SomeSep
    <3>2. CASE m \in 1..L
      <4>1. SchemeFirst(P[m]) \/ \E n \in 1..(m - 1) : HasSep(P[n])
        BY <1>2, <1>8, <3>2 DEF Clear
      <4> QED BY <1>1, <1>4, <3>2, <4>1
    <3> QED BY <1>3, <3>1, <3>2
  <2> QED BY <1>2, <2>1 DEF Clear
<1> QED BY <1>6, <1>7, <1>8 DEF R

\* Where a separator of two texts with a blank between them is.
LEMMA SepInCut ==
  ASSUME NEW S, NEW c \in S, c \notin {":", "/"}, NEW x \in Seq(S), NEW y \in Seq(S), NEW i \in Int
  PROVE  i \in 1..Len(Cut(x, c, y)) /\ SeparatorAt(Cut(x, c, y), i)
           <=> \/ i \in 1..Len(x) /\ SeparatorAt(x, i)
               \/ i - (Len(x) + 1) \in 1..Len(y) /\ SeparatorAt(y, i - (Len(x) + 1))
<1> DEFINE t == Cut(x, c, y)
           X == Len(x)
           Y == Len(y)
           j == i - (X + 1)
<1>1. /\ t \in Seq(S) /\ Len(t) = X + 1 + Y /\ X \in Nat /\ Y \in Nat
      /\ \A k \in 1..X : t[k] = x[k]
      /\ t[X + 1] = c
      /\ \A k \in 1..Y : t[X + 1 + k] = y[k]
  <2>1. IsCut(t, x, c, y, S)
    BY CutOf
  <2> HIDE DEF t
  <2> QED BY <2>1 DEF IsCut
<1> HIDE DEF t
<1>2. i \in 1..Len(t) => (SeparatorAt(t, i) <=> i + 2 <= Len(t) /\ t[i] = ":" /\ t[i + 1] = "/" /\ t[i + 2] = "/")
  BY <1>1, SepIs
<1>3. i \in 1..X => (SeparatorAt(x, i) <=> i + 2 <= X /\ x[i] = ":" /\ x[i + 1] = "/" /\ x[i + 2] = "/")
  BY SepIs
<1>4. j \in 1..Y => (SeparatorAt(y, j) <=> j + 2 <= Y /\ y[j] = ":" /\ y[j + 1] = "/" /\ y[j + 2] = "/")
  <2> HIDE DEF j
  <2> QED BY SepIs
<1> HIDE DEF X, Y
<1>5. ASSUME i \in 1..X PROVE (i \in 1..Len(t) /\ SeparatorAt(t, i)) <=> SeparatorAt(x, i)
  <2>1. i \in 1..Len(t)
    BY <1>1, <1>5
  <2>2. CASE i + 2 <= X
    <3>1. i + 1 \in 1..X /\ i + 2 \in 1..X /\ i + 2 <= Len(t)
      BY <1>1, <1>5, <2>2
    <3> QED BY <1>1, <1>2, <1>3, <1>5, <2>1, <2>2, <3>1
  <2>3. CASE ~(i + 2 <= X)
    <3>1. i + 1 = X + 1 \/ i + 2 = X + 1
      BY <1>1, <1>5, <2>3
    <3> QED BY <1>1, <1>2, <1>3, <1>5, <2>1, <2>3, <3>1
  <2> QED BY <2>2, <2>3
<1>6. ASSUME j \in 1..Y PROVE (i \in 1..Len(t) /\ SeparatorAt(t, i)) <=> SeparatorAt(y, j)
  <2>1. i \in 1..Len(t) /\ X + 1 + j = i
    BY <1>1, <1>6
  <2>2. CASE j + 2 <= Y
    <3>1. j + 1 \in 1..Y /\ j + 2 \in 1..Y /\ i + 2 <= Len(t) /\ X + 1 + (j + 1) = i + 1 /\ X + 1 + (j + 2) = i + 2
      BY <1>1, <1>6, <2>2
    <3>2. t[i] = y[j] /\ t[i + 1] = y[j + 1] /\ t[i + 2] = y[j + 2]
      <4> HIDE DEF j
      <4> QED BY <1>1, <1>6, <2>1, <3>1
    <3> QED BY <1>2, <1>4, <1>6, <2>1, <2>2, <3>1, <3>2
  <2>3. CASE ~(j + 2 <= Y)
    <3>1. ~(i + 2 <= Len(t))
      BY <1>1, <1>6, <2>3
    <3> QED BY <1>2, <1>4, <1>6, <2>1, <2>3, <3>1
  <2> QED BY <2>2, <2>3
<1>7. ASSUME ~(i \in 1..X), ~(j \in 1..Y) PROVE ~(i \in 1..Len(t) /\ SeparatorAt(t, i))
  <2> SUFFICES ASSUME i \in 1..Len(t), SeparatorAt(t, i) PROVE FALSE
    OBVIOUS
  <2>1. i = X + 1
    BY <1>1, <1>7
  <2> QED BY <1>1, <1>2, <2>1
<1>8. ~(i \in 1..X /\ j \in 1..Y)
  BY <1>1
<1> QED BY <1>5, <1>6, <1>7, <1>8 DEF t, X, Y

\* Such a text has the separators of both parts.
LEMMA SepOfCut ==
  ASSUME NEW S, NEW c \in S, c \notin {":", "/"}, NEW x \in Seq(S), NEW y \in Seq(S)
  PROVE  HasSep(Cut(x, c, y)) <=> HasSep(x) \/ HasSep(y)
<1> DEFINE t == Cut(x, c, y)
           X == Len(x)
           Y == Len(y)
           Inside(i) == i \in 1..X /\ SeparatorAt(x, i)
           Behind(i) == i - (X + 1) \in 1..Y /\ SeparatorAt(y, i - (X + 1))
<1>1. X \in Nat /\ Y \in Nat
  OBVIOUS
<1>2. \A i \in Int : i \in 1..Len(t) /\ SeparatorAt(t, i) <=> Inside(i) \/ Behind(i)
  BY SepInCut
<1> HIDE DEF t
<1>3. \A k \in 1..Y : X + 1 + k \in Int /\ X + 1 + k - (X + 1) = k
  BY <1>1
<1>4. HasSep(t) <=> HasSep(x) \/ HasSep(y)
  <2>1. ASSUME HasSep(t) PROVE HasSep(x) \/ HasSep(y)
    <3>1. PICK i \in 1..Len(t) : SeparatorAt(t, i)
      BY <2>1 DEF HasSep
    <3>2. Inside(i) \/ Behind(i)
      BY <1>2, <3>1
    <3> QED BY <3>2 DEF HasSep
  <2>2. ASSUME HasSep(x) PROVE HasSep(t)
    <3>1. PICK i \in 1..X : SeparatorAt(x, i)
      BY <2>2 DEF HasSep
    <3>2. i \in 1..Len(t) /\ SeparatorAt(t, i)
      BY <1>2, <3>1
    <3> QED BY <3>2 DEF HasSep
  <2>3. ASSUME HasSep(y) PROVE HasSep(t)
    <3>1. PICK k \in 1..Y : SeparatorAt(y, k)
      BY <2>3 DEF HasSep
    <3>2. Behind(X + 1 + k) /\ X + 1 + k \in Int
      BY <1>3, <3>1
    <3>3. X + 1 + k \in 1..Len(t) /\ SeparatorAt(t, X + 1 + k)
      <4> HIDE DEF Behind
      <4> QED BY <1>2, <3>2
    <3> QED BY <3>3 DEF HasSep
  <2> QED BY <2>1, <2>2, <2>3
<1> QED BY <1>4 DEF t

\* And a query of the second may have its scheme in the first.
LEMMA SchemeInCut ==
  ASSUME NEW S, NEW c \in S, c \notin {":", "/", "?"}, NEW x \in Seq(S), NEW y \in Seq(S)
  PROVE  /\ HasSep(Cut(x, c, y)) <=> HasSep(x) \/ HasSep(y)
         /\ SchemeFirst(Cut(x, c, y)) <=> SchemeFirst(x) /\ (HasSep(x) \/ SchemeFirst(y))
<1> DEFINE t == Cut(x, c, y)
           X == Len(x)
           Y == Len(y)
           Inside(i) == i \in 1..X /\ SeparatorAt(x, i)
           Behind(i) == i - (X + 1) \in 1..Y /\ SeparatorAt(y, i - (X + 1))
<1>1. /\ t \in Seq(S) /\ Len(t) = X + 1 + Y /\ X \in Nat /\ Y \in Nat
      /\ \A k \in 1..X : t[k] = x[k]
      /\ t[X + 1] = c
      /\ \A k \in 1..Y : t[X + 1 + k] = y[k]
  <2>1. IsCut(t, x, c, y, S)
    BY CutOf
  <2> HIDE DEF t
  <2> QED BY <2>1 DEF IsCut
<1>2. \A i \in Int : i \in 1..Len(t) /\ SeparatorAt(t, i) <=> Inside(i) \/ Behind(i)
  BY SepInCut
<1> HIDE DEF t
<1>3. \A k \in 1..Y : X + 1 + k \in Int /\ X + 1 + k - (X + 1) = k
  BY <1>1
<1>4. HasSep(t) <=> HasSep(x) \/ HasSep(y)
  BY SepOfCut DEF t
<1>5. ASSUME SchemeFirst(t) PROVE SchemeFirst(x) /\ (HasSep(x) \/ SchemeFirst(y))
  <2>1. SchemeFirst(x)
    <3> SUFFICES ASSUME NEW k \in 1..X, x[k] = "?" PROVE \E i \in 1..(k - 1) : SeparatorAt(x, i)
      BY DEF SchemeFirst
    <3>1. k \in 1..Len(t) /\ t[k] = "?"
      BY <1>1
    <3>2. PICK i \in 1..(k - 1) : SeparatorAt(t, i)
      BY <1>5, <3>1 DEF SchemeFirst
    <3>3. i \in 1..Len(t) /\ i \in Int /\ ~Behind(i)
      BY <1>1, <3>1
    <3>4. Inside(i)
      <4> HIDE DEF Inside, Behind
      <4> QED BY <1>2, <3>2, <3>3
    <3> QED BY <3>4
  <2>2. ASSUME ~HasSep(x) PROVE SchemeFirst(y)
    <3> SUFFICES ASSUME NEW k \in 1..Y, y[k] = "?" PROVE \E i \in 1..(k - 1) : SeparatorAt(y, i)
      BY DEF SchemeFirst
    <3>1. X + 1 + k \in 1..Len(t) /\ t[X + 1 + k] = "?"
      BY <1>1
    <3>2. PICK i \in 1..(X + 1 + k - 1) : SeparatorAt(t, i)
      BY <1>5, <3>1 DEF SchemeFirst
    <3>3. i \in 1..Len(t) /\ i \in Int /\ ~Inside(i)
      BY <1>1, <2>2, <3>1 DEF HasSep
    <3>4. Behind(i)
      <4> HIDE DEF Inside, Behind
      <4> QED BY <1>2, <3>2, <3>3
    <3>5. i - (X + 1) \in 1..(k - 1)
      BY <1>1, <3>2, <3>4
    <3> QED BY <3>4, <3>5
  <2> QED BY <2>1, <2>2
<1>6. ASSUME SchemeFirst(x), HasSep(x) \/ SchemeFirst(y) PROVE SchemeFirst(t)
  <2> SUFFICES ASSUME NEW k \in 1..Len(t), t[k] = "?" PROVE \E i \in 1..(k - 1) : SeparatorAt(t, i)
    BY DEF SchemeFirst
  <2>1. CASE k \in 1..X
    <3>1. PICK i \in 1..(k - 1) : SeparatorAt(x, i)
      BY <1>1, <1>6, <2>1 DEF SchemeFirst
    <3>2. Inside(i) /\ i \in Int
      BY <1>1, <2>1, <3>1
    <3>3. SeparatorAt(t, i)
      <4> HIDE DEF Inside, Behind
      <4> QED BY <1>2, <3>2
    <3> QED BY <3>3
  <2>2. CASE ~(k \in 1..X)
    <3>1. k # X + 1
      BY <1>1
    <3>2. k - (X + 1) \in 1..Y /\ X + 1 + (k - (X + 1)) = k
      BY <1>1, <2>2, <3>1
    <3>3. y[k - (X + 1)] = "?"
      BY <1>1, <3>2
    <3>4. CASE HasSep(x)
      <4>1. PICK i \in 1..X : SeparatorAt(x, i)
        BY <3>4 DEF HasSep
      <4>2. Inside(i) /\ i \in Int /\ i \in 1..(k - 1)
        BY <1>1, <2>2, <4>1
      <4>3. SeparatorAt(t, i)
        <5> HIDE DEF Inside, Behind
        <5> QED BY <1>2, <4>2
      <4> QED BY <4>2, <4>3
    <3>5. CASE SchemeFirst(y)
      <4>1. PICK i \in 1..(k - (X + 1) - 1) : SeparatorAt(y, i)
        BY <3>2, <3>3, <3>5 DEF SchemeFirst
      <4>2. i \in 1..Y /\ X + 1 + i \in 1..(k - 1)
        BY <1>1, <3>2
      <4>3. Behind(X + 1 + i) /\ X + 1 + i \in Int
        BY <1>3, <4>1, <4>2
      <4>4. SeparatorAt(t, X + 1 + i)
        <5> HIDE DEF Inside, Behind
        <5> QED BY <1>2, <4>3
      <4> QED BY <4>2, <4>4
    <3> QED BY <1>6, <3>4, <3>5
  <2> QED BY <2>1, <2>2
<1> QED BY <1>4, <1>5, <1>6 DEF t

\* The same, up to the n-th of a list of words.
ClearTo(P, n) == \A m \in 1..n : SchemeFirst(P[m]) \/ \E k \in 1..(m - 1) : HasSep(P[k])
SepTo(P, n) == \E k \in 1..n : HasSep(P[k])

\* Empty words can be left out.
LEMMA FilterClear ==
  ASSUME NEW T, NEW P \in Seq(T), Clear(P), NEW W, W = Range(P) \ {<<>>}
  PROVE  Clear(Within(P, W)) /\ (SomeSep(P) => SomeSep(Within(P, W)))
<1> DEFINE L == Len(P)
<1>0. L \in Nat /\ DOMAIN P = 1..L
  OBVIOUS
<1>1. PICK f : Filters(f, P, W) /\ Within(P, W) = f[L]
  BY <1>0, WithinLoop
<1>2. f \in [0..L -> Seq(W)] /\ f[0] = <<>>
  BY <1>1 DEF Filters
<1>3. ClearTo(P, L)
  BY <1>0 DEF Clear, ClearTo
<1> DEFINE Is(n) == Clear(f[n]) /\ (SepTo(P, n) => SomeSep(f[n]))
           C == {n \in Nat : n <= L => Is(n)}
<1>4. C = Nat
  <2>1. 0 \in C
    <3>1. Clear(<<>>)
      BY DEF Clear
    <3>2. ~SepTo(P, 0)
      BY DEF SepTo
    <3> QED BY <1>2, <3>1, <3>2
  <2>2. ASSUME NEW n \in C PROVE n + 1 \in C
    <3> SUFFICES ASSUME n + 1 <= L PROVE Is(n + 1)
      BY <2>2
    <3>1. n \in Nat /\ n + 1 \in 1..L /\ n + 1 - 1 = n /\ Is(n) /\ n \in 0..L
      BY <1>0, <2>2
    <3>2. f[n] \in Seq(W)
      BY <1>2, <3>1
    <3>3. f[n + 1] = IF P[n + 1] \in W THEN Append(f[n + 1 - 1], P[n + 1]) ELSE f[n + 1 - 1]
      BY <1>1, <3>1 DEF Filters
    <3>4. SchemeFirst(P[n + 1]) \/ SepTo(P, n)
      BY <1>3, <3>1 DEF ClearTo, SepTo
    <3>5. SepTo(P, n + 1) <=> SepTo(P, n) \/ HasSep(P[n + 1])
      <4>1. \A k \in 1..(n + 1) : k = n + 1 \/ k \in 1..n
        BY <3>1
      <4>2. n + 1 \in 1..(n + 1) /\ \A k \in 1..n : k \in 1..(n + 1)
        BY <3>1
      <4> QED BY <4>1, <4>2 DEF SepTo
    <3>6. P[n + 1] \notin W => ~HasSep(P[n + 1])
      <4> SUFFICES ASSUME P[n + 1] \notin W PROVE ~HasSep(P[n + 1])
        OBVIOUS
      <4>1. P[n + 1] \in Range(P)
        BY <1>0, <3>1 DEF Range
      <4>2. P[n + 1] = <<>>
        BY <4>1
      <4>3. ~HasSep(<<>>)
        BY DEF HasSep
      <4> QED BY <4>2, <4>3
    <3>7. CASE P[n + 1] \in W
      <4> DEFINE g == f[n]
                 x == P[n + 1]
      <4>1. g \in Seq(W) /\ x \in W /\ f[n + 1] = Append(g, x) /\ Clear(g) /\ (SepTo(P, n) => SomeSep(g))
        BY <3>1, <3>2, <3>3, <3>7
      <4> HIDE DEF g
      <4>2. /\ Clear(Append(g, x)) <=> Clear(g) /\ (SchemeFirst(x) \/ SomeSep(g))
            /\ SomeSep(Append(g, x)) <=> SomeSep(g) \/ HasSep(x)
        <5> HIDE DEF x
        <5> QED BY <4>1, ClearAppend
      <4> QED BY <4>1, <4>2, <3>4, <3>5
    <3>8. CASE P[n + 1] \notin W
      <4>1. f[n + 1] = f[n] /\ ~HasSep(P[n + 1])
        BY <3>1, <3>3, <3>6, <3>8
      <4> QED BY <3>1, <3>5, <4>1
    <3> QED BY <3>7, <3>8
  <2>3. C \in SUBSET Nat
    OBVIOUS
  <2> HIDE DEF C
  <2> QED BY <2>1, <2>2, <2>3, Induction
<1>5. Is(L)
  BY <1>0, <1>4
<1>6. SomeSep(P) => SepTo(P, L)
  BY <1>0 DEF SomeSep, SepTo
<1> QED BY <1>1, <1>5, <1>6

\* The blank is not a character of a scheme or query.
LEMMA BlankApart == Blank \notin {":", "/", "?"}
BY Zenon DEF Blank

\* Separators and schemes of a text are those of its words.
LEMMA JoinClear ==
  ASSUME NEW S, Blank \in S, NEW P \in Seq(Seq(S))
  PROVE  /\ HasSep(join(P, Blank)) <=> SomeSep(P)
         /\ SchemeFirst(join(P, Blank)) <=> Clear(P)
<1> DEFINE A == Seq(S)
           Fine(v) == /\ HasSep(join(v, Blank)) <=> SomeSep(v)
                      /\ SchemeFirst(join(v, Blank)) <=> Clear(v)
           Q == {v \in Seq(A) : Fine(v)}
<1>1. Clear(<<>>) /\ ~SomeSep(<<>>) /\ ~HasSep(<<>>) /\ SchemeFirst(<<>>)
  BY DEF Clear, SomeSep, HasSep, SchemeFirst
<1>2. <<>> \in Q
  <2>1. Fine(<<>>)
    BY <1>1, JoinEmpty
  <2> QED BY <2>1
<1>3. \A v \in Q : \A w \in A : Append(v, w) \in Q
  <2> TAKE v \in Q
  <2> TAKE w \in A
  <2>1. v \in Seq(Seq(S)) /\ w \in Seq(S) /\ Fine(v)
    OBVIOUS
  <2>2. /\ Clear(Append(v, w)) <=> Clear(v) /\ (SchemeFirst(w) \/ SomeSep(v))
        /\ SomeSep(Append(v, w)) <=> SomeSep(v) \/ HasSep(w)
    BY <2>1, ClearAppend
  <2>3. join(Append(v, w), Blank) = IF v = <<>> THEN w ELSE Cut(join(v, Blank), Blank, w)
    BY <2>1, JoinAppend
  <2>4. join(v, Blank) \in Seq(S)
    BY <2>1, JoinIn
  <2>5. /\ HasSep(Cut(join(v, Blank), Blank, w)) <=> HasSep(join(v, Blank)) \/ HasSep(w)
        /\ SchemeFirst(Cut(join(v, Blank), Blank, w))
             <=> SchemeFirst(join(v, Blank)) /\ (HasSep(join(v, Blank)) \/ SchemeFirst(w))
    BY <2>1, <2>4, BlankApart, SchemeInCut
  <2>6. Append(v, w) \in Seq(A)
    <3> HIDE DEF A
    <3> QED BY AppendOf
  <2>7. Fine(Append(v, w))
    <3> HIDE DEF A
    <3>1. CASE v = <<>>
      BY <1>1, <2>2, <2>3, <3>1
    <3>2. CASE v # <<>>
      BY <2>1, <2>2, <2>3, <2>5, <3>2
    <3> QED BY <3>1, <3>2
  <2> QED BY <2>6, <2>7
<1>4. Q \in SUBSET Seq(A)
  OBVIOUS
<1>5. Q = Seq(A)
  <2> HIDE DEF A, Q
  <2> QED BY <1>2, <1>3, <1>4, SeqInduction
<1> QED BY <1>5

\* What redact_token makes of each word.
Tokens(w) == [k \in DOMAIN w |-> redact_token(w[k])]
\* redact_in_text, in this name.
LEMMA TextUnfolds == \A s : redact_in_text(s) = join(Tokens(words(s)), Blank)
BY Zenon DEF redact_in_text, Tokens, Blank

\* A word is written as a word, which is left as it is from then on.
LEMMA TokensOf ==
  ASSUME NEW S, NEW w \in Seq(WordsOver(S))
  PROVE  /\ Tokens(w) \in Seq(WordsOver(S)) /\ Tokens(Tokens(w)) = Tokens(w)
         /\ \A k \in DOMAIN Tokens(w) : ~HasUserinfo(Core(Tokens(w)[k]))
         /\ Clear(w) => Clear(Tokens(w))
<1> DEFINE R == Tokens(w)
           L == Len(w)
<1>1. L \in Nat /\ DOMAIN w = 1..L /\ DOMAIN R = 1..L /\ \A k \in 1..L : R[k] = redact_token(w[k])
  <2>1. L \in Nat /\ DOMAIN w = 1..L
    OBVIOUS
  <2> QED BY <2>1 DEF Tokens
<1>2. ASSUME NEW k \in 1..L
      PROVE  /\ R[k] \in WordsOver(S) /\ ~HasUserinfo(Core(R[k])) /\ redact_token(R[k]) = R[k]
             /\ (SchemeFirst(w[k]) => SchemeFirst(R[k])) /\ (HasSep(w[k]) => HasSep(R[k]))
  <2>1. w[k] \in WordsOver(S)
    BY <1>1, <1>2, ItemIn
  <2>2. w[k] \in Seq(S \ {Blank}) /\ w[k] # <<>>
    BY <2>1 DEF WordsOver
  <2>3. R[k] = redact_token(w[k])
    BY <1>1, <1>2
  <2> HIDE DEF R, L
  <2>4. LET r == redact_token(w[k])
        IN /\ r \in Seq(S \ {Blank}) /\ (w[k] # <<>> => r # <<>>)
           /\ ~HasUserinfo(Core(r)) /\ redact_token(r) = r
           /\ SchemeFirst(w[k]) => SchemeFirst(r)
           /\ HasSep(w[k]) => HasSep(r)
    BY <2>2, TokenOf
  <2> QED BY <2>2, <2>3, <2>4 DEF WordsOver
<1>3. R \in Seq(WordsOver(S))
  <2>1. R = [k \in 1..L |-> redact_token(w[k])]
    BY <1>1 DEF Tokens
  <2>2. \A k \in 1..L : redact_token(w[k]) \in WordsOver(S)
    BY <1>1, <1>2
  <2> HIDE DEF R, L
  <2>3. R \in [1..L -> WordsOver(S)]
    BY <2>1, <2>2
  <2> QED BY <1>1, <2>3
<1> HIDE DEF R, L
<1>4. Tokens(R) = R
  <2>1. Tokens(R) = [k \in 1..L |-> redact_token(R[k])]
    BY <1>1 DEF Tokens
  <2>2. Tokens(R) = [k \in 1..L |-> R[k]]
    BY <1>2, <2>1
  <2>3. R = [k \in 1..L |-> R[k]]
    BY <1>1, <1>3
  <2> QED BY <2>2, <2>3
<1>5. ASSUME Clear(w) PROVE Clear(R)
  <2> SUFFICES ASSUME NEW m \in 1..L
               PROVE  SchemeFirst(R[m]) \/ \E n \in 1..(m - 1) : HasSep(R[n])
    BY <1>1 DEF Clear
  <2>1. SchemeFirst(w[m]) \/ \E n \in 1..(m - 1) : HasSep(w[n])
    BY <1>1, <1>5 DEF Clear
  <2>2. \A n \in 1..(m - 1) : n \in 1..L
    BY <1>1
  <2> QED BY <1>2, <2>1, <2>2
<1> QED BY <1>1, <1>2, <1>3, <1>4, <1>5 DEF R

\* A text without a c is a text.
LEMMA Narrow ==
  ASSUME NEW S, NEW c, NEW x \in Seq(S \ {c})
  PROVE  x \in Seq(S)
<1>1. Len(x) \in Nat /\ DOMAIN x = 1..Len(x) /\ \A i \in 1..Len(x) : x[i] \in S
  OBVIOUS
<1>2. x \in [1..Len(x) -> S]
  BY <1>1
<1> QED BY <1>1, <1>2

\* A list of words is a list of texts.
LEMMA WordsAreTexts ==
  ASSUME NEW S, NEW w \in Seq(WordsOver(S))
  PROVE  w \in Seq(Seq(S))
<1> DEFINE T == Seq(S)
<1>1. WordsOver(S) \subseteq T
  <2> SUFFICES ASSUME NEW x \in WordsOver(S) PROVE x \in Seq(S)
    OBVIOUS
  <2>1. x \in Seq(S \ {Blank})
    BY DEF WordsOver
  <2> QED BY <2>1, Narrow
<1>2. w \in Seq(T)
  <2> HIDE DEF T
  <2> QED BY <1>1, Wider
<1> QED BY <1>2

\* The words of a URL have its scheme in front of its query.
LEMMA WordsClear ==
  ASSUME NEW S, Blank \in S, NEW s \in Seq(S), SchemeFirst(s)
  PROVE  Clear(words(s))
<1> DEFINE P == split(s, Blank)
<1>1. P \in SplitParts(S, Blank) /\ join(P, Blank) = s
  BY SplitIn, JoinSplit
<1>2. words(s) = Within(P, Range(P) \ {<<>>})
  BY WordsUnfold
<1> HIDE DEF P
<1> DEFINE A == Seq(S \ {Blank})
           B == Seq(S)
<1>3. P \in Seq(A)
  BY <1>1 DEF SplitParts
<1>4. A \subseteq B
  BY Wider
<1>5. P \in Seq(B)
  <2> HIDE DEF A, B
  <2> QED BY <1>3, <1>4, Wider
<1>6. Clear(P)
  BY <1>1, <1>5, JoinClear
<1> QED
  <2> HIDE DEF A, B
  <2> QED BY <1>2, <1>5, <1>6, FilterClear

\* What redact_in_text writes.
LEMMA TextOf ==
  ASSUME NEW S, Blank \in S, NEW s \in Seq(S)
  PROVE  LET t == redact_in_text(s)
         IN /\ t \in Seq(S) /\ redact_in_text(t) = t
            /\ \A i \in DOMAIN words(t) : ~HasUserinfo(Core(words(t)[i]))
            /\ SchemeFirst(s) => SchemeFirst(t)
<1> DEFINE w == words(s)
           R == Tokens(w)
           t == join(R, Blank)
<1>1. w \in Seq(WordsOver(S))
  BY WordsIn
<1> HIDE DEF w
<1>2. /\ R \in Seq(WordsOver(S)) /\ Tokens(R) = R
      /\ \A k \in DOMAIN R : ~HasUserinfo(Core(R[k]))
      /\ Clear(w) => Clear(R)
  BY <1>1, TokensOf
<1> HIDE DEF R
<1>3. redact_in_text(s) = t
  BY TextUnfolds DEF w, R
<1>4. words(t) = R
  BY <1>2, WordsJoin
<1>5. R \in Seq(Seq(S))
  BY <1>2, WordsAreTexts
<1>6. t \in Seq(S)
  BY <1>5, JoinIn
<1>7. redact_in_text(t) = t
  <2>1. redact_in_text(t) = join(Tokens(words(t)), Blank)
    BY TextUnfolds
  <2> QED BY <1>2, <1>4, <2>1
<1>8. ASSUME SchemeFirst(s) PROVE SchemeFirst(t)
  <2>1. Clear(w)
    BY <1>8, WordsClear DEF w
  <2> QED BY <1>2, <1>5, <2>1, JoinClear
<1> HIDE DEF t
<1> QED BY <1>2, <1>3, <1>4, <1>6, <1>7, <1>8

\* What redact_pair writes and leaves as it is: no value, or the placeholder.
ShownPair(p, S) ==
  p \in Seq(S) /\ (Lacks(p, "=") \/ \E x \in Seq(S) : Lacks(x, "=") /\ p = Cut(x, "=", REDACTED))

\* A cut, written the other way.
LEMMA CutIs ==
  ASSUME NEW S, NEW x \in Seq(S), NEW c \in S, NEW y \in Seq(S)
  PROVE  Then(Then(x, <<c>>), y) = Cut(x, c, y)
<1>1. <<c>> \in Seq(S)
  OBVIOUS
<1> DEFINE one == <<c>>
<1> HIDE DEF one
<1>2. one \in Seq(S)
  BY <1>1 DEF one
<1>3. Then(Then(x, one), y) = Then(x, Then(one, y))
  BY <1>2, Associative
<1> QED BY <1>3, Zenon DEF Cut, one

\* redact_pair, in these names.
LEMMA PairUnfolds ==
  \A p : redact_pair(p) = IF Len(split_at(p, "=")) = 1 THEN p
                          ELSE Then(Then(split_at(p, "=")[1], <<"=">>), REDACTED)
BY Zenon DEF redact_pair, Then

\* A list of one text, or of two.
LEMMA OneText == \A s : Len(<<s>>) = 1 /\ <<s>>[1] = s
OBVIOUS
LEMMA TwoTexts == \A x, y : Len(<<x, y>>) = 2 /\ <<x, y>>[1] = x /\ <<x, y>>[2] = y
OBVIOUS

\* What redact_pair writes.
LEMMA PairOf ==
  ASSUME NEW S, "=" \in S, REDACTED \in Seq(S), NEW p \in Seq(S)
  PROVE  redact_pair(p) \in Seq(S) /\ ShownPair(redact_pair(p), S)
<1>1. CASE Lacks(p, "=") /\ split_at(p, "=") = <<p>>
  <2>1. redact_pair(p) = p
    BY <1>1, OneText, PairUnfolds
  <2> QED BY <1>1, <2>1 DEF ShownPair
<1>2. CASE \E x, y \in Seq(S) : Lacks(x, "=") /\ p = Cut(x, "=", y) /\ split_at(p, "=") = <<x, y>>
  <2>1. PICK x, y \in Seq(S) : Lacks(x, "=") /\ p = Cut(x, "=", y) /\ split_at(p, "=") = <<x, y>>
    BY <1>2
  <2>2. Len(split_at(p, "=")) # 1 /\ split_at(p, "=")[1] = x
    <3>1. split_at(p, "=") = <<x, y>>
      BY <2>1
    <3>2. Len(<<x, y>>) # 1 /\ <<x, y>>[1] = x
      OBVIOUS
    <3> QED BY <3>1, <3>2, Zenon
  <2>3. redact_pair(p) = Cut(x, "=", REDACTED)
    BY <2>2, PairUnfolds, CutIs
  <2>4. IsCut(Cut(x, "=", REDACTED), x, "=", REDACTED, S)
    BY CutOf
  <2>5. redact_pair(p) \in Seq(S)
    BY <2>3, <2>4 DEF IsCut
  <2> QED BY <2>1, <2>3, <2>5 DEF ShownPair
<1> QED BY <1>1, <1>2, SplitAtOf

\* It leaves that as it is, and no value but the placeholder is in it.
LEMMA PairRests ==
  ASSUME NEW S, "=" \in S, REDACTED \in Seq(S), NEW p, ShownPair(p, S)
  PROVE  /\ redact_pair(p) = p
         /\ Len(split_at(p, "=")) = 1 \/ split_at(p, "=")[2] = REDACTED
<1>0. p \in Seq(S)
  BY DEF ShownPair
<1>1. CASE Lacks(p, "=")
  <2>1. split_at(p, "=") = <<p>>
    <3>1. ASSUME NEW x \in Seq(S), NEW y \in Seq(S), p = Cut(x, "=", y) PROVE FALSE
      <4>1. IsCut(p, x, "=", y, S)
        BY <3>1, CutOf
      <4>2. Len(x) + 1 \in 1..Len(p) /\ p[Len(x) + 1] = "="
        BY <4>1 DEF IsCut
      <4> QED BY <1>1, <4>2 DEF Lacks
    <3> QED BY <1>0, <3>1, SplitAtOf
  <2> QED BY <2>1, OneText, PairUnfolds
<1>2. CASE \E x \in Seq(S) : Lacks(x, "=") /\ p = Cut(x, "=", REDACTED)
  <2>1. PICK x \in Seq(S) : Lacks(x, "=") /\ p = Cut(x, "=", REDACTED)
    BY <1>2
  <2>2. split_at(p, "=") = <<x, REDACTED>>
    BY <2>1, SplitAtCut
  <2>3. Len(split_at(p, "=")) # 1 /\ split_at(p, "=")[1] = x /\ split_at(p, "=")[2] = REDACTED
    BY <2>2, TwoTexts
  <2>4. redact_pair(p) = Cut(x, "=", REDACTED)
    BY <2>3, PairUnfolds, CutIs
  <2> QED BY <2>1, <2>3, <2>4
<1> QED BY <1>1, <1>2 DEF ShownPair

\* What redact_url_for_display makes of the pairs of a query.
Pairs(P) == [k \in DOMAIN P |-> redact_pair(P[k])]

\* Each pair shows its name alone, and is left as it is from then on.
LEMMA PairsOf ==
  ASSUME NEW S, "=" \in S, REDACTED \in Seq(S), NEW P \in Seq(Seq(S))
  PROVE  /\ Pairs(P) \in Seq(Seq(S)) /\ Pairs(Pairs(P)) = Pairs(P) /\ (P # <<>> => Pairs(P) # <<>>)
         /\ \A k \in DOMAIN Pairs(P) : ShownPair(Pairs(P)[k], S)
<1> DEFINE R == Pairs(P)
           L == Len(P)
           T == Seq(S)
<1>1. L \in Nat /\ DOMAIN P = 1..L /\ DOMAIN R = 1..L /\ \A k \in 1..L : R[k] = redact_pair(P[k])
  <2>1. L \in Nat /\ DOMAIN P = 1..L
    OBVIOUS
  <2> QED BY <2>1 DEF Pairs
<1>2. ASSUME NEW k \in 1..L PROVE R[k] \in T /\ ShownPair(R[k], S) /\ redact_pair(R[k]) = R[k]
  <2>1. P[k] \in Seq(S)
    BY <1>1, <1>2, ItemIn
  <2>2. R[k] = redact_pair(P[k])
    BY <1>1, <1>2
  <2> HIDE DEF R, L
  <2>3. R[k] \in Seq(S) /\ ShownPair(R[k], S)
    BY <2>1, <2>2, PairOf
  <2>4. redact_pair(R[k]) = R[k]
    BY <2>3, PairRests
  <2> QED BY <2>3, <2>4
<1>3. R \in Seq(T)
  <2>1. R = [k \in 1..L |-> redact_pair(P[k])]
    BY <1>1 DEF Pairs
  <2>2. \A k \in 1..L : redact_pair(P[k]) \in T
    BY <1>1, <1>2
  <2> HIDE DEF R, L, T
  <2>3. R \in [1..L -> T]
    BY <2>1, <2>2
  <2> QED BY <1>1, <2>3
<1>4. P # <<>> => R # <<>>
  <2>1. P # <<>> => 1 \in DOMAIN P
    OBVIOUS
  <2>2. DOMAIN R = DOMAIN P
    BY <1>1
  <2> HIDE DEF R
  <2>3. R = <<>> => ~(1 \in DOMAIN R)
    OBVIOUS
  <2> QED BY <2>1, <2>2, <2>3
<1> HIDE DEF R, L, T
<1>5. Pairs(R) = R
  <2>1. Pairs(R) = [k \in 1..L |-> redact_pair(R[k])]
    BY <1>1 DEF Pairs
  <2>2. Pairs(R) = [k \in 1..L |-> R[k]]
    BY <1>2, <2>1
  <2>3. R = [k \in 1..L |-> R[k]]
    BY <1>1, <1>3
  <2> QED BY <2>2, <2>3
<1> QED BY <1>1, <1>2, <1>3, <1>4, <1>5 DEF R, T

\* S has the characters that redact.rs looks for and writes.
Marks(S) ==
  /\ "=" \in S /\ "?" \in S /\ "#" \in S /\ "&" \in S /\ Blank \in S
  /\ REDACTED \in Seq((S \ {"#"}) \ {"&"})

\* A URL: x, a query of the parts P, and a fragment or none (tail).
UrlOf(x, P, tail) == Then(Cut(x, "?", join(P, "&")), tail)
\* The fragments of a URL, each with its `#`.
Fragments0(S) == {<<>>} \cup {Then(<<"#">>, y) : y \in Seq(S)}
\* Its parts: no `?` in x, no `&` in a part, no `#` but the one of the fragment.
UrlParts(x, P, tail, S) ==
  /\ x \in Seq(S \ {"#"}) /\ Lacks(x, "?") /\ P \in SplitParts(S \ {"#"}, "&") /\ tail \in Fragments0(S)

\* What the code makes of split_once's answer.
TailOf(f) == IF Len(f) = 1 THEN <<>> ELSE Then(<<"#">>, f[2])
\* A URL without its fragment, cut at its first `?`.
Query(u) == split_at(split_at(u, "#")[1], "?")

\* redact_url_for_display, in these names.
LEMMA DisplayUnfolds ==
  \A s : redact_url_for_display(s) =
           IF Len(Query(redact_url_password(s))) = 1 THEN redact_url_password(s)
           ELSE Then(Then(Then(Query(redact_url_password(s))[1], <<"?">>),
                          join(Pairs(split(Query(redact_url_password(s))[2], "&")), "&")),
                     TailOf(split_at(redact_url_password(s), "#")))
BY Zenon DEF redact_url_for_display, Then, TailOf, Query, Pairs

\* u is x, a `?` and what follows.
BehindQuery(u, x, S) ==
  /\ u \in Seq(S) /\ x \in Seq(S) /\ Len(x) \in Nat /\ Len(x) + 1 <= Len(u)
  /\ u[Len(x) + 1] = "?" /\ \A k \in 1..Len(x) : u[k] = x[k]

\* The characters of a URL up to its query, and those of all of it.
LEMMA UrlIs ==
  ASSUME NEW S, Marks(S), NEW x, NEW P, NEW tail, UrlParts(x, P, tail, S)
  PROVE  /\ join(P, "&") \in Seq(S \ {"#"}) /\ Cut(x, "?", join(P, "&")) \in Seq(S \ {"#"})
         /\ tail \in Seq(S) /\ BehindQuery(UrlOf(x, P, tail), x, S)
<1> DEFINE U == S \ {"#"}
           A == Seq(U \ {"&"})
           B == Seq(U)
           Q == join(P, "&")
           body == Cut(x, "?", Q)
<1>1. x \in Seq(U) /\ "?" \in U /\ "&" \in U /\ P \in SplitParts(U, "&") /\ "#" \in S
  BY DEF Marks, UrlParts
<1>2. P \in Seq(A)
  BY <1>1 DEF SplitParts
<1>3. A \subseteq B
  <2> SUFFICES ASSUME NEW w \in A PROVE w \in B
    OBVIOUS
  <2> HIDE DEF U
  <2> QED BY Narrow
<1>4. P \in Seq(B)
  <2> HIDE DEF A, B
  <2> QED BY <1>2, <1>3, Wider
<1>5. Q \in Seq(U)
  <2> HIDE DEF U
  <2> QED BY <1>1, <1>4, JoinIn
<1>6. IsCut(body, x, "?", Q, U)
  <2> HIDE DEF U, Q
  <2> QED BY <1>1, <1>5, CutOf
<1>7. body \in Seq(U) /\ Len(x) \in Nat /\ Len(Q) \in Nat /\ Len(body) = Len(x) + 1 + Len(Q)
      /\ body[Len(x) + 1] = "?" /\ \A k \in 1..Len(x) : body[k] = x[k]
  <2> HIDE DEF U, Q, body
  <2> QED BY <1>6 DEF IsCut
<1>8. body \in Seq(S) /\ x \in Seq(S)
  <2> HIDE DEF Q, body
  <2> QED BY <1>1, <1>7, Narrow
<1>9. tail \in Seq(S)
  <2>1. CASE tail = <<>>
    BY <2>1
  <2>2. CASE \E y \in Seq(S) : tail = Then(<<"#">>, y)
    <3>1. PICK y \in Seq(S) : tail = Then(<<"#">>, y)
      BY <2>2
    <3>2. <<"#">> \in Seq(S)
      BY <1>1
    <3> QED BY <3>1, <3>2, Concat
  <2> QED BY <2>1, <2>2 DEF UrlParts, Fragments0
<1> HIDE DEF body, Q, U
<1>10. Then(body, tail) \in Seq(S) /\ Len(tail) \in Nat
  BY <1>8, <1>9, Concat
<1>11. Len(Then(body, tail)) = Len(body) + Len(tail) /\ \A k \in 1..Len(body) : Then(body, tail)[k] = body[k]
  BY <1>8, <1>9, ThenOf
<1>12. \A k \in 1..Len(x) : k \in 1..Len(body)
  BY <1>7
<1>13. Len(x) + 1 \in 1..Len(body)
  BY <1>7
<1>14. UrlOf(x, P, tail) = Then(body, tail)
  BY DEF UrlOf, body, Q
<1>15. Len(x) + 1 <= Len(Then(body, tail)) /\ Then(body, tail)[Len(x) + 1] = "?"
      /\ \A k \in 1..Len(x) : Then(body, tail)[k] = x[k]
  BY <1>7, <1>10, <1>11, <1>12, <1>13
<1>16. Q \in Seq(S \ {"#"}) /\ body \in Seq(S \ {"#"})
  BY <1>5, <1>7 DEF U
<1>17. BehindQuery(Then(body, tail), x, S)
  BY <1>7, <1>8, <1>10, <1>15 DEF BehindQuery
<1> QED BY <1>9, <1>14, <1>16, <1>17, Zenon DEF body, Q

\* What has no c is not cut.
LEMMA SplitAtPlain ==
  ASSUME NEW S, NEW c \in S, NEW s \in Seq(S), Lacks(s, c)
  PROVE  split_at(s, c) = <<s>>
<1>1. ASSUME NEW x \in Seq(S), NEW y \in Seq(S), s = Cut(x, c, y) PROVE FALSE
  <2>1. IsCut(s, x, c, y, S)
    BY <1>1, CutOf
  <2>2. Len(x) + 1 \in 1..Len(s) /\ s[Len(x) + 1] = c
    BY <2>1 DEF IsCut
  <2> QED BY <2>2 DEF Lacks
<1> QED BY <1>1, SplitAtOf

\* A URL is taken apart into its parts.
LEMMA UrlCut ==
  ASSUME NEW S, Marks(S), NEW x, NEW P, NEW tail, UrlParts(x, P, tail, S)
  PROVE  LET u == UrlOf(x, P, tail)
         IN Query(u) = <<x, join(P, "&")>> /\ TailOf(split_at(u, "#")) = tail /\ split(join(P, "&"), "&") = P
<1> DEFINE U == S \ {"#"}
           Q == join(P, "&")
           body == Cut(x, "?", Q)
           u == UrlOf(x, P, tail)
<1>1. /\ Q \in Seq(U) /\ body \in Seq(U) /\ x \in Seq(U) /\ "?" \in U /\ "&" \in U /\ "#" \in S
      /\ P \in SplitParts(U, "&") /\ tail \in Fragments0(S) /\ Lacks(x, "?")
  BY UrlIs DEF Marks, UrlParts
<1>2. split(Q, "&") = P
  <2> HIDE DEF U
  <2> QED BY <1>1, SplitJoin
<1>3. split_at(body, "?") = <<x, Q>>
  <2> HIDE DEF U, Q
  <2> QED BY <1>1, SplitAtCut
<1>4. body \in Seq(S) /\ Lacks(body, "#")
  <2> HIDE DEF Q, body
  <2>1. body \in Seq(S)
    BY <1>1, Narrow
  <2> QED BY <1>1, <2>1, LacksIs
<1> HIDE DEF body, Q, U
<1>5. u = Then(body, tail)
  BY DEF u, UrlOf, body, Q
<1> HIDE DEF u
<1>6. split_at(u, "#")[1] = body /\ TailOf(split_at(u, "#")) = tail
  <2>1. CASE tail = <<>>
    <3>1. u = body
      BY <1>4, <1>5, <2>1, ConcatEmpty
    <3>2. split_at(u, "#") = <<body>>
      BY <1>1, <1>4, <3>1, SplitAtPlain
    <3>3. Len(<<body>>) = 1 /\ <<body>>[1] = body
      OBVIOUS
    <3> QED BY <2>1, <3>2, <3>3, Zenon DEF TailOf
  <2>2. CASE \E y \in Seq(S) : tail = Then(<<"#">>, y)
    <3>1. PICK y \in Seq(S) : tail = Then(<<"#">>, y)
      BY <2>2
    <3>2. u = Cut(body, "#", y)
      BY <1>5, <3>1, Zenon DEF Cut
    <3>3. split_at(u, "#") = <<body, y>>
      BY <1>1, <1>4, <3>2, SplitAtCut
    <3>4. Len(<<body, y>>) # 1 /\ <<body, y>>[1] = body /\ <<body, y>>[2] = y
      OBVIOUS
    <3> QED BY <3>1, <3>3, <3>4, Zenon DEF TailOf
  <2> QED BY <1>1, <2>1, <2>2 DEF Fragments0
<1>7. Query(u) = <<x, Q>>
  BY <1>3, <1>6 DEF Query
<1> QED BY <1>2, <1>6, <1>7 DEF u, Q

\* A string is a URL of that form, or has no query.
LEMMA UrlShape ==
  ASSUME NEW S, Marks(S), NEW u \in Seq(S)
  PROVE  \/ Len(Query(u)) = 1
         \/ \E x, P, tail : UrlParts(x, P, tail, S) /\ u = UrlOf(x, P, tail)
<1> DEFINE U == S \ {"#"}
<1>0. "#" \in S /\ "?" \in U /\ "&" \in U
  BY DEF Marks
<1>1. \E b \in Seq(U), tail \in Fragments0(S) : u = Then(b, tail) /\ split_at(u, "#")[1] = b
  <2>1. CASE Lacks(u, "#") /\ split_at(u, "#") = <<u>>
    <3>1. u \in Seq(U)
      BY <1>0, <2>1, LacksIs
    <3>2. u = Then(u, <<>>)
      BY ConcatEmpty
    <3>3. split_at(u, "#")[1] = u
      BY <2>1, OneText
    <3>4. <<>> \in Fragments0(S)
      BY DEF Fragments0
    <3> QED BY <3>1, <3>2, <3>3, <3>4
  <2>2. CASE \E b, y \in Seq(S) : Lacks(b, "#") /\ u = Cut(b, "#", y) /\ split_at(u, "#") = <<b, y>>
    <3>1. PICK b, y \in Seq(S) : Lacks(b, "#") /\ u = Cut(b, "#", y) /\ split_at(u, "#") = <<b, y>>
      BY <2>2
    <3>2. b \in Seq(U)
      BY <1>0, <3>1, LacksIs
    <3>3. u = Then(b, Then(<<"#">>, y))
      BY <3>1, Zenon DEF Cut
    <3>4. split_at(u, "#") = <<b, y>> /\ <<b, y>>[1] = b
      BY <3>1
    <3>5. split_at(u, "#")[1] = b
      BY <3>4, Zenon
    <3>6. Then(<<"#">>, y) \in Fragments0(S)
      BY <3>1 DEF Fragments0
    <3> QED BY <3>2, <3>3, <3>5, <3>6, Zenon
  <2> QED BY <1>0, <2>1, <2>2, SplitAtOf
<1>2. PICK b \in Seq(U), tail \in Fragments0(S) : u = Then(b, tail) /\ split_at(u, "#")[1] = b
  BY <1>1
<1>3. CASE Lacks(b, "?") /\ split_at(b, "?") = <<b>>
  BY <1>2, <1>3, OneText DEF Query
<1>4. CASE \E x, q \in Seq(U) : Lacks(x, "?") /\ b = Cut(x, "?", q) /\ split_at(b, "?") = <<x, q>>
  <2>1. PICK x, q \in Seq(U) : Lacks(x, "?") /\ b = Cut(x, "?", q)
    BY <1>4
  <2> HIDE DEF U
  <2>2. split(q, "&") \in SplitParts(U, "&") /\ join(split(q, "&"), "&") = q
    BY <1>0, SplitIn, JoinSplit
  <2>3. u = UrlOf(x, split(q, "&"), tail)
    BY <1>2, <2>1, <2>2, Zenon DEF UrlOf
  <2>4. UrlParts(x, split(q, "&"), tail, S)
    BY <1>2, <2>1, <2>2, Zenon DEF UrlParts, U
  <2> QED BY <2>3, <2>4
<1> HIDE DEF U
<1> QED BY <1>0, <1>2, <1>3, <1>4, SplitAtOf

\* What redact_url_for_display writes.
LEMMA DisplayOf ==
  ASSUME NEW S, Marks(S), NEW s \in Seq(S)
  PROVE  LET u == redact_url_password(s)
             t == redact_url_for_display(s)
         IN \/ t = u /\ Len(Query(u)) = 1
            \/ \E x, P, tail : /\ UrlParts(x, P, tail, S) /\ u = UrlOf(x, P, tail)
                               /\ UrlParts(x, Pairs(P), tail, S) /\ t = UrlOf(x, Pairs(P), tail)
<1> DEFINE u == redact_url_password(s)
           t == redact_url_for_display(s)
           V == (S \ {"#"}) \ {"&"}
<1>1. u \in Seq(S)
  BY PasswordOf
<1>2. t = IF Len(Query(u)) = 1 THEN u
          ELSE Then(Then(Then(Query(u)[1], <<"?">>), join(Pairs(split(Query(u)[2], "&")), "&")),
                    TailOf(split_at(u, "#")))
  BY DisplayUnfolds
<1> HIDE DEF u, t
<1>3. CASE Len(Query(u)) = 1
  BY <1>2, <1>3 DEF u, t
<1>4. CASE Len(Query(u)) # 1
  <2>1. PICK x, P, tail : UrlParts(x, P, tail, S) /\ u = UrlOf(x, P, tail)
    BY <1>1, <1>4, UrlShape
  <2>2. Query(u) = <<x, join(P, "&")>> /\ TailOf(split_at(u, "#")) = tail /\ split(join(P, "&"), "&") = P
    BY <2>1, UrlCut
  <2>3. Query(u)[1] = x /\ Query(u)[2] = join(P, "&")
    <3>1. \A y : <<x, y>>[1] = x /\ <<x, y>>[2] = y
      OBVIOUS
    <3> QED BY <2>2, <3>1, Zenon
  <2>4. t = Then(Then(Then(x, <<"?">>), join(Pairs(P), "&")), tail)
    BY <1>2, <1>4, <2>2, <2>3, Zenon
  <2>5. /\ "=" \in V /\ REDACTED \in Seq(V) /\ P \in Seq(Seq(V)) /\ P # <<>>
        /\ x \in Seq(S \ {"#"}) /\ Lacks(x, "?") /\ tail \in Fragments0(S) /\ "?" \in S \ {"#"}
    BY <2>1 DEF Marks, UrlParts, SplitParts
  <2> HIDE DEF V
  <2>6. Pairs(P) \in Seq(Seq(V)) /\ Pairs(P) # <<>>
    BY <2>5, PairsOf
  <2>7. UrlParts(x, Pairs(P), tail, S)
    BY <2>5, <2>6 DEF UrlParts, SplitParts, V
  <2>8. join(Pairs(P), "&") \in Seq(S \ {"#"})
    BY <2>7, UrlIs
  <2>9. Then(Then(x, <<"?">>), join(Pairs(P), "&")) = Cut(x, "?", join(Pairs(P), "&"))
    BY <2>5, <2>8, CutIs
  <2>10. t = UrlOf(x, Pairs(P), tail)
    BY <2>4, <2>9, Zenon DEF UrlOf
  <2> QED BY <2>1, <2>7, <2>10, Zenon DEF u, t
<1> QED BY <1>3, <1>4

\* No value of a query is left.
Withheld0(t) ==
  Len(Query(t)) = 2 =>
    \A i \in DOMAIN split(Query(t)[2], "&") :
      LET p == split_at(split(Query(t)[2], "&")[i], "=")
      IN Len(p) = 1 \/ p[2] = REDACTED

\* The URL that is displayed is such a one.
LEMMA DisplayWithholds ==
  ASSUME NEW S, Marks(S), NEW s \in Seq(S)
  PROVE  Withheld0(redact_url_for_display(s))
<1> DEFINE u == redact_url_password(s)
           t == redact_url_for_display(s)
           V == (S \ {"#"}) \ {"&"}
<1>1. \/ t = u /\ Len(Query(u)) = 1
      \/ \E x, P, tail : /\ UrlParts(x, P, tail, S) /\ u = UrlOf(x, P, tail)
                         /\ UrlParts(x, Pairs(P), tail, S) /\ t = UrlOf(x, Pairs(P), tail)
  BY DisplayOf
<1> HIDE DEF u, t
<1>2. CASE t = u /\ Len(Query(u)) = 1
  <2>1. ~(Len(Query(t)) = 2)
    BY <1>2
  <2> QED BY <2>1, Zenon DEF Withheld0, t
<1>3. CASE \E x, P, tail : /\ UrlParts(x, P, tail, S) /\ u = UrlOf(x, P, tail)
                           /\ UrlParts(x, Pairs(P), tail, S) /\ t = UrlOf(x, Pairs(P), tail)
  <2>1. PICK x, P, tail : UrlParts(x, P, tail, S) /\ UrlParts(x, Pairs(P), tail, S) /\ t = UrlOf(x, Pairs(P), tail)
    BY <1>3
  <2>2. Query(t) = <<x, join(Pairs(P), "&")>> /\ split(join(Pairs(P), "&"), "&") = Pairs(P)
    BY <2>1, UrlCut
  <2>3. Query(t)[2] = join(Pairs(P), "&")
    <3>1. \A y : <<x, y>>[2] = y
      OBVIOUS
    <3> QED BY <2>2, <3>1, Zenon
  <2>4. "=" \in V /\ REDACTED \in Seq(V) /\ P \in Seq(Seq(V))
    BY <2>1 DEF Marks, UrlParts, SplitParts
  <2> HIDE DEF V
  <2>5. \A i \in DOMAIN Pairs(P) : ShownPair(Pairs(P)[i], V)
    BY <2>4, PairsOf
  <2>6. \A i \in DOMAIN Pairs(P) :
          Len(split_at(Pairs(P)[i], "=")) = 1 \/ split_at(Pairs(P)[i], "=")[2] = REDACTED
    BY <2>4, <2>5, PairRests
  <2> QED BY <2>2, <2>3, <2>6, Zenon DEF Withheld0, t
<1> QED BY <1>1, <1>2, <1>3

\* t and u are alike in front of their queries, a scheme included, behind n.
SameFront(t, u, n, S) ==
  /\ t \in Seq(S) /\ u \in Seq(S) /\ n \in Nat /\ n + 1 <= Len(t) /\ n + 1 <= Len(u)
  /\ t[n + 1] = "?" /\ \A k \in 1..n : t[k] = u[k]
  /\ \E g \in 1..n : g + 2 <= n /\ SeparatorAt(t, g)

\* Then their userinfo is the same.
LEMMA FrontUserinfo ==
  ASSUME NEW S, NEW t, NEW u, NEW n, SameFront(t, u, n, S), HasUserinfo(t)
  PROVE  HasUserinfo(u)
<1>0. /\ t \in Seq(S) /\ u \in Seq(S) /\ n \in Nat /\ n + 1 <= Len(t) /\ n + 1 <= Len(u)
      /\ t[n + 1] = "?" /\ \A k \in 1..n : t[k] = u[k]
  BY DEF SameFront
<1>1. PICK g \in 1..n : g + 2 <= n /\ SeparatorAt(t, g)
  BY DEF SameFront
<1>2. PICK i \in 1..Len(t), j \in 1..Len(t) :
        /\ SeparatorAt(t, i)
        /\ \A k \in 1..(i - 1) : ~SeparatorAt(t, k)
        /\ j > i + 2 /\ t[j] = "@"
        /\ \A k \in (i + 3)..j : t[k] \notin {"/", "?", "#"}
  BY DEF HasUserinfo
<1>3. Len(t) \in Nat /\ Len(u) \in Nat /\ i \in Int /\ j \in Int /\ g \in Int
  BY <1>0
<1>4. i <= g /\ i + 2 <= n
  <2>1. ~(g \in 1..(i - 1))
    BY <1>1, <1>2
  <2> QED BY <1>0, <1>1, <1>2, <1>3, <2>1
<1>5. j <= n
  <2>1. n + 1 \in (i + 3)..j => t[n + 1] \notin {"/", "?", "#"}
    BY <1>2
  <2> QED BY <1>0, <1>2, <1>3, <1>4, <2>1
<1>6. ASSUME NEW k \in 1..i PROVE SeparatorAt(u, k) <=> SeparatorAt(t, k)
  <2>1. k \in 1..n /\ k + 1 \in 1..n /\ k + 2 \in 1..n /\ k \in 1..Len(t) /\ k + 2 <= Len(t) /\ k + 2 <= Len(u)
    BY <1>0, <1>3, <1>4, <1>6
  <2>2. u[k] = t[k] /\ u[k + 1] = t[k + 1] /\ u[k + 2] = t[k + 2]
    BY <1>0, <2>1
  <2> QED BY <1>0, <2>1, <2>2, SepCopied
<1>7. i \in 1..Len(u) /\ j \in 1..Len(u) /\ i \in 1..i /\ j \in 1..n
  BY <1>0, <1>2, <1>3, <1>4, <1>5
<1>8. SeparatorAt(u, i) /\ \A k \in 1..(i - 1) : ~SeparatorAt(u, k)
  <2>1. \A k \in 1..(i - 1) : k \in 1..i
    BY <1>3
  <2> QED BY <1>2, <1>6, <1>7, <2>1
<1>9. u[j] = "@" /\ \A k \in (i + 3)..j : u[k] \notin {"/", "?", "#"}
  <2>1. \A k \in (i + 3)..j : k \in 1..n
    BY <1>0, <1>3, <1>5, <1>7
  <2> QED BY <1>0, <1>2, <1>7, <2>1
<1> QED BY <1>2, <1>7, <1>8, <1>9 DEF HasUserinfo

\* A scheme is in front of the whole query.
LEMMA UrlScheme ==
  ASSUME NEW S, Marks(S), NEW x, NEW P, NEW tail, UrlParts(x, P, tail, S), SchemeFirst(UrlOf(x, P, tail))
  PROVE  \E g \in 1..Len(x) : g + 2 <= Len(x) /\ SeparatorAt(x, g)
<1> DEFINE u == UrlOf(x, P, tail)
           n == Len(x)
<1>1. u \in Seq(S) /\ x \in Seq(S) /\ n \in Nat /\ n + 1 <= Len(u) /\ u[n + 1] = "?" /\ \A k \in 1..n : u[k] = x[k]
  <2>1. BehindQuery(u, x, S)
    BY UrlIs
  <2> HIDE DEF u
  <2> QED BY <2>1 DEF BehindQuery
<1> HIDE DEF u
<1>2. n + 1 \in 1..Len(u)
  BY <1>1
<1>3. PICK g \in 1..(n + 1 - 1) : SeparatorAt(u, g)
  BY <1>1, <1>2 DEF SchemeFirst, u
<1>4. g \in 1..n /\ g \in 1..Len(u)
  BY <1>1, <1>3
<1>5. g + 2 <= Len(u) /\ u[g] = ":" /\ u[g + 1] = "/" /\ u[g + 2] = "/"
  BY <1>1, <1>3, <1>4, SepIs
<1>6. g + 2 <= n
  <2>1. g + 1 # n + 1 /\ g + 2 # n + 1
    BY <1>1, <1>5
  <2> QED BY <1>1, <1>4, <2>1
<1>7. g + 1 \in 1..n /\ g + 2 \in 1..n
  BY <1>1, <1>4, <1>6
<1>8. x[g] = ":" /\ x[g + 1] = "/" /\ x[g + 2] = "/"
  BY <1>1, <1>4, <1>5, <1>7
<1>9. SeparatorAt(x, g)
  BY <1>1, <1>4, <1>6, <1>8, SepIs
<1> QED BY <1>4, <1>6, <1>9

\* It is one of every URL with that front, and its query behind it.
LEMMA UrlFront ==
  ASSUME NEW S, Marks(S), NEW x, NEW P, NEW tail, UrlParts(x, P, tail, S),
         NEW g \in 1..Len(x), g + 2 <= Len(x), SeparatorAt(x, g)
  PROVE  SeparatorAt(UrlOf(x, P, tail), g) /\ SchemeFirst(UrlOf(x, P, tail))
<1> DEFINE u == UrlOf(x, P, tail)
           n == Len(x)
<1>1. u \in Seq(S) /\ x \in Seq(S) /\ n \in Nat /\ n + 1 <= Len(u) /\ u[n + 1] = "?" /\ \A k \in 1..n : u[k] = x[k]
  <2>1. BehindQuery(u, x, S)
    BY UrlIs
  <2> HIDE DEF u
  <2> QED BY <2>1 DEF BehindQuery
<1> HIDE DEF u
<1>2. g + 1 \in 1..n /\ g + 2 \in 1..n /\ g \in 1..Len(u) /\ g + 2 <= Len(u)
  BY <1>1
<1>3. SeparatorAt(u, g)
  BY <1>1, <1>2, SepCopied
<1>4. ASSUME NEW k \in 1..Len(u), u[k] = "?" PROVE \E i \in 1..(k - 1) : SeparatorAt(u, i)
  <2>1. ~(k \in 1..n)
    <3>1. \A i \in 1..n : x[i] # "?"
      BY DEF UrlParts, Lacks
    <3> QED BY <1>1, <1>4, <3>1
  <2>2. g \in 1..(k - 1)
    BY <1>1, <2>1
  <2> QED BY <1>3, <2>2
<1>5. SchemeFirst(u)
  BY <1>4 DEF SchemeFirst
<1> QED BY <1>3, <1>5 DEF u

\* A URL that has a query is shown with its placeholders.
LEMMA DisplayUrl ==
  ASSUME NEW S, Marks(S), NEW x, NEW P, NEW tail, UrlParts(x, P, tail, S),
         ~HasUserinfo(UrlOf(x, P, tail))
  PROVE  redact_url_for_display(UrlOf(x, P, tail)) = UrlOf(x, Pairs(P), tail)
<1> DEFINE u == UrlOf(x, P, tail)
           V == (S \ {"#"}) \ {"&"}
           q == join(Pairs(P), "&")
<1>1. BehindQuery(u, x, S)
  BY UrlIs
<1>2. u \in Seq(S)
  BY <1>1 DEF BehindQuery
<1>3. redact_url_password(u) = u
  BY <1>2, PasswordRests
<1>4. Query(u) = <<x, join(P, "&")>> /\ TailOf(split_at(u, "#")) = tail /\ split(join(P, "&"), "&") = P
  BY UrlCut
<1> HIDE DEF u
<1>5. Len(Query(u)) # 1 /\ Query(u)[1] = x /\ Query(u)[2] = join(P, "&")
  <2>1. \A y : Len(<<x, y>>) # 1 /\ <<x, y>>[1] = x /\ <<x, y>>[2] = y
    OBVIOUS
  <2> QED BY <1>4, <2>1, Zenon
<1>6. redact_url_for_display(u) = Then(Then(Then(x, <<"?">>), q), tail)
  <2>1. redact_url_for_display(u) =
           IF Len(Query(redact_url_password(u))) = 1 THEN redact_url_password(u)
           ELSE Then(Then(Then(Query(redact_url_password(u))[1], <<"?">>),
                          join(Pairs(split(Query(redact_url_password(u))[2], "&")), "&")),
                     TailOf(split_at(redact_url_password(u), "#")))
    BY DisplayUnfolds
  <2> QED BY <1>3, <1>4, <1>5, <2>1, Zenon
<1>7. /\ "=" \in V /\ REDACTED \in Seq(V) /\ P \in Seq(Seq(V)) /\ P # <<>>
      /\ x \in Seq(S \ {"#"}) /\ Lacks(x, "?") /\ tail \in Fragments0(S) /\ "?" \in S \ {"#"}
  BY DEF Marks, UrlParts, SplitParts
<1> HIDE DEF V
<1>8. Pairs(P) \in Seq(Seq(V)) /\ Pairs(P) # <<>>
  BY <1>7, PairsOf
<1>9. UrlParts(x, Pairs(P), tail, S)
  BY <1>7, <1>8 DEF UrlParts, SplitParts, V
<1>10. q \in Seq(S \ {"#"})
  BY <1>9, UrlIs
<1> HIDE DEF q
<1>11. Then(Then(x, <<"?">>), q) = Cut(x, "?", q)
  BY <1>7, <1>10, CutIs
<1>12. redact_url_for_display(u) = UrlOf(x, Pairs(P), tail)
  BY <1>6, <1>11, Zenon DEF UrlOf, q
<1> QED BY <1>12 DEF u

\* redact_url_for_display takes the userinfo away, keeps a URL one, and leaves what it
\* has written as it is.
LEMMA DisplayKeeps ==
  ASSUME NEW S, Marks(S), NEW s \in Seq(S)
  PROVE  LET t == redact_url_for_display(s)
         IN /\ t \in Seq(S)
            /\ SchemeFirst(s) => SchemeFirst(t) /\ ~HasUserinfo(t)
            /\ ~HasUserinfo(t) => redact_url_for_display(t) = t
<1> DEFINE u == redact_url_password(s)
           t == redact_url_for_display(s)
           V == (S \ {"#"}) \ {"&"}
<1>1. u \in Seq(S) /\ ~HasUserinfo(u)
  BY PasswordOf
<1>2. SchemeFirst(s) => SchemeFirst(u)
  BY PasswordKeepsScheme
<1>3. \/ t = u /\ Len(Query(u)) = 1
      \/ \E x, P, tail : /\ UrlParts(x, P, tail, S) /\ u = UrlOf(x, P, tail)
                         /\ UrlParts(x, Pairs(P), tail, S) /\ t = UrlOf(x, Pairs(P), tail)
  BY DisplayOf
<1> HIDE DEF u, t
<1>4. CASE t = u /\ Len(Query(u)) = 1
  <2>1. redact_url_password(t) = t
    BY <1>1, <1>4, PasswordRests
  <2>2. redact_url_for_display(t) = t
    <3>1. redact_url_for_display(t) =
             IF Len(Query(redact_url_password(t))) = 1 THEN redact_url_password(t)
             ELSE Then(Then(Then(Query(redact_url_password(t))[1], <<"?">>),
                            join(Pairs(split(Query(redact_url_password(t))[2], "&")), "&")),
                       TailOf(split_at(redact_url_password(t), "#")))
      BY DisplayUnfolds
    <3> QED BY <1>4, <2>1, <3>1, Zenon
  <2>3. t \in Seq(S) /\ ~HasUserinfo(t) /\ (SchemeFirst(s) => SchemeFirst(t))
    BY <1>1, <1>2, <1>4, Zenon
  <2> QED BY <2>2, <2>3, Zenon DEF t
<1>5. CASE \E x, P, tail : /\ UrlParts(x, P, tail, S) /\ u = UrlOf(x, P, tail)
                           /\ UrlParts(x, Pairs(P), tail, S) /\ t = UrlOf(x, Pairs(P), tail)
  <2>1. PICK x, P, tail : /\ UrlParts(x, P, tail, S) /\ u = UrlOf(x, P, tail)
                          /\ UrlParts(x, Pairs(P), tail, S) /\ t = UrlOf(x, Pairs(P), tail)
    BY <1>5
  <2>2. BehindQuery(u, x, S) /\ BehindQuery(t, x, S)
    BY <2>1, UrlIs
  <2>3. t \in Seq(S)
    BY <2>2 DEF BehindQuery
  <2>4. ASSUME SchemeFirst(s) PROVE SchemeFirst(t) /\ ~HasUserinfo(t)
    <3>1. PICK g \in 1..Len(x) : g + 2 <= Len(x) /\ SeparatorAt(x, g)
      BY <1>2, <2>1, <2>4, UrlScheme
    <3>2. SeparatorAt(t, g) /\ SchemeFirst(t)
      BY <2>1, <3>1, UrlFront
    <3>3. SameFront(t, u, Len(x), S)
      BY <2>2, <3>1, <3>2 DEF BehindQuery, SameFront
    <3> QED BY <1>1, <3>2, <3>3, FrontUserinfo
  <2>5. ASSUME ~HasUserinfo(t) PROVE redact_url_for_display(t) = t
    <3>1. redact_url_for_display(t) = UrlOf(x, Pairs(Pairs(P)), tail)
      BY <2>1, <2>5, DisplayUrl
    <3>2. "=" \in V /\ REDACTED \in Seq(V) /\ P \in Seq(Seq(V))
      BY <2>1 DEF Marks, UrlParts, SplitParts
    <3> HIDE DEF V
    <3>3. Pairs(Pairs(P)) = Pairs(P)
      BY <3>2, PairsOf
    <3> QED BY <2>1, <3>1, <3>3, Zenon
  <2> QED BY <2>3, <2>4, <2>5, Zenon DEF t
<1> QED BY <1>3, <1>4, <1>5

\* w is the end of t.
EndsWith(t, w, S) ==
  /\ t \in Seq(S) /\ w \in Seq(S) /\ Len(w) <= Len(t) /\ Len(w) \in Nat /\ Len(t) \in Nat
  /\ \A k \in 1..Len(w) : w[k] = t[Len(t) - Len(w) + k]

\* IsSuffix, by positions.
LEMMA SuffixIs ==
  ASSUME NEW S, NEW t, NEW w, EndsWith(t, w, S)
  PROVE  IsSuffix(w, t)
<1> DEFINE N == Len(t)
           M == Len(w)
           rt == Reverse(t)
           rw == Reverse(w)
<1>1. t \in Seq(S) /\ w \in Seq(S) /\ M <= N /\ M \in Nat /\ N \in Nat /\ \A k \in 1..M : w[k] = t[N - M + k]
  BY DEF EndsWith
<1>2. /\ rt \in Seq(S) /\ Len(rt) = N /\ \A i \in 1..N : rt[i] = t[N - i + 1]
      /\ rw \in Seq(S) /\ Len(rw) = M /\ \A i \in 1..M : rw[i] = w[M - i + 1]
  <2>1. rt = [i \in 1..N |-> t[N - i + 1]] /\ rw = [i \in 1..M |-> w[M - i + 1]]
    BY Zenon DEF Reverse
  <2>2. \A i \in 1..N : N - i + 1 \in 1..N
    BY <1>1
  <2>3. \A i \in 1..M : M - i + 1 \in 1..M
    BY <1>1
  <2>4. rt \in [1..N -> S]
    BY <1>1, <2>1, <2>2
  <2>5. rw \in [1..M -> S]
    BY <1>1, <2>1, <2>3
  <2> HIDE DEF rt, rw
  <2> QED BY <1>1, <2>1, <2>4, <2>5
<1> HIDE DEF rt, rw, N, M
<1>3. \A i \in 1..M : rw[i] = rt[i]
  <2> TAKE i \in 1..M
  <2>1. M - i + 1 \in 1..M /\ i \in 1..N /\ N - M + (M - i + 1) = N - i + 1
    BY <1>1
  <2>2. rw[i] = w[M - i + 1] /\ rt[i] = t[N - i + 1]
    BY <1>2, <2>1
  <2>3. w[M - i + 1] = t[N - M + (M - i + 1)]
    BY <1>1, <2>1
  <2> QED BY <2>1, <2>2, <2>3, Zenon
<1>4. SubSeq(rw, 1, M) = SubSeq(rt, 1, M)
  <2>1. /\ SubSeq(rw, 1, M) \in Seq(S) /\ Len(SubSeq(rw, 1, M)) = M
        /\ \A i \in 1..M : SubSeq(rw, 1, M)[i] = rw[i]
    BY <1>1, <1>2
  <2>2. /\ SubSeq(rt, 1, M) \in Seq(S) /\ Len(SubSeq(rt, 1, M)) = M
        /\ \A i \in 1..M : SubSeq(rt, 1, M)[i] = rt[i]
    BY <1>1, <1>2
  <2> QED BY <1>1, <1>3, <2>1, <2>2, SeqsEqual
<1>5. IsPrefix(rw, rt)
  BY <1>1, <1>2, <1>4 DEF IsPrefix
<1> QED BY <1>5 DEF IsSuffix, rw, rt

\* Separators of a text joined of parts are those of its parts.
LEMMA SepOfJoin ==
  ASSUME NEW S, NEW c \in S, c \notin {":", "/"}, NEW P \in Seq(Seq(S))
  PROVE  HasSep(join(P, c)) <=> SomeSep(P)
<1> DEFINE A == Seq(S)
           Fine(v) == HasSep(join(v, c)) <=> SomeSep(v)
           Q == {v \in Seq(A) : Fine(v)}
<1>1. ~SomeSep(<<>>) /\ ~HasSep(<<>>)
  BY DEF SomeSep, HasSep
<1>2. <<>> \in Q
  <2>1. Fine(<<>>)
    BY <1>1, JoinEmpty
  <2> QED BY <2>1
<1>3. \A v \in Q : \A w \in A : Append(v, w) \in Q
  <2> TAKE v \in Q
  <2> TAKE w \in A
  <2>1. v \in Seq(Seq(S)) /\ w \in Seq(S) /\ Fine(v)
    OBVIOUS
  <2>2. SomeSep(Append(v, w)) <=> SomeSep(v) \/ HasSep(w)
    BY <2>1, ClearAppend
  <2>3. join(Append(v, w), c) = IF v = <<>> THEN w ELSE Cut(join(v, c), c, w)
    BY <2>1, JoinAppend
  <2>4. join(v, c) \in Seq(S)
    BY <2>1, JoinIn
  <2>5. HasSep(Cut(join(v, c), c, w)) <=> HasSep(join(v, c)) \/ HasSep(w)
    BY <2>1, <2>4, SepOfCut
  <2>6. Append(v, w) \in Seq(A)
    <3> HIDE DEF A
    <3> QED BY AppendOf
  <2>7. Fine(Append(v, w))
    <3> HIDE DEF A
    <3>1. CASE v = <<>>
      BY <1>1, <2>2, <2>3, <3>1
    <3>2. CASE v # <<>>
      BY <2>1, <2>2, <2>3, <2>5, <3>2
    <3> QED BY <3>1, <3>2
  <2> QED BY <2>6, <2>7
<1>4. Q \in SUBSET Seq(A)
  OBVIOUS
<1>5. Q = Seq(A)
  <2> HIDE DEF A, Q
  <2> QED BY <1>2, <1>3, <1>4, SeqInduction
<1> QED BY <1>5

\* A word without a separator is written as it is.
LEMMA TokenPlain ==
  ASSUME NEW S, NEW w \in Seq(S), ~HasSep(w)
  PROVE  redact_token(w) = w
<1> DEFINE c == Core(w)
           n == core_end(w)
<1>1. /\ n \in 0..Len(w) /\ c \in Seq(S) /\ Len(c) = n /\ Len(w) \in Nat
      /\ \A k \in 1..n : c[k] = w[k]
  BY PartsOf
<1> HIDE DEF c, n
<1>2. \A i \in 1..Len(c) : ~SeparatorAt(c, i)
  <2> SUFFICES ASSUME NEW i \in 1..Len(c), SeparatorAt(c, i) PROVE FALSE
    OBVIOUS
  <2>1. i + 2 <= Len(c)
    BY <1>1, SepIs
  <2>2. /\ i \in 1..Len(w) /\ i + 2 <= Len(w)
        /\ c[i] = w[i] /\ c[i + 1] = w[i + 1] /\ c[i + 2] = w[i + 2]
    BY <1>1, <2>1
  <2>3. SeparatorAt(w, i)
    BY <1>1, <2>1, <2>2, SepCopied
  <2> QED BY <2>2, <2>3 DEF HasSep
<1>3. find_separator(c) = 0
  <2>1. FirstSep(c, find_separator(c))
    BY <1>1, FirstSepOf
  <2> QED BY <1>2, <2>1 DEF FirstSep
<1> QED BY <1>3, TokenUnfolds, Zenon DEF c

\* redact_in_text puts no separator in a text without one.
LEMMA TextPlain ==
  ASSUME NEW S, Blank \in S, NEW s \in Seq(S), ~HasSep(s)
  PROVE  ~HasSep(redact_in_text(s))
<1> DEFINE P == split(s, Blank)
           A == Seq(S \ {Blank})
           B == Seq(S)
           w == words(s)
           W == {v \in Range(P) : v # <<>>}
           R == Tokens(w)
<1>1. P \in SplitParts(S, Blank) /\ join(P, Blank) = s
  BY SplitIn, JoinSplit
<1>2. w = Within(P, Range(P) \ {<<>>})
  BY WordsUnfold
<1>3. w \in Seq(WordsOver(S))
  BY WordsIn
<1> HIDE DEF P, w
<1>4. P \in Seq(A)
  BY <1>1 DEF SplitParts
<1>5. A \subseteq B
  BY Wider
<1>6. P \in Seq(B)
  <2> HIDE DEF A, B
  <2> QED BY <1>4, <1>5, Wider
<1>7. ~SomeSep(P)
  BY <1>1, <1>6, BlankApart, SepOfJoin
<1>8. w \in Seq(Range(P) \ {<<>>})
  BY <1>2, <1>6, WithinIs
<1>9. ASSUME NEW k \in DOMAIN w PROVE ~HasSep(w[k]) /\ redact_token(w[k]) = w[k]
  <2>1. w[k] \in Range(P)
    BY <1>8
  <2>2. PICK m \in DOMAIN P : w[k] = P[m]
    BY <2>1 DEF Range
  <2>3. ~HasSep(P[m]) /\ P[m] \in Seq(S)
    BY <1>6, <1>7 DEF SomeSep
  <2> QED BY <2>2, <2>3, TokenPlain
<1>10. R = w
  <2> DEFINE L == Len(w)
  <2>1. DOMAIN w = 1..L /\ w = [k \in 1..L |-> w[k]]
    BY <1>3
  <2> QED BY <1>9, <2>1 DEF Tokens
<1>11. redact_in_text(s) = join(w, Blank)
  BY <1>10, TextUnfolds, Zenon DEF w
<1>12. ~SomeSep(w)
  BY <1>9 DEF SomeSep
<1>13. w \in Seq(Seq(S))
  BY <1>3, WordsAreTexts
<1> QED BY <1>11, <1>12, <1>13, BlankApart, SepOfJoin

\* The placeholder has no separator.
LEMMA PlaceholderPlain == ASSUME NEW S, REDACTED \in Seq(S) PROVE ~HasSep(REDACTED)
<1>1. \A i \in 1..Len(REDACTED) : REDACTED[i] # ":"
  BY DEF REDACTED
<1> HIDE DEF REDACTED
<1> QED BY <1>1, SepIs DEF HasSep

\* A pair has no separator but one it had.
LEMMA PairPlain ==
  ASSUME NEW S, "=" \in S, REDACTED \in Seq(S), NEW p \in Seq(S), HasSep(redact_pair(p))
  PROVE  HasSep(p)
<1>1. CASE Lacks(p, "=") /\ split_at(p, "=") = <<p>>
  <2>1. redact_pair(p) = p
    BY <1>1, OneText, PairUnfolds
  <2> QED BY <2>1
<1>2. CASE \E x, y \in Seq(S) : Lacks(x, "=") /\ p = Cut(x, "=", y) /\ split_at(p, "=") = <<x, y>>
  <2>1. PICK x, y \in Seq(S) : Lacks(x, "=") /\ p = Cut(x, "=", y) /\ split_at(p, "=") = <<x, y>>
    BY <1>2
  <2>2. Len(split_at(p, "=")) # 1 /\ split_at(p, "=")[1] = x
    <3>1. Len(<<x, y>>) # 1 /\ <<x, y>>[1] = x
      OBVIOUS
    <3> QED BY <2>1, <3>1, Zenon
  <2>3. redact_pair(p) = Cut(x, "=", REDACTED)
    BY <2>2, PairUnfolds, CutIs
  <2>4. HasSep(x)
    BY <2>3, PlaceholderPlain, SepOfCut
  <2> QED BY <2>1, <2>4, SepOfCut
<1> QED BY <1>1, <1>2, SplitAtOf

\* The separators of a URL are those of its parts.
LEMMA SepOfUrl ==
  ASSUME NEW S, Marks(S), NEW x, NEW P, NEW tail, UrlParts(x, P, tail, S)
  PROVE  HasSep(UrlOf(x, P, tail)) <=> HasSep(x) \/ SomeSep(P) \/ HasSep(tail)
<1> DEFINE V == S \ {"#"}
           q == join(P, "&")
           b == Cut(x, "?", q)
<1>1. /\ x \in Seq(V) /\ P \in SplitParts(V, "&") /\ tail \in Fragments0(S)
      /\ "?" \in V /\ "&" \in V /\ V \subseteq S /\ "#" \in S
  BY DEF UrlParts, Marks
<1>2. P \in Seq(Seq(V))
  <2> DEFINE A == Seq(V \ {"&"})
             B == Seq(V)
  <2>1. P \in Seq(A)
    BY <1>1 DEF SplitParts
  <2>2. A \subseteq B
    BY Wider
  <2> HIDE DEF A, B
  <2>3. P \in Seq(B)
    BY <2>1, <2>2, Wider
  <2> QED BY <2>3 DEF B
<1> HIDE DEF V
<1>3. q \in Seq(V)
  BY <1>1, <1>2, JoinIn
<1>4. HasSep(q) <=> SomeSep(P)
  BY <1>1, <1>2, SepOfJoin
<1> HIDE DEF q
<1>5. HasSep(b) <=> HasSep(x) \/ HasSep(q)
  BY <1>1, <1>3, SepOfCut
<1>6. b \in Seq(S)
  <2>1. IsCut(b, x, "?", q, V)
    BY <1>1, <1>3, CutOf
  <2>2. b \in Seq(V)
    BY <2>1 DEF IsCut
  <2> HIDE DEF b
  <2> QED BY <1>1, <2>2, Wider
<1>7. UrlOf(x, P, tail) = Then(b, tail)
  BY DEF UrlOf, q
<1> HIDE DEF b
<1>8. CASE tail = <<>>
  <2>1. Then(b, tail) = b
    BY <1>6, <1>8 DEF Then
  <2>2. ~HasSep(tail)
    BY <1>8 DEF HasSep
  <2> QED BY <1>4, <1>5, <1>7, <2>1, <2>2
<1>9. CASE \E y \in Seq(S) : tail = Then(<<"#">>, y)
  <2>1. PICK y \in Seq(S) : tail = Then(<<"#">>, y)
    BY <1>9
  <2>2. Then(b, tail) = Cut(b, "#", y)
    BY <2>1, Zenon DEF Cut
  <2>3. HasSep(Cut(b, "#", y)) <=> HasSep(b) \/ HasSep(y)
    BY <1>1, <1>6, SepOfCut
  <2>4. tail = Cut(<<>>, "#", y)
    <3>1. \A z \in Seq(S) : Then(<<>>, z) = z
      BY DEF Then
    <3>2. Then(<<"#">>, y) \in Seq(S)
      <4>1. <<"#">> \in Seq(S)
        BY <1>1
      <4> QED BY <4>1, Concat
    <3> QED BY <2>1, <3>1, <3>2, Zenon DEF Cut
  <2>5. HasSep(tail) <=> HasSep(<<>>) \/ HasSep(y)
    <3>1. <<>> \in Seq(S)
      OBVIOUS
    <3> QED BY <1>1, <2>4, <3>1, SepOfCut
  <2>6. ~HasSep(<<>>)
    BY DEF HasSep
  <2> QED BY <1>4, <1>5, <1>7, <2>2, <2>3, <2>5, <2>6
<1> QED BY <1>1, <1>8, <1>9, Zenon DEF Fragments0

\* A text without a separator is left as it is.
LEMMA PasswordPlain ==
  ASSUME NEW S, NEW s \in Seq(S), ~HasSep(s)
  PROVE  redact_url_password(s) = s /\ ~HasUserinfo(s)
<1>1. Userinfo(s, find_separator(s), authority_end(s), last_at(s)) => HasSep(s)
  BY DEF Userinfo, FirstSep, HasSep
<1> QED BY <1>1, PasswordOf

\* redact_url_for_display puts no separator in a text without one.
LEMMA DisplayPlain ==
  ASSUME NEW S, Marks(S), NEW s \in Seq(S), ~HasSep(s)
  PROVE  ~HasSep(redact_url_for_display(s))
<1> DEFINE u == redact_url_password(s)
           t == redact_url_for_display(s)
<1>1. u = s
  BY PasswordPlain
<1>2. \/ t = u /\ Len(Query(u)) = 1
      \/ \E x, P, tail : /\ UrlParts(x, P, tail, S) /\ u = UrlOf(x, P, tail)
                         /\ UrlParts(x, Pairs(P), tail, S) /\ t = UrlOf(x, Pairs(P), tail)
  BY DisplayOf
<1> HIDE DEF u, t
<1>3. CASE t = u
  BY <1>1, <1>3 DEF t
<1>4. CASE \E x, P, tail : /\ UrlParts(x, P, tail, S) /\ u = UrlOf(x, P, tail)
                           /\ UrlParts(x, Pairs(P), tail, S) /\ t = UrlOf(x, Pairs(P), tail)
  <2>1. PICK x, P, tail : /\ UrlParts(x, P, tail, S) /\ u = UrlOf(x, P, tail)
                          /\ UrlParts(x, Pairs(P), tail, S) /\ t = UrlOf(x, Pairs(P), tail)
    BY <1>4
  <2>2. ~HasSep(x) /\ ~SomeSep(P) /\ ~HasSep(tail)
    BY <1>1, <2>1, SepOfUrl
  <2>3. ~SomeSep(Pairs(P))
    <3>1. \A k \in DOMAIN P : P[k] \in Seq(S)
      <4> DEFINE A == Seq((S \ {"#"}) \ {"&"})
      <4>1. P \in Seq(A)
        BY <2>1 DEF UrlParts, SplitParts
      <4>2. A \subseteq Seq(S)
        BY Wider
      <4> HIDE DEF A
      <4> QED BY <4>1, <4>2
    <3>2. "=" \in S /\ REDACTED \in Seq(S)
      <4>1. REDACTED \in Seq((S \ {"#"}) \ {"&"}) /\ "=" \in S
        BY DEF Marks
      <4> QED BY <4>1, Wider
    <3>3. \A k \in DOMAIN P : ~HasSep(redact_pair(P[k]))
      BY <2>2, <3>1, <3>2, PairPlain DEF SomeSep
    <3> QED BY <3>3 DEF SomeSep, Pairs
  <2>4. ~HasSep(t)
    BY <2>1, <2>2, <2>3, SepOfUrl
  <2> QED BY <2>4 DEF t
<1> QED BY <1>2, <1>3, <1>4

\* s has no `?` before its first separator.
UrlFirst(s) == HasSep(s) => SchemeFirst(s)

\* The helpers write such strings, and the displayed one has no userinfo.
LEMMA UrlKept ==
  ASSUME NEW S, Marks(S), Blank \in S, NEW s \in Seq(S), UrlFirst(s)
  PROVE  /\ UrlFirst(redact_url_password(s))
         /\ UrlFirst(redact_in_text(s))
         /\ UrlFirst(redact_url_for_display(s)) /\ ~HasUserinfo(redact_url_for_display(s))
<1>1. CASE HasSep(s)
  <2>1. SchemeFirst(s)
    BY <1>1 DEF UrlFirst
  <2>2. SchemeFirst(redact_url_password(s))
    BY <2>1, PasswordKeepsScheme
  <2>3. SchemeFirst(redact_in_text(s))
    BY <2>1, TextOf
  <2>4. SchemeFirst(redact_url_for_display(s)) /\ ~HasUserinfo(redact_url_for_display(s))
    BY <2>1, DisplayKeeps
  <2> QED BY <2>2, <2>3, <2>4 DEF UrlFirst
<1>2. CASE ~HasSep(s)
  <2>1. redact_url_password(s) = s
    BY <1>2, PasswordPlain
  <2>2. ~HasSep(redact_in_text(s))
    BY <1>2, TextPlain
  <2>3. ~HasSep(redact_url_for_display(s)) /\ redact_url_for_display(s) \in Seq(S)
    BY <1>2, DisplayPlain, DisplayKeeps
  <2>4. ~HasUserinfo(redact_url_for_display(s))
    BY <2>3, PasswordPlain
  <2> QED BY <1>2, <2>1, <2>2, <2>3, <2>4 DEF UrlFirst
<1> QED BY <1>1, <1>2

\* What is behind the authority is behind it still.
LEMMA RestKept ==
  ASSUME NEW S, NEW s \in Seq(S), find_separator(s) # 0
  PROVE  IsSuffix(SubSeq(s, authority_end(s) + 1, Len(s)), redact_url_password(s))
<1> DEFINE t == redact_url_password(s)
           f == find_separator(s)
           n == authority_end(s)
           l == last_at(s)
           N == Len(s)
           w == SubSeq(s, n + 1, N)
<1>1. N \in Nat /\ f \in 1..N /\ SeparatorAt(s, f)
  <2>1. FirstSep(s, f)
    BY FirstSepOf
  <2> QED BY <2>1 DEF FirstSep
<1>2. f + 2 <= N
  BY <1>1, SepIs
<1>3. n \in (f + 2)..N
  <2>1. authority_start(s) = f + 3 /\ f + 3 \in 1..(N + 1)
    BY <1>1, <1>2 DEF authority_start
  <2>2. Authority(s, f + 3, n, l)
    BY <2>1, AuthorityOf
  <2> HIDE DEF f, n, l
  <2> QED BY <1>1, <2>2 DEF Authority
<1>4. w \in Seq(S) /\ Len(w) = N - n /\ \A k \in 1..(N - n) : w[k] = s[n + k]
  <2> HIDE DEF n
  <2> QED BY <1>1, <1>3
<1>5. /\ t \in Seq(S)
      /\ \/ ~HasUserinfo(s) /\ t = s
         \/ Userinfo(s, f, n, l) /\ t = Spliced(s, f + 2, l)
  BY PasswordOf
<1>6. n \in 0..N /\ f \in Nat
  BY <1>1, <1>3
<1> HIDE DEF t, f, n, l, w
<1>7. CASE t = s
  <2>1. Len(w) <= Len(t) /\ Len(w) \in Nat /\ Len(t) \in Nat /\ \A k \in 1..Len(w) : Len(t) - Len(w) + k = n + k
    BY <1>1, <1>4, <1>6, <1>7
  <2>2. EndsWith(t, w, S)
    BY <1>4, <1>5, <1>7, <2>1 DEF EndsWith
  <2> QED BY <2>2, SuffixIs DEF t, w, n
<1>8. CASE Userinfo(s, f, n, l) /\ t = Spliced(s, f + 2, l)
  <2>1. l \in (f + 3)..n
    BY <1>8 DEF Userinfo, Authority
  <2>2. f + 2 \in 0..N /\ l \in (f + 2)..N
    BY <1>1, <1>2, <1>6, <2>1
  <2>3. /\ Spliced(s, f + 2, l) \in Seq(S) /\ Len(Spliced(s, f + 2, l)) = N - (l - (f + 2))
        /\ \A i \in (f + 2 + 1)..Len(Spliced(s, f + 2, l)) : Spliced(s, f + 2, l)[i] = s[i + (l - (f + 2))]
    BY <2>2, SplicedOf
  <2>4. Len(t) = N - (l - (f + 2)) /\ \A i \in (f + 2 + 1)..Len(t) : t[i] = s[i + (l - (f + 2))]
    BY <1>8, <2>3
  <2>5. Len(w) <= Len(t) /\ Len(w) \in Nat /\ Len(t) \in Nat
    BY <1>1, <1>4, <1>6, <2>1, <2>2, <2>4
  <2>6. ASSUME NEW k \in 1..Len(w) PROVE w[k] = t[Len(t) - Len(w) + k]
    <3>1. /\ Len(t) - Len(w) + k \in (f + 2 + 1)..Len(t)
          /\ Len(t) - Len(w) + k + (l - (f + 2)) = n + k /\ k \in 1..(N - n)
      BY <1>1, <1>4, <1>6, <2>1, <2>2, <2>4, <2>5
    <3>2. w[k] = s[n + k]
      BY <1>4, <3>1
    <3>3. t[Len(t) - Len(w) + k] = s[Len(t) - Len(w) + k + (l - (f + 2))]
      BY <2>4, <3>1
    <3> QED BY <3>1, <3>2, <3>3, Zenon
  <2>7. EndsWith(t, w, S)
    BY <1>4, <1>5, <2>5, <2>6 DEF EndsWith
  <2> QED BY <2>7, SuffixIs DEF t, w, n
<1> QED BY <1>5, <1>7, <1>8

\* The characters of the strings, and those that redact.rs looks for and writes.
Chars == (UNION {Range(s) : s \in Texts}) \cup {"=", "?", "#", "&", "a", "r", "]", Blank}

\* A document: a message that is a string, and another leaf.
IsDoc(d) ==
  /\ DOMAIN d = {"message", "size"} /\ d = [k \in {"message", "size"} |-> d[k]]
  /\ \A k \in {"message", "size"} :
       d[k] = [string |-> d[k].string, text |-> d[k].text] /\ d[k].string \in BOOLEAN /\ d[k].text \in Seq(Chars)
  /\ d.message.string = TRUE

\* What the helper h makes of d.
Helper(h, d, e) ==
  \/ h = "password" /\ e = [d EXCEPT !.message.text = redact_url_password(@)]
  \/ h = "display" /\ e = [d EXCEPT !.message.text = redact_url_for_display(@)]
  \/ h = "text" /\ e = [d EXCEPT !.message.text = redact_in_text(@)]
  \/ h = "value" /\ e = redact_value(d)
  \/ h = "headers" /\ e = redact_header_values(d)

\* Among the characters are the marks of a URL.
LEMMA CharsMark == Marks(Chars)
<1>1. "=" \in Chars /\ "?" \in Chars /\ "#" \in Chars /\ "&" \in Chars /\ Blank \in Chars
  BY Zenon DEF Chars
<1>2. "r" \in (Chars \ {"#"}) \ {"&"} /\ "]" \in (Chars \ {"#"}) \ {"&"}
  <2>1. "r" \in Chars /\ "]" \in Chars
    BY Zenon DEF Chars
  <2>2. "r" \notin {"#", "&"} /\ "]" \notin {"#", "&"}
    BY Zenon
  <2> QED BY <2>1, <2>2, Zenon
<1>3. REDACTED \in Seq((Chars \ {"#"}) \ {"&"})
  <2> DEFINE V == (Chars \ {"#"}) \ {"&"}
  <2>1. "r" \in V /\ "]" \in V
    BY <1>2, Zenon
  <2> HIDE DEF V
  <2>2. \A a, b \in V : <<a, b>> \in Seq(V)
    OBVIOUS
  <2> QED BY <2>1, <2>2, Zenon DEF REDACTED, V
<1> QED BY <1>1, <1>3 DEF Marks

\* A string that is redacted is over these characters.
LEMMA TextsIn == ASSUME NEW s \in Texts PROVE s \in Seq(Chars)
<1> DEFINE R == Range(s)
<1>1. s \in Seq(R)
  BY TextsAreStrings
<1>2. R \subseteq Chars
  BY Zenon DEF Chars
<1> HIDE DEF R
<1> QED BY <1>1, <1>2, Wider

\* The message is replaced, and the rest stays.
LEMMA MessageSet ==
  ASSUME NEW d, IsDoc(d), NEW v \in Seq(Chars)
  PROVE  LET e == [d EXCEPT !.message.text = v]
         IN IsDoc(e) /\ e.message.text = v /\ (v = d.message.text => e = d)
<1>1. [d EXCEPT !.message.text = v]
        = [k \in {"message", "size"} |-> IF k = "message" THEN [string |-> TRUE, text |-> v] ELSE d[k]]
  <2>1. DOMAIN d = {"message", "size"}
    BY DEF IsDoc
  <2>2. d.message = [string |-> TRUE, text |-> d.message.text]
    <3>1. d.message = [string |-> d.message.string, text |-> d.message.text] /\ d.message.string = TRUE
      BY DEF IsDoc
    <3> QED BY <3>1, Zenon
  <2>3. d = [k \in {"message", "size"} |-> d[k]]
    BY DEF IsDoc
  <2>4. [d.message EXCEPT !.text = v] = [string |-> TRUE, text |-> v]
    <3>1. \A a, b : [[string |-> a, text |-> b] EXCEPT !.text = v] = [string |-> a, text |-> v]
      OBVIOUS
    <3> QED BY <2>2, <3>1, Zenon
  <2> QED BY <2>1, <2>3, <2>4
<1> DEFINE e == [k \in {"message", "size"} |-> IF k = "message" THEN [string |-> TRUE, text |-> v] ELSE d[k]]
<1>2. IsDoc(e) /\ e.message.text = v
  BY DEF IsDoc
<1>3. ASSUME v = d.message.text PROVE e = d
  BY <1>3 DEF IsDoc
<1> QED BY <1>1, <1>2, <1>3

\* A leaf of a document.
IsLeaf(r) == r = [string |-> r.string, text |-> r.text] /\ r.string \in BOOLEAN /\ r.text \in Seq(Chars)
\* redact_value's work on one.
LeafValue(r) == IF r.string THEN [r EXCEPT !.text = redact_in_text(@)] ELSE r

\* It leaves a leaf, which it leaves alone from then on.
LEMMA LeafOf ==
  ASSUME NEW r, IsLeaf(r)
  PROVE  /\ IsLeaf(LeafValue(r)) /\ LeafValue(LeafValue(r)) = LeafValue(r)
         /\ LeafValue(r).string = r.string
         /\ r.string = TRUE => LeafValue(r).text = redact_in_text(r.text)
<1> DEFINE v == redact_in_text(r.text)
           e == [string |-> TRUE, text |-> v]
<1>1. CASE r.string = TRUE
  <2>1. r = [string |-> TRUE, text |-> r.text] /\ r.text \in Seq(Chars)
    <3>1. r = [string |-> r.string, text |-> r.text] /\ r.text \in Seq(Chars)
      BY DEF IsLeaf
    <3> QED BY <1>1, <3>1, Zenon
  <2>2. v \in Seq(Chars) /\ redact_in_text(v) = v
    <3>1. Blank \in Chars
      BY CharsMark DEF Marks
    <3> QED BY <2>1, <3>1, TextOf
  <2>3. \A a, b, c : [[string |-> a, text |-> b] EXCEPT !.text = c] = [string |-> a, text |-> c]
    OBVIOUS
  <2>4. [r EXCEPT !.text = v] = e
    <3> HIDE DEF v
    <3>1. PICK w : r = [string |-> TRUE, text |-> w]
      BY <2>1
    <3>2. [[string |-> TRUE, text |-> w] EXCEPT !.text = v] = [string |-> TRUE, text |-> v]
      BY <2>3
    <3> QED BY <3>1, <3>2, Zenon
  <2>5. LeafValue(r) = e
    BY <1>1, <2>4, Zenon DEF LeafValue
  <2>6. e.string = TRUE /\ e.text = v
    OBVIOUS
  <2>7. [e EXCEPT !.text = redact_in_text(e.text)] = e
    <3>1. redact_in_text(e.text) = v
      <4> HIDE DEF e, v
      <4> QED BY <2>2, <2>6, Zenon
    <3>2. [e EXCEPT !.text = v] = e
      BY <2>3, Zenon
    <3> HIDE DEF e, v
    <3> QED BY <3>1, <3>2, Zenon
  <2> HIDE DEF e, v
  <2>8. LeafValue(e) = e
    BY <2>6, <2>7, Zenon DEF LeafValue
  <2>9. IsLeaf(e)
    BY <2>2, <2>6 DEF IsLeaf, e
  <2> QED BY <1>1, <2>5, <2>6, <2>8, <2>9, Zenon DEF v
<1>2. CASE r.string = FALSE
  <2>1. LeafValue(r) = r
    BY <1>2, Zenon DEF LeafValue
  <2> QED BY <1>2, <2>1, Zenon
<1> QED BY <1>1, <1>2 DEF IsLeaf

\* A document has two leaves.
LEMMA DocLeaves ==
  \A d : IsDoc(d) <=> /\ DOMAIN d = {"message", "size"} /\ d = [k \in {"message", "size"} |-> d[k]]
                      /\ \A k \in {"message", "size"} : IsLeaf(d[k])
                      /\ d.message.string = TRUE
BY Zenon DEF IsDoc, IsLeaf

\* What redact_value makes of a document.
LEMMA ValueOf ==
  ASSUME NEW d, IsDoc(d)
  PROVE  LET e == redact_value(d)
         IN IsDoc(e) /\ e.message.text = redact_in_text(d.message.text) /\ redact_value(e) = e
<1> DEFINE D == {"message", "size"}
           e == [k \in D |-> LeafValue(d[k])]
<1>1. DOMAIN d = D /\ (\A k \in D : IsLeaf(d[k])) /\ d.message.string = TRUE
  BY DocLeaves
<1>2. \A c : redact_value(c) = [k \in DOMAIN c |-> LeafValue(c[k])]
  BY Zenon DEF redact_value, LeafValue
<1>3. redact_value(d) = e
  BY <1>1, <1>2
<1>4. DOMAIN e = D /\ \A k \in D : e[k] = LeafValue(d[k])
  OBVIOUS
<1>5. "message" \in D
  OBVIOUS
<1>6. \A k \in D : IsLeaf(e[k]) /\ LeafValue(e[k]) = e[k]
  <2> SUFFICES ASSUME NEW k \in D PROVE IsLeaf(e[k]) /\ LeafValue(e[k]) = e[k]
    OBVIOUS
  <2> HIDE DEF D, e
  <2>1. IsLeaf(d[k]) /\ e[k] = LeafValue(d[k])
    BY <1>1, <1>4
  <2> QED BY <2>1, LeafOf, Zenon
<1>7. e.message.string = TRUE /\ e.message.text = redact_in_text(d.message.text)
  <2>1. IsLeaf(d["message"]) /\ e["message"] = LeafValue(d["message"])
    BY <1>1, <1>4, <1>5
  <2> HIDE DEF D, e
  <2>2. /\ LeafValue(d["message"]).string = d["message"].string
        /\ d["message"].string = TRUE => LeafValue(d["message"]).text = redact_in_text(d["message"].text)
    BY <2>1, LeafOf
  <2> QED BY <1>1, <2>1, <2>2, Zenon
<1>8. e = [k \in D |-> e[k]]
  OBVIOUS
<1>9. redact_value(e) = e
  <2>1. redact_value(e) = [k \in D |-> LeafValue(e[k])]
    BY <1>2, <1>4
  <2>2. [k \in D |-> LeafValue(e[k])] = [k \in D |-> e[k]]
    <3> HIDE DEF e, D
    <3> QED BY <1>6
  <2> QED BY <1>8, <2>1, <2>2, Zenon
<1>10. IsDoc(e)
  <2> HIDE DEF e
  <2> QED BY <1>4, <1>6, <1>7, <1>8, DocLeaves
<1> QED BY <1>3, <1>7, <1>9, <1>10, Zenon

\* What redact_header_values makes of one.
LEMMA HeadersOf ==
  ASSUME NEW d, IsDoc(d)
  PROVE  IsDoc(redact_header_values(d)) /\ redact_header_values(d).message.text = REDACTED
<1> DEFINE D == {"message", "size"}
           e == [k \in D |-> [string |-> TRUE, text |-> REDACTED]]
<1>1. redact_header_values(d) = e
  BY DEF IsDoc, redact_header_values
<1>2. REDACTED \in Seq(Chars)
  <2>1. REDACTED \in Seq((Chars \ {"#"}) \ {"&"})
    BY CharsMark DEF Marks
  <2> DEFINE V == Chars \ {"#"}
  <2>2. REDACTED \in Seq(V)
    <3> HIDE DEF V
    <3>1. REDACTED \in Seq(V \ {"&"})
      BY <2>1 DEF V
    <3> QED BY <3>1, Narrow
  <2> QED BY <2>2, Narrow
<1>3. IsDoc(e) /\ e.message.text = REDACTED
  BY <1>2 DEF IsDoc
<1> QED BY <1>1, <1>3, Zenon

\* A document whose message has no `?` before its first separator.
DocOK(d) == IsDoc(d) /\ UrlFirst(d.message.text)

\* The message behind each helper.
HelperText(h, d, e) ==
  /\ h = "password" => e.message.text = redact_url_password(d.message.text)
  /\ h = "display" => e.message.text = redact_url_for_display(d.message.text)
  /\ h \in {"text", "value"} => e.message.text = redact_in_text(d.message.text)

\* Every helper writes such a document.
LEMMA HelperKeeps ==
  ASSUME NEW d, DocOK(d), NEW h, NEW e, Helper(h, d, e)
  PROVE  DocOK(e) /\ HelperText(h, d, e)
<1> DEFINE s == d.message.text
<1>1. IsDoc(d) /\ UrlFirst(s) /\ s \in Seq(Chars)
  BY DEF DocOK, IsDoc
<1>2. Marks(Chars) /\ Blank \in Chars
  BY CharsMark DEF Marks
<1>3. CASE h = "password" /\ e = [d EXCEPT !.message.text = redact_url_password(@)]
  <2> DEFINE v == redact_url_password(s)
  <2>1. v \in Seq(Chars) /\ UrlFirst(v)
    <3> HIDE DEF s
    <3> QED BY <1>1, <1>2, PasswordOf, UrlKept
  <2>2. e = [d EXCEPT !.message.text = v]
    BY <1>3, Zenon
  <2> HIDE DEF v
  <2>3. IsDoc(e) /\ e.message.text = v
    BY <1>1, <2>1, <2>2, MessageSet
  <2> QED BY <1>3, <2>1, <2>3 DEF v, DocOK, HelperText
<1>4. CASE h = "display" /\ e = [d EXCEPT !.message.text = redact_url_for_display(@)]
  <2> DEFINE v == redact_url_for_display(s)
  <2>1. v \in Seq(Chars) /\ UrlFirst(v)
    <3> HIDE DEF s
    <3> QED BY <1>1, <1>2, DisplayKeeps, UrlKept
  <2>2. e = [d EXCEPT !.message.text = v]
    BY <1>4, Zenon
  <2> HIDE DEF v
  <2>3. IsDoc(e) /\ e.message.text = v
    BY <1>1, <2>1, <2>2, MessageSet
  <2> QED BY <1>4, <2>1, <2>3 DEF v, DocOK, HelperText
<1>5. CASE h = "text" /\ e = [d EXCEPT !.message.text = redact_in_text(@)]
  <2> DEFINE v == redact_in_text(s)
  <2>1. v \in Seq(Chars) /\ UrlFirst(v)
    <3> HIDE DEF s
    <3> QED BY <1>1, <1>2, TextOf, UrlKept
  <2>2. e = [d EXCEPT !.message.text = v]
    BY <1>5, Zenon
  <2> HIDE DEF v
  <2>3. IsDoc(e) /\ e.message.text = v
    BY <1>1, <2>1, <2>2, MessageSet
  <2> QED BY <1>5, <2>1, <2>3 DEF v, DocOK, HelperText
<1>6. CASE h = "value" /\ e = redact_value(d)
  <2>1. IsDoc(e) /\ e.message.text = redact_in_text(s)
    BY <1>1, <1>6, ValueOf
  <2>2. UrlFirst(redact_in_text(s))
    <3> HIDE DEF s
    <3> QED BY <1>1, <1>2, TextOf, UrlKept
  <2> QED BY <1>6, <2>1, <2>2 DEF DocOK, HelperText
<1>7. CASE h = "headers" /\ e = redact_header_values(d)
  <2>1. IsDoc(e) /\ e.message.text = REDACTED
    BY <1>1, <1>7, HeadersOf
  <2>2. \A k \in 1..Len(REDACTED) : REDACTED[k] # "?"
    BY DEF REDACTED
  <2>3. UrlFirst(REDACTED)
    BY <2>2 DEF UrlFirst, SchemeFirst
  <2> QED BY <1>7, <2>1, <2>3 DEF DocOK, HelperText
<1> QED BY <1>3, <1>4, <1>5, <1>6, <1>7 DEF Helper

\* A second pass of a helper changes nothing.
LEMMA HelperRests ==
  ASSUME NEW d, DocOK(d), NEW h \in {"password", "display", "text", "value"},
         NEW e, Helper(h, d, e), NEW g, Helper(h, e, g)
  PROVE  g = e
<1> DEFINE s == d.message.text
           v == e.message.text
<1>1. DocOK(e) /\ HelperText(h, d, e)
  BY HelperKeeps
<1>2. IsDoc(d) /\ s \in Seq(Chars) /\ UrlFirst(s)
  BY DEF DocOK, IsDoc
<1>3. IsDoc(e) /\ v \in Seq(Chars)
  BY <1>1 DEF DocOK, IsDoc
<1>4. Marks(Chars) /\ Blank \in Chars
  BY CharsMark DEF Marks
<1>5. [e EXCEPT !.message.text = v] = e
  BY <1>3, MessageSet
<1> HIDE DEF s, v
<1>6. CASE h = "password"
  <2>1. v = redact_url_password(s)
    BY <1>1, <1>6 DEF HelperText, s, v
  <2>2. redact_url_password(v) = v
    BY <1>2, <1>3, <2>1, PasswordOf, PasswordRests
  <2>3. g = [e EXCEPT !.message.text = redact_url_password(@)]
    BY <1>6 DEF Helper
  <2> QED BY <1>5, <2>2, <2>3, Zenon DEF v
<1>7. CASE h = "display"
  <2>1. v = redact_url_for_display(s)
    BY <1>1, <1>7 DEF HelperText, s, v
  <2>2. redact_url_for_display(v) = v
    BY <1>2, <1>4, <2>1, UrlKept, DisplayKeeps
  <2>3. g = [e EXCEPT !.message.text = redact_url_for_display(@)]
    BY <1>7 DEF Helper
  <2> QED BY <1>5, <2>2, <2>3, Zenon DEF v
<1>8. CASE h = "text"
  <2>1. v = redact_in_text(s)
    BY <1>1, <1>8 DEF HelperText, s, v
  <2>2. redact_in_text(v) = v
    BY <1>2, <1>4, <2>1, TextOf
  <2>3. g = [e EXCEPT !.message.text = redact_in_text(@)]
    BY <1>8 DEF Helper
  <2> QED BY <1>5, <2>2, <2>3, Zenon DEF v
<1>9. CASE h = "value"
  <2>1. e = redact_value(d) /\ g = redact_value(e)
    BY <1>9 DEF Helper
  <2> QED BY <1>2, <2>1, ValueOf
<1> QED BY <1>6, <1>7, <1>8, <1>9

\* A URL has its scheme in front of its query: no string that is redacted has a `?`
\* before the first `://`.
SchemesComeFirst == \A s \in Texts : UrlFirst(s)

\* The five helpers.
RedactHelpers == {"password", "display", "text", "value", "headers"}

\* The inductive invariant: what a document is, it is by the helper it came through
\* last, and its message has no `?` before its first separator.
RedactInv ==
  /\ raw \in Texts /\ passes \in Seq(RedactHelpers) /\ DocOK(doc)
  /\ passes = <<>> => doc = Doc(raw)
  /\ passes = <<"password">> => Message0 = redact_url_password(raw)
  /\ \A h : Passed(h) => \E d : DocOK(d) /\ Helper(h, d, doc)

\* A document has two leaves, by name.
LEMMA TwoLeaves ==
  \A a, b : [message |-> a, size |-> b] = [k \in {"message", "size"} |-> IF k = "message" THEN a ELSE b]
OBVIOUS

\* It holds at the start.
LEMMA RedactInvInit == ASSUME SchemesComeFirst PROVE RedactInit => RedactInv
<1> SUFFICES ASSUME RedactInit PROVE RedactInv
  OBVIOUS
<1>1. raw \in Texts /\ doc = Doc(raw) /\ passes = <<>>
  BY DEF RedactInit
<1>2. raw \in Seq(Chars) /\ UrlFirst(raw)
  BY <1>1, TextsIn DEF SchemesComeFirst
<1>3. DocOK(Doc(raw))
  <2> DEFINE m == [string |-> TRUE, text |-> raw]
             z == [string |-> FALSE, text |-> <<"a">>]
             e == [k \in {"message", "size"} |-> IF k = "message" THEN m ELSE z]
  <2>1. Doc(raw) = e
    <3>1. Doc(raw) = [message |-> m, size |-> z]
      BY Zenon DEF Doc
    <3> HIDE DEF m, z
    <3>2. [message |-> m, size |-> z] = e
      BY TwoLeaves
    <3> HIDE DEF e
    <3> QED BY <3>1, <3>2
  <2>2. <<"a">> \in Seq(Chars)
    <3>1. "a" \in Chars
      BY Zenon DEF Chars
    <3> QED BY <3>1
  <2>3. IsDoc(e) /\ e.message.text = raw
    BY <1>2, <2>2 DEF IsDoc
  <2> QED BY <1>2, <2>1, <2>3, Zenon DEF DocOK
<1>4. passes \in Seq(RedactHelpers) /\ passes # <<"password">> /\ \A h : ~Passed(h)
  BY <1>1 DEF Passed
<1> QED BY <1>1, <1>3, <1>4 DEF RedactInv

\* A step is one helper's.
LEMMA RedactSteps ==
  RedactNext => \E h \in RedactHelpers : passes' = Append(passes, h) /\ Helper(h, doc, doc') /\ raw' = raw
<1>1. Password => passes' = Append(passes, "password") /\ Helper("password", doc, doc') /\ raw' = raw
  BY Zenon DEF Password, Pass, Message, Helper
<1>2. Display => passes' = Append(passes, "display") /\ Helper("display", doc, doc') /\ raw' = raw
  BY Zenon DEF Display, Pass, Message, Helper
<1>3. Text => passes' = Append(passes, "text") /\ Helper("text", doc, doc') /\ raw' = raw
  BY Zenon DEF Text, Pass, Message, Helper
<1>4. Value => passes' = Append(passes, "value") /\ Helper("value", doc, doc') /\ raw' = raw
  BY Zenon DEF Value, Pass, Helper
<1>5. Headers => passes' = Append(passes, "headers") /\ Helper("headers", doc, doc') /\ raw' = raw
  BY Zenon DEF Headers, Pass, Helper
<1> QED BY <1>1, <1>2, <1>3, <1>4, <1>5, Zenon DEF RedactNext, RedactHelpers

\* Behind it, that helper is the last one.
LEMMA RedactStep == RedactInv /\ [RedactNext]_redactVars => RedactInv'
<1> SUFFICES ASSUME RedactInv, [RedactNext]_redactVars PROVE RedactInv'
  OBVIOUS
<1>1. CASE UNCHANGED redactVars
  <2>1. raw' = raw /\ doc' = doc /\ passes' = passes
    BY <1>1 DEF redactVars
  <2> QED BY <2>1 DEF RedactInv, Passed, Message0
<1>2. CASE RedactNext
  <2>1. PICK h \in RedactHelpers : passes' = Append(passes, h) /\ Helper(h, doc, doc') /\ raw' = raw
    BY <1>2, RedactSteps
  <2>2. raw \in Texts /\ passes \in Seq(RedactHelpers) /\ DocOK(doc) /\ (passes = <<>> => doc = Doc(raw))
    BY DEF RedactInv
  <2>3. DocOK(doc') /\ HelperText(h, doc, doc')
    BY <2>1, <2>2, HelperKeeps
  <2>4. /\ passes' \in Seq(RedactHelpers) /\ Len(passes) \in Nat /\ Len(passes') = Len(passes) + 1
        /\ passes'[Len(passes) + 1] = h
    BY <2>1, <2>2, AppendOf
  <2>5. passes' # <<>> /\ \A g : Passed(g)' => g = h
    <3>1. passes' # <<>>
      BY <2>4
    <3>2. ASSUME NEW g, Passed(g)' PROVE g = h
      <4>1. passes'[Len(passes')] = g
        BY <3>2 DEF Passed
      <4> QED BY <2>4, <4>1
    <3> QED BY <3>1, <3>2
  <2>6. ASSUME passes' = <<"password">> PROVE Message0' = redact_url_password(raw')
    <3>1. Len(passes') = 1 /\ passes'[1] = "password"
      BY <2>6
    <3>2. Len(passes) = 0 /\ h = "password"
      <4>1. Len(passes) = 0 /\ Len(passes) + 1 = 1
        BY <2>4, <3>1
      <4> QED BY <2>4, <3>1, <4>1, Zenon
    <3>3. passes = <<>>
      BY <2>2, <3>2
    <3>4. doc = Doc(raw)
      BY <2>2, <3>3
    <3>5. doc.message.text = raw
      <4>1. Doc(raw).message.text = raw
        BY DEF Doc
      <4> QED BY <3>4, <4>1, Zenon
    <3>6. doc'.message.text = redact_url_password(doc.message.text)
      BY <2>3, <3>2 DEF HelperText
    <3> QED BY <2>1, <3>5, <3>6, Zenon DEF Message0
  <2>7. \A g : Passed(g)' => \E d : DocOK(d) /\ Helper(g, d, doc')
    BY <2>1, <2>2, <2>5, Zenon
  <2>8. raw' \in Texts
    BY <2>1, <2>2
  <2> QED BY <2>3, <2>4, <2>5, <2>6, <2>7, <2>8, Zenon DEF RedactInv
<1> QED BY <1>1, <1>2

\* Where the invariant holds, the three do.
LEMMA RedactedNow == RedactInv => NoUserinfoLeft /\ PathAndQueryKept /\ QueryValuesWithheld
<1> SUFFICES ASSUME RedactInv PROVE NoUserinfoLeft /\ PathAndQueryKept /\ QueryValuesWithheld
  OBVIOUS
<1> DEFINE t == Message0
<1>1. Marks(Chars) /\ Blank \in Chars
  BY CharsMark DEF Marks
<1>2. ASSUME NEW h, Passed(h)
      PROVE  \E s \in Seq(Chars) : /\ UrlFirst(s)
                                   /\ h = "password" => t = redact_url_password(s)
                                   /\ h = "display" => t = redact_url_for_display(s)
                                   /\ h \in {"text", "value"} => t = redact_in_text(s)
  <2>1. PICK d : DocOK(d) /\ Helper(h, d, doc)
    BY <1>2 DEF RedactInv
  <2>2. HelperText(h, d, doc)
    BY <2>1, HelperKeeps
  <2>3. d.message.text \in Seq(Chars) /\ UrlFirst(d.message.text)
    BY <2>1 DEF DocOK, IsDoc
  <2> QED BY <2>2, <2>3, Zenon DEF HelperText, Message0
<1> HIDE DEF t
<1>3. ASSUME Passed("password") PROVE ~HasUserinfo(t)
  <2>1. PICK s \in Seq(Chars) : t = redact_url_password(s)
    BY <1>2, <1>3
  <2> QED BY <2>1, PasswordOf
<1>4. ASSUME Passed("display") PROVE ~HasUserinfo(t) /\ Withheld0(t)
  <2>1. PICK s \in Seq(Chars) : UrlFirst(s) /\ t = redact_url_for_display(s)
    BY <1>2, <1>4
  <2> QED BY <1>1, <2>1, UrlKept, DisplayWithholds
<1>5. ASSUME NEW h \in {"text", "value"}, Passed(h) PROVE \A i \in DOMAIN words(t) : ~HasUserinfo(Core(words(t)[i]))
  <2>1. PICK s \in Seq(Chars) : t = redact_in_text(s)
    BY <1>2, <1>5
  <2> QED BY <1>1, <2>1, TextOf
<1>6. NoUserinfoLeft
  BY <1>3, <1>4, <1>5, Zenon DEF NoUserinfoLeft, Core, t
<1>7. QueryValuesWithheld
  BY <1>4, Zenon DEF QueryValuesWithheld, Withheld0, Query, t
<1>8. PathAndQueryKept
  <2> SUFFICES ASSUME passes = <<"password">>, find_separator(raw) # 0
               PROVE  IsSuffix(SubSeq(raw, authority_end(raw) + 1, Len(raw)), t)
    BY Zenon DEF PathAndQueryKept, t
  <2>1. t = redact_url_password(raw) /\ raw \in Texts
    BY DEF RedactInv, t
  <2>2. raw \in Seq(Chars)
    BY <2>1, TextsIn
  <2> QED BY <2>1, <2>2, RestKept
<1> QED BY <1>6, <1>7, <1>8

\* The helper that comes next is the one that came last: it changes nothing.
LEMMA RedactedRests ==
  RedactInv /\ [RedactNext]_redactVars =>
    [\A h \in {"password", "display", "text", "value"} :
       Passed(h) /\ passes' = Append(passes, h) => doc' = doc]_redactVars
<1> SUFFICES ASSUME RedactInv, RedactNext, NEW h \in {"password", "display", "text", "value"},
                    Passed(h), passes' = Append(passes, h)
             PROVE  doc' = doc
  BY Zenon
<1>1. PICK g \in RedactHelpers : passes' = Append(passes, g) /\ Helper(g, doc, doc')
  BY RedactSteps
<1>2. passes \in Seq(RedactHelpers) /\ h \in RedactHelpers
  BY DEF RedactInv, RedactHelpers
<1>3. Append(passes, g)[Len(passes) + 1] = g
  BY <1>1, <1>2, AppendOf
<1>4. Append(passes, h)[Len(passes) + 1] = h
  BY <1>2, AppendOf
<1>5. g = h
  BY <1>1, <1>3, <1>4
<1>6. PICK d : DocOK(d) /\ Helper(h, d, doc)
  BY DEF RedactInv
<1> QED BY <1>1, <1>5, <1>6, HelperRests

\* redact.rs: for strings of any length through any sequence of the helpers, as long
\* as a URL's scheme is in front of its query, no userinfo is left, the rest of a URL
\* and its query's names stay, its values do not, and a second pass changes nothing.
THEOREM RedactedExactlyAlways ==
  ASSUME SchemesComeFirst PROVE RedactSpec => RedactedExactly
<1>1. RedactInit => RedactInv
  BY RedactInvInit
<1> QED BY <1>1, RedactStep, RedactedNow, RedactedRests, PTL DEF RedactSpec, RedactedExactly, Idempotent

(***************************************************************************)
(* The composed run: one component is followed, the others stand.          *)
(***************************************************************************)

\* The followed component keeps its invariant; strings and caches keep theirs always.
ValueInv ==
  /\ LayersTypeOK /\ IssueInv
  /\ IF focus = "catalog" THEN CatalogInv ELSE CatalogStands
  /\ IF focus = "schema" THEN SchemaTypeOK /\ MergeIsExact ELSE SchemaStands
  /\ IF focus = "walk" THEN WalkInv ELSE WalkStands

\* It holds at the start.
LEMMA ValueInvInit == ValueInit => ValueInv
BY LayersTypeInit, IssueInvInit, CatalogInvInit, SchemaInvInit, WalkInvInit DEF ValueInit, ValueInv

\* Who stands stands on.
LEMMA ValuesStandOn ==
  /\ CatalogStands /\ UNCHANGED catalogVars => CatalogStands'
  /\ SchemaStands /\ UNCHANGED schemaVars => SchemaStands'
  /\ WalkStands /\ UNCHANGED walkVars => WalkStands'
<1>1. CatalogStands /\ UNCHANGED catalogVars => CatalogStands'
  BY DEF CatalogStands, catalogVars
<1>2. SchemaStands /\ UNCHANGED schemaVars => SchemaStands'
  BY DEF SchemaStands, schemaVars
<1>3. WalkStands /\ UNCHANGED walkVars => WalkStands'
  BY DEF WalkStands, walkVars
<1> QED BY <1>1, <1>2, <1>3

\* One component takes a step and the others none.
LEMMA ValueStep == ValueInv /\ [ValueNext]_valueVars => ValueInv'
<1> SUFFICES ASSUME ValueInv, [ValueNext]_valueVars PROVE ValueInv'
  OBVIOUS
<1>1. focus' = focus
  BY DEF ValueNext, valueVars
<1>2. /\ [LayersNext]_layerVars /\ [IssueNext]_issueVars
      /\ IF focus = "catalog" THEN [CatalogNext]_catalogVars ELSE UNCHANGED catalogVars
      /\ IF focus = "schema" THEN [SchemaNext]_schemaVars ELSE UNCHANGED schemaVars
      /\ IF focus = "walk" THEN [WalkNext]_walkVars ELSE UNCHANGED walkVars
  BY DEF ValueNext, valueVars
<1>3. LayersTypeOK' /\ IssueInv'
  BY <1>2, LayersTypeStep, IssueStep DEF ValueInv
<1>4. IF focus = "catalog" THEN CatalogInv' ELSE CatalogStands'
  BY <1>2, CatalogStep, ValuesStandOn DEF ValueInv
<1>5. IF focus = "schema" THEN (SchemaTypeOK /\ MergeIsExact)' ELSE SchemaStands'
  BY <1>2, SchemaStep, ValuesStandOn DEF ValueInv
<1>6. IF focus = "walk" THEN WalkInv' ELSE WalkStands'
  BY <1>2, WalkStep, ValuesStandOn DEF ValueInv
<1> QED BY <1>1, <1>3, <1>4, <1>5, <1>6 DEF ValueInv

\* Where a component stands is of its type.
LEMMA StandingIsTyped ==
  /\ CatalogStands => CatalogTypeOK
  /\ SchemaStands => SchemaTypeOK
  /\ WalkStands => WalkTypeOK
<1>1. CatalogStands => CatalogTypeOK
  <2> SUFFICES ASSUME CatalogStands PROVE CatalogTypeOK
    OBVIOUS
  <2>1. chain \in Chains
    BY StandingChain DEF CatalogStands
  <2>2. chain \in Seq(Providers)
    BY <2>1, ChainsAreProviders
  <2>3. 0 \in 0..Len(chain)
    BY <2>2
  <2>4. DOMAIN list = {} /\ DOMAIN shown = {} /\ at = 0 /\ caller = Unset
    BY DEF CatalogStands
  <2> QED BY <2>1, <2>3, <2>4 DEF CatalogTypeOK
<1>2. SchemaStands => SchemaTypeOK
  <2>1. Object(<<>>) \in Schemas
    BY EmptyIsSchema
  <2> QED BY <2>1 DEF SchemaStands, SchemaTypeOK
<1>3. WalkStands => WalkTypeOK
  <2> SUFFICES ASSUME WalkStands, NEW b \in Builds
               PROVE  /\ seen[b] \subseteq Types /\ todo[b] \in Seq(Types)
                      /\ Len(todo[b]) <= 1 + Cardinality(Types) * Cardinality(Types)
    BY DEF WalkTypeOK
  <2>1. seen[b] = {Root} /\ todo[b] = <<>>
    BY DEF WalkStands
  <2>2. Cardinality(Types) \in Nat
    BY RootIsType, FS_CardinalityType
  <2>3. Cardinality(Types) * Cardinality(Types) \in Nat
    BY <2>2, Products
  <2> HIDE DEF WalkStands
  <2>4. PICK n \in Nat : n = Cardinality(Types) * Cardinality(Types)
    BY <2>3
  <2>5. Len(todo[b]) = 0 /\ todo[b] \in Seq(Types)
    BY <2>1
  <2> QED BY <2>1, <2>4, <2>5, RootIsType
<1> QED BY <1>1, <1>2, <1>3

\* MCValues: in the composed run's specification, for all its constants, every
\* component's state keeps its type, whichever is followed.
THEOREM ValuesTypeCorrect == ValueSpec => []ValuesTypeOK
<1>1. ValueInv => ValuesTypeOK
  <2> SUFFICES ASSUME ValueInv PROVE ValuesTypeOK
    OBVIOUS
  <2>1. LayersTypeOK /\ IssueTypeOK
    BY IssueTypes DEF ValueInv
  <2>2. CatalogTypeOK
    BY StandingIsTyped DEF ValueInv, CatalogInv
  <2>3. SchemaTypeOK /\ WalkTypeOK
    BY StandingIsTyped, WalkTypes DEF ValueInv
  <2> QED BY <2>1, <2>2, <2>3 DEF ValuesTypeOK
<1> QED BY <1>1, ValueInvInit, ValueStep, PTL DEF ValueSpec

=============================================================================
