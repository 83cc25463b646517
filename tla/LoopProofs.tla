----------------------------- MODULE LoopProofs -----------------------------
(***************************************************************************)
(* Lemmas about loops: a function defined by recursion on the turns of a   *)
(* loop exists and has the type of the loop's state.                       *)
(***************************************************************************)
EXTENDS Lists, WellFoundedInduction, NaturalsInduction, TLAPS

\* Induction over the numbers, said of a set: a set that has 0 and every successor
\* of its members has every number.
LEMMA Induction ==
  ASSUME NEW S \in SUBSET Nat, 0 \in S, \A n \in S : n + 1 \in S
  PROVE  S = Nat
<1> SUFFICES ASSUME Nat \ S # {} PROVE FALSE
  OBVIOUS
<1>1. PICK x \in Nat \ S : \A y \in Nat \ S : ~(<<y, x>> \in OpToRel(<, Nat))
  BY NatLessThanWellFounded, WFMin
<1>2. \A y \in Nat \ S : ~(y < x)
  BY <1>1 DEF OpToRel
<1>3. x \in Nat /\ x # 0
  BY <1>1
<1>4. x - 1 \in Nat /\ x - 1 < x /\ x = (x - 1) + 1
  BY <1>3
<1>5. x - 1 \in S
  BY <1>2, <1>4
<1> QED BY <1>1, <1>4, <1>5

\* What a turn of a loop of L turns makes of a value of V.
Turns(V, L) == [V \X (1..L) -> V]
\* f has the values such a loop goes through, from v on.
Follows(f, V, v, L, turn) ==
  f \in [0..L -> V] /\ f[0] = v /\ \A n \in 1..L : f[n] = turn[<<f[n - 1], n>>]

\* Every such loop goes through some values: a function defined by recursion
\* on its turns exists.
LEMMA Recursion ==
  ASSUME NEW V, NEW v \in V, NEW L \in Nat, NEW turn \in Turns(V, L)
  PROVE  \E f : Follows(f, V, v, L, turn)
<1>0. turn \in [V \X (1..L) -> V]
  BY DEF Turns
<1> DEFINE Upto(n) == \E f \in [0..n -> V] : f[0] = v /\ \A i \in 1..n : f[i] = turn[<<f[i - 1], i>>]
           S == {n \in Nat : n <= L => Upto(n)}
<1>1. Upto(0)
  <2> DEFINE g == [i \in 0..0 |-> v]
  <2>1. g \in [0..0 -> V] /\ g[0] = v
    OBVIOUS
  <2>2. \A i \in 1..0 : FALSE
    OBVIOUS
  <2> HIDE DEF g
  <2> QED BY <2>1, <2>2
<1>2. ASSUME NEW n \in Nat, n + 1 <= L, Upto(n) PROVE Upto(n + 1)
  <2>1. PICK f \in [0..n -> V] : f[0] = v /\ \A i \in 1..n : f[i] = turn[<<f[i - 1], i>>]
    BY <1>2
  <2> DEFINE g == [i \in 0..(n + 1) |-> IF i = n + 1 THEN turn[<<f[n], n + 1>>] ELSE f[i]]
  <2>2. f[n] \in V /\ n + 1 \in 1..L
    BY <1>2
  <2>3. turn[<<f[n], n + 1>>] \in V
    BY <1>0, <2>2
  <2>4. g \in [0..(n + 1) -> V]
    BY <2>3
  <2>5. g[0] = v /\ g[n + 1] = turn[<<g[n], n + 1>>]
    <3>1. 0 \in 0..(n + 1) /\ n \in 0..(n + 1) /\ n + 1 \in 0..(n + 1) /\ 0 # n + 1 /\ n # n + 1
      OBVIOUS
    <3>2. g[0] = f[0] /\ g[n] = f[n] /\ g[n + 1] = turn[<<f[n], n + 1>>]
      BY <3>1
    <3> HIDE DEF g
    <3> QED BY <2>1, <3>2
  <2>6. ASSUME NEW i \in 1..n PROVE g[i] = turn[<<g[i - 1], i>>]
    <3>1. i \in 0..(n + 1) /\ i - 1 \in 0..(n + 1) /\ i # n + 1 /\ i - 1 # n + 1
      OBVIOUS
    <3>2. g[i] = f[i] /\ g[i - 1] = f[i - 1]
      BY <3>1
    <3> HIDE DEF g
    <3> QED BY <2>1, <3>2
  <2> HIDE DEF g
  <2>7. \A i \in 1..(n + 1) : i \in 1..n \/ i = n + 1
    OBVIOUS
  <2>8. n + 1 - 1 = n
    OBVIOUS
  <2>9. \A i \in 1..(n + 1) : g[i] = turn[<<g[i - 1], i>>]
    BY <2>5, <2>6, <2>7, <2>8
  <2>10. g[0] = v
    BY <2>5
  <2> QED BY <2>4, <2>9, <2>10
<1>3. S = Nat
  <2>1. 0 \in S
    BY <1>1
  <2>2. \A n \in S : n + 1 \in S
    <3> HIDE DEF Upto
    <3> QED BY <1>2
  <2> HIDE DEF S
  <2>3. S \in SUBSET Nat
    BY DEF S
  <2> QED BY <2>1, <2>2, <2>3, Induction
<1> HIDE DEF Upto
<1>4. Upto(L)
  BY <1>3
<1> QED BY <1>4 DEF Upto, Follows

\* f is the loop of Within, item by item.
Filters(f, s, S) ==
  /\ f \in [0..Len(s) -> Seq(S)] /\ f[0] = <<>>
  /\ \A n \in 1..Len(s) : f[n] = IF s[n] \in S THEN Append(f[n - 1], s[n]) ELSE f[n - 1]

\* The loop of Within runs to the end of the list.
LEMMA WithinLoop ==
  ASSUME NEW s, Len(s) \in Nat, NEW S
  PROVE  \E f : Filters(f, s, S) /\ Within(s, S) = f[Len(s)]
<1> DEFINE L == Len(s)
           kept(v, n) == IF s[n] \in S THEN Append(v, s[n]) ELSE v
           turn == [q \in Seq(S) \X (1..L) |-> kept(q[1], q[2])]
           Is(f) == f = [n \in 0..L |-> IF n = 0 THEN <<>> ELSE kept(f[n - 1], n)]
           a == CHOOSE f : Is(f)
<1>1. Within(s, S) = a[L]
  BY DEF Within
<1>2. \A v \in Seq(S), n \in 1..L : kept(v, n) \in Seq(S)
  OBVIOUS
<1> HIDE DEF kept
<1>3. turn \in Turns(Seq(S), L)
  BY <1>2 DEF Turns
<1>4. \A v \in Seq(S), n \in 1..L : turn[<<v, n>>] = kept(v, n)
  OBVIOUS
<1> HIDE DEF turn
<1>5. <<>> \in Seq(S)
  OBVIOUS
<1>6. PICK f : Follows(f, Seq(S), <<>>, L, turn)
  BY <1>3, <1>5, Recursion
<1>7. /\ f \in [0..L -> Seq(S)] /\ f[0] = <<>>
      /\ \A n \in 1..L : f[n] = kept(f[n - 1], n)
  <2>1. \A n \in 1..L : n - 1 \in 0..L
    OBVIOUS
  <2> QED BY <1>4, <1>6, <2>1 DEF Follows
<1>8. Is(f)
  <2>1. \A n \in 0..L : n = 0 \/ n \in 1..L
    OBVIOUS
  <2> QED BY <1>7, <2>1
<1>9. Is(a)
  <2> HIDE DEF Is
  <2> QED BY <1>8
<1> HIDE DEF a
<1>10. DOMAIN a = 0..L /\ a[0] = <<>> /\ \A n \in 1..L : a[n] = kept(a[n - 1], n)
  <2>1. a = [n \in 0..L |-> a[n]]
    BY <1>9
  <2>2. \A n \in 1..L : n \in 0..L /\ n # 0
    OBVIOUS
  <2>3. 0 \in 0..L
    OBVIOUS
  <2> QED BY <1>9, <2>1, <2>2, <2>3
<1> HIDE DEF Is
<1> DEFINE C == {n \in Nat : n <= L => a[n] \in Seq(S)}
<1>11. C = Nat
  <2>1. 0 \in C
    BY <1>5, <1>10
  <2>2. ASSUME NEW n \in C PROVE n + 1 \in C
    <3> SUFFICES ASSUME n + 1 <= L PROVE a[n + 1] \in Seq(S)
      BY <2>2
    <3>1. n \in Nat /\ n + 1 \in 1..L /\ n + 1 - 1 = n /\ a[n] \in Seq(S)
      BY <2>2
    <3>2. a[n + 1] = kept(a[n], n + 1)
      BY <1>10, <3>1
    <3> QED BY <1>2, <3>1, <3>2
  <2>3. C \in SUBSET Nat
    OBVIOUS
  <2> HIDE DEF C
  <2> QED BY <2>1, <2>2, <2>3, Induction
<1>12. a \in [0..L -> Seq(S)]
  <2>1. \A n \in 0..L : a[n] \in Seq(S)
    BY <1>11
  <2>2. a = [n \in 0..L |-> a[n]]
    BY <1>9 DEF Is
  <2> QED BY <2>1, <2>2
<1>13. Filters(a, s, S)
  BY <1>10, <1>12 DEF Filters, kept
<1> QED BY <1>1, <1>13

\* A filtered list holds what passed the filter.
LEMMA WithinIs ==
  ASSUME NEW s, Len(s) \in Nat, NEW S
  PROVE  Within(s, S) \in Seq(S)
<1>1. PICK f : Filters(f, s, S) /\ Within(s, S) = f[Len(s)]
  BY WithinLoop
<1> QED BY <1>1 DEF Filters

=============================================================================
