----------------------------- MODULE TextProofs -----------------------------
(***************************************************************************)
(* Proofs about credential tokens in a config string (CredText,            *)
(* CredLayers): scanning a string for tokens and substituting in it, for   *)
(* every string.                                                           *)
(*                                                                         *)
(* Each loop of the code is a function of its turns (LoopProofs).  How     *)
(* deep in braces and in which mode a scan is (Nesting) says where blocks  *)
(* end (Block); a string is read block by block (Walk); what is written    *)
(* follows the reading turn by turn (Writes), and the written text is read *)
(* at the same turns (TurnsMatch).                                         *)
(***************************************************************************)
EXTENDS CredLayers, LoopProofs, FiniteSetTheorems, TLAPS

(* ------------------------------ Sequences ------------------------------- *)

\* Concatenation, as one thing.
Then(s, t) == s \o t

\* Concatenation is associative.
LEMMA Associative == \A S : \A s, t, u \in Seq(S) : Then(Then(s, t), u) = Then(s, Then(t, u))
BY DEF Then

\* It stays within the alphabet.
LEMMA Concat == \A S : \A s, t \in Seq(S) : Then(s, t) \in Seq(S)
BY DEF Then

\* Nothing before or after a sequence is the sequence.
LEMMA ConcatEmpty == \A S : \A s \in Seq(S) : Then(<<>>, s) = s /\ Then(s, <<>>) = s
BY DEF Then

\* The items of a concatenation.
LEMMA ConcatOf ==
  \A S : \A s, t \in Seq(S) :
    /\ Len(s) \in Nat /\ Len(t) \in Nat /\ Len(s \o t) = Len(s) + Len(t)
    /\ \A i \in 1..Len(s) : (s \o t)[i] = s[i]
    /\ \A i \in 1..Len(t) : (s \o t)[Len(s) + i] = t[i]
OBVIOUS

\* Sequences of one length with the same items are one.
LEMMA SeqsEqual ==
  \A S : \A s, t \in Seq(S) : Len(s) = Len(t) /\ (\A i \in 1..Len(s) : s[i] = t[i]) => s = t
OBVIOUS

\* An item of a sequence over S is in S.
LEMMA ItemIn == ASSUME NEW S, NEW s \in Seq(S), NEW i \in DOMAIN s PROVE s[i] \in S
OBVIOUS

(* ------------ Nesting: how deep and in which mode a scan is ------------ *)

\* A finite set of numbers that is not empty has a least and a greatest one.
LEMMA Extremes ==
  ASSUME NEW n \in Nat, NEW I \in SUBSET (1..n), I # {}
  PROVE  /\ \E i \in I : \A j \in I : i <= j
         /\ \E i \in I : \A j \in I : i >= j
<1> DEFINE Least(m) == \A J \in SUBSET (1..m) : J # {} => \E i \in J : \A j \in J : i <= j
           Greatest(m) == \A J \in SUBSET (1..m) : J # {} => \E i \in J : \A j \in J : i >= j
           T == {m \in Nat : Least(m) /\ Greatest(m)}
<1>1. 0 \in T
  <2>1. \A J \in SUBSET (1..0) : J = {}
    OBVIOUS
  <2> QED BY <2>1
<1>2. ASSUME NEW m \in T PROVE m + 1 \in T
  <2>0. m \in Nat /\ Least(m) /\ Greatest(m)
    BY <1>2
  <2>1. ASSUME NEW J \in SUBSET (1..(m + 1)), J # {} PROVE \E i \in J : \A j \in J : i <= j
    <3>1. CASE J \ {m + 1} = {}
      <4>1. J = {m + 1}
        BY <2>1, <3>1
      <4> QED BY <2>0, <4>1
    <3>2. CASE J \ {m + 1} # {}
      <4>1. J \ {m + 1} \in SUBSET (1..m)
        BY <2>0, <2>1
      <4>2. PICK i \in J \ {m + 1} : \A j \in J \ {m + 1} : i <= j
        BY <2>0, <3>2, <4>1
      <4>3. \A j \in J : i <= j
        BY <2>0, <2>1, <4>1, <4>2
      <4> QED BY <4>3
    <3> QED BY <3>1, <3>2
  <2>2. ASSUME NEW J \in SUBSET (1..(m + 1)), J # {} PROVE \E i \in J : \A j \in J : i >= j
    <3>1. CASE m + 1 \in J
      <4>1. \A j \in J : m + 1 >= j
        BY <2>0, <2>2
      <4> QED BY <3>1, <4>1
    <3>2. CASE m + 1 \notin J
      <4>1. J \in SUBSET (1..m)
        BY <2>0, <2>2, <3>2
      <4> QED BY <2>0, <2>2, <4>1
    <3> QED BY <3>1, <3>2
  <2> HIDE DEF Least, Greatest
  <2>3. Least(m + 1) /\ Greatest(m + 1)
    BY <2>1, <2>2 DEF Least, Greatest
  <2> QED BY <2>0, <2>3
<1>3. T = Nat
  <2>1. T \in SUBSET Nat
    OBVIOUS
  <2> HIDE DEF T
  <2> QED BY <1>1, <1>2, <2>1, Induction
<1>4. Least(n) /\ Greatest(n)
  <2> HIDE DEF Least, Greatest
  <2> QED BY <1>3
<1> QED BY <1>4

\* The symbols the scan is about, by name.
Opener == "{"
Closer == "}"
Quote == "\""
Escape == "\\"
Dollar == "$"
Blank == " "

\* They are different symbols.
LEMMA SymbolsDiffer ==
  /\ Opener # Closer /\ Opener # Quote /\ Opener # Escape /\ Opener # Dollar
  /\ Closer # Quote /\ Closer # Escape /\ Closer # Dollar
  /\ Quote # Escape /\ Quote # Dollar /\ Escape # Dollar
  /\ Blank \notin {Opener, Closer, Quote, Escape, Dollar}
BY DEF Opener, Closer, Quote, Escape, Dollar, Blank

\* A turn of find_matching_brace's loop, in its two parts.
Modes == {"code", "string", "escaped"}
next_mode(m, c) ==
  IF m = "code" THEN (IF c = Quote THEN "string" ELSE "code")
  ELSE IF m = "string" THEN (IF c = Escape THEN "escaped" ELSE IF c = Quote THEN "code" ELSE "string")
  ELSE "string"
next_depth(d, m, c) ==
  IF m = "code" /\ c = Opener THEN d + 1 ELSE IF m = "code" /\ c = Closer THEN d - 1 ELSE d

\* m and d say in which mode and how deep the scan of s from x on is behind each
\* position, from x - 1 on.
Nesting(m, d, s, x) ==
  /\ m \in [(x - 1)..Len(s) -> Modes] /\ d \in [(x - 1)..Len(s) -> Int]
  /\ \A i \in x..Len(s) : m[i] = next_mode(m[i - 1], s[i]) /\ d[i] = next_depth(d[i - 1], m[i - 1], s[i])

\* They keep their types.
LEMMA NextIn ==
  /\ \A m \in Modes : \A c : next_mode(m, c) \in Modes
  /\ \A d \in Int : \A m, c : next_depth(d, m, c) \in Int
BY DEF Modes, next_mode, next_depth

\* Every string has its nesting from each position on.
LEMMA NestingExists ==
  ASSUME NEW s, Len(s) \in Nat, NEW x \in 1..(Len(s) + 1)
  PROVE  \E m, d : Nesting(m, d, s, x) /\ m[x - 1] = "code" /\ d[x - 1] = 1
<1> DEFINE L == Len(s) + 1 - x
           V == Modes \X Int
           turn == [p \in V \X (1..L) |->
                      <<next_mode(p[1][1], s[x + p[2] - 1]),
                        next_depth(p[1][2], p[1][1], s[x + p[2] - 1])>>]
<1>1. L \in Nat /\ <<"code", 1>> \in V
  BY DEF Modes
<1>2. turn \in Turns(V, L)
  <2>1. \A p \in V \X (1..L) : p[1][1] \in Modes /\ p[1][2] \in Int
    OBVIOUS
  <2> QED BY <2>1, NextIn DEF Turns
<1> HIDE DEF turn, V
<1>3. PICK f : Follows(f, V, <<"code", 1>>, L, turn)
  BY <1>1, <1>2, Recursion
<1>4. /\ f \in [0..L -> V] /\ f[0] = <<"code", 1>>
      /\ \A n \in 1..L : f[n] = turn[<<f[n - 1], n>>]
  BY <1>3 DEF Follows
<1>5. \A n \in 0..L : f[n] \in V /\ f[n][1] \in Modes /\ f[n][2] \in Int
  BY <1>4 DEF V
<1> DEFINE m == [i \in (x - 1)..Len(s) |-> f[i - (x - 1)][1]]
           d == [i \in (x - 1)..Len(s) |-> f[i - (x - 1)][2]]
<1>6. \A i \in (x - 1)..Len(s) : i - (x - 1) \in 0..L
  OBVIOUS
<1>7. m \in [(x - 1)..Len(s) -> Modes] /\ d \in [(x - 1)..Len(s) -> Int]
  BY <1>5, <1>6
<1>8. ASSUME NEW i \in x..Len(s)
      PROVE  m[i] = next_mode(m[i - 1], s[i]) /\ d[i] = next_depth(d[i - 1], m[i - 1], s[i])
  <2> DEFINE n == i - (x - 1)
  <2>1. n \in 1..L /\ n - 1 \in 0..L /\ i \in (x - 1)..Len(s) /\ i - 1 \in (x - 1)..Len(s)
        /\ x + n - 1 = i /\ (i - 1) - (x - 1) = n - 1
    OBVIOUS
  <2>2. f[n] = turn[<<f[n - 1], n>>] /\ <<f[n - 1], n>> \in V \X (1..L)
    BY <1>4, <1>5, <2>1
  <2>3. f[n] = <<next_mode(f[n - 1][1], s[i]), next_depth(f[n - 1][2], f[n - 1][1], s[i])>>
    BY <2>1, <2>2 DEF turn
  <2>4. m[i] = f[n][1] /\ d[i] = f[n][2] /\ m[i - 1] = f[n - 1][1] /\ d[i - 1] = f[n - 1][2]
    BY <2>1
  <2> HIDE DEF m, d, n
  <2> QED BY <2>3, <2>4
<1>9. m[x - 1] = "code" /\ d[x - 1] = 1
  <2>1. x - 1 \in (x - 1)..Len(s) /\ (x - 1) - (x - 1) = 0
    OBVIOUS
  <2>2. m[x - 1] = f[0][1] /\ d[x - 1] = f[0][2]
    BY <2>1
  <2> HIDE DEF m, d
  <2> QED BY <1>4, <2>2
<1> HIDE DEF m, d
<1>10. Nesting(m, d, s, x)
  BY <1>7, <1>8 DEF Nesting
<1> QED BY <1>9, <1>10

\* What the loop carries, and what it starts with.
BraceStates == [depth : Int, mode : Modes, end : Nat]
Start == [depth |-> 1, mode |-> "code", end |-> 0]

\* A turn follows the nesting until the block is closed, and then rests.
LEMMA BraceTurnOf ==
  ASSUME NEW q \in BraceStates, NEW c, NEW i \in Nat
  PROVE  /\ brace_turn(q, c, i) \in BraceStates
         /\ q.end # 0 => brace_turn(q, c, i) = q
         /\ q.end = 0 => /\ brace_turn(q, c, i).mode = next_mode(q.mode, c)
                         /\ brace_turn(q, c, i).depth = next_depth(q.depth, q.mode, c)
                         /\ brace_turn(q, c, i).end
                              = IF q.mode = "code" /\ c = Closer /\ q.depth = 1 THEN i ELSE 0
<1> DEFINE r == brace_turn(q, c, i)
<1>0. q.depth \in Int /\ q.mode \in Modes /\ q.end \in Nat
  BY DEF BraceStates
<1>1. CASE q.end # 0
  BY <1>1 DEF brace_turn, Opener, Closer, Quote, Escape
<1>2. CASE q.end = 0
  <2>1. CASE q.mode = "code" /\ c = Opener
    <3>1. r = [q EXCEPT !.depth = @ + 1]
      BY <1>2, <2>1 DEF brace_turn, Opener, Closer, Quote, Escape
    <3> HIDE DEF r
    <3>2. r = [depth |-> q.depth + 1, mode |-> q.mode, end |-> 0]
      BY <1>2, <3>1 DEF BraceStates
    <3>3. next_mode(q.mode, c) = q.mode /\ next_depth(q.depth, q.mode, c) = q.depth + 1
      BY <2>1 DEF next_mode, next_depth, Opener, Closer, Quote, Escape
    <3>4. r \in BraceStates
      BY <1>0, <3>2 DEF BraceStates, Modes
    <3>5. r.mode = q.mode /\ r.depth = q.depth + 1 /\ r.end = 0
      BY <3>2
    <3>6. ~(q.mode = "code" /\ c = Closer /\ q.depth = 1)
      BY <2>1, SymbolsDiffer
    <3> QED BY <1>2, <2>1, <3>3, <3>4, <3>5, <3>6 DEF r
  <2>2. CASE q.mode = "code" /\ c = Closer
    <3>1. r = [q EXCEPT !.depth = @ - 1, !.end = IF q.depth = 1 THEN i ELSE 0]
      BY <1>2, <2>2 DEF brace_turn, Opener, Closer, Quote, Escape
    <3> HIDE DEF r
    <3>2. r = [depth |-> q.depth - 1, mode |-> q.mode, end |-> IF q.depth = 1 THEN i ELSE 0]
      BY <1>2, <3>1 DEF BraceStates
    <3>3. next_mode(q.mode, c) = q.mode /\ next_depth(q.depth, q.mode, c) = q.depth - 1
      BY <2>2 DEF next_mode, next_depth, Opener, Closer, Quote, Escape
    <3>4. r \in BraceStates
      BY <1>0, <3>2 DEF BraceStates, Modes
    <3>5. r.mode = q.mode /\ r.depth = q.depth - 1 /\ r.end = IF q.depth = 1 THEN i ELSE 0
      BY <3>2
    <3> QED BY <1>2, <2>2, <3>3, <3>4, <3>5 DEF r
  <2>3. CASE q.mode = "code" /\ c = Quote
    <3>1. r = [q EXCEPT !.mode = "string"]
      BY <1>2, <2>3 DEF brace_turn, Opener, Closer, Quote, Escape
    <3> HIDE DEF r
    <3>2. r = [depth |-> q.depth, mode |-> "string", end |-> 0]
      BY <1>2, <3>1 DEF BraceStates
    <3>3. next_mode(q.mode, c) = "string" /\ next_depth(q.depth, q.mode, c) = q.depth
      BY <2>3 DEF next_mode, next_depth, Opener, Closer, Quote, Escape
    <3>4. r \in BraceStates
      BY <1>0, <3>2 DEF BraceStates, Modes
    <3>5. r.mode = "string" /\ r.depth = q.depth /\ r.end = 0
      BY <3>2
    <3>6. ~(q.mode = "code" /\ c = Closer /\ q.depth = 1)
      BY <2>3, SymbolsDiffer
    <3> QED BY <1>2, <2>3, <3>3, <3>4, <3>5, <3>6 DEF r
  <2>4. CASE q.mode = "code" /\ c \notin {Opener, Closer, Quote}
    <3>1. r = q
      BY <1>2, <2>4 DEF brace_turn, Opener, Closer, Quote, Escape
    <3> HIDE DEF r
    <3>2. r = [depth |-> q.depth, mode |-> q.mode, end |-> 0]
      BY <1>2, <3>1 DEF BraceStates
    <3>3. next_mode(q.mode, c) = q.mode /\ next_depth(q.depth, q.mode, c) = q.depth
      BY <2>4 DEF next_mode, next_depth, Opener, Closer, Quote, Escape
    <3>4. r \in BraceStates
      BY <1>0, <3>2 DEF BraceStates, Modes
    <3>5. r.mode = q.mode /\ r.depth = q.depth /\ r.end = 0
      BY <3>2
    <3> QED BY <1>2, <2>4, <3>3, <3>4, <3>5 DEF r
  <2>5. CASE q.mode = "string" /\ c = Quote
    <3>1. r = [q EXCEPT !.mode = "code"]
      BY <1>2, <2>5 DEF brace_turn, Opener, Closer, Quote, Escape
    <3> HIDE DEF r
    <3>2. r = [depth |-> q.depth, mode |-> "code", end |-> 0]
      BY <1>2, <3>1 DEF BraceStates
    <3>3. next_mode(q.mode, c) = "code" /\ next_depth(q.depth, q.mode, c) = q.depth
      BY <2>5 DEF next_mode, next_depth, Opener, Closer, Quote, Escape
    <3>4. r \in BraceStates
      BY <1>0, <3>2 DEF BraceStates, Modes
    <3>5. r.mode = "code" /\ r.depth = q.depth /\ r.end = 0
      BY <3>2
    <3> QED BY <1>2, <2>5, <3>3, <3>4, <3>5 DEF r
  <2>6. CASE q.mode = "string" /\ c = Escape
    <3>1. r = [q EXCEPT !.mode = "escaped"]
      BY <1>2, <2>6 DEF brace_turn, Opener, Closer, Quote, Escape
    <3> HIDE DEF r
    <3>2. r = [depth |-> q.depth, mode |-> "escaped", end |-> 0]
      BY <1>2, <3>1 DEF BraceStates
    <3>3. next_mode(q.mode, c) = "escaped" /\ next_depth(q.depth, q.mode, c) = q.depth
      BY <2>6 DEF next_mode, next_depth, Opener, Closer, Quote, Escape
    <3>4. r \in BraceStates
      BY <1>0, <3>2 DEF BraceStates, Modes
    <3>5. r.mode = "escaped" /\ r.depth = q.depth /\ r.end = 0
      BY <3>2
    <3> QED BY <1>2, <2>6, <3>3, <3>4, <3>5 DEF r
  <2>7. CASE q.mode = "string" /\ c \notin {Escape, Quote}
    <3>1. r = q
      BY <1>2, <2>7 DEF brace_turn, Opener, Closer, Quote, Escape
    <3> HIDE DEF r
    <3>2. r = [depth |-> q.depth, mode |-> q.mode, end |-> 0]
      BY <1>2, <3>1 DEF BraceStates
    <3>3. next_mode(q.mode, c) = q.mode /\ next_depth(q.depth, q.mode, c) = q.depth
      BY <2>7 DEF next_mode, next_depth, Opener, Closer, Quote, Escape
    <3>4. r \in BraceStates
      BY <1>0, <3>2 DEF BraceStates, Modes
    <3>5. r.mode = q.mode /\ r.depth = q.depth /\ r.end = 0
      BY <3>2
    <3> QED BY <1>2, <2>7, <3>3, <3>4, <3>5 DEF r
  <2>8. CASE q.mode = "escaped"
    <3>1. r = [q EXCEPT !.mode = "string"]
      BY <1>2, <2>8 DEF brace_turn, Opener, Closer, Quote, Escape
    <3> HIDE DEF r
    <3>2. r = [depth |-> q.depth, mode |-> "string", end |-> 0]
      BY <1>2, <3>1 DEF BraceStates
    <3>3. next_mode(q.mode, c) = "string" /\ next_depth(q.depth, q.mode, c) = q.depth
      BY <2>8 DEF next_mode, next_depth, Opener, Closer, Quote, Escape
    <3>4. r \in BraceStates
      BY <1>0, <3>2 DEF BraceStates, Modes
    <3>5. r.mode = "string" /\ r.depth = q.depth /\ r.end = 0
      BY <3>2
    <3> QED BY <1>2, <2>8, <3>3, <3>4, <3>5 DEF r
  <2> QED BY <1>0, <2>1, <2>2, <2>3, <2>4, <2>5, <2>6, <2>7, <2>8 DEF Modes
<1> QED BY <1>0, <1>1, <1>2

\* f is find_matching_brace's loop over s from x on.
BraceLoop(f, s, x) ==
  /\ f \in [(x - 1)..Len(s) -> BraceStates] /\ f[x - 1] = Start
  /\ \A i \in x..Len(s) : f[i] = brace_turn(f[i - 1], s[i], i)

\* find_matching_brace is where its loop ends.
LEMMA BraceLoopOf ==
  ASSUME NEW s, Len(s) \in Nat, NEW x \in 1..(Len(s) + 1)
  PROVE  \E f : BraceLoop(f, s, x) /\ find_matching_brace(s, x) = f[Len(s)].end
<1> DEFINE L == Len(s) + 1 - x
           turn == [p \in BraceStates \X (1..L) |-> brace_turn(p[1], s[x + p[2] - 1], x + p[2] - 1)]
           Is(f) == f = [i \in (x - 1)..Len(s) |->
                           IF i < x THEN [depth |-> 1, mode |-> "code", end |-> 0]
                           ELSE brace_turn(f[i - 1], s[i], i)]
           a == CHOOSE f : Is(f)
<1>1. L \in Nat /\ Start \in BraceStates
  BY DEF BraceStates, Start, Modes
<1>2. turn \in Turns(BraceStates, L)
  <2>1. \A q \in BraceStates, n \in 1..L : brace_turn(q, s[x + n - 1], x + n - 1) \in BraceStates
    <3> TAKE q \in BraceStates, n \in 1..L
    <3>1. x + n - 1 \in Nat
      OBVIOUS
    <3> QED BY <3>1, BraceTurnOf
  <2> QED BY <2>1 DEF Turns
<1> HIDE DEF turn
<1>3. PICK g : Follows(g, BraceStates, Start, L, turn)
  BY <1>1, <1>2, Recursion
<1> DEFINE h == [i \in (x - 1)..Len(s) |-> g[i - (x - 1)]]
<1>4. \A i \in (x - 1)..Len(s) : i - (x - 1) \in 0..L
  OBVIOUS
<1>5. \A n \in 0..L : g[n] \in BraceStates
  BY <1>3 DEF Follows
<1>6. ASSUME NEW i \in (x - 1)..Len(s), i < x PROVE h[i] = Start
  <2>1. i - (x - 1) = 0
    BY <1>6
  <2> QED BY <1>3, <2>1 DEF Follows
<1>7. ASSUME NEW i \in x..Len(s)
      PROVE  h[i] = brace_turn(h[i - 1], s[i], i)
  <2> DEFINE n == i - (x - 1)
  <2>1. n \in 1..L /\ n - 1 \in 0..L /\ i \in (x - 1)..Len(s) /\ i - 1 \in (x - 1)..Len(s)
        /\ x + n - 1 = i /\ (i - 1) - (x - 1) = n - 1
    OBVIOUS
  <2>2. g[n] = turn[<<g[n - 1], n>>]
    BY <1>3, <2>1 DEF Follows
  <2>3. g[n] = brace_turn(g[n - 1], s[i], i)
    BY <1>5, <2>1, <2>2 DEF turn
  <2>4. h[i] = g[n] /\ h[i - 1] = g[n - 1]
    BY <2>1
  <2> HIDE DEF h, n
  <2> QED BY <2>3, <2>4
<1>8. h \in [(x - 1)..Len(s) -> BraceStates]
  BY <1>4, <1>5
<1>9. Is(h)
  <2>1. h = [i \in (x - 1)..Len(s) |-> h[i]]
    OBVIOUS
  <2> HIDE DEF h
  <2>2. \A i \in (x - 1)..Len(s) : h[i] = IF i < x THEN [depth |-> 1, mode |-> "code", end |-> 0]
                                        ELSE brace_turn(h[i - 1], s[i], i)
    <3> TAKE i \in (x - 1)..Len(s)
    <3>1. CASE i < x
      BY <1>6, <3>1 DEF Start
    <3>2. CASE ~(i < x)
      <4>1. i \in x..Len(s)
        BY <3>2
      <4> QED BY <1>7, <3>2, <4>1
    <3> QED BY <3>1, <3>2
  <2> QED BY <2>1, <2>2
<1>10. Is(a)
  <2> HIDE DEF Is, h
  <2> QED BY <1>9
<1>11. find_matching_brace(s, x) = a[Len(s)].end
  BY DEF find_matching_brace
<1> HIDE DEF a, h
<1>12. DOMAIN a = (x - 1)..Len(s) /\ a = [i \in (x - 1)..Len(s) |-> a[i]]
  BY <1>10
<1>13. a[x - 1] = Start
  <2>1. x - 1 \in (x - 1)..Len(s) /\ x - 1 < x
    OBVIOUS
  <2> QED BY <1>10, <2>1 DEF Start
<1>14. ASSUME NEW i \in x..Len(s) PROVE a[i] = brace_turn(a[i - 1], s[i], i)
  <2>1. i \in (x - 1)..Len(s) /\ ~(i < x)
    OBVIOUS
  <2> QED BY <1>10, <2>1
<1> HIDE DEF Is
<1> DEFINE T == {n \in Nat : n <= L => a[x - 1 + n] \in BraceStates}
<1>15. T = Nat
  <2>1. 0 \in T
    BY <1>1, <1>13
  <2>2. ASSUME NEW n \in T PROVE n + 1 \in T
    <3> SUFFICES ASSUME n + 1 <= L PROVE a[x - 1 + (n + 1)] \in BraceStates
      BY <2>2
    <3>1. x - 1 + (n + 1) \in x..Len(s) /\ x - 1 + (n + 1) - 1 = x - 1 + n /\ n <= L /\ x - 1 + (n + 1) \in Nat
      BY <1>1
    <3>2. a[x - 1 + n] \in BraceStates
      BY <2>2, <3>1
    <3> DEFINE i == x - 1 + (n + 1)
    <3>3. a[i] = brace_turn(a[i - 1], s[i], i) /\ a[i - 1] \in BraceStates /\ i \in Nat
      BY <1>14, <3>1, <3>2
    <3> HIDE DEF i
    <3>4. a[i] \in BraceStates
      BY <3>3, BraceTurnOf
    <3> QED BY <3>4 DEF i
  <2>3. T \in SUBSET Nat
    OBVIOUS
  <2> HIDE DEF T
  <2> QED BY <2>1, <2>2, <2>3, Induction
<1>16. \A i \in (x - 1)..Len(s) : a[i] \in BraceStates
  <2> TAKE i \in (x - 1)..Len(s)
  <2>1. i - (x - 1) \in Nat /\ i - (x - 1) <= L /\ x - 1 + (i - (x - 1)) = i
    OBVIOUS
  <2> QED BY <1>15, <2>1
<1>17. BraceLoop(a, s, x)
  BY <1>12, <1>13, <1>14, <1>16 DEF BraceLoop
<1> QED BY <1>11, <1>17

(* ------------------------------- Blocks -------------------------------- *)

\* e closes the block whose inside starts at x, in terms of the nesting.
Closes(e, m, d, s, x) ==
  /\ e \in x..Len(s) /\ d[e] = 0 /\ d[e - 1] = 1 /\ m[e - 1] = "code" /\ s[e] = Closer
  /\ \A i \in x..(e - 1) : d[i] >= 1

\* It finds the first position where the nesting is closed, if there is one.
LEMMA FindIs ==
  ASSUME NEW s, Len(s) \in Nat, NEW x \in 1..(Len(s) + 1), NEW m, NEW d,
         Nesting(m, d, s, x), m[x - 1] = "code", d[x - 1] = 1
  PROVE  \/ find_matching_brace(s, x) = 0 /\ \A i \in x..Len(s) : d[i] >= 1
         \/ Closes(find_matching_brace(s, x), m, d, s, x)
<1>1. PICK f : BraceLoop(f, s, x) /\ find_matching_brace(s, x) = f[Len(s)].end
  BY BraceLoopOf
<1>2. /\ \A i \in (x - 1)..Len(s) : f[i] \in BraceStates /\ m[i] \in Modes /\ d[i] \in Int
      /\ f[x - 1] = Start
      /\ \A i \in x..Len(s) : /\ f[i] = brace_turn(f[i - 1], s[i], i)
                              /\ m[i] = next_mode(m[i - 1], s[i])
                              /\ d[i] = next_depth(d[i - 1], m[i - 1], s[i])
  BY <1>1 DEF BraceLoop, Nesting
<1> DEFINE Open(i) == /\ f[i].end = 0 /\ f[i].mode = m[i] /\ f[i].depth = d[i]
                      /\ d[i] >= 1 /\ \A j \in x..i : d[j] >= 1
           Shut(i) == f[i].end \in x..i /\ Closes(f[i].end, m, d, s, x)
           T == {n \in Nat : n <= Len(s) + 1 - x => Open(x - 1 + n) \/ Shut(x - 1 + n)}
<1>3. 0 \in T
  <2>1. f[x - 1].end = 0 /\ f[x - 1].mode = "code" /\ f[x - 1].depth = 1
    BY <1>2 DEF Start
  <2> QED BY <2>1
<1>4. ASSUME NEW n \in T PROVE n + 1 \in T
  <2> SUFFICES ASSUME n + 1 <= Len(s) + 1 - x
               PROVE  Open(x - 1 + (n + 1)) \/ Shut(x - 1 + (n + 1))
    BY <1>4
  <2> DEFINE i == x - 1 + (n + 1)
  <2>1. /\ n \in Nat /\ i \in x..Len(s) /\ i \in (x - 1)..Len(s) /\ i \in Nat /\ i - 1 = x - 1 + n
        /\ i - 1 \in (x - 1)..Len(s) /\ n <= Len(s) + 1 - x
    <3>1. n \in Nat
      BY <1>4
    <3> HIDE DEF T, Open, Shut
    <3> QED BY <3>1
  <2>2. Open(i - 1) \/ Shut(i - 1)
    BY <1>4, <2>1
  <2> HIDE DEF i
  <2> SUFFICES Open(i) \/ Shut(i)
    BY DEF i
  <2>3. /\ f[i - 1] \in BraceStates /\ f[i] = brace_turn(f[i - 1], s[i], i)
        /\ m[i] = next_mode(m[i - 1], s[i]) /\ d[i] = next_depth(d[i - 1], m[i - 1], s[i])
        /\ d[i] \in Int /\ d[i - 1] \in Int
    BY <1>2, <2>1
  <2>4. CASE Shut(i - 1)
    <3>1. f[i - 1].end # 0 /\ f[i - 1].end \in x..i
      BY <2>1, <2>4
    <3>2. f[i] = f[i - 1]
      BY <2>1, <2>3, <3>1, BraceTurnOf
    <3> QED BY <2>4, <3>1, <3>2
  <2>5. CASE Open(i - 1)
    <3>1. /\ f[i].mode = m[i] /\ f[i].depth = d[i]
          /\ f[i].end = IF m[i - 1] = "code" /\ s[i] = Closer /\ d[i - 1] = 1 THEN i ELSE 0
      BY <2>1, <2>3, <2>5, BraceTurnOf
    <3>2. CASE m[i - 1] = "code" /\ s[i] = Closer /\ d[i - 1] = 1
      <4>1. d[i] = 0
        BY <2>3, <3>2, SymbolsDiffer DEF next_depth
      <4>2. f[i].end = i
        BY <3>1, <3>2
      <4>3. Closes(i, m, d, s, x)
        BY <2>1, <2>5, <3>2, <4>1 DEF Closes
      <4> QED BY <2>1, <4>2, <4>3
    <3>3. CASE ~(m[i - 1] = "code" /\ s[i] = Closer /\ d[i - 1] = 1)
      <4>1. d[i] >= 1
        BY <2>3, <2>5, <3>3, SymbolsDiffer DEF next_depth
      <4>2. \A j \in x..i : j = i \/ j \in x..(i - 1)
        BY <2>1
      <4> QED BY <2>5, <3>1, <3>3, <4>1, <4>2
    <3> QED BY <3>2, <3>3
  <2> HIDE DEF Open, Shut
  <2> QED BY <2>2, <2>4, <2>5
<1>5. T = Nat
  <2>1. T \in SUBSET Nat
    OBVIOUS
  <2> HIDE DEF T
  <2> QED BY <1>3, <1>4, <2>1, Induction
<1>6. Open(Len(s)) \/ Shut(Len(s))
  <2>1. Len(s) + 1 - x \in Nat /\ x - 1 + (Len(s) + 1 - x) = Len(s)
    OBVIOUS
  <2> HIDE DEF Open, Shut
  <2>2. Len(s) + 1 - x \in T
    BY <1>5, <2>1
  <2>3. Open(x - 1 + (Len(s) + 1 - x)) \/ Shut(x - 1 + (Len(s) + 1 - x))
    BY <2>1, <2>2
  <2> HIDE DEF T
  <2> QED BY <2>1, <2>3
<1> QED BY <1>1, <1>6

\* The k characters of t behind j are those of s behind i.
Copy(s, i, t, j, k) ==
  /\ k \in Nat /\ i + k <= Len(s) /\ j + k <= Len(t) /\ \A l \in 1..k : t[j + l] = s[i + l]
\* Behind j the scan of t is where that of s is behind i, D deeper.
Alike(m, d, i, m2, d2, j, D) == D \in Int /\ m2[j] = m[i] /\ d2[j] = d[i] + D

\* Over a copy, two scans that are alike stay alike.
LEMMA Copied ==
  ASSUME NEW s, Len(s) \in Nat, NEW x \in 1..(Len(s) + 1), NEW m, NEW d, Nesting(m, d, s, x),
         NEW t, Len(t) \in Nat, NEW y \in 1..(Len(t) + 1), NEW m2, NEW d2, Nesting(m2, d2, t, y),
         NEW i \in (x - 1)..Len(s), NEW j \in (y - 1)..Len(t), NEW k, Copy(s, i, t, j, k),
         NEW D, Alike(m, d, i, m2, d2, j, D)
  PROVE  \A l \in 0..k : Alike(m, d, i + l, m2, d2, j + l, D)
<1>0. /\ k \in Nat /\ i + k <= Len(s) /\ j + k <= Len(t) /\ \A l \in 1..k : t[j + l] = s[i + l]
      /\ D \in Int /\ m2[j] = m[i] /\ d2[j] = d[i] + D
  BY DEF Copy, Alike
<1>1. /\ \A a \in (x - 1)..Len(s) : m[a] \in Modes /\ d[a] \in Int
      /\ \A a \in x..Len(s) : m[a] = next_mode(m[a - 1], s[a]) /\ d[a] = next_depth(d[a - 1], m[a - 1], s[a])
      /\ \A a \in y..Len(t) : m2[a] = next_mode(m2[a - 1], t[a]) /\ d2[a] = next_depth(d2[a - 1], m2[a - 1], t[a])
  BY DEF Nesting
<1> DEFINE Same(l) == m2[j + l] = m[i + l] /\ d2[j + l] = d[i + l] + D
           T == {l \in Nat : l <= k => Same(l)}
<1>2. 0 \in T
  BY <1>0
<1>3. ASSUME NEW l \in T PROVE l + 1 \in T
  <2> SUFFICES ASSUME l + 1 <= k PROVE Same(l + 1)
    BY <1>3
  <2>1. /\ l \in Nat /\ l <= k /\ l + 1 \in 1..k
        /\ i + (l + 1) \in x..Len(s) /\ j + (l + 1) \in y..Len(t) /\ i + l \in (x - 1)..Len(s)
        /\ i + (l + 1) - 1 = i + l /\ j + (l + 1) - 1 = j + l
    BY <1>0, <1>3
  <2>2. Same(l)
    BY <1>3, <2>1
  <2>3. t[j + (l + 1)] = s[i + (l + 1)]
    BY <1>0, <2>1
  <2>4. /\ m[i + (l + 1)] = next_mode(m[i + l], s[i + (l + 1)])
        /\ d[i + (l + 1)] = next_depth(d[i + l], m[i + l], s[i + (l + 1)]) /\ d[i + l] \in Int
    BY <1>1, <2>1
  <2>5. /\ m2[j + (l + 1)] = next_mode(m2[j + l], t[j + (l + 1)])
        /\ d2[j + (l + 1)] = next_depth(d2[j + l], m2[j + l], t[j + (l + 1)])
    BY <1>1, <2>1
  <2>6. \A a \in Int : \A b, c : next_depth(a + D, b, c) = next_depth(a, b, c) + D
    BY <1>0 DEF next_depth
  <2> QED BY <1>0, <2>2, <2>3, <2>4, <2>5, <2>6
<1>4. T = Nat
  <2>1. T \in SUBSET Nat
    OBVIOUS
  <2> HIDE DEF T
  <2> QED BY <1>2, <1>3, <2>1, Induction
<1>5. \A l \in 0..k : l \in T
  <2> HIDE DEF T
  <2> QED BY <1>0, <1>4
<1> QED BY <1>0, <1>5 DEF Alike

\* A block opens at i and closes at e.
Block(s, i, e) ==
  /\ i \in 1..Len(s) /\ e \in (i + 2)..Len(s) /\ s[i] = Dollar /\ s[i + 1] = Opener /\ s[e] = Closer
  /\ find_matching_brace(s, i + 2) = e

\* BlockEnd, in these names.
LEMMA BlockEndUnfolds ==
  \A s, i : BlockEnd(s, i) = IF i < Len(s) /\ s[i] = Dollar /\ s[i + 1] = Opener
                             THEN find_matching_brace(s, i + 2) ELSE 0
BY Zenon DEF BlockEnd, Dollar, Opener

\* What BlockEnd finds is a block.
LEMMA BlockEndIs ==
  ASSUME NEW s, Len(s) \in Nat, NEW i \in 1..Len(s)
  PROVE  BlockEnd(s, i) = 0 \/ Block(s, i, BlockEnd(s, i))
<1>1. CASE i < Len(s) /\ s[i] = Dollar /\ s[i + 1] = Opener
  <2>1. i + 2 \in 1..(Len(s) + 1) /\ BlockEnd(s, i) = find_matching_brace(s, i + 2)
    BY <1>1, BlockEndUnfolds
  <2>2. PICK m, d : Nesting(m, d, s, i + 2) /\ m[i + 2 - 1] = "code" /\ d[i + 2 - 1] = 1
    BY <2>1, NestingExists
  <2>3. find_matching_brace(s, i + 2) = 0 \/ Closes(find_matching_brace(s, i + 2), m, d, s, i + 2)
    BY <2>1, <2>2, FindIs
  <2> QED BY <1>1, <2>1, <2>3 DEF Closes, Block
<1>2. CASE ~(i < Len(s) /\ s[i] = Dollar /\ s[i + 1] = Opener)
  BY <1>2, BlockEndUnfolds
<1> QED BY <1>1, <1>2

\* BlockEnd finds every block.
LEMMA BlockEndOf ==
  ASSUME NEW s, Len(s) \in Nat, NEW i, NEW e, Block(s, i, e)
  PROVE  BlockEnd(s, i) = e
<1>1. i < Len(s)
  BY DEF Block
<1> QED BY <1>1, BlockEndUnfolds DEF Block

\* Behind a block the scan is as deep as before it, unless the scan was in a literal
\* that the block closes.
LEMMA Balanced ==
  ASSUME NEW s, Len(s) \in Nat, NEW x \in 1..(Len(s) + 1), NEW m, NEW d, Nesting(m, d, s, x),
         NEW i \in x..Len(s), NEW e, Block(s, i, e),
         m[i - 1] # "code" => \A j \in (i + 2)..(e - 1) : s[j] # Quote
  PROVE  /\ d[e] = d[i - 1] /\ m[e] = IF m[i - 1] = "code" THEN "code" ELSE "string"
         /\ \A j \in i..e : d[j] >= d[i - 1]
<1>1. /\ i \in Nat /\ e \in Nat /\ i + 2 <= e /\ e <= Len(s) /\ i + 2 \in 1..(Len(s) + 1)
      /\ s[i] = Dollar /\ s[i + 1] = Opener /\ s[e] = Closer /\ find_matching_brace(s, i + 2) = e
  BY DEF Block
<1>2. /\ \A a \in (x - 1)..Len(s) : m[a] \in Modes /\ d[a] \in Int
      /\ \A a \in x..Len(s) : m[a] = next_mode(m[a - 1], s[a]) /\ d[a] = next_depth(d[a - 1], m[a - 1], s[a])
  BY DEF Nesting
<1>3. /\ m[i] = next_mode(m[i - 1], Dollar) /\ d[i] = next_depth(d[i - 1], m[i - 1], Dollar)
      /\ m[i + 1] = next_mode(m[i], Opener) /\ d[i + 1] = next_depth(d[i], m[i], Opener)
      /\ m[i - 1] \in Modes /\ m[i] \in Modes /\ d[i - 1] \in Int
  <2>1. i \in x..Len(s) /\ i + 1 \in x..Len(s) /\ i + 1 - 1 = i /\ i - 1 \in (x - 1)..Len(s) /\ i \in (x - 1)..Len(s)
    BY <1>1
  <2> QED BY <1>1, <1>2, <2>1
<1>4. CASE m[i - 1] = "code"
  <2>1. m[i] = "code" /\ d[i] = d[i - 1] /\ m[i + 1] = "code" /\ d[i + 1] = d[i - 1] + 1
    BY <1>3, <1>4, SymbolsDiffer DEF next_mode, next_depth
  <2>2. PICK m0, d0 : Nesting(m0, d0, s, i + 2) /\ m0[i + 2 - 1] = "code" /\ d0[i + 2 - 1] = 1
    BY <1>1, NestingExists
  <2>3. Closes(e, m0, d0, s, i + 2)
    BY <1>1, <2>2, FindIs
  <2>4. i + 2 - 1 = i + 1 /\ m0[i + 1] = "code" /\ d0[i + 1] = 1
    BY <1>1, <2>2
  <2> DEFINE D == d[i - 1]
             k == e - (i + 1)
  <2>5. i + 1 \in ((i + 2) - 1)..Len(s) /\ i + 1 \in (x - 1)..Len(s)
    BY <1>1
  <2>51. Copy(s, i + 1, s, i + 1, k)
    BY <1>1 DEF Copy
  <2>52. Alike(m0, d0, i + 1, m, d, i + 1, D)
    BY <1>3, <2>1, <2>4 DEF Alike
  <2> HIDE DEF D, k
  <2>53. \A l \in 0..k : Alike(m0, d0, (i + 1) + l, m, d, (i + 1) + l, D)
    BY <1>1, <2>2, <2>5, <2>51, <2>52, Copied
  <2>6. \A l \in 0..k : m[(i + 1) + l] = m0[(i + 1) + l] /\ d[(i + 1) + l] = d0[(i + 1) + l] + D
    BY <2>53 DEF Alike
  <2>7. ASSUME NEW j \in (i + 1)..e PROVE m[j] = m0[j] /\ d[j] = d0[j] + D
    <3>1. j - (i + 1) \in 0..k /\ (i + 1) + (j - (i + 1)) = j
      BY <1>1 DEF k
    <3> QED BY <2>6, <3>1
  <2>8. \A j \in (i + 1)..e : d0[j] \in Int /\ d0[j] >= 0
    <3>1. \A j \in (i + 1)..Len(s) : d0[j] \in Int
      <4>1. d0 \in [((i + 2) - 1)..Len(s) -> Int]
        BY <2>2 DEF Nesting
      <4>2. \A j \in (i + 1)..Len(s) : j \in ((i + 2) - 1)..Len(s)
        BY <1>1
      <4> QED BY <4>1, <4>2
    <3>2. \A j \in (i + 1)..e : j = i + 1 \/ j = e \/ j \in (i + 2)..(e - 1)
      BY <1>1
    <3> QED BY <1>1, <2>3, <2>4, <3>1, <3>2 DEF Closes
  <2>9. d[e] = d[i - 1] /\ m[e] = "code"
    <3>1. e \in (i + 1)..e /\ e - 1 \in (i + 1)..e /\ e \in (i + 2)..Len(s)
      BY <1>1
    <3>2. m0[e] = next_mode(m0[e - 1], s[e])
      BY <2>2, <3>1 DEF Nesting
    <3>3. m0[e - 1] = "code" /\ d0[e] = 0
      BY <2>3 DEF Closes
    <3>4. m0[e] = "code"
      BY <1>1, <3>2, <3>3, SymbolsDiffer DEF next_mode
    <3> QED BY <1>3, <2>7, <3>1, <3>3, <3>4 DEF D
  <2>10. \A j \in i..e : d[j] >= d[i - 1]
    <3>1. \A j \in i..e : j = i \/ j \in (i + 1)..e
      BY <1>1
    <3> QED BY <1>3, <2>1, <2>7, <2>8, <3>1 DEF D
  <2> QED BY <1>4, <2>9, <2>10
<1>5. CASE m[i - 1] # "code"
  <2>1. m[i] = "string" /\ d[i] = d[i - 1] /\ m[i + 1] = "string" /\ d[i + 1] = d[i - 1]
    BY <1>3, <1>5, SymbolsDiffer DEF next_mode, next_depth, Modes
  <2> DEFINE Literal(a) == m[a] \in {"string", "escaped"} /\ d[a] = d[i - 1]
             T == {n \in Nat : i + 1 + n <= e => Literal(i + 1 + n)}
  <2>2. 0 \in T
    BY <1>1, <2>1
  <2>3. ASSUME NEW n \in T PROVE n + 1 \in T
    <3> SUFFICES ASSUME i + 1 + (n + 1) <= e PROVE Literal(i + 1 + (n + 1))
      BY <2>3
    <3> DEFINE a == i + 1 + (n + 1)
    <3>1. n \in Nat /\ a \in x..Len(s) /\ a - 1 = i + 1 + n /\ (a = e \/ a \in (i + 2)..(e - 1)) /\ i + 1 + n <= e
      BY <1>1, <2>3
    <3>2. Literal(a - 1)
      BY <2>3, <3>1
    <3>3. s[a] # Quote
      BY <1>1, <1>5, <3>1, SymbolsDiffer
    <3> HIDE DEF a
    <3>4. m[a] = next_mode(m[a - 1], s[a]) /\ d[a] = next_depth(d[a - 1], m[a - 1], s[a])
      BY <1>2, <3>1
    <3>5. Literal(a)
      BY <3>2, <3>3, <3>4 DEF next_mode, next_depth
    <3> QED BY <3>5 DEF a
  <2>4. T = Nat
    <3>1. T \in SUBSET Nat
      OBVIOUS
    <3> HIDE DEF T
    <3> QED BY <2>2, <2>3, <3>1, Induction
  <2>5. \A j \in (i + 1)..e : Literal(j)
    <3> TAKE j \in (i + 1)..e
    <3>1. j - (i + 1) \in Nat /\ i + 1 + (j - (i + 1)) = j /\ j <= e
      BY <1>1
    <3> QED BY <2>4, <3>1
  <2>6. m[e] = "string"
    <3>1. e \in x..Len(s) /\ e - 1 \in (i + 1)..e
      BY <1>1
    <3>2. m[e] = next_mode(m[e - 1], Closer) /\ m[e - 1] \in {"string", "escaped"}
      BY <1>1, <1>2, <2>5, <3>1
    <3> QED BY <3>2, SymbolsDiffer DEF next_mode
  <2>7. \A j \in i..e : j = i \/ j \in (i + 1)..e
    BY <1>1
  <2>8. e \in (i + 1)..e
    BY <1>1
  <2> QED BY <1>3, <1>5, <2>1, <2>5, <2>6, <2>7, <2>8
<1> QED BY <1>4, <1>5

(* ------------------ Reading: a string, block by block ------------------ *)

\* A piece of a sequence.
LEMMA PieceOf ==
  ASSUME NEW S, NEW s \in Seq(S), NEW a \in 1..(Len(s) + 1), NEW b \in 0..Len(s), b >= a - 1
  PROVE  /\ SubSeq(s, a, b) \in Seq(S) /\ Len(SubSeq(s, a, b)) = b - a + 1
         /\ \A i \in 1..(b - a + 1) : SubSeq(s, a, b)[i] = s[a + i - 1]
OBVIOUS

\* What trim leaves: the first to the last character that is not a blank.
Ink(s) == {i \in DOMAIN s : s[i] # Blank}
FirstIn(I) == CHOOSE i \in I : \A j \in I : i <= j
LastIn(I) == CHOOSE i \in I : \A j \in I : i >= j

\* trim, in these names.
LEMMA TrimUnfolds ==
  \A s : trim(s) = IF Ink(s) = {} THEN <<>> ELSE SubSeq(s, FirstIn(Ink(s)), LastIn(Ink(s)))
BY Zenon DEF trim, Ink, FirstIn, LastIn, Blank

\* What trim leaves has every character that is not a blank.
LEMMA TrimOf ==
  ASSUME NEW S, NEW s \in Seq(S)
  PROVE  /\ trim(s) \in Seq(S)
         /\ \A k \in 1..Len(s) : s[k] # Blank => \E j \in 1..Len(trim(s)) : trim(s)[j] = s[k]
<1>1. Len(s) \in Nat /\ DOMAIN s = 1..Len(s) /\ Ink(s) \in SUBSET (1..Len(s))
  BY DEF Ink
<1>2. CASE Ink(s) = {}
  <2>1. trim(s) = <<>>
    BY <1>2, TrimUnfolds
  <2>2. \A k \in 1..Len(s) : s[k] = Blank
    BY <1>1, <1>2 DEF Ink
  <2> QED BY <2>1, <2>2
<1>3. CASE Ink(s) # {}
  <2> DEFINE a == FirstIn(Ink(s))
             b == LastIn(Ink(s))
             r == SubSeq(s, a, b)
  <2>1. a \in Ink(s) /\ \A j \in Ink(s) : a <= j
    <3>1. \E i \in Ink(s) : \A j \in Ink(s) : i <= j
      BY <1>1, <1>3, Extremes
    <3> QED BY <3>1 DEF FirstIn
  <2>2. b \in Ink(s) /\ \A j \in Ink(s) : b >= j
    <3>1. \E i \in Ink(s) : \A j \in Ink(s) : i >= j
      BY <1>1, <1>3, Extremes
    <3> QED BY <3>1 DEF LastIn
  <2>3. trim(s) = r
    BY <1>3, TrimUnfolds
  <2> HIDE DEF a, b
  <2>4. a \in 1..(Len(s) + 1) /\ b \in 0..Len(s) /\ b >= a - 1 /\ a \in Nat /\ b \in Nat
    BY <1>1, <2>1, <2>2
  <2>5. r \in Seq(S) /\ Len(r) = b - a + 1 /\ \A i \in 1..(b - a + 1) : r[i] = s[a + i - 1]
    BY <2>4, PieceOf
  <2> HIDE DEF r
  <2>6. ASSUME NEW k \in 1..Len(s), s[k] # Blank PROVE \E j \in 1..Len(r) : r[j] = s[k]
    <3>1. k \in Ink(s)
      BY <1>1, <2>6 DEF Ink
    <3>2. a <= k /\ k <= b
      BY <2>1, <2>2, <3>1
    <3>3. k - a + 1 \in 1..(b - a + 1) /\ a + (k - a + 1) - 1 = k
      BY <2>4, <3>2
    <3> QED BY <2>5, <3>3
  <2> QED BY <2>3, <2>5, <2>6
<1> QED BY <1>2, <1>3

\* Where the reading goes on from i, the URI of a block, whether it is a token, and
\* what is written for it.
NextCut(s, i) ==
  IF i > Len(s) THEN i ELSE IF BlockEnd(s, i) = 0 THEN i + 1 ELSE BlockEnd(s, i) + 1
Uri(s, i) == Inner(s, i, BlockEnd(s, i))
IsToken(s, i) == i <= Len(s) /\ BlockEnd(s, i) # 0 /\ is_cred_uri(Uri(s, i))
Image(s, f, i) ==
  IF BlockEnd(s, i) = 0 THEN AsChar(s[i])
  ELSE IF is_cred_uri(Uri(s, i)) /\ Uri(s, i) \in DOMAIN f THEN f[Uri(s, i)]
  ELSE SubSeq(s, i, BlockEnd(s, i))

\* p reads s: p[n] is the position behind its first n turns.
Walk(p, s, N) ==
  /\ p \in [0..N -> 1..(Len(s) + 1)] /\ p[0] = 1
  /\ \A n \in 1..N : p[n] = NextCut(s, p[n - 1])

\* A block ends behind its opener.
LEMMA BlockEndIn ==
  ASSUME NEW s, Len(s) \in Nat, NEW i \in 1..Len(s)
  PROVE  BlockEnd(s, i) = 0 \/ (BlockEnd(s, i) \in (i + 2)..Len(s) /\ i < Len(s))
BY BlockEndIs DEF Block

\* The reading goes forward and ends behind the last character.
LEMMA NextCutOf ==
  ASSUME NEW s, Len(s) \in Nat, NEW i \in 1..(Len(s) + 1)
  PROVE  /\ NextCut(s, i) \in 1..(Len(s) + 1)
         /\ i <= Len(s) => NextCut(s, i) > i
         /\ i = Len(s) => NextCut(s, i) = Len(s) + 1
         /\ i = Len(s) + 1 => NextCut(s, i) = i
<1>1. CASE i \in 1..Len(s)
  BY <1>1, BlockEndIn DEF NextCut
<1>2. CASE i = Len(s) + 1
  BY <1>2 DEF NextCut
<1> QED BY <1>1, <1>2

\* Every string has its reading.
LEMMA WalkExists ==
  ASSUME NEW s, Len(s) \in Nat, NEW N \in Nat
  PROVE  \E p : Walk(p, s, N)
<1> DEFINE V == 1..(Len(s) + 1)
           turn == [q \in V \X (1..N) |-> NextCut(s, q[1])]
<1>1. turn \in Turns(V, N) /\ 1 \in V
  <2>1. \A q \in V \X (1..N) : NextCut(s, q[1]) \in V
    BY NextCutOf
  <2> QED BY <2>1 DEF Turns
<1> HIDE DEF turn
<1>2. PICK p : Follows(p, V, 1, N, turn)
  BY <1>1, Recursion
<1>3. p \in [0..N -> V] /\ p[0] = 1 /\ \A n \in 1..N : p[n] = turn[<<p[n - 1], n>>]
  BY <1>2 DEF Follows
<1>4. \A n \in 1..N : p[n] = NextCut(s, p[n - 1])
  <2> TAKE n \in 1..N
  <2>1. n - 1 \in 0..N
    OBVIOUS
  <2>2. p[n - 1] \in V
    BY <1>3, <2>1
  <2>3. turn[<<p[n - 1], n>>] = NextCut(s, p[n - 1])
    BY <2>2 DEF turn
  <2> QED BY <1>3, <2>3
<1> QED BY <1>3, <1>4 DEF Walk

\* A reading takes at most as many turns as there are characters.
LEMMA WalkEnds ==
  ASSUME NEW s, Len(s) \in Nat, NEW N \in Nat, NEW p, Walk(p, s, N)
  PROVE  /\ \A n \in 0..N : p[n] \in 1..(Len(s) + 1) /\ (p[n] >= n + 1 \/ p[n] = Len(s) + 1)
         /\ \A n \in 0..N : n >= Len(s) => p[n] = Len(s) + 1
<1>1. /\ \A n \in 0..N : p[n] \in 1..(Len(s) + 1)
      /\ p[0] = 1 /\ \A n \in 1..N : p[n] = NextCut(s, p[n - 1])
  BY DEF Walk
<1> DEFINE Far(n) == p[n] >= n + 1 \/ p[n] = Len(s) + 1
           T == {n \in Nat : n <= N => Far(n)}
<1>2. 0 \in T
  BY <1>1
<1>3. ASSUME NEW n \in T PROVE n + 1 \in T
  <2> SUFFICES ASSUME n + 1 <= N PROVE Far(n + 1)
    BY <1>3
  <2>1. n \in Nat /\ n + 1 \in 1..N /\ n + 1 - 1 = n /\ n \in 0..N /\ Far(n) /\ n + 1 \in 0..N
    BY <1>3
  <2>2. p[n + 1] = NextCut(s, p[n]) /\ p[n] \in 1..(Len(s) + 1) /\ p[n + 1] \in 1..(Len(s) + 1)
    BY <1>1, <2>1
  <2>3. CASE p[n] = Len(s) + 1
    BY <2>2, <2>3, NextCutOf
  <2>4. CASE p[n] <= Len(s)
    <3>1. NextCut(s, p[n]) > p[n]
      BY <2>2, <2>4, NextCutOf
    <3> QED BY <2>1, <2>2, <2>4, <3>1
  <2> QED BY <2>2, <2>3, <2>4
<1>4. T = Nat
  <2>1. T \in SUBSET Nat
    OBVIOUS
  <2> HIDE DEF T
  <2> QED BY <1>2, <1>3, <2>1, Induction
<1>5. \A n \in 0..N : n \in T
  <2> HIDE DEF T
  <2> QED BY <1>4
<1> QED BY <1>1, <1>5

(* -------------- The scan finds the tokens of the reading --------------- *)

\* What the two loops carry.
Turned(i, out) == [i |-> i, out |-> out]
ScanStates(s, S) == [i : 1..(Len(s) + 1), out : Seq(Seq(S))]
EmitStates(s, S) == [i : 1..(Len(s) + 1), out : Seq(S)]

\* The URI of a block is a text over the alphabet.
LEMMA UriIn ==
  ASSUME NEW S, NEW s \in Seq(S), NEW i \in 1..Len(s), BlockEnd(s, i) # 0
  PROVE  Uri(s, i) \in Seq(S)
<1>1. Len(s) \in Nat /\ BlockEnd(s, i) \in (i + 2)..Len(s)
  BY BlockEndIn
<1>2. SubSeq(s, i + 2, BlockEnd(s, i) - 1) \in Seq(S)
  <2>1. i + 2 \in 1..(Len(s) + 1) /\ BlockEnd(s, i) - 1 \in 0..Len(s) /\ BlockEnd(s, i) - 1 >= (i + 2) - 1
    BY <1>1
  <2> QED BY <2>1, PieceOf
<1> QED BY <1>2, TrimOf DEF Uri, Inner

\* A turn of cred_tokens.
LEMMA ScanTurnOf ==
  ASSUME NEW S, NEW s \in Seq(S), NEW q \in ScanStates(s, S)
  PROVE  /\ scan_turn(s, q) \in ScanStates(s, S)
         /\ scan_turn(s, q).i = IF q.i >= Len(s) THEN q.i ELSE NextCut(s, q.i)
         /\ scan_turn(s, q).out = IF IsToken(s, q.i) THEN Append(q.out, Uri(s, q.i)) ELSE q.out
<1> DEFINE r == scan_turn(s, q)
<1>0. Len(s) \in Nat /\ q.i \in 1..(Len(s) + 1) /\ q.out \in Seq(Seq(S)) /\ q = Turned(q.i, q.out)
  BY DEF ScanStates, Turned
<1>1. CASE q.i >= Len(s)
  <2>1. r = q
    BY <1>1 DEF scan_turn
  <2>2. ~IsToken(s, q.i)
    BY <1>0, <1>1, BlockEndIn DEF IsToken
  <2> QED BY <1>1, <2>1, <2>2
<1>2. CASE q.i < Len(s) /\ BlockEnd(s, q.i) = 0
  <2>1. r = [q EXCEPT !.i = @ + 1]
    BY <1>0, <1>2 DEF scan_turn
  <2> HIDE DEF r
  <2>2. r = Turned(q.i + 1, q.out)
    BY <1>0, <2>1 DEF Turned, ScanStates
  <2>3. r.i = q.i + 1 /\ r.out = q.out /\ r \in ScanStates(s, S)
    BY <1>0, <1>2, <2>2 DEF Turned, ScanStates
  <2>4. NextCut(s, q.i) = q.i + 1 /\ ~IsToken(s, q.i)
    BY <1>0, <1>2 DEF NextCut, IsToken
  <2> QED BY <1>2, <1>0, <2>3, <2>4 DEF r
<1>3. CASE q.i < Len(s) /\ BlockEnd(s, q.i) # 0
  <2> DEFINE out == IF is_cred_uri(Uri(s, q.i)) THEN Append(q.out, Uri(s, q.i)) ELSE q.out
  <2>1. r = Turned(BlockEnd(s, q.i) + 1, out)
    BY <1>0, <1>3 DEF scan_turn, Turned, Uri
  <2>2. out \in Seq(Seq(S)) /\ out = IF IsToken(s, q.i) THEN Append(q.out, Uri(s, q.i)) ELSE q.out
    <3>1. Uri(s, q.i) \in Seq(S)
      BY <1>0, <1>3, UriIn
    <3>2. IsToken(s, q.i) <=> is_cred_uri(Uri(s, q.i))
      BY <1>0, <1>3 DEF IsToken
    <3> QED BY <1>0, <3>1, <3>2
  <2> HIDE DEF r, out
  <2>3. BlockEnd(s, q.i) + 1 = NextCut(s, q.i) /\ NextCut(s, q.i) \in 1..(Len(s) + 1)
    BY <1>0, <1>3, NextCutOf DEF NextCut
  <2>4. r.i = NextCut(s, q.i) /\ r.out = out /\ r \in ScanStates(s, S)
    BY <2>1, <2>2, <2>3 DEF Turned, ScanStates
  <2> QED BY <1>0, <1>3, <2>2, <2>4 DEF r
<1> QED BY <1>0, <1>1, <1>2, <1>3

\* a is cred_tokens' loop over s.
Scanning(a, s, S) ==
  /\ a \in [0..Len(s) -> ScanStates(s, S)] /\ a[0] = Turned(1, <<>>)
  /\ \A n \in 1..Len(s) : a[n] = scan_turn(s, a[n - 1])

\* cred_tokens is what its loop ends with.
LEMMA ScanLoop ==
  ASSUME NEW S, NEW s \in Seq(S)
  PROVE  \E a : Scanning(a, s, S) /\ cred_tokens(s) = a[Len(s)].out
<1> DEFINE L == Len(s)
           V == ScanStates(s, S)
           turn == [q \in V \X (1..L) |-> scan_turn(s, q[1])]
           Is(f) == f = [n \in 0..L |-> IF n = 0 THEN [i |-> 1, out |-> <<>>] ELSE scan_turn(s, f[n - 1])]
           a == CHOOSE f : Is(f)
<1>1. cred_tokens(s) = a[L].out
  BY DEF cred_tokens
<1>2. L \in Nat /\ Turned(1, <<>>) \in V
  BY DEF Turned, ScanStates
<1>3. \A q \in V : scan_turn(s, q) \in V
  BY ScanTurnOf
<1> HIDE DEF V
<1>4. turn \in Turns(V, L)
  BY <1>3 DEF Turns
<1>5. \A q \in V, n \in 1..L : turn[<<q, n>>] = scan_turn(s, q)
  OBVIOUS
<1> HIDE DEF turn
<1>6. PICK f : Follows(f, V, Turned(1, <<>>), L, turn)
  BY <1>2, <1>4, Recursion
<1>7. /\ f \in [0..L -> V] /\ f[0] = Turned(1, <<>>)
      /\ \A n \in 1..L : f[n] = scan_turn(s, f[n - 1])
  <2>1. \A n \in 1..L : n - 1 \in 0..L
    BY <1>2
  <2> QED BY <1>5, <1>6, <2>1 DEF Follows
<1>8. Is(f)
  <2>1. \A n \in 0..L : n = 0 \/ n \in 1..L
    BY <1>2
  <2> QED BY <1>7, <2>1 DEF Turned
<1>9. Is(a)
  <2> HIDE DEF Is
  <2> QED BY <1>8
<1> HIDE DEF a
<1>10. DOMAIN a = 0..L /\ a[0] = Turned(1, <<>>) /\ \A n \in 1..L : a[n] = scan_turn(s, a[n - 1])
  <2>1. a = [n \in 0..L |-> a[n]]
    BY <1>9
  <2>2. \A n \in 1..L : n \in 0..L /\ n # 0
    BY <1>2
  <2>3. 0 \in 0..L
    BY <1>2
  <2> QED BY <1>9, <2>1, <2>2, <2>3 DEF Turned
<1>11. a = [n \in 0..L |-> a[n]]
  BY <1>9
<1> HIDE DEF Is
<1> DEFINE C == {n \in Nat : n <= L => a[n] \in V}
<1>12. C = Nat
  <2>1. 0 \in C
    BY <1>2, <1>10
  <2>2. ASSUME NEW n \in C PROVE n + 1 \in C
    <3> SUFFICES ASSUME n + 1 <= L PROVE a[n + 1] \in V
      BY <2>2
    <3>1. n \in Nat /\ n + 1 \in 1..L /\ n + 1 - 1 = n /\ a[n] \in V
      BY <1>2, <2>2
    <3>2. a[n + 1] = scan_turn(s, a[n])
      BY <1>10, <3>1
    <3> QED BY <1>3, <3>1, <3>2
  <2>3. C \in SUBSET Nat
    OBVIOUS
  <2> HIDE DEF C
  <2> QED BY <2>1, <2>2, <2>3, Induction
<1>13. a \in [0..L -> V]
  <2>1. \A n \in 0..L : a[n] \in V
    BY <1>2, <1>12
  <2> QED BY <1>11, <2>1
<1>14. Scanning(a, s, S)
  BY <1>10, <1>13 DEF Scanning, V
<1> QED BY <1>1, <1>14

\* o are the URIs found up to each turn of the reading p.
Scans(o, p, s, S, N) ==
  /\ o \in [0..N -> Seq(Seq(S))] /\ o[0] = <<>>
  /\ \A n \in 1..N : o[n] = IF IsToken(s, p[n - 1]) THEN Append(o[n - 1], Uri(s, p[n - 1])) ELSE o[n - 1]

\* cred_tokens finds the tokens of the reading.
LEMMA TokensAre ==
  ASSUME NEW S, NEW s \in Seq(S), NEW N \in Nat, N >= Len(s), NEW p, Walk(p, s, N)
  PROVE  \E o : Scans(o, p, s, S, N) /\ cred_tokens(s) = o[N]
<1>0. Len(s) \in Nat
  OBVIOUS
<1>1. PICK a : Scanning(a, s, S) /\ cred_tokens(s) = a[Len(s)].out
  BY ScanLoop
<1>2. /\ \A n \in 0..Len(s) : a[n] \in ScanStates(s, S)
      /\ a[0] = Turned(1, <<>>) /\ \A n \in 1..Len(s) : a[n] = scan_turn(s, a[n - 1])
  BY <1>1 DEF Scanning
<1>3. /\ \A n \in 0..N : p[n] \in 1..(Len(s) + 1) /\ (n >= Len(s) => p[n] = Len(s) + 1)
      /\ p[0] = 1 /\ \A n \in 1..N : p[n] = NextCut(s, p[n - 1])
  BY <1>0, WalkEnds DEF Walk
<1> DEFINE Abreast(n) == a[n].i = p[n] \/ (a[n].i = Len(s) /\ p[n] = Len(s) + 1)
           T == {n \in Nat : n <= Len(s) => Abreast(n)}
<1>4. 0 \in T
  BY <1>2, <1>3 DEF Turned
<1>5. ASSUME NEW n \in T PROVE n + 1 \in T
  <2> SUFFICES ASSUME n + 1 <= Len(s) PROVE Abreast(n + 1)
    BY <1>5
  <2>1. n \in Nat /\ n + 1 \in 1..Len(s) /\ n + 1 \in 1..N /\ n + 1 - 1 = n /\ n \in 0..Len(s) /\ n \in 0..N /\ Abreast(n)
    BY <1>0, <1>5
  <2>2. a[n] \in ScanStates(s, S) /\ a[n + 1] = scan_turn(s, a[n])
    BY <1>2, <2>1
  <2>3. a[n + 1].i = IF a[n].i >= Len(s) THEN a[n].i ELSE NextCut(s, a[n].i)
    BY <2>2, ScanTurnOf
  <2>4. p[n + 1] = NextCut(s, p[n]) /\ p[n] \in 1..(Len(s) + 1)
    BY <1>3, <2>1
  <2>5. /\ p[n] = Len(s) => p[n + 1] = Len(s) + 1
        /\ p[n] = Len(s) + 1 => p[n + 1] = p[n]
    BY <1>0, <2>4, NextCutOf
  <2> QED BY <1>0, <2>1, <2>3, <2>4, <2>5
<1>6. T = Nat
  <2>1. T \in SUBSET Nat
    OBVIOUS
  <2> HIDE DEF T
  <2> QED BY <1>4, <1>5, <2>1, Induction
<1>7. \A n \in 0..Len(s) : Abreast(n)
  <2>1. \A n \in 0..Len(s) : n \in T
    <3> HIDE DEF T
    <3> QED BY <1>6
  <2> QED BY <2>1
<1> HIDE DEF T
<1> DEFINE k(n) == IF n <= Len(s) THEN n ELSE Len(s)
           o == [n \in 0..N |-> a[k(n)].out]
<1>8. \A n \in 0..N : k(n) \in 0..Len(s)
  BY <1>0
<1>9. o \in [0..N -> Seq(Seq(S))]
  <2>1. \A n \in 0..N : a[k(n)].out \in Seq(Seq(S))
    BY <1>2, <1>8 DEF ScanStates
  <2> QED BY <2>1
<1>10. o[0] = <<>> /\ o[N] = a[Len(s)].out
  <2>1. 0 \in 0..N /\ N \in 0..N /\ k(0) = 0 /\ k(N) = Len(s)
    BY <1>0
  <2>2. o[0] = a[k(0)].out /\ o[N] = a[k(N)].out
    BY <2>1
  <2> HIDE DEF o, k
  <2> QED BY <1>2, <2>1, <2>2 DEF Turned
<1>11. ASSUME NEW n \in 1..N
       PROVE  o[n] = IF IsToken(s, p[n - 1]) THEN Append(o[n - 1], Uri(s, p[n - 1])) ELSE o[n - 1]
  <2>1. n - 1 \in 0..N /\ n \in 0..N
    OBVIOUS
  <2>2. o[n] = a[k(n)].out /\ o[n - 1] = a[k(n - 1)].out
    BY <2>1
  <2>3. CASE n <= Len(s)
    <3>1. k(n) = n /\ k(n - 1) = n - 1 /\ n \in 1..Len(s) /\ n - 1 \in 0..Len(s)
      BY <1>0, <2>3
    <3> HIDE DEF o, k
    <3>2. a[n].out = IF IsToken(s, a[n - 1].i) THEN Append(a[n - 1].out, Uri(s, a[n - 1].i)) ELSE a[n - 1].out
      BY <1>2, <3>1, ScanTurnOf
    <3>3. CASE a[n - 1].i = p[n - 1]
      BY <2>2, <3>1, <3>2, <3>3
    <3>4. CASE a[n - 1].i = Len(s) /\ p[n - 1] = Len(s) + 1
      <4>1. ~IsToken(s, a[n - 1].i)
        <5>1. CASE Len(s) \in 1..Len(s)
          BY <3>4, <5>1, BlockEndIn DEF IsToken
        <5>2. CASE Len(s) \notin 1..Len(s)
          BY <1>0, <3>1, <5>2
        <5> QED BY <5>1, <5>2
      <4>2. ~IsToken(s, p[n - 1])
        BY <1>0, <3>4 DEF IsToken
      <4> QED BY <2>2, <3>1, <3>2, <4>1, <4>2
    <3> QED BY <1>7, <3>1, <3>3, <3>4
  <2>4. CASE n > Len(s)
    <3>1. k(n) = Len(s) /\ k(n - 1) = Len(s) /\ n - 1 >= Len(s)
      BY <1>0, <2>4
    <3> HIDE DEF o, k
    <3>2. p[n - 1] = Len(s) + 1
      BY <1>3, <2>1, <3>1
    <3>3. ~IsToken(s, p[n - 1])
      BY <1>0, <3>2 DEF IsToken
    <3> QED BY <2>2, <3>1, <3>3
  <2> QED BY <1>0, <2>3, <2>4
<1> HIDE DEF o
<1> QED BY <1>1, <1>9, <1>10, <1>11 DEF Scans

(* ---------------- The substitution writes turn by turn ----------------- *)

\* The bytes a byte from 0x80 up becomes are in S, and so is what f has.
Serves(f, S) == {"C2", "C3", "82", "83"} \subseteq S /\ \A u \in DOMAIN f : f[u] \in Seq(S)

\* What a character is written as is over the alphabet.
LEMMA AsCharIn ==
  ASSUME NEW S, {"C2", "C3", "82", "83"} \subseteq S, NEW c \in S
  PROVE  AsChar(c) \in Seq(S)
BY DEF AsChar

\* So is what is written for a turn of the reading.
LEMMA ImageIn ==
  ASSUME NEW S, NEW s \in Seq(S), NEW f, Serves(f, S), NEW i \in 1..Len(s)
  PROVE  Image(s, f, i) \in Seq(S)
<1>1. CASE BlockEnd(s, i) = 0
  BY <1>1, AsCharIn DEF Image, Serves
<1>2. CASE BlockEnd(s, i) # 0
  <2>1. Len(s) \in Nat /\ BlockEnd(s, i) \in (i + 2)..Len(s)
    BY <1>2, BlockEndIn
  <2>2. SubSeq(s, i, BlockEnd(s, i)) \in Seq(S)
    BY <2>1, PieceOf
  <2> QED BY <1>2, <2>2 DEF Image, Serves
<1> QED BY <1>1, <1>2

\* A turn of substitute_cred_tokens' loop, in these names.
LEMMA EmitUnfolds ==
  ASSUME NEW s, NEW f, NEW q
  PROVE  /\ q.i > Len(s) => substitute_turn(s, f, q) = q
         /\ ~(q.i > Len(s)) /\ BlockEnd(s, q.i) = 0
              => substitute_turn(s, f, q) = Turned(q.i + 1, Then(q.out, Image(s, f, q.i)))
         /\ ~(q.i > Len(s)) /\ BlockEnd(s, q.i) # 0
              => substitute_turn(s, f, q) = Turned(BlockEnd(s, q.i) + 1, Then(q.out, Image(s, f, q.i)))
BY Zenon DEF substitute_turn, Uri, Turned, Then, Image

\* A turn of substitute_cred_tokens.
LEMMA EmitTurnOf ==
  ASSUME NEW S, NEW s \in Seq(S), NEW f, Serves(f, S), NEW q \in EmitStates(s, S)
  PROVE  /\ substitute_turn(s, f, q) \in EmitStates(s, S)
         /\ substitute_turn(s, f, q).i = NextCut(s, q.i)
         /\ substitute_turn(s, f, q).out
              = IF q.i > Len(s) THEN q.out ELSE Then(q.out, Image(s, f, q.i))
<1> DEFINE r == substitute_turn(s, f, q)
<1>0. Len(s) \in Nat /\ q.i \in 1..(Len(s) + 1) /\ q.out \in Seq(S) /\ q = Turned(q.i, q.out)
  BY DEF EmitStates, Turned
<1>1. CASE q.i > Len(s)
  <2>1. r = q
    BY <1>1, EmitUnfolds
  <2> QED BY <1>1, <2>1 DEF NextCut
<1>2. CASE q.i <= Len(s)
  <2>1. r = Turned(NextCut(s, q.i), Then(q.out, Image(s, f, q.i)))
    <3>1. CASE BlockEnd(s, q.i) = 0
      BY <1>0, <1>2, <3>1, EmitUnfolds DEF NextCut
    <3>2. CASE BlockEnd(s, q.i) # 0
      BY <1>0, <1>2, <3>2, EmitUnfolds DEF NextCut
    <3> QED BY <3>1, <3>2
  <2> HIDE DEF r
  <2>2. Then(q.out, Image(s, f, q.i)) \in Seq(S)
    BY <1>0, <1>2, ImageIn, Concat
  <2>3. NextCut(s, q.i) \in 1..(Len(s) + 1)
    BY <1>0, NextCutOf
  <2>4. r \in EmitStates(s, S) /\ r.i = NextCut(s, q.i) /\ r.out = Then(q.out, Image(s, f, q.i))
    BY <2>1, <2>2, <2>3 DEF Turned, EmitStates
  <2> QED BY <1>0, <1>2, <2>4 DEF r
<1> QED BY <1>0, <1>1, <1>2

\* a is substitute_cred_tokens' loop over s.
Emitting(a, s, f, S) ==
  /\ a \in [0..Len(s) -> EmitStates(s, S)] /\ a[0] = Turned(1, <<>>)
  /\ \A n \in 1..Len(s) : a[n] = substitute_turn(s, f, a[n - 1])

\* substitute_cred_tokens is what its loop ends with.
LEMMA EmitLoop ==
  ASSUME NEW S, NEW s \in Seq(S), NEW found, Serves(found, S)
  PROVE  \E a : Emitting(a, s, found, S) /\ substitute_cred_tokens(s, found) = a[Len(s)].out
<1> DEFINE L == Len(s)
           V == EmitStates(s, S)
           turn == [q \in V \X (1..L) |-> substitute_turn(s, found, q[1])]
           Is(f) == f = [n \in 0..L |-> IF n = 0 THEN [i |-> 1, out |-> <<>>]
                                        ELSE substitute_turn(s, found, f[n - 1])]
           a == CHOOSE f : Is(f)
<1>1. substitute_cred_tokens(s, found) = a[L].out
  BY DEF substitute_cred_tokens
<1>2. L \in Nat /\ Turned(1, <<>>) \in V
  BY DEF Turned, EmitStates
<1>3. \A q \in V : substitute_turn(s, found, q) \in V
  BY EmitTurnOf
<1> HIDE DEF V
<1>4. turn \in Turns(V, L)
  BY <1>3 DEF Turns
<1>5. \A q \in V, n \in 1..L : turn[<<q, n>>] = substitute_turn(s, found, q)
  OBVIOUS
<1> HIDE DEF turn
<1>6. PICK f : Follows(f, V, Turned(1, <<>>), L, turn)
  BY <1>2, <1>4, Recursion
<1>7. /\ f \in [0..L -> V] /\ f[0] = Turned(1, <<>>)
      /\ \A n \in 1..L : f[n] = substitute_turn(s, found, f[n - 1])
  <2>1. \A n \in 1..L : n - 1 \in 0..L
    BY <1>2
  <2> QED BY <1>5, <1>6, <2>1 DEF Follows
<1>8. Is(f)
  <2>1. \A n \in 0..L : n = 0 \/ n \in 1..L
    BY <1>2
  <2> QED BY <1>7, <2>1 DEF Turned
<1>9. Is(a)
  <2> HIDE DEF Is
  <2> QED BY <1>8
<1> HIDE DEF a
<1>10. DOMAIN a = 0..L /\ a[0] = Turned(1, <<>>) /\ \A n \in 1..L : a[n] = substitute_turn(s, found, a[n - 1])
  <2>1. a = [n \in 0..L |-> a[n]]
    BY <1>9
  <2>2. \A n \in 1..L : n \in 0..L /\ n # 0
    BY <1>2
  <2>3. 0 \in 0..L
    BY <1>2
  <2> QED BY <1>9, <2>1, <2>2, <2>3 DEF Turned
<1>11. a = [n \in 0..L |-> a[n]]
  BY <1>9
<1> HIDE DEF Is
<1> DEFINE C == {n \in Nat : n <= L => a[n] \in V}
<1>12. C = Nat
  <2>1. 0 \in C
    BY <1>2, <1>10
  <2>2. ASSUME NEW n \in C PROVE n + 1 \in C
    <3> SUFFICES ASSUME n + 1 <= L PROVE a[n + 1] \in V
      BY <2>2
    <3>1. n \in Nat /\ n + 1 \in 1..L /\ n + 1 - 1 = n /\ a[n] \in V
      BY <1>2, <2>2
    <3>2. a[n + 1] = substitute_turn(s, found, a[n])
      BY <1>10, <3>1
    <3> QED BY <1>3, <3>1, <3>2
  <2>3. C \in SUBSET Nat
    OBVIOUS
  <2> HIDE DEF C
  <2> QED BY <2>1, <2>2, <2>3, Induction
<1>13. a \in [0..L -> V]
  <2>1. \A n \in 0..L : a[n] \in V
    BY <1>2, <1>12
  <2> QED BY <1>11, <2>1
<1>14. Emitting(a, s, found, S)
  BY <1>10, <1>13 DEF Emitting, V
<1> QED BY <1>1, <1>14

\* u is what is written up to each turn of the reading p.
Emits(u, p, s, f, S, N) ==
  /\ u \in [0..N -> Seq(S)] /\ u[0] = <<>>
  /\ \A n \in 1..N : u[n] = IF p[n - 1] > Len(s) THEN u[n - 1] ELSE Then(u[n - 1], Image(s, f, p[n - 1]))

\* It writes the images of the reading, turn by turn.
LEMMA TextIs ==
  ASSUME NEW S, NEW s \in Seq(S), NEW f, Serves(f, S),
         NEW N \in Nat, N >= Len(s), NEW p, Walk(p, s, N)
  PROVE  \E u : Emits(u, p, s, f, S, N) /\ substitute_cred_tokens(s, f) = u[N]
<1>0. Len(s) \in Nat
  OBVIOUS
<1>1. PICK a : Emitting(a, s, f, S) /\ substitute_cred_tokens(s, f) = a[Len(s)].out
  BY EmitLoop
<1>2. /\ \A n \in 0..Len(s) : a[n] \in EmitStates(s, S)
      /\ a[0] = Turned(1, <<>>) /\ \A n \in 1..Len(s) : a[n] = substitute_turn(s, f, a[n - 1])
  BY <1>1 DEF Emitting
<1>3. /\ \A n \in 0..N : p[n] \in 1..(Len(s) + 1) /\ (n >= Len(s) => p[n] = Len(s) + 1)
      /\ p[0] = 1 /\ \A n \in 1..N : p[n] = NextCut(s, p[n - 1])
  BY <1>0, WalkEnds DEF Walk
<1> DEFINE Abreast(n) == a[n].i = p[n]
           T == {n \in Nat : n <= Len(s) => Abreast(n)}
<1>4. 0 \in T
  BY <1>2, <1>3 DEF Turned
<1>5. ASSUME NEW n \in T PROVE n + 1 \in T
  <2> SUFFICES ASSUME n + 1 <= Len(s) PROVE Abreast(n + 1)
    BY <1>5
  <2>1. n \in Nat /\ n + 1 \in 1..Len(s) /\ n + 1 \in 1..N /\ n + 1 - 1 = n /\ n \in 0..Len(s) /\ n \in 0..N /\ Abreast(n)
    BY <1>0, <1>5
  <2>2. a[n] \in EmitStates(s, S) /\ a[n + 1] = substitute_turn(s, f, a[n])
    BY <1>2, <2>1
  <2>3. a[n + 1].i = NextCut(s, a[n].i)
    BY <2>2, EmitTurnOf
  <2>4. p[n + 1] = NextCut(s, p[n])
    BY <1>3, <2>1
  <2> QED BY <2>1, <2>3, <2>4
<1>6. T = Nat
  <2>1. T \in SUBSET Nat
    OBVIOUS
  <2> HIDE DEF T
  <2> QED BY <1>4, <1>5, <2>1, Induction
<1>7. \A n \in 0..Len(s) : Abreast(n)
  <2>1. \A n \in 0..Len(s) : n \in T
    <3> HIDE DEF T
    <3> QED BY <1>6
  <2> QED BY <2>1
<1> HIDE DEF T
<1> DEFINE k(n) == IF n <= Len(s) THEN n ELSE Len(s)
           u == [n \in 0..N |-> a[k(n)].out]
<1>8. \A n \in 0..N : k(n) \in 0..Len(s)
  BY <1>0
<1>9. u \in [0..N -> Seq(S)]
  <2>1. \A n \in 0..N : a[k(n)].out \in Seq(S)
    BY <1>2, <1>8 DEF EmitStates
  <2> QED BY <2>1
<1>10. u[0] = <<>> /\ u[N] = a[Len(s)].out
  <2>1. 0 \in 0..N /\ N \in 0..N /\ k(0) = 0 /\ k(N) = Len(s)
    BY <1>0
  <2>2. u[0] = a[k(0)].out /\ u[N] = a[k(N)].out
    BY <2>1
  <2> HIDE DEF u, k
  <2> QED BY <1>2, <2>1, <2>2 DEF Turned
<1>11. ASSUME NEW n \in 1..N
       PROVE  u[n] = IF p[n - 1] > Len(s) THEN u[n - 1] ELSE Then(u[n - 1], Image(s, f, p[n - 1]))
  <2>1. n - 1 \in 0..N /\ n \in 0..N
    OBVIOUS
  <2>2. u[n] = a[k(n)].out /\ u[n - 1] = a[k(n - 1)].out
    BY <2>1
  <2>3. CASE n <= Len(s)
    <3>1. k(n) = n /\ k(n - 1) = n - 1 /\ n \in 1..Len(s) /\ n - 1 \in 0..Len(s)
      BY <1>0, <2>3
    <3> HIDE DEF u, k
    <3>2. a[n].out = IF a[n - 1].i > Len(s) THEN a[n - 1].out ELSE Then(a[n - 1].out, Image(s, f, a[n - 1].i))
      BY <1>2, <3>1, EmitTurnOf
    <3> QED BY <1>7, <2>2, <3>1, <3>2
  <2>4. CASE n > Len(s)
    <3>1. k(n) = Len(s) /\ k(n - 1) = Len(s) /\ n - 1 >= Len(s)
      BY <1>0, <2>4
    <3> HIDE DEF u, k
    <3>2. p[n - 1] > Len(s)
      BY <1>0, <1>3, <2>1, <3>1
    <3> QED BY <2>2, <3>1, <3>2
  <2> QED BY <1>0, <2>3, <2>4
<1> HIDE DEF u
<1> QED BY <1>1, <1>9, <1>10, <1>11 DEF Emits

\* The type of a text after substitution.
LEMMA TextIn ==
  ASSUME NEW S, NEW s \in Seq(S), NEW f, Serves(f, S)
  PROVE  substitute_cred_tokens(s, f) \in Seq(S)
<1>1. Len(s) \in Nat
  OBVIOUS
<1>2. PICK p : Walk(p, s, Len(s))
  BY <1>1, WalkExists
<1>3. PICK u : Emits(u, p, s, f, S, Len(s)) /\ substitute_cred_tokens(s, f) = u[Len(s)]
  BY <1>1, <1>2, TextIs
<1> QED BY <1>1, <1>3 DEF Emits

(* --------------------------- Where it writes --------------------------- *)

\* b starts with a.
Starts(a, b) == Len(a) <= Len(b) /\ \A i \in 1..Len(a) : b[i] = a[i]

\* Starting with is a partial order, and a concatenation starts with its first part.
LEMMA StartsOf ==
  /\ \A S : \A a \in Seq(S) : Starts(a, a)
  /\ \A S : \A a, b \in Seq(S) : Starts(a, Then(a, b))
  /\ \A S : \A a, b, c \in Seq(S) : Starts(a, b) /\ Starts(b, c) => Starts(a, c)
<1>1. \A S : \A a \in Seq(S) : Starts(a, a)
  BY DEF Starts
<1>2. ASSUME NEW S, NEW a \in Seq(S), NEW b \in Seq(S) PROVE Starts(a, Then(a, b))
  BY ConcatOf DEF Starts, Then
<1>3. ASSUME NEW S, NEW a \in Seq(S), NEW b \in Seq(S), NEW c \in Seq(S), Starts(a, b), Starts(b, c)
      PROVE  Starts(a, c)
  <2>1. Len(a) \in Nat /\ Len(b) \in Nat /\ Len(c) \in Nat
    OBVIOUS
  <2> QED BY <1>3, <2>1 DEF Starts
<1> QED BY <1>1, <1>2, <1>3

\* The items of a concatenation.
LEMMA ThenOf ==
  \A S : \A a, b \in Seq(S) :
    /\ Len(a) \in Nat /\ Len(b) \in Nat /\ Len(Then(a, b)) = Len(a) + Len(b)
    /\ \A i \in 1..Len(a) : Then(a, b)[i] = a[i]
    /\ \A i \in 1..Len(b) : Then(a, b)[Len(a) + i] = b[i]
BY ConcatOf DEF Then

\* What is written stays.
LEMMA Grows ==
  ASSUME NEW S, NEW s \in Seq(S), NEW f, Serves(f, S), NEW N \in Nat, NEW p, Walk(p, s, N),
         NEW u, Emits(u, p, s, f, S, N), NEW n \in 0..N
  PROVE  /\ Starts(u[n], u[N])
         /\ p[n] = Len(s) + 1 => u[N] = u[n]
<1>0. Len(s) \in Nat
  OBVIOUS
<1>1. /\ \A k \in 0..N : u[k] \in Seq(S) /\ p[k] \in 1..(Len(s) + 1)
      /\ \A k \in 1..N : u[k] = IF p[k - 1] > Len(s) THEN u[k - 1] ELSE Then(u[k - 1], Image(s, f, p[k - 1]))
      /\ \A k \in 1..N : p[k] = NextCut(s, p[k - 1])
  BY DEF Emits, Walk
<1> DEFINE Holds(k) == Starts(u[n], u[k]) /\ (p[n] = Len(s) + 1 => u[k] = u[n] /\ p[k] = Len(s) + 1)
           T == {k \in Nat : n + k <= N => Holds(n + k)}
<1>2. 0 \in T
  BY <1>1, StartsOf
<1>3. ASSUME NEW k \in T PROVE k + 1 \in T
  <2> SUFFICES ASSUME n + (k + 1) <= N PROVE Holds(n + (k + 1))
    BY <1>3
  <2> DEFINE l == n + (k + 1)
  <2>1. k \in Nat /\ l \in 1..N /\ l - 1 \in 0..N /\ l - 1 = n + k /\ n + k <= N
    BY <1>3
  <2>2. Holds(l - 1)
    BY <1>3, <2>1
  <2> HIDE DEF l
  <2>3. u[l] = (IF p[l - 1] > Len(s) THEN u[l - 1] ELSE Then(u[l - 1], Image(s, f, p[l - 1])))
        /\ p[l] = NextCut(s, p[l - 1]) /\ p[l - 1] \in 1..(Len(s) + 1) /\ u[l - 1] \in Seq(S) /\ u[l] \in Seq(S)
        /\ u[n] \in Seq(S)
    BY <1>1, <2>1
  <2>4. CASE p[l - 1] > Len(s)
    <3>1. p[l] = p[l - 1] /\ u[l] = u[l - 1]
      BY <2>3, <2>4 DEF NextCut
    <3> QED BY <2>2, <3>1 DEF l
  <2>5. CASE p[l - 1] <= Len(s)
    <3>1. p[l - 1] \in 1..Len(s) /\ ~(p[l - 1] > Len(s)) /\ p[n] # Len(s) + 1
      BY <1>0, <2>2, <2>3, <2>5
    <3>2. Image(s, f, p[l - 1]) \in Seq(S)
      BY <3>1, ImageIn
    <3>3. Starts(u[l - 1], u[l])
      BY <2>3, <3>1, <3>2, StartsOf
    <3>4. Starts(u[n], u[l])
      BY <2>2, <2>3, <3>3, StartsOf
    <3> QED BY <3>1, <3>4 DEF l
  <2> QED BY <1>0, <2>3, <2>4, <2>5 DEF l
<1>4. T = Nat
  <2>1. T \in SUBSET Nat
    OBVIOUS
  <2> HIDE DEF T
  <2> QED BY <1>2, <1>3, <2>1, Induction
<1>5. Holds(N)
  <2>1. N - n \in Nat /\ n + (N - n) = N
    OBVIOUS
  <2>2. N - n \in T
    <3> HIDE DEF T
    <3> QED BY <1>4, <2>1
  <2> QED BY <2>1, <2>2
<1> QED BY <1>5

\* f has a value for the block at i.
Found(s, f, i) == is_cred_uri(Uri(s, i)) /\ Uri(s, i) \in DOMAIN f

\* One turn of substitute_cred_tokens takes s from i to i2 and writes t from j to j2.
Single(s, t, i, j, i2, j2) == BlockEnd(s, i) = 0 /\ i2 = i + 1 /\ j2 = j + 1 /\ t[j] = s[i]
Kept(s, f, t, i, j, i2, j2) ==
  /\ BlockEnd(s, i) # 0 /\ ~Found(s, f, i)
  /\ i2 = BlockEnd(s, i) + 1 /\ j2 = j + (i2 - i) /\ Copy(s, i - 1, t, j - 1, i2 - i)
Filled(s, f, t, i, j, i2, j2) ==
  /\ BlockEnd(s, i) # 0 /\ Found(s, f, i)
  /\ i2 = BlockEnd(s, i) + 1 /\ j2 = j + 1 /\ t[j] = f[Uri(s, i)][1]

\* q is where the text written, t, is at each turn of the reading p of s.
Writes(q, p, s, f, t, N) ==
  /\ q \in [0..N -> 1..(Len(t) + 1)] /\ q[0] = 1
  /\ \A n \in 0..N : p[n] = Len(s) + 1 => q[n] = Len(t) + 1
  /\ \A n \in 1..N :
       IF p[n - 1] = Len(s) + 1 THEN q[n] = q[n - 1]
       ELSE \/ Single(s, t, p[n - 1], q[n - 1], p[n], q[n])
            \/ Kept(s, f, t, p[n - 1], q[n - 1], p[n], q[n])
            \/ Filled(s, f, t, p[n - 1], q[n - 1], p[n], q[n])

\* A character that is written as it is read.
Ascii(c) == AsChar(c) = <<c>>
\* A text of such characters.
AsciiText(s) == \A i \in 1..Len(s) : Ascii(s[i])
\* What f has are single characters that mean nothing to the scan, for URIs
\* without a quote.
PlainFound(f, S) ==
  /\ Serves(f, S)
  /\ \A u \in DOMAIN f : /\ f[u] = <<f[u][1]>> /\ f[u][1] \in S /\ Ascii(f[u][1])
                         /\ f[u][1] \notin {Dollar, Opener, Closer, Quote, Escape}
                         /\ \A j \in 1..Len(u) : u[j] # Quote

\* Where substitute_cred_tokens has written up to each turn.
LEMMA WritesExist ==
  ASSUME NEW S, NEW s \in Seq(S), AsciiText(s), NEW f, PlainFound(f, S),
         NEW N \in Nat, N >= Len(s), NEW p, Walk(p, s, N), NEW u, Emits(u, p, s, f, S, N)
  PROVE  Writes([n \in 0..N |-> Len(u[n]) + 1], p, s, f, u[N], N)
<1>0. Len(s) \in Nat /\ Serves(f, S)
  BY DEF PlainFound
<1>1. /\ \A k \in 0..N : u[k] \in Seq(S) /\ p[k] \in 1..(Len(s) + 1)
      /\ u[0] = <<>> /\ N \in 0..N /\ 0 \in 0..N
      /\ \A k \in 1..N : u[k] = IF p[k - 1] > Len(s) THEN u[k - 1] ELSE Then(u[k - 1], Image(s, f, p[k - 1]))
      /\ \A k \in 1..N : p[k] = NextCut(s, p[k - 1])
  BY DEF Emits, Walk
<1> DEFINE t == u[N]
           q == [n \in 0..N |-> Len(u[n]) + 1]
<1>2. t \in Seq(S) /\ Len(t) \in Nat
  BY <1>1
<1>3. ASSUME NEW n \in 0..N
      PROVE  /\ q[n] = Len(u[n]) + 1 /\ Len(u[n]) \in Nat /\ Len(u[n]) <= Len(t)
             /\ \A i \in 1..Len(u[n]) : t[i] = u[n][i]
             /\ p[n] = Len(s) + 1 => t = u[n]
  <2>1. Starts(u[n], t) /\ (p[n] = Len(s) + 1 => t = u[n]) /\ u[n] \in Seq(S)
    BY <1>0, <1>1, Grows
  <2> QED BY <2>1 DEF Starts
<1> HIDE DEF t
<1>4. q \in [0..N -> 1..(Len(t) + 1)] /\ q[0] = 1
  <2>1. \A n \in 0..N : Len(u[n]) + 1 \in 1..(Len(t) + 1)
    BY <1>2, <1>3
  <2>2. Len(u[0]) = 0
    BY <1>1
  <2>3. q[0] = Len(u[0]) + 1
    BY <1>1
  <2> QED BY <2>1, <2>2, <2>3
<1> HIDE DEF q
<1>5. \A n \in 0..N : p[n] = Len(s) + 1 => q[n] = Len(t) + 1
  BY <1>3
<1>6. ASSUME NEW n \in 1..N
      PROVE  IF p[n - 1] = Len(s) + 1 THEN q[n] = q[n - 1]
             ELSE \/ Single(s, t, p[n - 1], q[n - 1], p[n], q[n])
                  \/ Kept(s, f, t, p[n - 1], q[n - 1], p[n], q[n])
                  \/ Filled(s, f, t, p[n - 1], q[n - 1], p[n], q[n])
  <2> DEFINE i == p[n - 1]
             j == q[n - 1]
             e == BlockEnd(s, i)
             x == Image(s, f, i)
  <2>1. n - 1 \in 0..N /\ n \in 0..N
    OBVIOUS
  <2>2. i \in 1..(Len(s) + 1) /\ u[n - 1] \in Seq(S) /\ u[n] \in Seq(S)
        /\ j = Len(u[n - 1]) + 1 /\ q[n] = Len(u[n]) + 1 /\ j \in Nat /\ Len(u[n - 1]) \in Nat
    BY <1>1, <1>3, <2>1
  <2>3. CASE i = Len(s) + 1
    <3>1. u[n] = u[n - 1]
      BY <1>0, <1>1, <2>3
    <3> QED BY <2>2, <2>3, <3>1
  <2>4. CASE i <= Len(s)
    <3>1. i \in 1..Len(s) /\ ~(i > Len(s)) /\ i # Len(s) + 1
      BY <1>0, <2>2, <2>4
    <3>2. x \in Seq(S)
      BY <1>0, <3>1, ImageIn
    <3>3. u[n] = Then(u[n - 1], x)
      BY <1>1, <3>1
    <3>4. /\ Len(x) \in Nat /\ Len(u[n]) = Len(u[n - 1]) + Len(x)
          /\ \A k \in 1..Len(x) : u[n][Len(u[n - 1]) + k] = x[k]
      <4> HIDE DEF x
      <4> DEFINE v == u[n - 1]
                 w == Then(v, x)
      <4>1. v \in Seq(S)
        BY <2>2
      <4> HIDE DEF v
      <4>2. Len(x) \in Nat /\ Len(w) = Len(v) + Len(x) /\ \A k \in 1..Len(x) : w[Len(v) + k] = x[k]
        BY <3>2, <4>1, ThenOf
      <4>3. u[n] = w
        BY <3>3 DEF v
      <4> HIDE DEF w
      <4> QED BY <4>2, <4>3 DEF v
    <3>5. q[n] = j + Len(x) /\ \A k \in 1..Len(x) : t[(j - 1) + k] = x[k]
      <4> HIDE DEF i, j, x
      <4>1. q[n] = j + Len(x)
        BY <2>2, <3>4
      <4>2. \A k \in 1..Len(x) : Len(u[n - 1]) + k \in 1..Len(u[n]) /\ (j - 1) + k = Len(u[n - 1]) + k
        BY <2>2, <3>4
      <4>3. \A k \in 1..Len(u[n]) : t[k] = u[n][k]
        BY <1>3, <2>1
      <4> QED BY <3>4, <4>1, <4>2, <4>3
    <3>6. p[n] = IF e = 0 THEN i + 1 ELSE e + 1
      BY <1>1, <3>1 DEF NextCut
    <3>7. CASE e = 0
      <4>1. x = <<s[i]>>
        BY <3>1, <3>7 DEF Image, AsciiText, Ascii
      <4>2. Len(x) = 1 /\ x[1] = s[i] /\ 1 \in 1..Len(x) /\ (j - 1) + 1 = j
        BY <2>2, <4>1
      <4>3. Single(s, t, i, j, p[n], q[n])
        BY <3>5, <3>6, <3>7, <4>2 DEF Single
      <4> QED BY <3>1, <4>3
    <3>8. CASE e # 0 /\ Found(s, f, i)
      <4>1. x = f[Uri(s, i)] /\ Uri(s, i) \in DOMAIN f
        BY <3>8 DEF Image, Found
      <4>2. x = <<f[Uri(s, i)][1]>>
        BY <4>1 DEF PlainFound
      <4>3. Len(x) = 1 /\ x[1] = f[Uri(s, i)][1] /\ 1 \in 1..Len(x) /\ (j - 1) + 1 = j
        BY <2>2, <4>2
      <4>4. Filled(s, f, t, i, j, p[n], q[n])
        BY <3>5, <3>6, <3>8, <4>3 DEF Filled
      <4> QED BY <3>1, <4>4
    <3>9. CASE e # 0 /\ ~Found(s, f, i)
      <4>1. x = SubSeq(s, i, e)
        BY <3>9 DEF Image, Found
      <4>2. e \in (i + 2)..Len(s) /\ i \in Nat
        BY <1>0, <3>1, <3>9, BlockEndIn
      <4>3. Len(x) = e - i + 1 /\ \A k \in 1..(e - i + 1) : x[k] = s[i + k - 1]
        <5> HIDE DEF i, e, x
        <5>1. i \in 1..(Len(s) + 1) /\ e \in 0..Len(s) /\ e >= i - 1
          BY <1>0, <3>1, <4>2
        <5> QED BY <4>1, <5>1, PieceOf
      <4>4. p[n] = e + 1 /\ p[n] - i = Len(x) /\ q[n] = j + (p[n] - i) /\ p[n] - i \in Nat
        BY <3>5, <3>6, <3>9, <4>2, <4>3
      <4>5. (j - 1) + (p[n] - i) <= Len(t)
        <5>1. Len(u[n]) <= Len(t)
          BY <1>3, <2>1
        <5> QED BY <1>2, <2>2, <4>4, <5>1
      <4>6. (i - 1) + (p[n] - i) <= Len(s)
        BY <1>0, <4>2, <4>4
      <4>7. \A k \in 1..(p[n] - i) : t[(j - 1) + k] = s[(i - 1) + k]
        <5>1. \A k \in 1..(p[n] - i) : i + k - 1 = (i - 1) + k
          BY <4>2
        <5> QED BY <3>5, <4>3, <4>4, <5>1
      <4>8. Kept(s, f, t, i, j, p[n], q[n])
        BY <3>9, <4>4, <4>5, <4>6, <4>7 DEF Kept, Copy
      <4> QED BY <3>1, <4>8
    <3> QED BY <3>7, <3>8, <3>9
  <2> QED BY <1>0, <2>2, <2>3, <2>4
<1>7. Writes(q, p, s, f, t, N)
  <2>1. \A n \in 1..N :
           IF p[n - 1] = Len(s) + 1 THEN q[n] = q[n - 1]
           ELSE \/ Single(s, t, p[n - 1], q[n - 1], p[n], q[n])
                \/ Kept(s, f, t, p[n - 1], q[n - 1], p[n], q[n])
                \/ Filled(s, f, t, p[n - 1], q[n - 1], p[n], q[n])
    BY <1>6
  <2> QED BY <1>4, <1>5, <2>1 DEF Writes
<1> QED BY <1>7 DEF q, t

(* --------------- A step of the writing and the two scans --------------- *)

\* Whether a block closes, and where, is a matter of its own characters.
LEMMA BlockCopied ==
  ASSUME NEW s, Len(s) \in Nat, NEW t, Len(t) \in Nat, NEW i, NEW e, Block(s, i, e),
         NEW j \in 1..Len(t), Copy(s, i - 1, t, j - 1, e - i + 1)
  PROVE  Block(t, j, j + (e - i))
<1>1. /\ i \in 1..Len(s) /\ i \in Nat /\ e \in Nat /\ i + 2 <= e /\ e <= Len(s) /\ i + 2 \in 1..(Len(s) + 1)
      /\ s[i] = Dollar /\ s[i + 1] = Opener /\ s[e] = Closer /\ find_matching_brace(s, i + 2) = e
  BY DEF Block
<1> DEFINE k == e - (i + 1)
           z == j + (e - i)
<1>2. /\ \A l \in 1..(e - i + 1) : t[(j - 1) + l] = s[(i - 1) + l]
      /\ (j - 1) + (e - i + 1) <= Len(t)
  BY DEF Copy
<1>3. t[j] = Dollar /\ t[j + 1] = Opener /\ t[z] = Closer
  <2>1. 1 \in 1..(e - i + 1) /\ 2 \in 1..(e - i + 1) /\ e - i + 1 \in 1..(e - i + 1)
    BY <1>1
  <2>2. (j - 1) + 1 = j /\ (j - 1) + 2 = j + 1 /\ (i - 1) + 1 = i /\ (i - 1) + 2 = i + 1
    BY <1>1
  <2>3. (i - 1) + (e - i + 1) = e
    BY <1>1
  <2>4. (j - 1) + (e - i + 1) = z
    BY <1>1
  <2>5. /\ t[(j - 1) + 1] = s[(i - 1) + 1] /\ t[(j - 1) + 2] = s[(i - 1) + 2]
        /\ t[(j - 1) + (e - i + 1)] = s[(i - 1) + (e - i + 1)]
    BY <1>2, <2>1
  <2> HIDE DEF z
  <2> QED BY <1>1, <2>2, <2>3, <2>4, <2>5
<1>4. /\ z \in (j + 2)..Len(t) /\ j + 2 \in 1..(Len(t) + 1) /\ k \in Nat /\ k >= 1
      /\ (j + 1) + k = z /\ (i + 1) + k = e /\ z \in Nat
  BY <1>1, <1>2
<1>5. Copy(s, i + 1, t, j + 1, k)
  <2>1. \A l \in 1..k : t[(j + 1) + l] = s[(i + 1) + l]
    <3> TAKE l \in 1..k
    <3>1. l + 2 \in 1..(e - i + 1) /\ (j - 1) + (l + 2) = (j + 1) + l /\ (i - 1) + (l + 2) = (i + 1) + l
      BY <1>1
    <3> QED BY <1>2, <3>1
  <2> HIDE DEF k, z
  <2> QED BY <1>1, <1>4, <2>1 DEF Copy
<1>6. PICK m, d : Nesting(m, d, s, i + 2) /\ m[i + 2 - 1] = "code" /\ d[i + 2 - 1] = 1
  BY <1>1, NestingExists
<1>7. PICK m2, d2 : Nesting(m2, d2, t, j + 2) /\ m2[j + 2 - 1] = "code" /\ d2[j + 2 - 1] = 1
  BY <1>4, NestingExists
<1>8. Closes(e, m, d, s, i + 2)
  BY <1>1, <1>6, FindIs
<1>9. Alike(m, d, i + 1, m2, d2, j + 1, 0)
  <2>1. i + 2 - 1 = i + 1 /\ j + 2 - 1 = j + 1
    BY <1>1
  <2>2. m[i + 1] = "code" /\ d[i + 1] = 1 /\ m2[j + 1] = "code" /\ d2[j + 1] = 1
    BY <1>6, <1>7, <2>1
  <2> QED BY <2>2 DEF Alike
<1> HIDE DEF k, z
<1>10. \A l \in 0..k : Alike(m, d, (i + 1) + l, m2, d2, (j + 1) + l, 0)
  <2>1. i + 1 \in ((i + 2) - 1)..Len(s) /\ j + 1 \in ((j + 2) - 1)..Len(t)
    BY <1>1, <1>4
  <2> QED BY <1>1, <1>4, <1>5, <1>6, <1>7, <1>9, <2>1, Copied
<1>11. /\ \A a \in (j + 1)..Len(t) : d2[a] \in Int
       /\ \A a \in (i + 1)..Len(s) : d[a] \in Int
  <2>1. d \in [((i + 2) - 1)..Len(s) -> Int] /\ d2 \in [((j + 2) - 1)..Len(t) -> Int]
    BY <1>6, <1>7 DEF Nesting
  <2>2. (i + 2) - 1 = i + 1 /\ (j + 2) - 1 = j + 1
    BY <1>1
  <2> QED BY <2>1, <2>2
<1>12. d2[z] = 0 /\ \A a \in (j + 2)..(z - 1) : d2[a] >= 1
  <2>1. \A l \in 0..k : d2[(j + 1) + l] = d[(i + 1) + l]
    <3> TAKE l \in 0..k
    <3>1. (i + 1) + l \in (i + 1)..Len(s)
      BY <1>1, <1>4
    <3>2. d2[(j + 1) + l] = d[(i + 1) + l] + 0
      BY <1>10 DEF Alike
    <3> QED BY <1>11, <3>1, <3>2
  <2>2. d[e] = 0 /\ \A a \in (i + 2)..(e - 1) : d[a] >= 1
    BY <1>8 DEF Closes
  <2>3. d2[z] = 0
    <3>1. k \in 0..k
      BY <1>4
    <3> QED BY <1>4, <2>1, <2>2, <3>1
  <2>4. ASSUME NEW a \in (j + 2)..(z - 1) PROVE d2[a] >= 1
    <3>1. a - (j + 1) \in 0..k /\ (j + 1) + (a - (j + 1)) = a
          /\ (i + 1) + (a - (j + 1)) \in (i + 2)..(e - 1)
      BY <1>1, <1>4
    <3> QED BY <2>1, <2>2, <3>1
  <2> QED BY <2>3, <2>4
<1>13. find_matching_brace(t, j + 2) = z
  <2> DEFINE y == find_matching_brace(t, j + 2)
  <2>1. \/ y = 0 /\ \A a \in (j + 2)..Len(t) : d2[a] >= 1
        \/ Closes(y, m2, d2, t, j + 2)
    BY <1>4, <1>7, FindIs
  <2> HIDE DEF y
  <2>2. ~(\A a \in (j + 2)..Len(t) : d2[a] >= 1)
    BY <1>4, <1>12
  <2>3. y \in (j + 2)..Len(t) /\ d2[y] = 0 /\ \A a \in (j + 2)..(y - 1) : d2[a] >= 1
    BY <2>1, <2>2 DEF Closes
  <2>4. ~(y < z)
    <3>1. y < z => y \in (j + 2)..(z - 1)
      BY <1>4, <2>3
    <3> QED BY <1>12, <2>3, <3>1
  <2>5. ~(z < y)
    <3>1. z < y => z \in (j + 2)..(y - 1)
      BY <1>4, <2>3
    <3> QED BY <1>12, <2>3, <3>1
  <2>6. y = z
    BY <1>4, <2>3, <2>4, <2>5
  <2> QED BY <2>6 DEF y
<1> QED BY <1>3, <1>4, <1>13 DEF Block, z

\* What a step reads.
StepOf(s, f, t, i, j, i2, j2) ==
  Single(s, t, i, j, i2, j2) \/ Kept(s, f, t, i, j, i2, j2) \/ Filled(s, f, t, i, j, i2, j2)

\* A block whose URI has no quote has none.
LEMMA NoQuote ==
  ASSUME NEW S, NEW s \in Seq(S), NEW i \in 1..Len(s), BlockEnd(s, i) # 0,
         \A j \in 1..Len(Uri(s, i)) : Uri(s, i)[j] # Quote
  PROVE  \A k \in (i + 2)..(BlockEnd(s, i) - 1) : s[k] # Quote
<1> DEFINE e == BlockEnd(s, i)
           x == SubSeq(s, i + 2, e - 1)
<1>1. Len(s) \in Nat /\ e \in (i + 2)..Len(s) /\ i \in Nat
  BY BlockEndIn
<1> HIDE DEF e
<1>2. x \in Seq(S) /\ Len(x) = e - i - 2 /\ \A k \in 1..(e - i - 2) : x[k] = s[i + 1 + k]
  <2>1. i + 2 \in 1..(Len(s) + 1) /\ e - 1 \in 0..Len(s) /\ e - 1 >= (i + 2) - 1
    BY <1>1
  <2>2. (e - 1) - (i + 2) + 1 = e - i - 2 /\ \A k \in Int : i + 2 + k - 1 = i + 1 + k
    BY <1>1
  <2> QED BY <2>1, <2>2, PieceOf
<1>3. Uri(s, i) = trim(x)
  BY DEF Uri, Inner, e
<1> HIDE DEF x
<1>4. ASSUME NEW k \in (i + 2)..(e - 1) PROVE s[k] # Quote
  <2>1. k - (i + 1) \in 1..(e - i - 2) /\ i + 1 + (k - (i + 1)) = k
    BY <1>1
  <2>2. x[k - (i + 1)] = s[k] /\ k - (i + 1) \in 1..Len(x)
    BY <1>2, <2>1
  <2>3. s[k] = Blank \/ \E j \in 1..Len(trim(x)) : trim(x)[j] = s[k]
    <3>1. \A l \in 1..Len(x) : x[l] # Blank => \E j \in 1..Len(trim(x)) : trim(x)[j] = x[l]
      BY <1>2, TrimOf
    <3> QED BY <2>2, <3>1
  <2> QED BY <1>3, <2>3, SymbolsDiffer
<1> QED BY <1>4 DEF e

\* m and d are the nesting of s from x on, m2 and d2 that of t from y on.
Both(S, s, t, f, x, m, d, y, m2, d2) ==
  /\ s \in Seq(S) /\ t \in Seq(S) /\ PlainFound(f, S)
  /\ x \in 1..(Len(s) + 1) /\ Nesting(m, d, s, x) /\ y \in 1..(Len(t) + 1) /\ Nesting(m2, d2, t, y)

\* Before a and b the two scans are alike.
Level(m, d, a, m2, d2, b) == Alike(m, d, a - 1, m2, d2, b - 1, 0)

\* A step from a to a2 and from b to b2 goes on and keeps the scans alike; it closes
\* no more than the scan of s ever does.
Onward(s, t, x, m, d, m2, d2, a, b, a2, b2) ==
  /\ a2 \in (a + 1)..(Len(s) + 1) /\ b2 \in (b + 1)..(Len(t) + 1)
  /\ Level(m, d, a2, m2, d2, b2)
  /\ (\A l \in x..Len(s) : d[l] >= 1) => \A l \in b..(b2 - 1) : d2[l] >= 1

\* A step of the writing keeps the two scans where they are.
LEMMA StepAlike ==
  ASSUME NEW S, NEW s, NEW t, NEW f, NEW x, NEW m, NEW d, NEW y, NEW m2, NEW d2,
         Both(S, s, t, f, x, m, d, y, m2, d2),
         NEW a, a \in x..Len(s), NEW b, b \in y..(Len(t) + 1), NEW a2, NEW b2, b2 \in 1..(Len(t) + 1),
         StepOf(s, f, t, a, b, a2, b2), Level(m, d, a, m2, d2, b)
  PROVE  Onward(s, t, x, m, d, m2, d2, a, b, a2, b2)
<1>b. /\ s \in Seq(S) /\ t \in Seq(S) /\ PlainFound(f, S)
      /\ x \in 1..(Len(s) + 1) /\ Nesting(m, d, s, x) /\ y \in 1..(Len(t) + 1) /\ Nesting(m2, d2, t, y)
  BY DEF Both
<1>l. Alike(m, d, a - 1, m2, d2, b - 1, 0)
  BY DEF Level
<1> USE <1>b, <1>l
<1> SUFFICES /\ a2 \in (a + 1)..(Len(s) + 1) /\ b2 \in (b + 1)..(Len(t) + 1)
             /\ Alike(m, d, a2 - 1, m2, d2, b2 - 1, 0)
             /\ (\A l \in x..Len(s) : d[l] >= 1) => \A l \in b..(b2 - 1) : d2[l] >= 1
  BY DEF Level, Onward
<1>0. Len(s) \in Nat /\ Len(t) \in Nat /\ a \in 1..Len(s) /\ a \in Nat /\ b \in Nat
  OBVIOUS
<1>1. /\ \A l \in (x - 1)..Len(s) : m[l] \in Modes /\ d[l] \in Int
      /\ \A l \in x..Len(s) : m[l] = next_mode(m[l - 1], s[l]) /\ d[l] = next_depth(d[l - 1], m[l - 1], s[l])
      /\ \A l \in (y - 1)..Len(t) : m2[l] \in Modes /\ d2[l] \in Int
      /\ \A l \in y..Len(t) : m2[l] = next_mode(m2[l - 1], t[l]) /\ d2[l] = next_depth(d2[l - 1], m2[l - 1], t[l])
  BY DEF Nesting
<1>2. /\ m2[b - 1] = m[a - 1] /\ d2[b - 1] = d[a - 1] + 0 /\ m[a - 1] \in Modes /\ d[a - 1] \in Int
  <2>1. a - 1 \in (x - 1)..Len(s)
    BY <1>0
  <2> QED BY <1>1, <2>1 DEF Alike
<1>3. CASE Single(s, t, a, b, a2, b2)
  <2>1. a2 = a + 1 /\ b2 = b + 1 /\ t[b] = s[a]
    BY <1>3 DEF Single
  <2>2. b \in y..Len(t) /\ a2 - 1 = a /\ b2 - 1 = b
    BY <1>0, <2>1
  <2>3. m2[b] = m[a] /\ d2[b] = d[a] /\ d[a] \in Int
    BY <1>0, <1>1, <1>2, <2>1, <2>2
  <2>4. \A l \in b..(b2 - 1) : l = b
    BY <1>0, <2>2
  <2> QED BY <1>0, <2>1, <2>2, <2>3, <2>4 DEF Alike
<1>4. CASE Kept(s, f, t, a, b, a2, b2)
  <2> DEFINE k == a2 - a
  <2>1. BlockEnd(s, a) # 0 /\ a2 = BlockEnd(s, a) + 1 /\ b2 = b + k /\ Copy(s, a - 1, t, b - 1, k)
    BY <1>4 DEF Kept
  <2> DEFINE e == BlockEnd(s, a)
  <2>2. e \in (a + 2)..Len(s) /\ a2 = e + 1
    BY <1>0, <2>1, BlockEndIn
  <2> HIDE DEF e
  <2>22. a2 \in Nat /\ a2 >= a + 1 /\ a2 <= Len(s) + 1
    BY <1>0, <2>2
  <2>3. a2 \in (a + 1)..(Len(s) + 1) /\ k \in Nat /\ k >= 1 /\ b2 \in (b + 1)..(Len(t) + 1)
        /\ (a - 1) + k = a2 - 1 /\ (b - 1) + k = b2 - 1
    <3>1. k \in Nat /\ k >= 1 /\ (a - 1) + k = a2 - 1
      BY <1>0, <2>22
    <3> HIDE DEF k
    <3> QED BY <1>0, <2>1, <2>22, <3>1
  <2> HIDE DEF k
  <2>4. \A l \in 0..k : Alike(m, d, (a - 1) + l, m2, d2, (b - 1) + l, 0)
    <3>1. a - 1 \in (x - 1)..Len(s) /\ b - 1 \in (y - 1)..Len(t)
      BY <1>0
    <3> QED BY <1>0, <2>1, <3>1, Copied
  <2>5. Alike(m, d, a2 - 1, m2, d2, b2 - 1, 0)
    <3>1. k \in 0..k
      BY <2>3
    <3> QED BY <2>3, <2>4, <3>1
  <2>6. ASSUME \A l \in x..Len(s) : d[l] >= 1, NEW l \in b..(b2 - 1) PROVE d2[l] >= 1
    <3>1. l - (b - 1) \in 0..k /\ (b - 1) + (l - (b - 1)) = l /\ (a - 1) + (l - (b - 1)) \in x..Len(s)
      BY <1>0, <2>3
    <3>2. d2[l] = d[(a - 1) + (l - (b - 1))] + 0
      BY <2>4, <3>1 DEF Alike
    <3>3. d[(a - 1) + (l - (b - 1))] \in Int /\ d[(a - 1) + (l - (b - 1))] >= 1
      <4>1. (a - 1) + (l - (b - 1)) \in (x - 1)..Len(s)
        BY <3>1
      <4> QED BY <1>1, <2>6, <3>1, <4>1
    <3> QED BY <3>2, <3>3
  <2> QED BY <2>3, <2>5, <2>6
<1>5. CASE Filled(s, f, t, a, b, a2, b2)
  <2> DEFINE e == BlockEnd(s, a)
             u == Uri(s, a)
  <2>1. e # 0 /\ u \in DOMAIN f /\ a2 = e + 1 /\ b2 = b + 1 /\ t[b] = f[u][1]
    BY <1>5 DEF Filled, Found
  <2>2. e \in (a + 2)..Len(s) /\ Block(s, a, e)
    BY <1>0, <2>1, BlockEndIn, BlockEndIs
  <2>3. t[b] \notin {Dollar, Opener, Closer, Quote, Escape} /\ \A j \in 1..Len(u) : u[j] # Quote
    BY <2>1 DEF PlainFound
  <2>4. \A k \in (a + 2)..(e - 1) : s[k] # Quote
    BY <1>0, <2>1, <2>3, NoQuote
  <2> HIDE DEF e, u
  <2>5. d[e] = d[a - 1] /\ m[e] = IF m[a - 1] = "code" THEN "code" ELSE "string"
    BY <1>0, <2>2, <2>4, Balanced
  <2>6. a2 \in (a + 1)..(Len(s) + 1) /\ b2 \in (b + 1)..(Len(t) + 1) /\ b \in y..Len(t)
        /\ a2 - 1 = e /\ b2 - 1 = b
    BY <1>0, <2>1, <2>2
  <2>7. m2[b] = next_mode(m2[b - 1], t[b]) /\ d2[b] = next_depth(d2[b - 1], m2[b - 1], t[b])
    BY <1>1, <2>6
  <2>8. d2[b] = d[e]
    BY <1>2, <2>3, <2>5, <2>7 DEF next_depth
  <2>9. m2[b] = m[e]
    BY <1>2, <2>3, <2>5, <2>7 DEF next_mode, Modes
  <2>10. d[e] \in Int
    BY <1>2, <2>5
  <2>11. \A l \in b..(b2 - 1) : l = b
    BY <1>0, <2>6
  <2>12. e \in x..Len(s)
    BY <1>0, <2>2
  <2> QED BY <2>6, <2>8, <2>9, <2>10, <2>11, <2>12 DEF Alike
<1> QED BY <1>3, <1>4, <1>5 DEF StepOf

(* ---------------------- The writing, turn by turn ---------------------- *)

\* t is s with what f has written over its tokens: turn by turn, p reads s while q
\* writes t.
Rewrites(S, s, f, t, N, p, q) ==
  /\ s \in Seq(S) /\ t \in Seq(S) /\ PlainFound(f, S) /\ N \in Nat /\ N >= Len(s)
  /\ Walk(p, s, N) /\ Writes(q, p, s, f, t, N)

\* Each turn stays inside the texts and is one of the three steps; the last one is at
\* the end of both.
Runs(s, f, t, N, p, q) ==
  /\ \A n \in 0..N : /\ p[n] \in 1..(Len(s) + 1) /\ q[n] \in 1..(Len(t) + 1)
                     /\ p[n] >= n + 1 \/ p[n] = Len(s) + 1
                     /\ p[n] = Len(s) + 1 => q[n] = Len(t) + 1
  /\ p[0] = 1 /\ q[0] = 1 /\ p[N] = Len(s) + 1 /\ q[N] = Len(t) + 1
  /\ \A n \in 1..N : /\ p[n - 1] = Len(s) + 1 => q[n] = q[n - 1] /\ p[n] = p[n - 1]
                     /\ p[n - 1] # Len(s) + 1 => StepOf(s, f, t, p[n - 1], q[n - 1], p[n], q[n])

\* What Rewrites says, turn by turn.
LEMMA WritesOf ==
  ASSUME NEW S, NEW s, NEW f, NEW t, NEW N, NEW p, NEW q, Rewrites(S, s, f, t, N, p, q)
  PROVE  Runs(s, f, t, N, p, q)
<1>r. /\ s \in Seq(S) /\ t \in Seq(S) /\ N \in Nat /\ N >= Len(s)
      /\ Walk(p, s, N) /\ Writes(q, p, s, f, t, N)
  BY DEF Rewrites
<1> USE <1>r
<1>1. /\ \A n \in 0..N : p[n] \in 1..(Len(s) + 1) /\ (p[n] >= n + 1 \/ p[n] = Len(s) + 1)
      /\ N \in 0..N /\ p[N] = Len(s) + 1
  BY WalkEnds
<1>2. p[0] = 1 /\ \A n \in 1..N : p[n] = NextCut(s, p[n - 1])
  BY DEF Walk
<1>3. ASSUME NEW n \in 1..N, p[n - 1] = Len(s) + 1 PROVE p[n] = p[n - 1]
  BY <1>2, <1>3, NextCutOf
<1>4. /\ q \in [0..N -> 1..(Len(t) + 1)] /\ q[0] = 1
      /\ \A n \in 0..N : p[n] = Len(s) + 1 => q[n] = Len(t) + 1
  BY DEF Writes
<1>5. ASSUME NEW n \in 1..N
      PROVE /\ p[n - 1] = Len(s) + 1 => q[n] = q[n - 1]
            /\ p[n - 1] # Len(s) + 1 => StepOf(s, f, t, p[n - 1], q[n - 1], p[n], q[n])
  BY DEF Writes, StepOf
<1> QED BY <1>1, <1>2, <1>3, <1>4, <1>5 DEF Runs

\* Its n-th turn goes from i to i2 in s and from j to j2 in t.
TurnAt(n, N, p, q, i, j, i2, j2) ==
  n \in 1..N /\ i = p[n - 1] /\ j = q[n - 1] /\ i2 = p[n] /\ j2 = q[n]

\* One turn of it.
LEMMA TurnOf ==
  ASSUME NEW S, NEW s, NEW f, NEW t, NEW N, NEW p, NEW q, Rewrites(S, s, f, t, N, p, q),
         NEW n, NEW i, NEW j, NEW i2, NEW j2, TurnAt(n, N, p, q, i, j, i2, j2)
  PROVE  /\ i \in 1..(Len(s) + 1) /\ j \in 1..(Len(t) + 1) /\ i2 \in 1..(Len(s) + 1) /\ j2 \in 1..(Len(t) + 1)
         /\ i = Len(s) + 1 => j = Len(t) + 1 /\ i2 = i /\ j2 = j
         /\ i # Len(s) + 1 => StepOf(s, f, t, i, j, i2, j2)
<1>r. /\ s \in Seq(S) /\ t \in Seq(S) /\ PlainFound(f, S) /\ N \in Nat /\ N >= Len(s)
      /\ Walk(p, s, N) /\ Writes(q, p, s, f, t, N)
  BY DEF Rewrites
<1> USE <1>r
<1>0. Len(s) \in Nat /\ Len(t) \in Nat
  OBVIOUS
<1>1. /\ \A k \in 0..N : /\ p[k] \in 1..(Len(s) + 1) /\ q[k] \in 1..(Len(t) + 1)
                         /\ p[k] >= k + 1 \/ p[k] = Len(s) + 1
                         /\ p[k] = Len(s) + 1 => q[k] = Len(t) + 1
      /\ p[N] = Len(s) + 1 /\ q[N] = Len(t) + 1
      /\ \A k \in 1..N : /\ p[k - 1] = Len(s) + 1 => q[k] = q[k - 1] /\ p[k] = p[k - 1]
                         /\ p[k - 1] # Len(s) + 1 => StepOf(s, f, t, p[k - 1], q[k - 1], p[k], q[k])
  BY <1>0, WritesOf DEF Runs
<1>2. n \in 1..N /\ n - 1 \in 0..N /\ n \in 0..N /\ i = p[n - 1] /\ j = q[n - 1] /\ i2 = p[n] /\ j2 = q[n]
  BY DEF TurnAt
<1>3. /\ i \in 1..(Len(s) + 1) /\ j \in 1..(Len(t) + 1) /\ i2 \in 1..(Len(s) + 1) /\ j2 \in 1..(Len(t) + 1)
      /\ i = Len(s) + 1 => j = Len(t) + 1
  BY <1>1, <1>2
<1>4. /\ p[n - 1] = Len(s) + 1 => q[n] = q[n - 1] /\ p[n] = p[n - 1]
      /\ p[n - 1] # Len(s) + 1 => StepOf(s, f, t, p[n - 1], q[n - 1], p[n], q[n])
  BY <1>1, <1>2
<1> QED BY <1>2, <1>3, <1>4

\* What does not open a block that closes in s opens none in t.
LEMMA OpenStays ==
  ASSUME NEW S, NEW s, NEW f, NEW t, NEW N, NEW p, NEW q, Rewrites(S, s, f, t, N, p, q),
         NEW n, NEW x, NEW y, NEW x2, NEW y2, TurnAt(n, N, p, q, x, y, x2, y2),
         x # Len(s) + 1, Single(s, t, x, y, x2, y2)
  PROVE  BlockEnd(t, y) = 0
<1>t. n \in 1..N /\ x = p[n - 1] /\ y = q[n - 1] /\ x2 = p[n] /\ y2 = q[n]
  BY DEF TurnAt
<1>s. p[n - 1] # Len(s) + 1 /\ Single(s, t, p[n - 1], q[n - 1], p[n], q[n])
  BY <1>t
<1> SUFFICES BlockEnd(t, q[n - 1]) = 0
  BY <1>t
<1>n. n \in 1..N
  BY <1>t
<1> USE <1>s, <1>n
<1>r. /\ s \in Seq(S) /\ t \in Seq(S) /\ PlainFound(f, S) /\ N \in Nat /\ N >= Len(s)
      /\ Walk(p, s, N) /\ Writes(q, p, s, f, t, N)
  BY DEF Rewrites
<1> USE <1>r
<1> DEFINE i == p[n - 1]
           j == q[n - 1]
<1>0. Len(s) \in Nat /\ Len(t) \in Nat
  OBVIOUS
<1>1. /\ \A k \in 0..N : /\ p[k] \in 1..(Len(s) + 1) /\ q[k] \in 1..(Len(t) + 1)
                         /\ p[k] >= k + 1 \/ p[k] = Len(s) + 1
                         /\ p[k] = Len(s) + 1 => q[k] = Len(t) + 1
      /\ p[N] = Len(s) + 1 /\ q[N] = Len(t) + 1
      /\ \A k \in 1..N : /\ p[k - 1] = Len(s) + 1 => q[k] = q[k - 1] /\ p[k] = p[k - 1]
                         /\ p[k - 1] # Len(s) + 1 => StepOf(s, f, t, p[k - 1], q[k - 1], p[k], q[k])
  BY <1>0, WritesOf DEF Runs
<1>2. /\ BlockEnd(s, i) = 0 /\ p[n] = i + 1 /\ q[n] = j + 1 /\ t[j] = s[i]
      /\ i # Len(s) + 1
  BY DEF Single
<1>3. n - 1 \in 0..N /\ n \in 0..N
  OBVIOUS
<1>4. i \in 1..Len(s) /\ j \in 1..Len(t) /\ i \in Nat /\ j \in Nat
  <2>1. i \in 1..(Len(s) + 1) /\ j \in 1..(Len(t) + 1) /\ q[n] \in 1..(Len(t) + 1)
    BY <1>1, <1>3
  <2> HIDE DEF i, j
  <2> QED BY <1>0, <1>2, <2>1
<1> HIDE DEF i, j
<1> SUFFICES BlockEnd(t, j) = 0
  BY DEF j
<1>5. CASE ~(j < Len(t) /\ t[j] = Dollar /\ t[j + 1] = Opener)
  BY <1>5, BlockEndUnfolds
<1>6. CASE j < Len(t) /\ t[j] = Dollar /\ t[j + 1] = Opener
  <2>1. i < Len(s)
    <3>1. i = Len(s) => q[n] = Len(t) + 1
      BY <1>1, <1>2, <1>3
    <3> QED BY <1>0, <1>2, <1>4, <1>6, <3>1
  <2>2. n + 1 \in 1..N /\ n + 1 - 1 = n /\ n + 1 \in 0..N
    <3>1. p[n] >= n + 1 \/ p[n] = Len(s) + 1
      BY <1>1, <1>3
    <3> QED BY <1>0, <1>2, <1>4, <2>1, <3>1
  <2>3. StepOf(s, f, t, i + 1, j + 1, p[n + 1], q[n + 1])
    <3>1. p[n] # Len(s) + 1
      BY <1>0, <1>2, <1>4, <2>1
    <3>2. StepOf(s, f, t, p[n], q[n], p[n + 1], q[n + 1])
      BY <1>1, <2>2, <3>1
    <3> QED BY <1>2, <3>2
  <2>4. Single(s, t, i + 1, j + 1, p[n + 1], q[n + 1])
    <3>1. ~Kept(s, f, t, i + 1, j + 1, p[n + 1], q[n + 1])
      <4> SUFFICES ASSUME Kept(s, f, t, i + 1, j + 1, p[n + 1], q[n + 1]) PROVE FALSE
        OBVIOUS
      <4> DEFINE e == BlockEnd(s, i + 1)
                 k == p[n + 1] - (i + 1)
      <4>1. e # 0 /\ p[n + 1] = e + 1 /\ \A l \in 1..k : t[((j + 1) - 1) + l] = s[((i + 1) - 1) + l]
        BY DEF Kept, Copy
      <4>2. i + 1 \in 1..Len(s)
        BY <1>0, <1>4, <2>1
      <4>3. e \in ((i + 1) + 2)..Len(s) /\ s[i + 1] = Dollar
        BY <1>0, <4>1, <4>2, BlockEndIs DEF Block
      <4> HIDE DEF e
      <4>4. 1 \in 1..k
        BY <1>0, <1>4, <4>1, <4>3
      <4> HIDE DEF k
      <4>5. t[((j + 1) - 1) + 1] = s[((i + 1) - 1) + 1]
        BY <4>1, <4>4
      <4>6. ((j + 1) - 1) + 1 = j + 1 /\ ((i + 1) - 1) + 1 = i + 1
        BY <1>4
      <4> QED BY <1>6, <4>3, <4>5, <4>6, SymbolsDiffer
    <3>2. ~Filled(s, f, t, i + 1, j + 1, p[n + 1], q[n + 1])
      <4> SUFFICES ASSUME Filled(s, f, t, i + 1, j + 1, p[n + 1], q[n + 1]) PROVE FALSE
        OBVIOUS
      <4>1. PICK u \in DOMAIN f : t[j + 1] = f[u][1]
        BY DEF Filled, Found
      <4> QED BY <1>6, <4>1 DEF PlainFound
    <3> QED BY <2>3, <3>1, <3>2 DEF StepOf
  <2>5. p[n + 1] = i + 2 /\ q[n + 1] = j + 2 /\ s[i + 1] = Opener /\ s[i] = Dollar
    <3>1. p[n + 1] = (i + 1) + 1 /\ q[n + 1] = (j + 1) + 1 /\ t[j + 1] = s[i + 1]
      BY <2>4 DEF Single
    <3> QED BY <1>2, <1>4, <1>6, <3>1
  <2>6. i + 2 \in 1..(Len(s) + 1) /\ j + 2 \in 1..(Len(t) + 1)
    BY <1>0, <1>4, <1>6, <2>1
  <2>7. find_matching_brace(s, i + 2) = 0
    BY <1>2, <2>1, <2>5, BlockEndUnfolds
  <2>8. PICK m, d : Nesting(m, d, s, i + 2) /\ m[i + 2 - 1] = "code" /\ d[i + 2 - 1] = 1
    BY <1>0, <1>4, <2>6, NestingExists
  <2>9. PICK m2, d2 : Nesting(m2, d2, t, j + 2) /\ m2[j + 2 - 1] = "code" /\ d2[j + 2 - 1] = 1
    BY <1>0, <1>4, <2>6, NestingExists
  <2>10. \A l \in (i + 2)..Len(s) : d[l] >= 1
    <3>1. ~Closes(0, m, d, s, i + 2)
      BY <1>4 DEF Closes
    <3> QED BY <1>0, <1>4, <2>6, <2>7, <2>8, <3>1, FindIs
  <2> DEFINE Holds(k) == /\ p[k] \in (i + 2)..(Len(s) + 1) /\ q[k] \in (j + 2)..(Len(t) + 1)
                         /\ Alike(m, d, p[k] - 1, m2, d2, q[k] - 1, 0)
                         /\ \A l \in (j + 2)..(q[k] - 1) : d2[l] >= 1
             T == {k \in Nat : n + 1 + k <= N => Holds(n + 1 + k)}
  <2>11. 0 \in T
    <3>1. Alike(m, d, i + 2 - 1, m2, d2, j + 2 - 1, 0)
      BY <2>8, <2>9 DEF Alike
    <3>2. p[n + 1] \in (i + 2)..(Len(s) + 1) /\ q[n + 1] \in (j + 2)..(Len(t) + 1)
      BY <1>0, <1>4, <2>5, <2>6
    <3>3. \A l \in (j + 2)..(q[n + 1] - 1) : FALSE
      BY <1>4, <2>5
    <3>4. Holds(n + 1)
      <4>1. p[n + 1] - 1 = i + 2 - 1 /\ q[n + 1] - 1 = j + 2 - 1
        BY <1>4, <2>5
      <4>2. Alike(m, d, p[n + 1] - 1, m2, d2, q[n + 1] - 1, 0)
        BY <3>1, <4>1
      <4> QED BY Zenon, <3>2, <3>3, <4>2
    <3>5. n + 1 + 0 = n + 1
      OBVIOUS
    <3> HIDE DEF Holds
    <3> QED BY <3>4, <3>5
  <2>12. ASSUME NEW k \in T PROVE k + 1 \in T
    <3> SUFFICES ASSUME n + 1 + (k + 1) <= N PROVE Holds(n + 1 + (k + 1))
      BY <2>12
    <3> DEFINE l == n + 1 + (k + 1)
    <3>1. k \in Nat /\ l \in 1..N /\ l - 1 \in 0..N /\ l - 1 = n + 1 + k /\ n + 1 + k <= N /\ l \in 0..N
      BY <2>12
    <3>2. Holds(l - 1)
      BY <2>12, <3>1
    <3> HIDE DEF l
    <3> SUFFICES Holds(l)
      BY DEF l
    <3>3. CASE p[l - 1] = Len(s) + 1
      <4>1. q[l] = q[l - 1] /\ p[l] = p[l - 1]
        BY <1>1, <3>1, <3>3
      <4> QED BY <3>2, <4>1
    <3>4. CASE p[l - 1] # Len(s) + 1
      <4> DEFINE fro == p[l - 1]
                 at1 == q[l - 1]
                 to == p[l]
                 at2 == q[l]
      <4>1. StepOf(s, f, t, fro, at1, to, at2) /\ at2 \in 1..(Len(t) + 1)
        BY <1>1, <3>1, <3>4
      <4>2. fro \in (i + 2)..Len(s) /\ at1 \in (j + 2)..(Len(t) + 1) /\ Alike(m, d, fro - 1, m2, d2, at1 - 1, 0)
            /\ \A z \in (j + 2)..(at1 - 1) : d2[z] >= 1
        <5>1. /\ fro \in (i + 2)..(Len(s) + 1) /\ at1 \in (j + 2)..(Len(t) + 1)
              /\ Alike(m, d, fro - 1, m2, d2, at1 - 1, 0)
              /\ \A z \in (j + 2)..(at1 - 1) : d2[z] >= 1
          BY <3>2
        <5>2. fro # Len(s) + 1
          BY <3>4
        <5> HIDE DEF fro, at1, Holds, T
        <5>3. fro \in (i + 2)..Len(s)
          <6>1. fro \in (i + 2)..(Len(s) + 1) /\ i + 2 \in Int /\ Len(s) \in Nat
            BY <1>0, <1>4, <5>1
          <6> QED BY <5>2, <6>1
        <5> QED BY Zenon, <5>1, <5>3
      <4> HIDE DEF fro, at1, to, at2
      <4>3. /\ to \in (fro + 1)..(Len(s) + 1) /\ at2 \in (at1 + 1)..(Len(t) + 1)
            /\ Alike(m, d, to - 1, m2, d2, at2 - 1, 0)
            /\ \A z \in at1..(at2 - 1) : d2[z] >= 1
        <5> DEFINE from_s == i + 2
                   from_t == j + 2
        <5>1. /\ from_s \in 1..(Len(s) + 1) /\ from_t \in 1..(Len(t) + 1)
              /\ Nesting(m, d, s, from_s) /\ Nesting(m2, d2, t, from_t)
              /\ fro \in from_s..Len(s) /\ at1 \in from_t..(Len(t) + 1) /\ \A c \in from_s..Len(s) : d[c] >= 1
          BY Zenon, <2>6, <2>8, <2>9, <2>10, <4>2
        <5> HIDE DEF from_s, from_t, Holds, T
        <5>2. /\ to \in (fro + 1)..(Len(s) + 1) /\ at2 \in (at1 + 1)..(Len(t) + 1)
              /\ Alike(m, d, to - 1, m2, d2, at2 - 1, 0)
              /\ (\A c \in from_s..Len(s) : d[c] >= 1) => \A c \in at1..(at2 - 1) : d2[c] >= 1
          <6>1. Both(S, s, t, f, from_s, m, d, from_t, m2, d2)
            BY <5>1 DEF Both
          <6>2. Level(m, d, fro, m2, d2, at1)
            BY <4>2 DEF Level
          <6>4. fro \in from_s..Len(s) /\ at1 \in from_t..(Len(t) + 1)
            BY <5>1
          <6>3. Onward(s, t, from_s, m, d, m2, d2, fro, at1, to, at2)
            BY <4>1, <6>1, <6>2, <6>4, StepAlike
          <6> QED BY <6>3 DEF Level, Onward
        <5> QED BY Zenon, <5>1, <5>2
      <4>4. to \in (i + 2)..(Len(s) + 1) /\ at2 \in (j + 2)..(Len(t) + 1)
        BY <1>0, <1>4, <4>2, <4>3
      <4>5. \A z \in (j + 2)..(at2 - 1) : d2[z] >= 1
        <5>1. \A z \in (j + 2)..(at2 - 1) : z \in (j + 2)..(at1 - 1) \/ z \in at1..(at2 - 1)
          BY <1>4, <4>2, <4>3
        <5> QED BY <4>2, <4>3, <5>1
      <4> QED BY <4>3, <4>4, <4>5 DEF to, at2
    <3> QED BY <3>3, <3>4
  <2>13. T = Nat
    <3>1. T \in SUBSET Nat
      OBVIOUS
    <3> HIDE DEF T
    <3> QED BY <2>11, <2>12, <3>1, Induction
  <2>14. Holds(N)
    <3>1. N - (n + 1) \in Nat /\ n + 1 + (N - (n + 1)) = N
      BY <2>2
    <3>2. N - (n + 1) \in T
      <4> HIDE DEF T
      <4> QED BY <2>13, <3>1
    <3> HIDE DEF Holds
    <3>3. Holds(n + 1 + (N - (n + 1)))
      BY <3>1, <3>2
    <3> QED BY <3>1, <3>3
  <2>15. \A l \in (j + 2)..Len(t) : d2[l] >= 1
    <3>1. q[N] - 1 = Len(t)
      BY <1>0, <1>1
    <3> QED BY <2>14, <3>1
  <2>16. find_matching_brace(t, j + 2) = 0
    <3> DEFINE z == find_matching_brace(t, j + 2)
    <3>1. z = 0 \/ Closes(z, m2, d2, t, j + 2)
      BY <1>0, <1>4, <2>6, <2>9, FindIs
    <3> HIDE DEF z
    <3>2. ~Closes(z, m2, d2, t, j + 2)
      BY <2>15 DEF Closes
    <3> QED BY <3>1, <3>2 DEF z
  <2> QED BY <1>6, <2>16, BlockEndUnfolds
<1> QED BY <1>5, <1>6

(* ------------- The written text is read at the same turns -------------- *)

\* What is read at i in s and at j in t: the same character or block, or a token
\* where t has its value.
Echoes(s, f, t, i, j) ==
  \/ BlockEnd(s, i) = 0 /\ BlockEnd(t, j) = 0 /\ t[j] = s[i]
  \/ /\ BlockEnd(s, i) # 0 /\ ~Found(s, f, i) /\ BlockEnd(t, j) # 0 /\ Uri(t, j) = Uri(s, i)
     /\ SubSeq(t, j, BlockEnd(t, j)) = SubSeq(s, i, BlockEnd(s, i))
  \/ BlockEnd(s, i) # 0 /\ Found(s, f, i) /\ BlockEnd(t, j) = 0 /\ t[j] = f[Uri(s, i)][1]

\* A block that is copied is read as it was.
LEMMA CopyEchoes ==
  ASSUME NEW S, NEW s \in Seq(S), NEW t \in Seq(S), NEW f, NEW i \in 1..Len(s), NEW j \in 1..Len(t),
         NEW i2, NEW j2, Kept(s, f, t, i, j, i2, j2)
  PROVE  Echoes(s, f, t, i, j) /\ NextCut(t, j) = j2
<1> DEFINE e == BlockEnd(s, i)
           z == j + (e - i)
<1>1. e # 0 /\ ~Found(s, f, i) /\ i2 = e + 1 /\ j2 = j + (i2 - i) /\ Copy(s, i - 1, t, j - 1, i2 - i)
  BY DEF Kept
<1>2. Len(s) \in Nat /\ Len(t) \in Nat /\ i \in Nat /\ j \in Nat
  OBVIOUS
<1>3. Block(s, i, e) /\ e \in (i + 2)..Len(s) /\ e \in Nat
  BY <1>1, <1>2, BlockEndIs DEF Block
<1> HIDE DEF e
<1>4. i2 - i = e - i + 1 /\ e - i + 1 \in Nat
  BY <1>1, <1>2, <1>3
<1>5. Copy(s, i - 1, t, j - 1, e - i + 1)
  BY <1>1, <1>4
<1>6. Block(t, j, z)
  BY <1>2, <1>3, <1>5, BlockCopied
<1>7. BlockEnd(t, j) = z
  BY <1>2, <1>6, BlockEndOf
<1>8. z \in (j + 2)..Len(t) /\ z - j = e - i /\ z \in Nat /\ z # 0
  BY <1>2, <1>3, <1>6 DEF Block
<1> HIDE DEF z
<1>9. \A l \in 1..(e - i + 1) : t[j + l - 1] = s[i + l - 1]
  <2> TAKE l \in 1..(e - i + 1)
  <2>1. (j - 1) + l = j + l - 1 /\ (i - 1) + l = i + l - 1
    BY <1>2, <1>4
  <2> QED BY <1>5, <2>1 DEF Copy
<1>10. SubSeq(t, j, z) = SubSeq(s, i, e)
  <2> DEFINE a == SubSeq(t, j, z)
             b == SubSeq(s, i, e)
  <2>1. a \in Seq(S) /\ Len(a) = z - j + 1 /\ \A l \in 1..(z - j + 1) : a[l] = t[j + l - 1]
    <3>1. j \in 1..(Len(t) + 1) /\ z \in 0..Len(t) /\ z >= j - 1
      BY <1>2, <1>8
    <3> QED BY <3>1, PieceOf
  <2>2. b \in Seq(S) /\ Len(b) = e - i + 1 /\ \A l \in 1..(e - i + 1) : b[l] = s[i + l - 1]
    <3>1. i \in 1..(Len(s) + 1) /\ e \in 0..Len(s) /\ e >= i - 1
      BY <1>2, <1>3
    <3> QED BY <3>1, PieceOf
  <2> HIDE DEF a, b
  <2>3. Len(a) = Len(b) /\ \A l \in 1..Len(a) : a[l] = b[l]
    BY <1>8, <1>9, <2>1, <2>2
  <2>4. a = b
    BY <2>1, <2>2, <2>3, SeqsEqual
  <2> QED BY <2>4 DEF a, b
<1>11. SubSeq(t, j + 2, z - 1) = SubSeq(s, i + 2, e - 1)
  <2> DEFINE a == SubSeq(t, j + 2, z - 1)
             b == SubSeq(s, i + 2, e - 1)
  <2>1. a \in Seq(S) /\ Len(a) = (z - 1) - (j + 2) + 1 /\ \A l \in 1..((z - 1) - (j + 2) + 1) : a[l] = t[(j + 2) + l - 1]
    <3>1. j + 2 \in 1..(Len(t) + 1) /\ z - 1 \in 0..Len(t) /\ z - 1 >= (j + 2) - 1
      BY <1>2, <1>8
    <3> QED BY <3>1, PieceOf
  <2>2. b \in Seq(S) /\ Len(b) = (e - 1) - (i + 2) + 1 /\ \A l \in 1..((e - 1) - (i + 2) + 1) : b[l] = s[(i + 2) + l - 1]
    <3>1. i + 2 \in 1..(Len(s) + 1) /\ e - 1 \in 0..Len(s) /\ e - 1 >= (i + 2) - 1
      BY <1>2, <1>3
    <3> QED BY <3>1, PieceOf
  <2> HIDE DEF a, b
  <2>3. (z - 1) - (j + 2) + 1 = (e - 1) - (i + 2) + 1
    BY <1>2, <1>3, <1>8
  <2>4. ASSUME NEW l \in 1..((e - 1) - (i + 2) + 1) PROVE a[l] = b[l]
    <3>1. l + 2 \in 1..(e - i + 1) /\ j + (l + 2) - 1 = (j + 2) + l - 1 /\ i + (l + 2) - 1 = (i + 2) + l - 1
      BY <1>2, <1>3
    <3>2. t[j + (l + 2) - 1] = s[i + (l + 2) - 1]
      BY <1>9, <3>1
    <3> QED BY <2>1, <2>2, <2>3, <3>1, <3>2
  <2>5. a = b
    BY <2>1, <2>2, <2>3, <2>4, SeqsEqual
  <2> QED BY <2>5 DEF a, b
<1>12. Uri(t, j) = Uri(s, i)
  BY <1>7, <1>11 DEF Uri, Inner, e
<1>13. NextCut(t, j) = j2
  <2>1. ~(j > Len(t)) /\ z + 1 = j + (i2 - i)
    BY <1>2, <1>4, <1>8
  <2> QED BY <1>1, <1>7, <1>8, <2>1 DEF NextCut
<1> QED BY <1>1, <1>7, <1>8, <1>10, <1>12, <1>13 DEF Echoes, e

\* Turn by turn the scan of t reads what the scan of s read, and values for tokens.
LEMMA TurnsMatch ==
  ASSUME NEW S, NEW s, NEW f, NEW t, NEW N, NEW p, NEW q, Rewrites(S, s, f, t, N, p, q),
         NEW n, NEW i, NEW j, NEW i2, NEW j2, TurnAt(n, N, p, q, i, j, i2, j2)
  PROVE  /\ j2 = NextCut(t, j)
         /\ i # Len(s) + 1 => Echoes(s, f, t, i, j) /\ i \in 1..Len(s) /\ j \in 1..Len(t)
         /\ i = Len(s) + 1 => j = Len(t) + 1
<1>1. /\ s \in Seq(S) /\ t \in Seq(S) /\ PlainFound(f, S) /\ Len(s) \in Nat /\ Len(t) \in Nat
  BY DEF Rewrites
<1>4. /\ i \in 1..(Len(s) + 1) /\ j \in 1..(Len(t) + 1) /\ i2 \in 1..(Len(s) + 1) /\ j2 \in 1..(Len(t) + 1)
      /\ i = Len(s) + 1 => j = Len(t) + 1 /\ i2 = i /\ j2 = j
      /\ i # Len(s) + 1 => StepOf(s, f, t, i, j, i2, j2)
  BY TurnOf
<1>5. CASE i = Len(s) + 1
  <2>1. NextCut(t, j) = j
    BY <1>1, <1>4, <1>5 DEF NextCut
  <2> QED BY <1>4, <1>5, <2>1
<1>6. ASSUME i # Len(s) + 1, Single(s, t, i, j, i2, j2)
      PROVE  Echoes(s, f, t, i, j) /\ NextCut(t, j) = j2 /\ j \in 1..Len(t)
  <2>1. BlockEnd(t, j) = 0
    BY <1>6, OpenStays
  <2>2. BlockEnd(s, i) = 0 /\ j2 = j + 1 /\ t[j] = s[i]
    BY <1>6 DEF Single
  <2>3. j \in 1..Len(t) /\ ~(j > Len(t))
    BY <1>1, <1>4, <2>2
  <2> QED BY <2>1, <2>2, <2>3 DEF Echoes, NextCut
<1>7. ASSUME i # Len(s) + 1, Kept(s, f, t, i, j, i2, j2)
      PROVE  Echoes(s, f, t, i, j) /\ NextCut(t, j) = j2 /\ j \in 1..Len(t)
  <2>1. BlockEnd(s, i) # 0 /\ i2 = BlockEnd(s, i) + 1 /\ j2 = j + (i2 - i) /\ i \in 1..Len(s)
    BY <1>1, <1>4, <1>7 DEF Kept
  <2>2. BlockEnd(s, i) \in (i + 2)..Len(s)
    BY <1>1, <2>1, BlockEndIn
  <2>3. j \in 1..Len(t)
    BY <1>1, <1>4, <2>1, <2>2
  <2> QED BY <1>1, <1>7, <2>1, <2>3, CopyEchoes
<1>8. ASSUME i # Len(s) + 1, Filled(s, f, t, i, j, i2, j2)
      PROVE  Echoes(s, f, t, i, j) /\ NextCut(t, j) = j2 /\ j \in 1..Len(t)
  <2>1. BlockEnd(s, i) # 0 /\ Found(s, f, i) /\ j2 = j + 1 /\ t[j] = f[Uri(s, i)][1]
    BY <1>8 DEF Filled
  <2>2. j \in 1..Len(t) /\ ~(j > Len(t))
    BY <1>1, <1>4, <2>1
  <2>3. t[j] # Dollar
    BY <1>1, <2>1 DEF PlainFound, Found
  <2>4. BlockEnd(t, j) = 0
    BY <2>3, BlockEndUnfolds
  <2> QED BY <2>1, <2>2, <2>4 DEF Echoes, NextCut
<1>9. CASE i # Len(s) + 1
  <2>1. Echoes(s, f, t, i, j) /\ NextCut(t, j) = j2 /\ j \in 1..Len(t)
    BY <1>4, <1>6, <1>7, <1>8, <1>9 DEF StepOf
  <2>2. i \in 1..Len(s)
    BY <1>1, <1>4, <1>9
  <2> QED BY <1>9, <2>1, <2>2
<1> QED BY <1>5, <1>9

\* So q is the scan of t.
LEMMA WritesWalk ==
  ASSUME NEW S, NEW s, NEW f, NEW t, NEW N, NEW p, NEW q, Rewrites(S, s, f, t, N, p, q)
  PROVE  Walk(q, t, N)
<1>1. q \in [0..N -> 1..(Len(t) + 1)] /\ q[0] = 1
  BY DEF Rewrites, Writes
<1>2. ASSUME NEW n \in 1..N PROVE q[n] = NextCut(t, q[n - 1])
  <2>1. TurnAt(n, N, p, q, p[n - 1], q[n - 1], p[n], q[n])
    BY DEF TurnAt
  <2> QED BY <2>1, TurnsMatch
<1> QED BY <1>1, <1>2 DEF Walk

(* ------------------------------- Filters ------------------------------- *)

\* The first m items of a and b are the same, and D has those of them that E has.
AlikeTo(m, a, D, b, E) ==
  /\ Len(a) \in Nat /\ Len(b) \in Nat /\ m \in Nat /\ m <= Len(a) /\ m <= Len(b)
  /\ \A i \in 1..m : a[i] = b[i] /\ (a[i] \in D <=> b[i] \in E)

\* Filters that pass the same items of lists that start alike pass them alike.
LEMMA FiltersAgree ==
  ASSUME NEW m, NEW a, NEW D, NEW b, NEW E, AlikeTo(m, a, D, b, E),
         NEW g, Filters(g, a, D), NEW h, Filters(h, b, E)
  PROVE  g[m] = h[m]
<1>0. /\ Len(a) \in Nat /\ Len(b) \in Nat /\ m \in Nat /\ m <= Len(a) /\ m <= Len(b)
      /\ \A i \in 1..m : a[i] = b[i] /\ (a[i] \in D <=> b[i] \in E)
  BY DEF AlikeTo
<1> USE <1>0
<1>1. /\ g[0] = <<>> /\ \A n \in 1..Len(a) : g[n] = IF a[n] \in D THEN Append(g[n - 1], a[n]) ELSE g[n - 1]
      /\ h[0] = <<>> /\ \A n \in 1..Len(b) : h[n] = IF b[n] \in E THEN Append(h[n - 1], b[n]) ELSE h[n - 1]
  BY DEF Filters
<1> DEFINE T == {k \in Nat : k <= m => g[k] = h[k]}
<1>2. 0 \in T
  BY <1>1
<1>3. ASSUME NEW k \in T PROVE k + 1 \in T
  <2> SUFFICES ASSUME k + 1 <= m PROVE g[k + 1] = h[k + 1]
    BY <1>3
  <2>1. k \in Nat /\ k + 1 \in 1..m /\ k + 1 \in 1..Len(a) /\ k + 1 \in 1..Len(b) /\ k + 1 - 1 = k /\ g[k] = h[k]
    BY <1>3
  <2>2. /\ g[k + 1] = IF a[k + 1] \in D THEN Append(g[k], a[k + 1]) ELSE g[k]
        /\ h[k + 1] = IF b[k + 1] \in E THEN Append(h[k], b[k + 1]) ELSE h[k]
    BY <1>1, <2>1
  <2> QED BY <2>1, <2>2
<1>4. T = Nat
  <2>1. T \in SUBSET Nat
    OBVIOUS
  <2> HIDE DEF T
  <2> QED BY <1>2, <1>3, <2>1, Induction
<1>5. m \in T
  <2> HIDE DEF T
  <2> QED BY <1>4
<1> QED BY <1>5

\* Items that do not pass add nothing.
LEMMA FilterRests ==
  ASSUME NEW c, Len(c) \in Nat, NEW D, NEW g, Filters(g, c, D), NEW m \in 0..Len(c),
         \A k \in (m + 1)..Len(c) : c[k] \notin D
  PROVE  g[Len(c)] = g[m]
<1>1. \A n \in 1..Len(c) : g[n] = IF c[n] \in D THEN Append(g[n - 1], c[n]) ELSE g[n - 1]
  BY DEF Filters
<1> DEFINE T == {k \in Nat : m + k <= Len(c) => g[m + k] = g[m]}
<1>2. 0 \in T
  OBVIOUS
<1>3. ASSUME NEW k \in T PROVE k + 1 \in T
  <2> SUFFICES ASSUME m + (k + 1) <= Len(c) PROVE g[m + (k + 1)] = g[m]
    BY <1>3
  <2> DEFINE n == m + (k + 1)
  <2>1. k \in Nat /\ n \in 1..Len(c) /\ n \in (m + 1)..Len(c) /\ n - 1 = m + k /\ g[m + k] = g[m]
    BY <1>3
  <2> HIDE DEF n
  <2>2. g[n] = g[n - 1]
    BY <1>1, <2>1
  <2> QED BY <2>1, <2>2 DEF n
<1>4. T = Nat
  <2>1. T \in SUBSET Nat
    OBVIOUS
  <2> HIDE DEF T
  <2> QED BY <1>2, <1>3, <2>1, Induction
<1>5. Len(c) - m \in Nat /\ m + (Len(c) - m) = Len(c)
  OBVIOUS
<1>6. Len(c) - m \in T
  <2> HIDE DEF T
  <2> QED BY <1>4, <1>5
<1> QED BY <1>5, <1>6

\* The filter, item by item.
LEMMA WithinOf ==
  /\ \A D : Within(<<>>, D) = <<>>
  /\ \A S : \A a \in Seq(S) : \A x \in S : \A D :
       Within(Append(a, x), D) = IF x \in D THEN Append(Within(a, D), x) ELSE Within(a, D)
<1>1. ASSUME NEW D PROVE Within(<<>>, D) = <<>>
  <2>1. Len(<<>>) = 0 /\ Len(<<>>) \in Nat
    OBVIOUS
  <2>2. PICK g : Filters(g, <<>>, D) /\ Within(<<>>, D) = g[Len(<<>>)]
    BY <2>1, WithinLoop
  <2> QED BY <2>1, <2>2 DEF Filters
<1>2. ASSUME NEW S, NEW a \in Seq(S), NEW x \in S, NEW D
      PROVE  Within(Append(a, x), D) = IF x \in D THEN Append(Within(a, D), x) ELSE Within(a, D)
  <2> DEFINE b == Append(a, x)
             n == Len(a) + 1
  <2>1. /\ Len(a) \in Nat /\ Len(b) \in Nat /\ Len(b) = n /\ b[n] = x /\ n \in 1..Len(b) /\ n - 1 = Len(a)
        /\ \A i \in 1..Len(a) : a[i] = b[i]
    OBVIOUS
  <2> HIDE DEF b
  <2>2. PICK g : Filters(g, a, D) /\ Within(a, D) = g[Len(a)]
    BY <2>1, WithinLoop
  <2>3. PICK h : Filters(h, b, D) /\ Within(b, D) = h[Len(b)]
    BY <2>1, WithinLoop
  <2>4. g[Len(a)] = h[Len(a)]
    <3>1. AlikeTo(Len(a), a, D, b, D)
      BY <2>1 DEF AlikeTo
    <3> QED BY <2>2, <2>3, <3>1, FiltersAgree
  <2>5. h[n] = IF b[n] \in D THEN Append(h[n - 1], b[n]) ELSE h[n - 1]
    BY <2>1, <2>3 DEF Filters
  <2> HIDE DEF n
  <2> QED BY <2>1, <2>2, <2>3, <2>4, <2>5 DEF b
<1> QED BY <1>1, <1>2

\* Filters that tell the items of a list alike make the same of it.
LEMMA WithinSame ==
  ASSUME NEW a, Len(a) \in Nat, NEW D, NEW E, \A i \in 1..Len(a) : a[i] \in D <=> a[i] \in E
  PROVE  Within(a, D) = Within(a, E)
<1>1. PICK g : Filters(g, a, D) /\ Within(a, D) = g[Len(a)]
  BY WithinLoop
<1>2. PICK h : Filters(h, a, E) /\ Within(a, E) = h[Len(a)]
  BY WithinLoop
<1>3. AlikeTo(Len(a), a, D, a, E)
  BY DEF AlikeTo
<1>4. g[Len(a)] = h[Len(a)]
  BY <1>1, <1>2, <1>3, FiltersAgree
<1> QED BY <1>1, <1>2, <1>4

\* A text that has nothing to pass adds nothing.
LEMMA WithinThen ==
  ASSUME NEW S, NEW a \in Seq(S), NEW b \in Seq(S), NEW D, \A k \in 1..Len(b) : b[k] \notin D
  PROVE  Within(Then(a, b), D) = Within(a, D)
<1> DEFINE c == Then(a, b)
<1>1. /\ Len(a) \in Nat /\ Len(b) \in Nat /\ Len(c) = Len(a) + Len(b)
      /\ \A i \in 1..Len(a) : c[i] = a[i]
      /\ \A i \in 1..Len(b) : c[Len(a) + i] = b[i]
  BY ThenOf
<1> HIDE DEF c
<1>2. PICK g : Filters(g, a, D) /\ Within(a, D) = g[Len(a)]
  BY <1>1, WithinLoop
<1>3. Len(c) \in Nat /\ Len(a) \in 0..Len(c)
  BY <1>1
<1>4. PICK h : Filters(h, c, D) /\ Within(c, D) = h[Len(c)]
  BY <1>3, WithinLoop
<1>5. \A k \in (Len(a) + 1)..Len(c) : c[k] \notin D
  <2> TAKE k \in (Len(a) + 1)..Len(c)
  <2>1. k - Len(a) \in 1..Len(b) /\ Len(a) + (k - Len(a)) = k
    BY <1>1
  <2> QED BY <1>1, <2>1
<1>6. h[Len(c)] = h[Len(a)]
  BY <1>3, <1>4, <1>5, FilterRests
<1>7. g[Len(a)] = h[Len(a)]
  <2>1. AlikeTo(Len(a), a, D, c, D)
    BY <1>1, <1>3 DEF AlikeTo
  <2> QED BY <1>2, <1>4, <2>1, FiltersAgree
<1> QED BY <1>2, <1>4, <1>6, <1>7 DEF c

(* ------------------ Tokens that are not resolved stay ------------------ *)

\* Substitution writes its text turn by turn.
LEMMA Substituted ==
  ASSUME NEW S, NEW s \in Seq(S), AsciiText(s), NEW f, PlainFound(f, S)
  PROVE  LET t == substitute_cred_tokens(s, f)
             N == Len(s) + Len(t)
         IN \E p, q, u : Rewrites(S, s, f, t, N, p, q) /\ Emits(u, p, s, f, S, N) /\ t = u[N]
<1> DEFINE t == substitute_cred_tokens(s, f)
           N == Len(s) + Len(t)
<1>1. Serves(f, S) /\ Len(s) \in Nat
  BY DEF PlainFound
<1>2. t \in Seq(S)
  BY <1>1, TextIn
<1>3. N \in Nat /\ N >= Len(s)
  BY <1>1, <1>2
<1> HIDE DEF t, N
<1>4. PICK p : Walk(p, s, N)
  BY <1>1, <1>3, WalkExists
<1>5. PICK u : Emits(u, p, s, f, S, N) /\ t = u[N]
  BY <1>1, <1>3, <1>4, TextIs DEF t
<1>6. Writes([n \in 0..N |-> Len(u[n]) + 1], p, s, f, u[N], N)
  BY <1>3, <1>4, <1>5, WritesExist
<1>7. Rewrites(S, s, f, t, N, p, [n \in 0..N |-> Len(u[n]) + 1])
  <2> DEFINE q == [n \in 0..N |-> Len(u[n]) + 1]
  <2>1. Writes(q, p, s, f, t, N)
    BY Zenon, <1>5, <1>6
  <2> HIDE DEF q
  <2>2. Rewrites(S, s, f, t, N, p, q)
    BY <1>2, <1>3, <1>4, <2>1 DEF Rewrites
  <2> QED BY <2>2 DEF q
<1>8. \E q : Rewrites(S, s, f, t, N, p, q) /\ Emits(u, p, s, f, S, N) /\ t = u[N]
  BY Zenon, <1>5, <1>7
<1> QED BY Zenon, <1>8 DEF t, N

\* What the scan of t finds at a turn is what the scan of s found there, but for what
\* was resolved.
LEMMA TokenTurn ==
  ASSUME NEW S, NEW s, NEW f, NEW t, NEW N, NEW p, NEW q, Rewrites(S, s, f, t, N, p, q),
         NEW n, NEW i, NEW j, NEW i2, NEW j2, TurnAt(n, N, p, q, i, j, i2, j2)
  PROVE  /\ IsToken(t, j) <=> IsToken(s, i) /\ Uri(s, i) \notin DOMAIN f
         /\ IsToken(t, j) => Uri(t, j) = Uri(s, i)
<1>1. Len(s) \in Nat /\ Len(t) \in Nat
  BY DEF Rewrites
<1>2. /\ i # Len(s) + 1 => Echoes(s, f, t, i, j) /\ i \in 1..Len(s) /\ j \in 1..Len(t)
      /\ i = Len(s) + 1 => j = Len(t) + 1
  BY TurnsMatch
<1>3. CASE i = Len(s) + 1
  BY <1>1, <1>2, <1>3 DEF IsToken
<1>4. CASE i # Len(s) + 1
  <2>1. Echoes(s, f, t, i, j) /\ i <= Len(s) /\ j <= Len(t)
    BY <1>1, <1>2, <1>4
  <2> QED BY <2>1 DEF Echoes, IsToken, Found
<1> QED BY <1>3, <1>4

\* A token is a text over the alphabet.
LEMMA TokenIn ==
  ASSUME NEW S, NEW s \in Seq(S), NEW i \in 1..(Len(s) + 1), IsToken(s, i)
  PROVE  Uri(s, i) \in Seq(S)
BY UriIn DEF IsToken

\* A token that is not resolved is there for the next layer, and one that is is not.
LEMMA UnresolvedStay ==
  ASSUME NEW S, NEW s, NEW f, NEW t, NEW N, NEW p, NEW q, Rewrites(S, s, f, t, N, p, q), N >= Len(t)
  PROVE  cred_tokens(t) = Within(cred_tokens(s), Seq(S) \ DOMAIN f)
<1>1. /\ s \in Seq(S) /\ t \in Seq(S) /\ N \in Nat /\ N >= Len(s) /\ Walk(p, s, N) /\ Len(s) \in Nat
  BY DEF Rewrites
<1>2. Walk(q, t, N)
  BY WritesWalk
<1>3. PICK a : Scans(a, p, s, S, N) /\ cred_tokens(s) = a[N]
  BY <1>1, TokensAre
<1>4. PICK b : Scans(b, q, t, S, N) /\ cred_tokens(t) = b[N]
  BY <1>1, <1>2, TokensAre
<1> DEFINE E == Seq(S) \ DOMAIN f
           T == {k \in Nat : k <= N => b[k] = Within(a[k], E)}
<1>5. /\ a[0] = <<>> /\ b[0] = <<>> /\ \A n \in 0..N : a[n] \in Seq(Seq(S))
      /\ \A n \in 1..N : a[n] = IF IsToken(s, p[n - 1]) THEN Append(a[n - 1], Uri(s, p[n - 1])) ELSE a[n - 1]
      /\ \A n \in 1..N : b[n] = IF IsToken(t, q[n - 1]) THEN Append(b[n - 1], Uri(t, q[n - 1])) ELSE b[n - 1]
      /\ \A n \in 0..N : p[n] \in 1..(Len(s) + 1)
  BY <1>1, <1>3, <1>4 DEF Scans, Walk
<1>6. 0 \in T
  BY <1>5, WithinOf
<1>7. ASSUME NEW k \in T PROVE k + 1 \in T
  <2> SUFFICES ASSUME k + 1 <= N PROVE b[k + 1] = Within(a[k + 1], E)
    BY <1>7
  <2> DEFINE n == k + 1
             i == p[n - 1]
             j == q[n - 1]
             x == Uri(s, i)
  <2>1. k \in Nat /\ n \in 1..N /\ n - 1 \in 0..N /\ n - 1 = k /\ b[k] = Within(a[k], E)
    BY <1>1, <1>7
  <2> HIDE DEF n, E
  <2>2. TurnAt(n, N, p, q, i, j, p[n], q[n])
    BY <2>1 DEF TurnAt
  <2>3. /\ IsToken(t, j) <=> IsToken(s, i) /\ x \notin DOMAIN f
        /\ IsToken(t, j) => Uri(t, j) = x
    BY <2>2, TokenTurn
  <2>4. IsToken(s, i) => x \in Seq(S)
    BY <1>1, <1>5, <2>1, TokenIn
  <2>5. /\ a[n] = IF IsToken(s, i) THEN Append(a[k], x) ELSE a[k]
        /\ b[n] = IF IsToken(t, j) THEN Append(b[k], Uri(t, j)) ELSE b[k]
        /\ a[k] \in Seq(Seq(S))
    BY <1>5, <2>1
  <2> HIDE DEF i, j, x
  <2>6. IsToken(s, i) => Within(a[n], E) = IF x \in E THEN Append(Within(a[k], E), x) ELSE Within(a[k], E)
    <3>1. ASSUME IsToken(s, i) PROVE Within(Append(a[k], x), E) = IF x \in E THEN Append(Within(a[k], E), x) ELSE Within(a[k], E)
      <4> DEFINE W == Seq(S)
                 v == a[k]
      <4>1. x \in W /\ v \in Seq(W)
        BY <2>4, <2>5, <3>1
      <4> HIDE DEF W, v
      <4>2. Within(Append(v, x), E) = IF x \in E THEN Append(Within(v, E), x) ELSE Within(v, E)
        BY <4>1, WithinOf
      <4> QED BY <4>2 DEF v
    <3> QED BY <2>5, <3>1
  <2>7. IsToken(s, i) => (x \in E <=> x \notin DOMAIN f)
    BY <2>4 DEF E
  <2> QED BY <2>1, <2>3, <2>5, <2>6, <2>7 DEF n
<1>8. T = Nat
  <2>1. T \in SUBSET Nat
    OBVIOUS
  <2> HIDE DEF T
  <2> QED BY <1>6, <1>7, <2>1, Induction
<1>9. N \in T
  <2> HIDE DEF T
  <2> QED BY <1>1, <1>8
<1> HIDE DEF E
<1>10. b[N] = Within(a[N], E)
  BY <1>1, <1>9
<1> QED BY <1>3, <1>4, <1>10 DEF E

(* --------------------------- Layers compose ---------------------------- *)

\* h has what f and g have, for URIs that only one of them knows.
Merges(f, g, h) ==
  /\ DOMAIN h = DOMAIN f \cup DOMAIN g /\ DOMAIN f \cap DOMAIN g = {}
  /\ \A u \in DOMAIN h : h[u] = IF u \in DOMAIN g THEN g[u] ELSE f[u]

\* A turn of the second substitution writes what one substitution with all would.
LEMMA ImagesMatch ==
  ASSUME NEW S, NEW s, NEW f, NEW t, NEW N, NEW p, NEW q, Rewrites(S, s, f, t, N, p, q),
         NEW n, NEW i, NEW j, NEW i2, NEW j2, TurnAt(n, N, p, q, i, j, i2, j2), i # Len(s) + 1,
         NEW g, NEW h, Merges(f, g, h)
  PROVE  Image(t, g, j) = Image(s, h, i)
<1>1. PlainFound(f, S)
  BY DEF Rewrites
<1>2. Echoes(s, f, t, i, j)
  BY TurnsMatch
<1>3. CASE BlockEnd(s, i) = 0 /\ BlockEnd(t, j) = 0 /\ t[j] = s[i]
  BY <1>3 DEF Image
<1> DEFINE x == Uri(s, i)
           a == SubSeq(t, j, BlockEnd(t, j))
           b == SubSeq(s, i, BlockEnd(s, i))
<1>4. CASE BlockEnd(s, i) # 0 /\ ~Found(s, f, i) /\ BlockEnd(t, j) # 0 /\ Uri(t, j) = x /\ a = b
  <2>1. is_cred_uri(x) => x \notin DOMAIN f
    BY <1>4 DEF Found
  <2>2. /\ Image(t, g, j) = IF is_cred_uri(x) /\ x \in DOMAIN g THEN g[x] ELSE a
        /\ Image(s, h, i) = IF is_cred_uri(x) /\ x \in DOMAIN h THEN h[x] ELSE b
    BY <1>4 DEF Image
  <2> HIDE DEF x, a, b
  <2> QED BY <1>4, <2>1, <2>2 DEF Merges
<1>5. CASE BlockEnd(s, i) # 0 /\ Found(s, f, i) /\ BlockEnd(t, j) = 0 /\ t[j] = f[x][1]
  <2>1. is_cred_uri(x) /\ x \in DOMAIN f
    BY <1>5 DEF Found
  <2>2. /\ Image(t, g, j) = AsChar(t[j])
        /\ Image(s, h, i) = IF is_cred_uri(x) /\ x \in DOMAIN h THEN h[x] ELSE b
    BY <1>5 DEF Image
  <2> HIDE DEF x, b
  <2>3. AsChar(f[x][1]) = <<f[x][1]>> /\ f[x] = <<f[x][1]>>
    BY <1>1, <2>1 DEF PlainFound, Ascii
  <2>4. x \in DOMAIN h /\ x \notin DOMAIN g /\ h[x] = f[x]
    BY <2>1 DEF Merges
  <2> QED BY <1>5, <2>1, <2>2, <2>3, <2>4
<1> QED BY <1>2, <1>3, <1>4, <1>5 DEF Echoes

\* Two substitutions, one after the other, make what one with all the values makes.
LEMMA Composes ==
  ASSUME NEW S, NEW s \in Seq(S), AsciiText(s), NEW f, PlainFound(f, S), NEW g, Serves(g, S),
         NEW h, Serves(h, S), Merges(f, g, h)
  PROVE  substitute_cred_tokens(substitute_cred_tokens(s, f), g) = substitute_cred_tokens(s, h)
<1> DEFINE t == substitute_cred_tokens(s, f)
           N == Len(s) + Len(t)
<1>1. PICK p, q, w : Rewrites(S, s, f, t, N, p, q) /\ Emits(w, p, s, f, S, N) /\ t = w[N]
  BY Zenon, Substituted
<1> HIDE DEF t
<1>2. /\ t \in Seq(S) /\ Walk(p, s, N) /\ Walk(q, t, N) /\ N \in Nat /\ Len(s) \in Nat /\ Len(t) \in Nat
      /\ N >= Len(s) /\ N >= Len(t)
  <2>1. t \in Seq(S) /\ Walk(p, s, N) /\ N \in Nat
    BY <1>1 DEF Rewrites
  <2>2. Walk(q, t, N)
    BY <1>1, WritesWalk
  <2>3. Len(s) \in Nat /\ Len(t) \in Nat /\ N >= Len(s) /\ N >= Len(t)
    BY <2>1
  <2> QED BY <2>1, <2>2, <2>3
<1> HIDE DEF N
<1>3. PICK u : Emits(u, q, t, g, S, N) /\ substitute_cred_tokens(t, g) = u[N]
  BY <1>2, TextIs
<1>4. PICK v : Emits(v, p, s, h, S, N) /\ substitute_cred_tokens(s, h) = v[N]
  BY <1>2, TextIs
<1>5. /\ u[0] = <<>> /\ v[0] = <<>>
      /\ \A n \in 1..N : u[n] = IF q[n - 1] > Len(t) THEN u[n - 1] ELSE Then(u[n - 1], Image(t, g, q[n - 1]))
      /\ \A n \in 1..N : v[n] = IF p[n - 1] > Len(s) THEN v[n - 1] ELSE Then(v[n - 1], Image(s, h, p[n - 1]))
  BY <1>3, <1>4 DEF Emits
<1> DEFINE T == {k \in Nat : k <= N => u[k] = v[k]}
<1>6. 0 \in T
  BY <1>5
<1>7. ASSUME NEW k \in T PROVE k + 1 \in T
  <2> SUFFICES ASSUME k + 1 <= N PROVE u[k + 1] = v[k + 1]
    BY <1>7
  <2> DEFINE n == k + 1
             i == p[n - 1]
             j == q[n - 1]
  <2>1. k \in Nat /\ n \in 1..N /\ n - 1 \in 0..N /\ n - 1 = k /\ u[k] = v[k]
    BY <1>2, <1>7
  <2> HIDE DEF n
  <2>2. TurnAt(n, N, p, q, i, j, p[n], q[n])
    BY <2>1 DEF TurnAt
  <2>3. /\ u[n] = IF j > Len(t) THEN u[k] ELSE Then(u[k], Image(t, g, j))
        /\ v[n] = IF i > Len(s) THEN v[k] ELSE Then(v[k], Image(s, h, i))
    BY <1>5, <2>1
  <2> HIDE DEF i, j
  <2>4. /\ i # Len(s) + 1 => i \in 1..Len(s) /\ j \in 1..Len(t)
        /\ i = Len(s) + 1 => j = Len(t) + 1
    BY <1>1, <2>2, TurnsMatch
  <2>5. i # Len(s) + 1 => Image(t, g, j) = Image(s, h, i)
    BY <1>1, <2>2, ImagesMatch
  <2>6. u[n] = v[n]
    BY <1>2, <2>1, <2>3, <2>4, <2>5
  <2> QED BY <2>6 DEF n
<1>8. T = Nat
  <2>1. T \in SUBSET Nat
    OBVIOUS
  <2> HIDE DEF T
  <2> QED BY <1>6, <1>7, <2>1, Induction
<1>9. N \in T
  <2> HIDE DEF T
  <2> QED BY <1>2, <1>8
<1>10. u[N] = v[N]
  BY <1>2, <1>9
<1> QED BY <1>3, <1>4, <1>10 DEF t

\* With nothing resolved a text is left as it is.
LEMMA Untouched ==
  ASSUME NEW S, {"C2", "C3", "82", "83"} \subseteq S, NEW s \in Seq(S), AsciiText(s)
  PROVE  substitute_cred_tokens(s, <<>>) = s
<1> DEFINE f == <<>>
           t == substitute_cred_tokens(s, f)
           N == Len(s) + Len(t)
<1>1. DOMAIN f = {}
  OBVIOUS
<1> HIDE DEF f
<1>2. PlainFound(f, S)
  BY <1>1 DEF PlainFound, Serves
<1>3. PICK p, q, w : Rewrites(S, s, f, t, N, p, q) /\ Emits(w, p, s, f, S, N) /\ t = w[N]
  BY Zenon, <1>2, Substituted
<1> HIDE DEF t, N
<1>4. s \in Seq(S) /\ t \in Seq(S) /\ N \in Nat /\ Len(s) \in Nat /\ Len(t) \in Nat
  BY <1>3 DEF Rewrites
<1>5. Runs(s, f, t, N, p, q)
  BY <1>3, WritesOf
<1> DEFINE Holds(n) == p[n] = q[n] /\ \A k \in 1..(p[n] - 1) : t[k] = s[k]
           T == {n \in Nat : n <= N => Holds(n)}
<1>6. 0 \in T
  <2>1. p[0] = 1 /\ q[0] = 1
    BY <1>5 DEF Runs
  <2> QED BY <2>1
<1>7. ASSUME NEW k \in T PROVE k + 1 \in T
  <2> SUFFICES ASSUME k + 1 <= N PROVE Holds(k + 1)
    BY <1>7
  <2> DEFINE n == k + 1
             i == p[n - 1]
             j == q[n - 1]
  <2>1. k \in Nat /\ n \in 1..N /\ n - 1 \in 0..N /\ n - 1 = k /\ Holds(k)
    BY <1>4, <1>7
  <2> HIDE DEF n
  <2>2. TurnAt(n, N, p, q, i, j, p[n], q[n])
    BY <2>1 DEF TurnAt
  <2>3. i = j /\ \A l \in 1..(i - 1) : t[l] = s[l]
    BY <2>1
  <2>4. /\ i \in 1..(Len(s) + 1)
        /\ i = Len(s) + 1 => p[n] = i /\ q[n] = j
        /\ i # Len(s) + 1 => StepOf(s, f, t, i, j, p[n], q[n])
    <3> DEFINE i2 == p[n]
               j2 == q[n]
    <3>1. TurnAt(n, N, p, q, i, j, i2, j2)
      BY <2>2
    <3> HIDE DEF i, j, i2, j2
    <3>2. /\ i \in 1..(Len(s) + 1)
          /\ i = Len(s) + 1 => i2 = i /\ j2 = j
          /\ i # Len(s) + 1 => StepOf(s, f, t, i, j, i2, j2)
      BY <1>3, <3>1, TurnOf
    <3> QED BY <3>2 DEF i2, j2
  <2> HIDE DEF i, j
  <2>5. CASE i = Len(s) + 1
    BY <2>3, <2>4, <2>5 DEF n
  <2>6. CASE Single(s, t, i, j, p[n], q[n])
    <3>1. p[n] = i + 1 /\ q[n] = i + 1 /\ t[i] = s[i]
      BY <2>3, <2>6 DEF Single
    <3>2. \A l \in 1..(p[n] - 1) : l \in 1..(i - 1) \/ l = i
      BY <1>4, <2>4, <3>1
    <3> QED BY <2>3, <3>1, <3>2 DEF n
  <2>7. CASE Kept(s, f, t, i, j, p[n], q[n])
    <3>1. BlockEnd(s, i) # 0 /\ p[n] = BlockEnd(s, i) + 1 /\ q[n] = j + (p[n] - i) /\ Copy(s, i - 1, t, j - 1, p[n] - i)
      BY <2>7 DEF Kept
    <3>2. p[n] - i \in Nat /\ \A l \in 1..(p[n] - i) : t[(j - 1) + l] = s[(i - 1) + l]
      BY <3>1 DEF Copy
    <3>3. i \in Nat /\ BlockEnd(s, i) \in Int
      <4>1. i <= Len(s) => BlockEnd(s, i) \in (i + 2)..Len(s)
        BY <1>4, <2>4, <3>1, BlockEndIn
      <4>2. ~(i < Len(s)) => BlockEnd(s, i) = 0
        BY BlockEndUnfolds
      <4> QED BY <1>4, <2>4, <3>1, <4>1, <4>2
    <3>4. p[n] \in Int /\ q[n] = p[n]
      BY <2>3, <3>1, <3>3
    <3>5. ASSUME NEW l \in 1..(p[n] - 1) PROVE t[l] = s[l]
      <4>1. CASE l <= i - 1
        BY <2>3, <3>3, <4>1
      <4>2. CASE l >= i
        <5>1. l - (i - 1) \in 1..(p[n] - i) /\ (i - 1) + (l - (i - 1)) = l
          BY <3>3, <3>4, <4>2
        <5> QED BY <2>3, <3>2, <5>1
      <4> QED BY <3>3, <4>1, <4>2
    <3> QED BY <3>4, <3>5 DEF n
  <2>8. CASE Filled(s, f, t, i, j, p[n], q[n])
    BY <1>1, <2>8 DEF Filled, Found
  <2> QED BY <2>4, <2>5, <2>6, <2>7, <2>8 DEF StepOf
<1>8. T = Nat
  <2>1. T \in SUBSET Nat
    OBVIOUS
  <2> HIDE DEF T
  <2> QED BY <1>6, <1>7, <2>1, Induction
<1>9. Holds(N)
  <2>1. N \in T
    <3> HIDE DEF T
    <3> QED BY <1>4, <1>8
  <2> QED BY <1>4, <2>1
<1>10. p[N] = Len(s) + 1 /\ q[N] = Len(t) + 1
  BY <1>5 DEF Runs
<1>11. Len(t) = Len(s) /\ \A k \in 1..Len(t) : t[k] = s[k]
  <2>1. p[N] = q[N] /\ \A k \in 1..(p[N] - 1) : t[k] = s[k]
    BY <1>9
  <2>2. p[N] - 1 = Len(s) /\ Len(t) = Len(s)
    BY <1>4, <1>10, <2>1
  <2> HIDE DEF Holds, T
  <2> QED BY <2>1, <2>2
<1>12. t = s
  BY <1>4, <1>11, SeqsEqual
<1> QED BY <1>12 DEF t, f

(* --------------------- The values follow the scan ---------------------- *)

\* What f has for each of a list of tokens.
ValuesOf(tokens, f) == [i \in DOMAIN tokens |-> f[tokens[i]][1]]

\* One more token has one more value.
LEMMA ValuesGrow ==
  ASSUME NEW W, NEW a \in Seq(W), NEW x \in W, NEW f
  PROVE  ValuesOf(Append(a, x), f) = Append(ValuesOf(a, f), f[x][1])
<1> DEFINE b == Append(a, x)
           v == ValuesOf(a, f)
           w == ValuesOf(b, f)
           y == f[x][1]
<1>1. /\ Len(a) \in Nat /\ DOMAIN a = 1..Len(a) /\ DOMAIN b = 1..(Len(a) + 1) /\ b[Len(a) + 1] = x
      /\ \A i \in 1..Len(a) : b[i] = a[i]
  OBVIOUS
<1> HIDE DEF b
<1> DEFINE R == {f[z][1] : z \in W}
<1>2. /\ v = [i \in 1..Len(a) |-> f[a[i]][1]] /\ w = [i \in 1..(Len(a) + 1) |-> f[b[i]][1]]
  BY <1>1 DEF ValuesOf
<1>3. y \in R /\ \A i \in 1..Len(a) : a[i] \in W /\ f[a[i]][1] \in R
  OBVIOUS
<1> HIDE DEF R, v, w, y
<1>4. v \in Seq(R) /\ Len(v) = Len(a)
  <2>1. v \in [1..Len(a) -> R]
    BY <1>2, <1>3
  <2> QED BY <1>1, <2>1
<1> DEFINE z == Append(v, y)
<1>5. Len(z) = Len(a) + 1 /\ z[Len(a) + 1] = y /\ \A i \in 1..Len(a) : z[i] = v[i]
  BY <1>3, <1>4
<1>6. z \in Seq(R)
  BY <1>3, <1>4
<1> HIDE DEF z
<1>7. w[Len(a) + 1] = y
  <2>1. Len(a) + 1 \in 1..(Len(a) + 1)
    BY <1>1
  <2> QED BY <1>1, <1>2, <2>1 DEF y
<1>8. ASSUME NEW i \in 1..Len(a) PROVE w[i] = v[i]
  <2>1. i \in 1..(Len(a) + 1)
    BY <1>1
  <2> QED BY <1>1, <1>2, <2>1
<1>9. \A i \in 1..(Len(a) + 1) : i \in 1..Len(a) \/ i = Len(a) + 1
  BY <1>1
<1>10. \A i \in 1..(Len(a) + 1) : w[i] = z[i] /\ z[i] \in R
  BY <1>1, <1>3, <1>5, <1>6, <1>7, <1>8, <1>9
<1>11. w \in Seq(R) /\ Len(w) = Len(a) + 1
  <2>1. w \in [1..(Len(a) + 1) -> R]
    BY <1>2, <1>10
  <2>2. Len(a) + 1 \in Nat
    BY <1>1
  <2> QED BY <2>1, <2>2
<1>12. w = z
  BY <1>5, <1>6, <1>10, <1>11, SeqsEqual
<1> QED BY <1>12 DEF w, z, v, b, y

\* The values in the text are those of the tokens, in their order.
LEMMA ScanFollowed ==
  ASSUME NEW S, NEW s \in Seq(S), AsciiText(s), NEW f, PlainFound(f, S), NEW V,
         \A k \in 1..Len(s) : s[k] \notin V, \A u \in DOMAIN f : f[u][1] \in V
  PROVE  Within(substitute_cred_tokens(s, f), V) = ValuesOf(Within(cred_tokens(s), DOMAIN f), f)
<1> DEFINE N == Len(s)
<1>0. Serves(f, S) /\ N \in Nat /\ N >= Len(s)
  BY DEF PlainFound
<1> HIDE DEF N
<1>1. PICK p : Walk(p, s, N)
  BY <1>0, WalkExists DEF N
<1>2. PICK u : Emits(u, p, s, f, S, N) /\ substitute_cred_tokens(s, f) = u[N]
  BY <1>0, <1>1, TextIs
<1>3. PICK o : Scans(o, p, s, S, N) /\ cred_tokens(s) = o[N]
  BY <1>0, <1>1, TokensAre
<1> DEFINE D == DOMAIN f
           Holds(n) == Within(u[n], V) = ValuesOf(Within(o[n], D), f)
           T == {n \in Nat : n <= N => Holds(n)}
<1>4. /\ u[0] = <<>> /\ o[0] = <<>> /\ \A n \in 0..N : u[n] \in Seq(S) /\ o[n] \in Seq(Seq(S)) /\ p[n] \in 1..(Len(s) + 1)
      /\ \A n \in 1..N : u[n] = IF p[n - 1] > Len(s) THEN u[n - 1] ELSE Then(u[n - 1], Image(s, f, p[n - 1]))
      /\ \A n \in 1..N : o[n] = IF IsToken(s, p[n - 1]) THEN Append(o[n - 1], Uri(s, p[n - 1])) ELSE o[n - 1]
  BY <1>1, <1>2, <1>3 DEF Emits, Scans, Walk
<1>5. 0 \in T
  <2>1. ValuesOf(<<>>, f) = <<>>
    BY DEF ValuesOf
  <2>2. Within(<<>>, V) = <<>> /\ Within(<<>>, D) = <<>>
    BY WithinOf
  <2> QED BY <1>4, <2>1, <2>2
<1>6. ASSUME NEW k \in T PROVE k + 1 \in T
  <2> SUFFICES ASSUME k + 1 <= N PROVE Holds(k + 1)
    BY <1>6
  <2> DEFINE n == k + 1
             i == p[n - 1]
             x == Uri(s, i)
             y == Image(s, f, i)
  <2>1. k \in Nat /\ n \in 1..N /\ n - 1 \in 0..N /\ n - 1 = k /\ k \in 0..N /\ Holds(k)
    BY <1>0, <1>6
  <2> HIDE DEF n
  <2>2. /\ u[n] = IF i > Len(s) THEN u[k] ELSE Then(u[k], y)
        /\ o[n] = IF IsToken(s, i) THEN Append(o[k], x) ELSE o[k]
        /\ u[k] \in Seq(S) /\ o[k] \in Seq(Seq(S)) /\ i \in 1..(Len(s) + 1)
    BY <1>4, <2>1
  <2> HIDE DEF i, D, T
  <2> DEFINE a == u[k]
             b == o[k]
             W == Seq(S)
  <2>3. a \in Seq(S) /\ b \in Seq(W) /\ Within(a, V) = ValuesOf(Within(b, D), f)
    BY <2>1, <2>2
  <2> HIDE DEF a, b, W
  <2>4. /\ u[n] = IF i > Len(s) THEN a ELSE Then(a, y)
        /\ o[n] = IF IsToken(s, i) THEN Append(b, x) ELSE b
    BY <2>2 DEF a, b
  <2> SUFFICES Within(u[n], V) = ValuesOf(Within(o[n], D), f)
    BY DEF n
  <2> HIDE DEF Holds
  <2>5. CASE i > Len(s)
    <3>1. ~IsToken(s, i)
      BY <1>0, <2>2, <2>5 DEF IsToken
    <3> QED BY <2>3, <2>4, <2>5, <3>1
  <2>6. ASSUME ~(i > Len(s)), BlockEnd(s, i) = 0 \/ ~Found(s, f, i)
        PROVE  Within(u[n], V) = ValuesOf(Within(o[n], D), f)
    <3>1. i \in 1..Len(s)
      BY <2>2, <2>6
    <3>2. y \in Seq(S) /\ \A l \in 1..Len(y) : y[l] \notin V
      <4>1. CASE BlockEnd(s, i) = 0
        <5>1. y = <<s[i]>>
          BY <3>1, <4>1 DEF Image, AsciiText, Ascii
        <5> QED BY <3>1, <5>1
      <4>2. CASE BlockEnd(s, i) # 0
        <5>1. y = SubSeq(s, i, BlockEnd(s, i))
          BY <2>6, <4>2 DEF Image, Found
        <5> DEFINE e == BlockEnd(s, i)
        <5>2. e \in (i + 2)..Len(s) /\ i \in Nat /\ Len(s) \in Nat
          BY <3>1, <4>2, BlockEndIn
        <5> HIDE DEF e, y
        <5>3. /\ y \in Seq(S) /\ Len(y) = e - i + 1 /\ \A l \in 1..(e - i + 1) : y[l] = s[i + l - 1]
          <6>1. i \in 1..(Len(s) + 1) /\ e \in 0..Len(s) /\ e >= i - 1
            BY <3>1, <5>2
          <6> QED BY <5>1, <6>1, PieceOf DEF e
        <5>4. \A l \in 1..(e - i + 1) : i + l - 1 \in 1..Len(s)
          BY <3>1, <5>2
        <5> QED BY <5>3, <5>4
      <4> QED BY <4>1, <4>2
    <3> HIDE DEF y
    <3>3. Within(u[n], V) = Within(a, V)
      <4>1. Within(Then(a, y), V) = Within(a, V)
        BY <2>3, <3>2, WithinThen
      <4> QED BY <2>4, <2>6, <4>1
    <3>4. Within(o[n], D) = Within(b, D)
      <4>1. IsToken(s, i) => x \in W /\ x \notin D
        BY <2>2, <2>6, TokenIn DEF W, D, IsToken, Found
      <4> HIDE DEF x
      <4>2. IsToken(s, i) => Within(Append(b, x), D) = Within(b, D)
        BY <2>3, <4>1, WithinOf
      <4> QED BY <2>4, <4>2
    <3> QED BY <2>3, <3>3, <3>4
  <2>7. ASSUME ~(i > Len(s)), BlockEnd(s, i) # 0, Found(s, f, i)
        PROVE  Within(u[n], V) = ValuesOf(Within(o[n], D), f)
    <3>1. i \in 1..Len(s) /\ i <= Len(s)
      BY <2>2, <2>7
    <3>2. IsToken(s, i) /\ x \in D /\ x \in W /\ y = f[x]
      BY <2>2, <2>7, <3>1, TokenIn DEF IsToken, Found, Image, D, W
    <3>3. f[x] = <<f[x][1]>> /\ f[x][1] \in S /\ f[x][1] \in V
      BY <3>2 DEF PlainFound, D
    <3> HIDE DEF x, y
    <3> DEFINE v == f[x][1]
    <3>4. u[n] = Append(a, v)
      <4>1. u[n] = Then(a, <<v>>)
        BY <2>4, <2>7, <3>2, <3>3
      <4> HIDE DEF v
      <4> QED BY <2>3, <4>1 DEF Then
    <3>5. Within(u[n], V) = Append(Within(a, V), v)
      BY <2>3, <3>3, <3>4, WithinOf
    <3>6. Within(o[n], D) = Append(Within(b, D), x)
      <4>1. Within(Append(b, x), D) = Append(Within(b, D), x)
        BY <2>3, <3>2, WithinOf
      <4> QED BY <2>4, <3>2, <4>1
    <3>7. Within(b, D) \in Seq(D)
      BY <2>3, WithinIs
    <3>8. ValuesOf(Append(Within(b, D), x), f) = Append(ValuesOf(Within(b, D), f), v)
      BY <3>2, <3>7, ValuesGrow
    <3> QED BY <2>3, <3>5, <3>6, <3>8
  <2> QED BY <2>5, <2>6, <2>7
<1>7. T = Nat
  <2>1. T \in SUBSET Nat
    OBVIOUS
  <2> HIDE DEF T
  <2> QED BY <1>5, <1>6, <2>1, Induction
<1>8. N \in T
  <2> HIDE DEF T
  <2> QED BY <1>0, <1>7
<1>9. Holds(N)
  BY <1>0, <1>8
<1> QED BY <1>2, <1>3, <1>9

(* --------------------------- Quotes pair up ---------------------------- *)

\* The quotes among the first k characters of x.
Quotes(x, k) == {j \in 1..k : x[j] = Quote}

\* One more character is a quote or none.
LEMMA QuotesGrow ==
  ASSUME NEW x, NEW k \in Nat
  PROVE  /\ Quotes(x, 0) = {}
         /\ Quotes(x, k + 1) = IF x[k + 1] = Quote THEN Quotes(x, k) \cup {k + 1} ELSE Quotes(x, k)
         /\ k + 1 \notin Quotes(x, k)
<1>1. 1..0 = {} /\ 1..(k + 1) = (1..k) \cup {k + 1} /\ k + 1 \notin 1..k
  OBVIOUS
<1> QED BY <1>1 DEF Quotes

\* Even numbers.
Even(n) == n % 2 = 0

\* Every other number is even.
LEMMA EvenOf == ASSUME NEW n \in Nat PROVE Even(0) /\ (Even(n + 1) <=> ~Even(n))
BY DEF Even

\* Without an escape, the scan is in a literal exactly behind an odd number of quotes.
LEMMA QuotesPair ==
  ASSUME NEW S, NEW s \in Seq(S), NEW i \in 1..Len(s), BlockEnd(s, i) # 0, NEW x,
         x = SubSeq(s, i + 2, BlockEnd(s, i) - 1), \A j \in 1..Len(x) : x[j] # Escape
  PROVE  Even(Cardinality(Quotes(x, Len(x))))
<1> DEFINE e == BlockEnd(s, i)
           M == e - i - 2
<1>1. Len(s) \in Nat /\ e \in (i + 2)..Len(s) /\ i \in Nat /\ e \in Nat /\ Block(s, i, e)
  BY BlockEndIn, BlockEndIs
<1>x. x = SubSeq(s, i + 2, e - 1)
  OBVIOUS
<1> HIDE DEF e
<1>2. /\ M \in Nat /\ Len(x) = M /\ \A k \in 1..M : x[k] = s[i + 1 + k]
      /\ i + 1 + M = e - 1
  <2>1. i + 2 \in 1..(Len(s) + 1) /\ e - 1 \in 0..Len(s) /\ e - 1 >= (i + 2) - 1
    BY <1>1
  <2>2. (e - 1) - (i + 2) + 1 = M /\ \A k \in Int : i + 2 + k - 1 = i + 1 + k
    BY <1>1
  <2>3. Len(x) = (e - 1) - (i + 2) + 1 /\ \A k \in 1..((e - 1) - (i + 2) + 1) : x[k] = s[i + 2 + k - 1]
    <3> DEFINE y == SubSeq(s, i + 2, e - 1)
    <3>1. Len(y) = (e - 1) - (i + 2) + 1 /\ \A k \in 1..((e - 1) - (i + 2) + 1) : y[k] = s[i + 2 + k - 1]
      BY <2>1, PieceOf
    <3> QED BY Zenon, <1>x, <3>1
  <2>4. M \in Nat /\ i + 1 + M = e - 1
    BY <1>1
  <2>5. \A k \in 1..M : x[k] = s[i + 1 + k]
    <3> TAKE k \in 1..M
    <3>1. i + 2 + k - 1 = i + 1 + k /\ x[k] = s[i + 2 + k - 1]
      <4>1. i + 2 + k - 1 = i + 1 + k /\ k \in 1..((e - 1) - (i + 2) + 1)
        BY <1>1, <2>2
      <4>2. x[k] = s[i + 2 + k - 1]
        BY <2>3, <4>1
      <4> QED BY Zenon, <4>1, <4>2
    <3> QED BY <3>1
  <2> HIDE DEF M
  <2> QED BY <2>2, <2>3, <2>4, <2>5
<1> HIDE DEF M
<1>3. i + 2 \in 1..(Len(s) + 1) /\ find_matching_brace(s, i + 2) = e
  BY <1>1 DEF Block
<1>4. PICK m, d : Nesting(m, d, s, i + 2) /\ m[i + 2 - 1] = "code" /\ d[i + 2 - 1] = 1
  BY <1>1, <1>3, NestingExists
<1>5. Closes(e, m, d, s, i + 2)
  BY <1>1, <1>3, <1>4, FindIs
<1>6. m[e - 1] = "code"
  BY <1>5 DEF Closes
<1> DEFINE Q(k) == Quotes(x, k)
           Holds(k) == /\ IsFiniteSet(Q(k)) /\ Cardinality(Q(k)) \in Nat
                       /\ m[i + 1 + k] = IF Even(Cardinality(Q(k))) THEN "code" ELSE "string"
           T == {k \in Nat : k <= M => Holds(k)}
<1>7. 0 \in T
  <2>1. Q(0) = {}
    BY QuotesGrow
  <2> HIDE DEF Q
  <2>2. IsFiniteSet(Q(0)) /\ Cardinality(Q(0)) = 0
    BY <2>1, FS_EmptySet
  <2>3. m[i + 1 + 0] = "code"
    <3>1. i + 1 + 0 = i + 2 - 1
      BY <1>1
    <3> QED BY <1>4, <3>1
  <2>4. Even(0)
    BY EvenOf
  <2> QED BY <2>2, <2>3, <2>4
<1>8. ASSUME NEW k \in T PROVE k + 1 \in T
  <2> SUFFICES ASSUME k + 1 <= M PROVE Holds(k + 1)
    BY <1>8
  <2> DEFINE A == Q(k)
             B == Q(k + 1)
  <2>1. k \in Nat /\ Holds(k) /\ k + 1 \in 1..M
    BY <1>2, <1>8
  <2>2. B = (IF x[k + 1] = Quote THEN A \cup {k + 1} ELSE A) /\ k + 1 \notin A
    BY <2>1, QuotesGrow
  <2>3. IsFiniteSet(A) /\ Cardinality(A) \in Nat /\ m[i + 1 + k] = IF Even(Cardinality(A)) THEN "code" ELSE "string"
    BY <2>1
  <2> HIDE DEF A, Q
  <2>4. IsFiniteSet(B) /\ Cardinality(B) = IF x[k + 1] = Quote THEN Cardinality(A) + 1 ELSE Cardinality(A)
    <3> HIDE DEF B
    <3> QED BY <2>2, <2>3, FS_AddElement
  <2> HIDE DEF B
  <2> DEFINE l == i + 1 + (k + 1)
  <2>5. m[l] = next_mode(m[l - 1], s[l])
    <3>1. l \in (i + 2)..Len(s)
      BY <1>1, <1>2, <2>1
    <3> HIDE DEF l
    <3> QED BY <1>4, <3>1 DEF Nesting
  <2>6. l - 1 = i + 1 + k /\ s[l] = x[k + 1] /\ x[k + 1] # Escape
    <3>1. l - 1 = i + 1 + k
      BY <1>1, <2>1
    <3>2. x[k + 1] = s[i + 1 + (k + 1)] /\ k + 1 \in 1..Len(x)
      BY <1>2, <2>1
    <3> QED BY <3>1, <3>2
  <2> HIDE DEF l
  <2> DEFINE n == Cardinality(A)
  <2>7. n \in Nat /\ (Even(n + 1) <=> ~Even(n))
    BY <2>3, EvenOf
  <2>8. m[l - 1] = (IF Even(n) THEN "code" ELSE "string") /\ Cardinality(B) = IF x[k + 1] = Quote THEN n + 1 ELSE n
    BY <2>3, <2>4, <2>6
  <2> HIDE DEF n
  <2>9. m[l] = IF Even(Cardinality(B)) THEN "code" ELSE "string"
    BY <2>5, <2>6, <2>7, <2>8 DEF next_mode
  <2>10. Cardinality(B) \in Nat
    BY <2>7, <2>8
  <2> QED BY <2>4, <2>9, <2>10 DEF B, l
<1>9. T = Nat
  <2>1. T \in SUBSET Nat
    OBVIOUS
  <2> HIDE DEF T
  <2> QED BY <1>7, <1>8, <2>1, Induction
<1>10. Holds(M)
  <2>1. M \in T
    <3> HIDE DEF T
    <3> QED BY <1>2, <1>9
  <2> QED BY <1>2, <2>1
<1>11. Even(Cardinality(Q(M)))
  <2>1. m[i + 1 + M] = "code"
    BY <1>2, <1>6
  <2>2. m[i + 1 + M] = IF Even(Cardinality(Q(M))) THEN "code" ELSE "string"
    BY <1>10
  <2> QED BY <2>1, <2>2
<1> QED BY <1>2, <1>11

(* -------------------------- Splitting a text --------------------------- *)

\* w holds the items of a, and then those of b.
Joined(w, a, b) ==
  /\ Len(a) \in Nat /\ Len(b) \in Nat /\ Len(w) = Len(a) + Len(b)
  /\ \A i \in 1..Len(a) : w[i] = a[i]
  /\ \A i \in 1..Len(b) : w[Len(a) + i] = b[i]

\* A concatenation holds the items of both.
LEMMA JoinedIs ==
  \A S : \A a, b \in Seq(S) : \A w : w = Then(a, b) => w \in Seq(S) /\ Joined(w, a, b)
<1> SUFFICES ASSUME NEW S, NEW a \in Seq(S), NEW b \in Seq(S)
             PROVE  Then(a, b) \in Seq(S) /\ Joined(Then(a, b), a, b)
  OBVIOUS
<1>1. Then(a, b) \in Seq(S)
  BY Concat
<1>2. Joined(Then(a, b), a, b)
  BY ThenOf DEF Joined
<1> QED BY <1>1, <1>2

\* One character, as a text.
LEMMA OneIs ==
  \A S : \A c \in S : \A o : o = <<c>> => o \in Seq(S) /\ Len(o) = 1 /\ o[1] = c
  OBVIOUS

\* a and b are the parts of s around its first c.
Parts(s, c, a, b) == s = Then(a, Then(<<c>>, b)) /\ ~Contains(a, c)

\* The parts are unique.
LEMMA PartsUnique ==
  ASSUME NEW S, NEW c \in S, NEW s, NEW a \in Seq(S), NEW b \in Seq(S), Parts(s, c, a, b),
         NEW a2 \in Seq(S), NEW b2 \in Seq(S), Parts(s, c, a2, b2)
  PROVE  a = a2 /\ b = b2
<1> DEFINE Shape(x, y) ==
             /\ Len(x) \in Nat /\ Len(y) \in Nat /\ Len(s) = Len(x) + 1 + Len(y)
             /\ s[Len(x) + 1] = c
             /\ \A i \in 1..Len(x) : s[i] = x[i] /\ x[i] # c
             /\ \A i \in 1..Len(y) : s[Len(x) + 1 + i] = y[i]
<1>1. ASSUME NEW x \in Seq(S), NEW y \in Seq(S), Parts(s, c, x, y) PROVE Shape(x, y)
  <2> DEFINE o == <<c>>
             z == Then(o, y)
  <2>0. o = <<c>> /\ z = Then(o, y) /\ s = Then(x, z) /\ ~Contains(x, c)
    BY <1>1 DEF Parts
  <2> HIDE DEF o, z
  <2>1. o \in Seq(S) /\ Len(o) = 1 /\ o[1] = c
    BY <2>0, OneIs
  <2>2. z \in Seq(S) /\ Joined(z, o, y)
    BY <2>0, <2>1, JoinedIs
  <2>9. Joined(s, x, z)
    BY <2>0, <2>2, JoinedIs
  <2>3. /\ Len(y) \in Nat /\ Len(z) = Len(o) + Len(y)
        /\ \A i \in 1..Len(o) : z[i] = o[i]
        /\ \A i \in 1..Len(y) : z[Len(o) + i] = y[i]
    BY <2>2 DEF Joined
  <2>4. /\ Len(x) \in Nat /\ Len(s) = Len(x) + Len(z)
        /\ \A i \in 1..Len(x) : s[i] = x[i]
        /\ \A i \in 1..Len(z) : s[Len(x) + i] = z[i]
    BY <2>9 DEF Joined
  <2>5. \A i \in 1..Len(x) : x[i] # c
    BY <2>0 DEF Contains
  <2>6. s[Len(x) + 1] = c
    <3>1. 1 \in 1..Len(z) /\ 1 \in 1..Len(o)
      BY <2>1, <2>3
    <3> QED BY <2>1, <2>3, <2>4, <2>5, <3>1
  <2>7. ASSUME NEW i \in 1..Len(y) PROVE s[Len(x) + 1 + i] = y[i]
    <3>1. 1 + i \in 1..Len(z) /\ Len(x) + (1 + i) = Len(x) + 1 + i /\ Len(o) + i = 1 + i
      BY <2>1, <2>3, <2>4
    <3>2. s[Len(x) + (1 + i)] = z[1 + i] /\ z[Len(o) + i] = y[i]
      BY <2>3, <2>4, <3>1
    <3> QED BY <3>1, <3>2
  <2>8. Len(s) = Len(x) + 1 + Len(y)
    BY <2>1, <2>3, <2>4
  <2> QED BY <2>3, <2>4, <2>5, <2>6, <2>7, <2>8
<1>2. Shape(a, b) /\ Shape(a2, b2)
  <2> HIDE DEF Shape
  <2> QED BY <1>1
<1>3. Len(a) = Len(a2)
  <2>1. ~(Len(a) < Len(a2))
    <3>1. Len(a) < Len(a2) => Len(a) + 1 \in 1..Len(a2)
      BY <1>2
    <3> QED BY <1>2, <3>1
  <2>2. ~(Len(a2) < Len(a))
    <3>1. Len(a2) < Len(a) => Len(a2) + 1 \in 1..Len(a)
      BY <1>2
    <3> QED BY <1>2, <3>1
  <2> QED BY <1>2, <2>1, <2>2
<1>4. Len(b) = Len(b2)
  BY <1>2, <1>3
<1>5. \A i \in 1..Len(a) : a[i] = a2[i]
  BY <1>2, <1>3
<1>6. \A i \in 1..Len(b) : b[i] = b2[i]
  BY <1>2, <1>3, <1>4
<1> QED BY <1>3, <1>4, <1>5, <1>6, SeqsEqual

\* split_once finds them.
LEMMA SplitOf ==
  ASSUME NEW S, NEW s \in Seq(S), NEW c
  PROVE  /\ ~Contains(s, c) => split_once(s, c) = None
         /\ Contains(s, c) => /\ c \in S
                              /\ \E a, b \in Seq(S) : split_once(s, c) = <<a, b>> /\ Parts(s, c, a, b)
<1>1. ~Contains(s, c) => split_once(s, c) = None
  BY DEF split_once
<1>2. ASSUME Contains(s, c)
      PROVE  c \in S /\ \E a, b \in Seq(S) : split_once(s, c) = <<a, b>> /\ Parts(s, c, a, b)
  <2> DEFINE First(j) == s[j] = c /\ \A k \in 1..(j - 1) : s[k] # c
             n == CHOOSE j \in DOMAIN s : First(j)
             I == {j \in 1..Len(s) : s[j] = c}
             a == SubSeq(s, 1, n - 1)
             b == SubSeq(s, n + 1, Len(s))
  <2>1. split_once(s, c) = <<a, b>>
    BY <1>2 DEF split_once
  <2>2. Len(s) \in Nat /\ DOMAIN s = 1..Len(s) /\ I # {} /\ c \in S
    BY <1>2 DEF Contains
  <2>3. PICK i \in I : \A j \in I : i <= j
    BY <2>2, Extremes
  <2>4. i \in 1..Len(s) /\ First(i)
    BY <2>2, <2>3
  <2>5. n \in 1..Len(s) /\ First(n)
    <3> HIDE DEF First
    <3> QED BY <2>2, <2>4
  <2> HIDE DEF n, I
  <2>6. n \in Nat /\ n - 1 \in 0..Len(s) /\ n >= 1 /\ n <= Len(s)
    BY <2>2, <2>5
  <2>7. a \in Seq(S) /\ Len(a) = n - 1 /\ \A k \in 1..(n - 1) : a[k] = s[k]
    <3>1. 1 \in 1..(Len(s) + 1) /\ n - 1 >= 1 - 1 /\ (n - 1) - 1 + 1 = n - 1 /\ \A k \in Int : 1 + k - 1 = k
      BY <2>2, <2>6
    <3>2. /\ a \in Seq(S) /\ Len(a) = (n - 1) - 1 + 1
          /\ \A k \in 1..((n - 1) - 1 + 1) : a[k] = s[1 + k - 1]
      BY <2>6, <3>1, PieceOf
    <3> HIDE DEF a
    <3> QED BY <3>1, <3>2
  <2>8. b \in Seq(S) /\ Len(b) = Len(s) - n /\ \A k \in 1..(Len(s) - n) : b[k] = s[n + k]
    <3>1. /\ n + 1 \in 1..(Len(s) + 1) /\ Len(s) \in 0..Len(s) /\ Len(s) >= (n + 1) - 1
          /\ Len(s) - (n + 1) + 1 = Len(s) - n /\ \A k \in Int : n + 1 + k - 1 = n + k
      BY <2>2, <2>6
    <3>2. /\ b \in Seq(S) /\ Len(b) = Len(s) - (n + 1) + 1
          /\ \A k \in 1..(Len(s) - (n + 1) + 1) : b[k] = s[n + 1 + k - 1]
      BY <3>1, PieceOf
    <3> HIDE DEF b
    <3>3. Len(b) = Len(s) - n
      BY <3>1, <3>2
    <3>4. ASSUME NEW k \in 1..(Len(s) - n) PROVE b[k] = s[n + k]
      <4>1. k \in Int /\ k \in 1..(Len(s) - (n + 1) + 1)
        BY <2>2, <2>6, <3>1
      <4>2. b[k] = s[n + 1 + k - 1]
        BY <3>2, <4>1
      <4>3. n + 1 + k - 1 = n + k
        BY <2>6, <4>1
      <4> QED BY <4>2, <4>3
    <3> QED BY <3>2, <3>3, <3>4
  <2> HIDE DEF a, b
  <2>9. ~Contains(a, c)
    BY <2>5, <2>7 DEF Contains
  <2> DEFINE o == <<c>>
             z == Then(o, b)
             w == Then(a, z)
  <2>17. o = <<c>> /\ z = Then(o, b) /\ w = Then(a, z)
    OBVIOUS
  <2> HIDE DEF o, z, w
  <2>10. o \in Seq(S) /\ Len(o) = 1 /\ o[1] = c
    BY <2>2, <2>17, OneIs
  <2>18. z \in Seq(S) /\ Joined(z, o, b)
    BY <2>8, <2>10, <2>17, JoinedIs
  <2>19. w \in Seq(S) /\ Joined(w, a, z)
    BY <2>7, <2>17, <2>18, JoinedIs
  <2>11. /\ Len(z) = Len(o) + Len(b)
         /\ \A k \in 1..Len(o) : z[k] = o[k]
         /\ \A k \in 1..Len(b) : z[Len(o) + k] = b[k]
    BY <2>18 DEF Joined
  <2>12. /\ Len(w) = Len(a) + Len(z)
         /\ \A k \in 1..Len(a) : w[k] = a[k]
         /\ \A k \in 1..Len(z) : w[Len(a) + k] = z[k]
    BY <2>19 DEF Joined
  <2>13. Len(w) = Len(s)
    BY <2>2, <2>6, <2>7, <2>8, <2>10, <2>11, <2>12
  <2>14. ASSUME NEW k \in 1..Len(s) PROVE w[k] = s[k]
    <3>1. CASE k < n
      <4>1. k \in 1..(n - 1) /\ k \in 1..Len(a)
        BY <2>6, <2>7, <3>1
      <4> QED BY <2>7, <2>12, <4>1
    <3>2. CASE k = n
      <4>1. 1 \in 1..Len(z) /\ 1 \in 1..Len(o) /\ Len(a) + 1 = k
        BY <2>2, <2>6, <2>7, <2>8, <2>10, <2>11, <3>2
      <4>2. w[Len(a) + 1] = z[1] /\ z[1] = o[1]
        BY <2>11, <2>12, <4>1
      <4> QED BY <2>5, <2>10, <3>2, <4>1, <4>2
    <3>3. CASE k > n
      <4> DEFINE l == k - n
      <4>1. l \in 1..Len(b) /\ l \in 1..(Len(s) - n) /\ n + l = k /\ Len(o) + l \in 1..Len(z) /\ Len(a) + (Len(o) + l) = k
        BY <2>2, <2>6, <2>7, <2>8, <2>10, <2>11, <3>3
      <4> HIDE DEF l
      <4>2. w[Len(a) + (Len(o) + l)] = z[Len(o) + l] /\ z[Len(o) + l] = b[l] /\ b[l] = s[n + l]
        BY <2>8, <2>11, <2>12, <4>1
      <4> QED BY <4>1, <4>2
    <3> QED BY <2>6, <3>1, <3>2, <3>3
  <2>15. w = s
    BY <2>13, <2>14, <2>19, SeqsEqual
  <2>16. Parts(s, c, a, b)
    BY <2>9, <2>15, <2>17 DEF Parts
  <2> QED BY <2>1, <2>2, <2>7, <2>8, <2>16
<1> QED BY <1>1, <1>2

\* Where the parts are known, split_once finds them.
LEMMA SplitIs ==
  ASSUME NEW S, NEW s \in Seq(S), NEW c \in S, NEW a \in Seq(S), NEW b \in Seq(S), Parts(s, c, a, b)
  PROVE  Contains(s, c) /\ split_once(s, c) = <<a, b>>
<1>1. Contains(s, c)
  <2> DEFINE o == <<c>>
             z == Then(o, b)
  <2>1. o = <<c>> /\ z = Then(o, b) /\ s = Then(a, z)
    BY DEF Parts
  <2> HIDE DEF o, z
  <2>2. o \in Seq(S) /\ Len(o) = 1 /\ o[1] = c
    BY <2>1, OneIs
  <2>3. z \in Seq(S) /\ Joined(z, o, b)
    BY <2>1, <2>2, JoinedIs
  <2>4. Joined(s, a, z)
    BY <2>1, <2>3, JoinedIs
  <2>5. /\ 1 \in 1..Len(z) /\ 1 \in 1..Len(o) /\ z[1] = o[1]
    BY <2>2, <2>3 DEF Joined
  <2>6. Len(a) + 1 \in 1..Len(s) /\ s[Len(a) + 1] = c
    BY <2>2, <2>4, <2>5 DEF Joined
  <2> QED BY <2>6 DEF Contains
<1>2. PICK a2, b2 \in Seq(S) : split_once(s, c) = <<a2, b2>> /\ Parts(s, c, a2, b2)
  BY <1>1, SplitOf
<1>3. a = a2 /\ b = b2
  BY <1>2, PartsUnique
<1> QED BY <1>1, <1>2, <1>3

(* ----------------------- The scheme and the rest ----------------------- *)

\* The marks of a reference.
Hash == "#"
Slash == "/"

\* The scheme in front.
Cred(r) == Then(<<CRED_SCHEME>>, r)

\* The scheme is no mark.
LEMMA MarksDiffer == Hash # CRED_SCHEME
  BY DEF Hash, CRED_SCHEME

\* The scheme in front of a text that has no hash is a text that has no hash.
LEMMA CredOf ==
  ASSUME NEW S, CRED_SCHEME \in S, NEW r \in Seq(S)
  PROVE  /\ Cred(r) \in Seq(S) /\ is_cred_uri(Cred(r)) /\ Tail(Cred(r)) = r
         /\ Contains(Cred(r), Hash) <=> Contains(r, Hash)
<1> DEFINE o == <<CRED_SCHEME>>
           w == Then(o, r)
<1>1. o = <<CRED_SCHEME>> /\ w = Then(o, r) /\ Cred(r) = w
  BY DEF Cred
<1> HIDE DEF o, w
<1>2. o \in Seq(S) /\ Len(o) = 1 /\ o[1] = CRED_SCHEME
  BY <1>1, OneIs
<1>3. w \in Seq(S) /\ Joined(w, o, r)
  BY <1>1, <1>2, JoinedIs
<1>4. /\ Len(r) \in Nat /\ Len(w) = 1 + Len(r) /\ w[1] = CRED_SCHEME
      /\ \A i \in 1..Len(r) : w[1 + i] = r[i]
  BY <1>2, <1>3 DEF Joined
<1>5. is_cred_uri(w)
  <2>1. w # <<>> /\ Head(w) = w[1]
    BY <1>3, <1>4
  <2> QED BY <1>4, <2>1 DEF is_cred_uri
<1>6. Tail(w) = r
  <2> DEFINE v == Tail(w)
  <2>1. v \in Seq(S) /\ Len(v) = Len(r) /\ \A i \in 1..Len(v) : v[i] = w[i + 1]
    BY <1>3, <1>4
  <2>2. ASSUME NEW i \in 1..Len(r) PROVE v[i] = r[i]
    <3>1. i \in 1..Len(v) /\ i + 1 = 1 + i
      BY <2>1
    <3> HIDE DEF v
    <3> QED BY <1>4, <2>1, <3>1
  <2> HIDE DEF v
  <2>3. v = r
    BY <2>1, <2>2, SeqsEqual
  <2> QED BY <2>3 DEF v
<1>7. Contains(w, Hash) <=> Contains(r, Hash)
  <2>1. ASSUME Contains(w, Hash) PROVE Contains(r, Hash)
    <3>1. PICK k \in 1..Len(w) : w[k] = Hash
      BY <1>3, <2>1 DEF Contains
    <3>2. k # 1
      BY <1>4, <3>1, MarksDiffer
    <3>3. k - 1 \in 1..Len(r) /\ 1 + (k - 1) = k
      BY <1>4, <3>2
    <3>4. r[k - 1] = Hash
      BY <1>4, <3>1, <3>3
    <3> QED BY <3>3, <3>4 DEF Contains
  <2>2. ASSUME Contains(r, Hash) PROVE Contains(w, Hash)
    <3>1. PICK k \in 1..Len(r) : r[k] = Hash
      BY <2>2 DEF Contains
    <3>2. 1 + k \in 1..Len(w) /\ w[1 + k] = Hash
      BY <1>4, <3>1
    <3> QED BY <3>2 DEF Contains
  <2> QED BY <2>1, <2>2
<1> QED BY <1>1, <1>3, <1>5, <1>6, <1>7

\* A URI is the scheme and the rest.
LEMMA UriIs ==
  ASSUME NEW S, NEW u \in Seq(S), is_cred_uri(u)
  PROVE  CRED_SCHEME \in S /\ Tail(u) \in Seq(S) /\ u = Cred(Tail(u))
<1>1. u # <<>> /\ Head(u) = CRED_SCHEME
  BY DEF is_cred_uri
<1>2. Len(u) \in Nat /\ Len(u) >= 1 /\ u[1] = CRED_SCHEME
  BY <1>1
<1>3. CRED_SCHEME \in S
  BY <1>2
<1> DEFINE r == Tail(u)
           o == <<CRED_SCHEME>>
           w == Then(o, r)
<1>4. r \in Seq(S) /\ Len(r) = Len(u) - 1
  BY <1>1
<1>5. ASSUME NEW i \in 1..(Len(u) - 1) PROVE r[i] = u[i + 1]
  BY <1>1
<1>6. o = <<CRED_SCHEME>> /\ w = Then(o, r) /\ Cred(r) = w
  BY DEF Cred
<1>0. r = Tail(u)
  OBVIOUS
<1> HIDE DEF r, o, w
<1>7. o \in Seq(S) /\ Len(o) = 1 /\ o[1] = CRED_SCHEME
  BY <1>3, <1>6, OneIs
<1>8. w \in Seq(S) /\ Joined(w, o, r)
  BY <1>4, <1>6, <1>7, JoinedIs
<1>9. Len(w) = 1 + Len(r) /\ w[1] = CRED_SCHEME /\ \A i \in 1..Len(r) : w[1 + i] = r[i]
  BY <1>7, <1>8 DEF Joined
<1>10. ASSUME NEW k \in 1..Len(u) PROVE w[k] = u[k]
  <2>1. CASE k = 1
    BY <1>2, <1>9, <2>1
  <2>2. CASE k # 1
    <3>1. k - 1 \in 1..(Len(u) - 1) /\ k - 1 \in 1..Len(r) /\ 1 + (k - 1) = k /\ (k - 1) + 1 = k
      BY <1>2, <1>4, <2>2
    <3>2. r[k - 1] = u[(k - 1) + 1] /\ w[1 + (k - 1)] = r[k - 1]
      BY <1>5, <1>9, <3>1
    <3> QED BY <3>1, <3>2
  <2> QED BY <2>1, <2>2
<1>11. Len(w) = Len(u)
  BY <1>2, <1>4, <1>9
<1>12. w = u
  BY <1>8, <1>10, <1>11, SeqsEqual
<1> QED BY <1>0, <1>3, <1>4, <1>6, <1>12

(* ----------------------------- References ------------------------------ *)

\* plugin_id, a slash and the target.
PathOf(a, b) == Then(a, Then(<<Slash>>, b))

\* Three texts, the first two of them joined and the last two of them joined.
Three(S, a, b, c, x, y) ==
  a \in Seq(S) /\ b \in Seq(S) /\ c \in Seq(S) /\ x = Then(a, b) /\ y = Then(b, c)

\* They can be joined from the left or from the right.
LEMMA Regrouped ==
  ASSUME NEW S, NEW a, NEW b, NEW c, NEW x, NEW y, Three(S, a, b, c, x, y)
  PROVE  Then(x, c) = Then(a, y)
  BY Associative DEF Three

\* How a reference is rendered.
LEMMA ToUriIs ==
  ASSUME NEW S, CRED_SCHEME \in S, Slash \in S, None \notin Seq(S),
         NEW a \in Seq(S), NEW b \in Seq(S)
  PROVE  /\ to_uri(CredRef(a, b, None)) = Cred(PathOf(a, b))
         /\ \A y \in Seq(S) : Hash \in S => to_uri(CredRef(a, b, y)) = Cred(Then(PathOf(a, b), Then(<<Hash>>, y)))
<1> DEFINE o == <<CRED_SCHEME>>
           l == <<Slash>>
           h == <<Hash>>
           e == <<>>
           x == Then(l, b)
           v == Then(a, x)
           w == Then(o, v)
           k == Then(Then(Then(o, a), l), b)
<1>1. /\ o = <<CRED_SCHEME>> /\ l = <<Slash>> /\ h = <<Hash>> /\ e = <<>>
      /\ x = Then(l, b) /\ v = Then(a, x) /\ w = Then(o, v) /\ k = Then(Then(Then(o, a), l), b)
  OBVIOUS
<1>2. v = PathOf(a, b) /\ w = Cred(v)
  BY DEF PathOf, Cred
<1>3. to_uri(CredRef(a, b, None)) = Then(k, e)
  BY DEF to_uri, CredRef, Then, Slash, CRED_SCHEME
<1>4. ASSUME NEW y \in Seq(S) PROVE to_uri(CredRef(a, b, y)) = Then(k, Then(h, y))
  <2>1. y # None
    OBVIOUS
  <2> QED BY <2>1 DEF to_uri, CredRef, Then, Slash, Hash, CRED_SCHEME
<1> HIDE DEF o, l, h, e, x, v, w, k
<1>5. o \in Seq(S) /\ l \in Seq(S)
  BY <1>1, OneIs
<1>6. x \in Seq(S)
  BY <1>1, <1>5, JoinedIs
<1>7. v \in Seq(S)
  BY <1>1, <1>6, JoinedIs
<1>8. Then(o, a) \in Seq(S)
  BY <1>5, JoinedIs
<1>9. k = w
  <2>1. Then(Then(Then(o, a), l), b) = Then(Then(o, a), x)
    <3> DEFINE oa == Then(o, a)
               oal == Then(oa, l)
    <3>1. oa = Then(o, a) /\ oal = Then(oa, l)
      OBVIOUS
    <3> HIDE DEF oa, oal
    <3>2. oa \in Seq(S)
      BY <1>8, <3>1
    <3>3. Three(S, oa, l, b, oal, x)
      BY <1>1, <1>5, <3>1, <3>2 DEF Three
    <3>4. Then(oal, b) = Then(oa, x)
      BY <3>3, Regrouped
    <3> QED BY <3>1, <3>4
  <2>2. Then(Then(o, a), x) = Then(o, v)
    <3> DEFINE oa == Then(o, a)
    <3>1. oa = Then(o, a)
      OBVIOUS
    <3> HIDE DEF oa
    <3>2. Three(S, o, a, x, oa, v)
      BY <1>1, <1>5, <1>6, <3>1 DEF Three
    <3>3. Then(oa, x) = Then(o, v)
      BY <3>2, Regrouped
    <3> QED BY <3>1, <3>3
  <2> QED BY <1>1, <2>1, <2>2
<1>10. w \in Seq(S)
  BY <1>1, <1>5, <1>7, JoinedIs
<1>11. to_uri(CredRef(a, b, None)) = Cred(PathOf(a, b))
  <2>1. Then(w, e) = w
    BY <1>1, <1>10, ConcatEmpty
  <2> QED BY <1>2, <1>3, <1>9, <2>1
<1>12. ASSUME NEW y \in Seq(S), Hash \in S
       PROVE  to_uri(CredRef(a, b, y)) = Cred(Then(PathOf(a, b), Then(<<Hash>>, y)))
  <2>0. h \in Seq(S)
    BY <1>1, <1>12, OneIs
  <2>1. Then(h, y) \in Seq(S)
    BY <2>0, JoinedIs
  <2>2. Then(w, Then(h, y)) = Then(o, Then(v, Then(h, y)))
    <3> DEFINE hy == Then(h, y)
               vhy == Then(v, hy)
    <3>1. hy = Then(h, y) /\ vhy = Then(v, hy)
      OBVIOUS
    <3> HIDE DEF hy, vhy
    <3>2. hy \in Seq(S)
      BY <2>1, <3>1
    <3>3. Three(S, o, v, hy, w, vhy)
      BY <1>1, <1>5, <1>7, <3>1, <3>2 DEF Three
    <3>4. Then(w, hy) = Then(o, vhy)
      BY <3>3, Regrouped
    <3> QED BY <3>1, <3>4
  <2>3. Then(o, Then(v, Then(h, y))) = Cred(Then(v, Then(h, y)))
    BY <1>1 DEF Cred
  <2>4. to_uri(CredRef(a, b, y)) = Then(w, Then(h, y))
    BY <1>4, <1>9
  <2> QED BY <1>1, <1>2, <2>2, <2>3, <2>4
<1> QED BY <1>11, <1>12

\* The fragment of a text that may have one.
LEMMA FragmentOf ==
  ASSUME NEW S, NEW r \in Seq(S)
  PROVE  /\ ~Contains(r, Hash) => Fragment(r) = [path |-> r, part |-> None, ok |-> TRUE]
         /\ \A x, y \in Seq(S) : Hash \in S /\ Parts(r, Hash, x, y)
              => Fragment(r) = [path |-> x, part |-> y, ok |-> y # <<>>]
<1>1. ASSUME ~Contains(r, Hash) PROVE Fragment(r) = [path |-> r, part |-> None, ok |-> TRUE]
  <2>1. split_once(r, Hash) = None
    BY <1>1, SplitOf
  <2> QED BY <2>1 DEF Fragment, Hash
<1>2. ASSUME NEW x \in Seq(S), NEW y \in Seq(S), Hash \in S, Parts(r, Hash, x, y)
      PROVE  Fragment(r) = [path |-> x, part |-> y, ok |-> y # <<>>]
  <2>1. split_once(r, Hash) = <<x, y>>
    BY <1>2, SplitIs
  <2>2. <<x, y>> # None
    BY DEF None
  <2>3. <<x, y>>[1] = x /\ <<x, y>>[2] = y
    OBVIOUS
  <2> QED BY <2>1, <2>2, <2>3 DEF Fragment, Hash
<1> QED BY <1>1, <1>2

\* How a URI is parsed: its path and its part.
LEMMA ParseOf ==
  ASSUME NEW S, CRED_SCHEME \in S, NEW r \in Seq(S), NEW x, NEW y, NEW ok,
         Fragment(r) = [path |-> x, part |-> y, ok |-> ok]
  PROVE  parse(Cred(r)) = IF ~ok \/ split_once(x, Slash) = None
                               \/ split_once(x, Slash)[1] = <<>> \/ split_once(x, Slash)[2] = <<>>
                          THEN NoRef ELSE CredRef(split_once(x, Slash)[1], split_once(x, Slash)[2], y)
<1>1. is_cred_uri(Cred(r)) /\ Tail(Cred(r)) = r
  BY CredOf
<1>2. Fragment(r).path = x /\ Fragment(r).part = y /\ Fragment(r).ok = ok
  OBVIOUS
<1> QED BY <1>1, <1>2 DEF parse, Slash

\* The path of a reference.
LEMMA PathSplits ==
  ASSUME NEW S, NEW x \in Seq(S), split_once(x, Slash) # None
  PROVE  /\ Slash \in S
         /\ \E a, b \in Seq(S) : split_once(x, Slash) = <<a, b>> /\ x = PathOf(a, b)
<1>1. Contains(x, Slash)
  BY SplitOf
<1>2. Slash \in S /\ \E a, b \in Seq(S) : split_once(x, Slash) = <<a, b>> /\ Parts(x, Slash, a, b)
  BY <1>1, SplitOf
<1> QED BY <1>2 DEF Parts, PathOf

\* A text before its first hash.
Bare(u) == IF Contains(u, Hash) THEN split_once(u, Hash)[1] ELSE u

\* A reference renders back to its URI, and has the cache key of its bare form.
LEMMA RefCanonical ==
  ASSUME NEW S, None \notin Seq(S), NEW u \in Seq(S), parse(u) # NoRef
  PROVE  to_uri(parse(u)) = u /\ cache_key(parse(u)) = cache_key(parse(Bare(u)))
<1>1. is_cred_uri(u)
  BY DEF parse
<1>2. PICK r \in Seq(S) : CRED_SCHEME \in S /\ u = Cred(r)
  BY <1>1, UriIs
<1>3. Contains(u, Hash) <=> Contains(r, Hash)
  BY <1>2, CredOf
<1>4. CASE ~Contains(r, Hash)
  <2>1. Fragment(r) = [path |-> r, part |-> None, ok |-> TRUE]
    BY <1>4, FragmentOf
  <2>2. split_once(r, Slash) # None
        /\ parse(u) = CredRef(split_once(r, Slash)[1], split_once(r, Slash)[2], None)
    BY <1>2, <2>1, ParseOf
  <2>3. PICK a \in Seq(S), b \in Seq(S) : split_once(r, Slash) = <<a, b>> /\ r = PathOf(a, b)
    BY <2>2, PathSplits
  <2>4. split_once(r, Slash)[1] = a /\ split_once(r, Slash)[2] = b
    BY <2>3
  <2>5. to_uri(parse(u)) = Cred(PathOf(a, b))
    <3>1. Slash \in S
      BY <2>2, PathSplits
    <3>2. to_uri(CredRef(a, b, None)) = Cred(PathOf(a, b))
      BY <1>2, <3>1, ToUriIs
    <3> QED BY <2>2, <2>4, <3>2
  <2>6. Bare(u) = u
    BY <1>3, <1>4 DEF Bare
  <2> QED BY <1>2, <2>3, <2>5, <2>6
<1>5. CASE Contains(r, Hash)
  <2>1. PICK x \in Seq(S), y \in Seq(S) : Hash \in S /\ Parts(r, Hash, x, y)
    BY <1>5, SplitOf
  <2> DEFINE ok == y # <<>>
  <2>2. Fragment(r) = [path |-> x, part |-> y, ok |-> ok]
    BY <2>1, FragmentOf
  <2> HIDE DEF ok
  <2>3. split_once(x, Slash) # None
        /\ parse(u) = CredRef(split_once(x, Slash)[1], split_once(x, Slash)[2], y)
        /\ split_once(x, Slash)[1] # <<>> /\ split_once(x, Slash)[2] # <<>>
    BY <1>2, <2>2, ParseOf
  <2>4. Slash \in S /\ \E a, b \in Seq(S) : split_once(x, Slash) = <<a, b>> /\ x = PathOf(a, b)
    BY <2>3, PathSplits
  <2>5. PICK a \in Seq(S), b \in Seq(S) : split_once(x, Slash) = <<a, b>> /\ x = PathOf(a, b)
    BY <2>4
  <2>6. split_once(x, Slash)[1] = a /\ split_once(x, Slash)[2] = b
    BY <2>5
  <2>7. to_uri(parse(u)) = u
    <3>1. to_uri(CredRef(a, b, y)) = Cred(Then(PathOf(a, b), Then(<<Hash>>, y)))
      <4>1. \A c \in Seq(S) : Hash \in S
              => to_uri(CredRef(a, b, c)) = Cred(Then(PathOf(a, b), Then(<<Hash>>, c)))
        BY <1>2, <2>4, ToUriIs
      <4> QED BY <2>1, <4>1, Zenon
    <3>2. r = Then(x, Then(<<Hash>>, y))
      BY <2>1 DEF Parts
    <3>3. parse(u) = CredRef(a, b, y)
      BY <2>3, <2>6
    <3> QED BY <1>2, <2>5, <3>1, <3>2, <3>3
  <2>8. Bare(u) = Cred(x)
    <3> DEFINE o == <<CRED_SCHEME>>
               h == <<Hash>>
               z == Then(h, y)
               v == Then(o, x)
    <3>1. o = <<CRED_SCHEME>> /\ h = <<Hash>> /\ z = Then(h, y) /\ v = Then(o, x)
      OBVIOUS
    <3>2. u = Then(o, Then(x, z)) /\ Cred(x) = v
      BY <1>2, <2>1 DEF Parts, Cred
    <3> HIDE DEF o, h, z, v
    <3>3. o \in Seq(S) /\ h \in Seq(S)
      BY <1>2, <2>1, <3>1, OneIs
    <3>4. z \in Seq(S) /\ v \in Seq(S)
      BY <3>1, <3>3, JoinedIs
    <3>5. u = Then(v, z)
      <4> DEFINE xz == Then(x, z)
      <4>1. xz = Then(x, z) /\ u = Then(o, xz)
        BY <3>2
      <4> HIDE DEF xz
      <4>2. Three(S, o, x, z, v, xz)
        BY <3>1, <3>3, <3>4, <4>1 DEF Three
      <4> QED BY <4>1, <4>2, Regrouped
    <3>6. ~Contains(x, Hash)
      BY <2>1 DEF Parts
    <3>7. ~Contains(v, Hash)
      BY <1>2, <3>2, <3>6, CredOf
    <3>8. Parts(u, Hash, v, y)
      BY <3>1, <3>5, <3>7 DEF Parts
    <3>9. Contains(u, Hash) /\ split_once(u, Hash) = <<v, y>>
      BY <2>1, <3>4, <3>8, SplitIs
    <3>10. <<v, y>>[1] = v
      OBVIOUS
    <3> QED BY <3>2, <3>9, <3>10 DEF Bare
  <2>9. parse(Cred(x)) = CredRef(a, b, None)
    <3>1. ~Contains(x, Hash)
      BY <2>1 DEF Parts
    <3>2. Fragment(x) = [path |-> x, part |-> None, ok |-> TRUE]
      BY <3>1, FragmentOf
    <3>3. parse(Cred(x)) = IF ~TRUE \/ split_once(x, Slash) = None
                               \/ split_once(x, Slash)[1] = <<>> \/ split_once(x, Slash)[2] = <<>>
                          THEN NoRef ELSE CredRef(split_once(x, Slash)[1], split_once(x, Slash)[2], None)
      BY <1>2, <3>2, ParseOf
    <3> QED BY <2>3, <2>6, <3>3
  <2>10. cache_key(parse(u)) = cache_key(parse(Bare(u)))
    <3>1. parse(u) = CredRef(a, b, y)
      BY <2>3, <2>6
    <3> QED BY <2>8, <2>9, <3>1 DEF cache_key, CredRef
  <2> QED BY <2>7, <2>10
<1> QED BY <1>4, <1>5

(* ------------------------------ The layers ------------------------------ *)

\* A function from 1 alone is the sequence of its one item.
LEMMA OneItem == \A S : \A g \in [{1} -> S] : g = <<g[1]>> /\ g[1] \in S /\ g \in Seq(S)
<1> SUFFICES ASSUME NEW S, NEW g \in [{1} -> S] PROVE g = <<g[1]>> /\ g[1] \in S /\ g \in Seq(S)
  OBVIOUS
<1>1. g = <<g[1]>> /\ g[1] \in S
  OBVIOUS
<1>2. <<g[1]>> \in Seq(S)
  BY <1>1
<1> QED BY <1>1, <1>2

\* What layers resolve are texts of one symbol.
LEMMA ResolvedServe ==
  ASSUME NEW f, \A u \in DOMAIN f : f[u] \in [{1} -> Values]
  PROVE  Serves(f, Symbols)
<1>1. ASSUME NEW u \in DOMAIN f PROVE f[u] \in Seq(Symbols)
  <2>1. f[u] \in [{1} -> Symbols]
    BY DEF Symbols
  <2> QED BY <2>1, OneItem
<1>2. {"C2", "C3", "82", "83"} \subseteq Symbols
  BY DEF Symbols
<1> QED BY <1>1, <1>2 DEF Serves

\* A fragment is a text over the alphabet.
LEMMA FragmentIn == \A f \in Fragments : f \in Seq(Symbols)
<1> SUFFICES ASSUME NEW f \in Fragments PROVE f \in Seq(Symbols)
  OBVIOUS
<1>1. f \in Seq(Written) /\ Written \subseteq Symbols
  BY FragmentsAreTexts DEF Symbols
<1>2. Len(f) \in Nat /\ f \in [1..Len(f) -> Symbols]
  BY <1>1
<1> QED BY <1>2

\* A layer adds to what is resolved what it resolves.
LEMMA LayerResolves ==
  ASSUME LayersTypeOK, NEW known \in SUBSET References(text), NEW value \in [known -> Values], Layer(known, value)
  PROVE  LET found == [u \in known |-> <<value[u]>>]
         IN /\ \A u \in DOMAIN found : found[u] \in [{1} -> Values]
            /\ DOMAIN found = known /\ DOMAIN resolved' = DOMAIN resolved \cup known
            /\ \A u \in DOMAIN resolved' : resolved'[u] = IF u \in known THEN found[u] ELSE resolved[u]
            /\ \A u \in DOMAIN resolved' : resolved'[u] \in [{1} -> Values]
            /\ text' = substitute_cred_tokens(text, found) /\ text' \in Seq(Symbols)
            /\ template' = template /\ pieces' = pieces /\ layers' = layers + 1 /\ layers < MaxLayers
<1> DEFINE found == [u \in known |-> <<value[u]>>]
<1>1. DOMAIN found = known /\ \A u \in DOMAIN found : found[u] \in [{1} -> Values]
  <2> SUFFICES ASSUME NEW u \in known PROVE <<value[u]>> \in [{1} -> Values]
    OBVIOUS
  <2>1. value[u] \in Values /\ {1} = 1..1
    OBVIOUS
  <2>2. <<value[u]>> \in [1..1 -> Values]
    BY <2>1
  <2> QED BY <2>1, <2>2
<1>2. /\ text' = substitute_cred_tokens(text, found)
      /\ resolved' = [u \in DOMAIN resolved \cup known |-> IF u \in known THEN found[u] ELSE resolved[u]]
      /\ template' = template /\ pieces' = pieces /\ layers' = layers + 1 /\ layers < MaxLayers
  BY DEF Layer
<1> HIDE DEF found
<1>3. text' \in Seq(Symbols)
  <2>1. Serves(found, Symbols) /\ text \in Seq(Symbols)
    BY <1>1, ResolvedServe DEF LayersTypeOK
  <2> QED BY <1>2, <2>1, TextIn
<1>4. \A u \in DOMAIN resolved' : resolved'[u] \in [{1} -> Values]
  BY <1>1, <1>2 DEF LayersTypeOK
<1>5. /\ DOMAIN resolved' = DOMAIN resolved \cup known
      /\ \A u \in DOMAIN resolved' : resolved'[u] = IF u \in known THEN found[u] ELSE resolved[u]
  BY <1>2
<1> QED BY <1>1, <1>2, <1>3, <1>4, <1>5 DEF found

\* The empty string is of the type.
LEMMA LayersTypeInit == LayersInit => LayersTypeOK
BY BoundsAreNat DEF LayersInit, LayersTypeOK

\* Writing and the layers keep the texts texts.
LEMMA LayersTypeStep == LayersTypeOK /\ [LayersNext]_layerVars => LayersTypeOK'
<1> SUFFICES ASSUME LayersTypeOK, [LayersNext]_layerVars PROVE LayersTypeOK'
  OBVIOUS
<1>1. ASSUME NEW f \in Fragments, Write(f) PROVE LayersTypeOK'
  <2>1. Then(template, f) \in Seq(Symbols)
    BY FragmentIn, Concat DEF LayersTypeOK
  <2>2. template' = Then(template, f) /\ text' = template' /\ pieces' = pieces + 1 /\ pieces < MaxFragments
        /\ resolved' = resolved /\ layers' = layers
    BY <1>1 DEF Write, Then
  <2>3. pieces' \in 0..MaxFragments
    BY <2>2, BoundsAreNat DEF LayersTypeOK
  <2> QED BY <2>1, <2>2, <2>3 DEF LayersTypeOK
<1>2. ASSUME NEW known \in SUBSET References(text), NEW value \in [known -> Values], Layer(known, value)
      PROVE  LayersTypeOK'
  <2>1. /\ \A u \in DOMAIN resolved' : resolved'[u] \in [{1} -> Values]
        /\ text' \in Seq(Symbols) /\ template' = template /\ pieces' = pieces
        /\ layers' = layers + 1 /\ layers < MaxLayers
    BY <1>2, LayerResolves
  <2>2. layers' \in 0..MaxLayers
    BY <2>1, BoundsAreNat DEF LayersTypeOK
  <2> QED BY <2>1, <2>2 DEF LayersTypeOK
<1>3. ASSUME UNCHANGED layerVars PROVE LayersTypeOK'
  BY <1>3 DEF layerVars, LayersTypeOK
<1> QED BY <1>1, <1>2, <1>3 DEF LayersNext

\* However an operator writes a string and layers substitute in it, it stays a string
\* over the alphabet, and every resolved value is one symbol (substitute_cred_tokens).
THEOREM LayersTypeCorrect == LayersSpec => []LayersTypeOK
BY LayersTypeInit, LayersTypeStep, PTL DEF LayersSpec

\* A block that holds no escape has an even number of quotes.
LEMMA QuotesOfBlock ==
  ASSUME NEW S, NEW s \in Seq(S), NEW i \in DOMAIN s, BlockEnd(s, i) # 0, NEW x,
         x = SubSeq(s, i + 2, BlockEnd(s, i) - 1), ~Contains(x, Escape)
  PROVE  Cardinality({j \in DOMAIN x : x[j] = Quote}) % 2 = 0
<1>1. i \in 1..Len(s) /\ Len(s) \in Nat
  OBVIOUS
<1>2. BlockEnd(s, i) \in (i + 2)..Len(s)
  BY <1>1, BlockEndIn
<1>3. x \in Seq(S)
  <2> DEFINE e == BlockEnd(s, i)
  <2>1. /\ i + 2 \in 1..(Len(s) + 1) /\ e - 1 \in 0..Len(s) /\ e - 1 >= (i + 2) - 1
    BY <1>1, <1>2
  <2> HIDE DEF e
  <2>2. SubSeq(s, i + 2, e - 1) \in Seq(S)
    BY <2>1, PieceOf
  <2> QED BY <2>2 DEF e
<1>4. DOMAIN x = 1..Len(x)
  BY <1>3
<1>5. \A j \in 1..Len(x) : x[j] # Escape
  BY <1>4 DEF Contains
<1>6. Even(Cardinality(Quotes(x, Len(x))))
  BY <1>1, <1>5, QuotesPair
<1>7. Quotes(x, Len(x)) = {j \in DOMAIN x : x[j] = Quote}
  BY <1>4 DEF Quotes
<1> QED BY <1>6, <1>7 DEF Even

\* So blocks of the template end outside its literals.
LEMMA BlocksEnd ==
  ASSUME LayersTypeOK
  PROVE  BlocksEndOutsideStrings
<1> SUFFICES ASSUME NEW i \in DOMAIN template, NEW x, x = SubSeq(template, i + 2, BlockEnd(template, i) - 1),
                    BlockEnd(template, i) # 0, ~Contains(x, Escape)
             PROVE  Cardinality({j \in DOMAIN x : x[j] = Quote}) % 2 = 0
  BY Zenon DEF BlocksEndOutsideStrings, Escape, Quote
<1>1. template \in Seq(Symbols)
  BY DEF LayersTypeOK
<1> QED BY <1>1, QuotesOfBlock

\* No text over the alphabet is None.
LEMMA NoneIsNoText == None \notin Seq(Symbols)
<1>1. SUFFICES ASSUME None \in Seq(Symbols) PROVE FALSE
  OBVIOUS
<1>2. None = <<"none">>
  BY DEF None
<1>3. 1 \in DOMAIN None /\ None[1] = "none"
  BY <1>2
<1>4. None[1] \in Symbols
  BY <1>1, <1>3, ItemIn
<1> QED BY <1>3, <1>4, FragmentsAreTexts

\* The URIs of the tokens of a text are texts.
LEMMA TokensIn ==
  ASSUME NEW S, NEW s \in Seq(S)
  PROVE  cred_tokens(s) \in Seq(Seq(S))
<1>1. Len(s) \in Nat
  OBVIOUS
<1>2. PICK p : Walk(p, s, Len(s))
  BY <1>1, WalkExists
<1>3. PICK o : Scans(o, p, s, S, Len(s)) /\ cred_tokens(s) = o[Len(s)]
  BY <1>1, <1>2, TokensAre
<1> QED BY <1>1, <1>3 DEF Scans

\* So the references of the template are canonical.
LEMMA RefsAre ==
  ASSUME LayersTypeOK
  PROVE  RefsCanonical
<1> SUFFICES ASSUME NEW u \in References(template)
             PROVE  to_uri(parse(u)) = u /\ cache_key(parse(u)) = cache_key(parse(Bare(u)))
  BY Zenon DEF RefsCanonical, Bare, Hash
<1>1. u \in Range(cred_tokens(template)) /\ parse(u) # NoRef
  BY DEF References
<1>2. cred_tokens(template) \in Seq(Seq(Symbols))
  BY TokensIn DEF LayersTypeOK
<1>3. u \in Seq(Symbols)
  BY <1>1, <1>2 DEF Range
<1> QED BY <1>1, <1>3, NoneIsNoText, RefCanonical

\* The operator's characters are ASCII ones.
AsciiWritten == Written \cap {"C2", "C3", "A9", "82", "83"} = {}

\* No URI that was resolved holds a quote.
QuoteFree == \A u \in DOMAIN resolved : ~Contains(u, "\"")

\* The symbols that are not ASCII are bytes from 0x80 up.
LEMMA AsciiIs == \A c : c \notin {"C2", "C3", "A9", "82", "83"} => Ascii(c)
  BY DEF Ascii, AsChar

\* What the operator writes is written as it is read.
LEMMA TemplateAscii ==
  ASSUME AsciiWritten, NEW s \in Seq(Written)
  PROVE  AsciiText(s) /\ s \in Seq(Symbols) /\ \A k \in 1..Len(s) : s[k] \notin Values
<1>1. \A k \in 1..Len(s) : s[k] \in Written
  OBVIOUS
<1>2. s \in Seq(Symbols)
  <2>1. Len(s) \in Nat /\ s \in [1..Len(s) -> Symbols]
    BY DEF Symbols
  <2> QED BY <2>1
<1>3. AsciiText(s)
  BY <1>1, AsciiIs DEF AsciiWritten, AsciiText
<1>4. \A k \in 1..Len(s) : s[k] \notin Values
  BY <1>1, ValuesArePlain
<1> QED BY <1>2, <1>3, <1>4

\* Values mean nothing to the scan.
LEMMA ValuesMeanNothing ==
  \A v \in Values : Ascii(v) /\ v \notin {Dollar, Opener, Closer, Quote, Escape} /\ v \in Symbols
<1> SUFFICES ASSUME NEW v \in Values
             PROVE  Ascii(v) /\ v \notin {Dollar, Opener, Closer, Quote, Escape} /\ v \in Symbols
  OBVIOUS
<1>1. v \notin {Dollar, Opener, Closer, Quote, Escape}
  BY ValuesArePlain, Zenon DEF Dollar, Opener, Closer, Quote, Escape
<1>2. v \notin {"C2", "C3", "A9", "82", "83"}
  BY ValuesArePlain, Zenon
<1>3. v \in Symbols
  BY DEF Symbols
<1> QED BY <1>1, <1>2, <1>3, AsciiIs

\* What is resolved under URIs without a quote is plain.
LEMMA ResolvedPlain ==
  ASSUME NEW f, \A u \in DOMAIN f : f[u] \in [{1} -> Values], DOMAIN f \subseteq Seq(Symbols),
         \A u \in DOMAIN f : ~Contains(u, Quote)
  PROVE  PlainFound(f, Symbols)
<1>1. Serves(f, Symbols)
  BY ResolvedServe
<1>2. ASSUME NEW u \in DOMAIN f
      PROVE  /\ f[u] = <<f[u][1]>> /\ f[u][1] \in Symbols /\ Ascii(f[u][1])
             /\ f[u][1] \notin {Dollar, Opener, Closer, Quote, Escape}
             /\ \A j \in 1..Len(u) : u[j] # Quote
  <2>1. f[u] = <<f[u][1]>> /\ f[u][1] \in Values
    BY OneItem
  <2>2. Ascii(f[u][1]) /\ f[u][1] \notin {Dollar, Opener, Closer, Quote, Escape} /\ f[u][1] \in Symbols
    BY <2>1, ValuesMeanNothing
  <2>3. DOMAIN u = 1..Len(u)
    OBVIOUS
  <2>4. \A j \in 1..Len(u) : u[j] # Quote
    BY <2>3 DEF Contains
  <2> QED BY <2>1, <2>2, <2>4
<1> QED BY <1>1, <1>2 DEF PlainFound

\* The inductive invariant: while no URI that was resolved holds a quote, the text is
\* what one substitution of all that was resolved makes of the template.
LayersInv ==
  /\ LayersTypeOK /\ template \in Seq(Written) /\ DOMAIN resolved \subseteq Seq(Symbols)
  /\ layers = 0 => resolved = <<>>
  /\ QuoteFree => text = substitute_cred_tokens(template, resolved)

\* Where the invariant holds, what is resolved is plain.
LEMMA PlainNow ==
  ASSUME AsciiWritten, LayersInv, QuoteFree
  PROVE  /\ PlainFound(resolved, Symbols) /\ template \in Seq(Symbols) /\ AsciiText(template)
         /\ \A k \in 1..Len(template) : template[k] \notin Values
         /\ \A u \in DOMAIN resolved : resolved[u][1] \in Values
         /\ text = substitute_cred_tokens(template, resolved)
<1>1. \A u \in DOMAIN resolved : resolved[u] \in [{1} -> Values]
  BY DEF LayersInv, LayersTypeOK
<1>2. \A u \in DOMAIN resolved : ~Contains(u, Quote)
  BY Zenon DEF QuoteFree, Quote
<1>3. PlainFound(resolved, Symbols)
  BY <1>1, <1>2, ResolvedPlain DEF LayersInv
<1>4. \A u \in DOMAIN resolved : resolved[u][1] \in Values
  BY <1>1
<1> QED BY <1>3, <1>4, TemplateAscii DEF LayersInv

\* What is left of the tokens is what was not resolved.
LEMMA TokensLeft ==
  ASSUME NEW S, NEW s \in Seq(S), AsciiText(s), NEW f, PlainFound(f, S)
  PROVE  LET tokens == cred_tokens(s)
         IN /\ cred_tokens(substitute_cred_tokens(s, f)) = Within(tokens, Range(tokens) \ DOMAIN f)
            /\ cred_tokens(substitute_cred_tokens(s, f)) \in Seq(Seq(S) \ DOMAIN f)
<1> DEFINE t == substitute_cred_tokens(s, f)
           N == Len(s) + Len(t)
           tokens == cred_tokens(s)
<1>1. PICK p, q : Rewrites(S, s, f, t, N, p, q)
  BY Substituted
<1>2. N >= Len(t)
  <2>1. t \in Seq(S) /\ s \in Seq(S)
    BY <1>1 DEF Rewrites
  <2> HIDE DEF t
  <2> QED BY <2>1
<1>3. cred_tokens(t) = Within(tokens, Seq(S) \ DOMAIN f)
  <2> HIDE DEF t, N
  <2> QED BY <1>1, <1>2, UnresolvedStay
<1>4. tokens \in Seq(Seq(S))
  BY TokensIn
<1> HIDE DEF t, tokens
<1>5. /\ Len(tokens) \in Nat
      /\ \A i \in 1..Len(tokens) : tokens[i] \in Seq(S) \ DOMAIN f <=> tokens[i] \in Range(tokens) \ DOMAIN f
  BY <1>4 DEF Range
<1>6. Within(tokens, Seq(S) \ DOMAIN f) = Within(tokens, Range(tokens) \ DOMAIN f)
  BY <1>5, WithinSame
<1>7. Within(tokens, Seq(S) \ DOMAIN f) \in Seq(Seq(S) \ DOMAIN f)
  BY <1>5, WithinIs
<1> QED BY <1>3, <1>6, <1>7 DEF t, tokens

\* What the invariant says of the text is what the property asks.
LEMMA ReplacedExactly ==
  ASSUME AsciiWritten, LayersInv, QuoteFree
  PROVE  TokensReplacedExactly
<1>1. /\ PlainFound(resolved, Symbols) /\ template \in Seq(Symbols) /\ AsciiText(template)
      /\ \A k \in 1..Len(template) : template[k] \notin Values
      /\ \A u \in DOMAIN resolved : resolved[u][1] \in Values
      /\ text = substitute_cred_tokens(template, resolved)
  BY PlainNow
<1>2. SubstitutionFollowsScan
  <2>1. Within(text, Values) = ValuesOf(Within(cred_tokens(template), DOMAIN resolved), resolved)
    BY <1>1, ScanFollowed
  <2> QED BY <2>1 DEF SubstitutionFollowsScan, ValuesOf
<1>3. UnresolvedSurvive
  <2>1. cred_tokens(substitute_cred_tokens(template, resolved))
          = Within(cred_tokens(template), Range(cred_tokens(template)) \ DOMAIN resolved)
    BY <1>1, TokensLeft
  <2> QED BY <1>1, <2>1 DEF UnresolvedSurvive
<1>4. LayersCompose
  BY <1>1 DEF LayersCompose
<1>5. LeftIntact
  <2>1. ASSUME resolved = <<>> PROVE text = template
    <3>1. {"C2", "C3", "82", "83"} \subseteq Symbols
      BY DEF Symbols
    <3>2. substitute_cred_tokens(template, <<>>) = template
      BY <1>1, <3>1, Untouched
    <3> QED BY <1>1, <2>1, <3>2
  <2> QED BY <2>1 DEF LeftIntact
<1>6. BlocksEndOutsideStrings /\ RefsCanonical
  BY BlocksEnd, RefsAre DEF LayersInv
<1> QED BY <1>2, <1>3, <1>4, <1>5, <1>6 DEF TokensReplacedExactly

\* With nothing resolved, what the operator wrote stands.
LEMMA NothingResolved ==
  ASSUME AsciiWritten, NEW s \in Seq(Written)
  PROVE  substitute_cred_tokens(s, <<>>) = s
<1>1. AsciiText(s) /\ s \in Seq(Symbols) /\ {"C2", "C3", "82", "83"} \subseteq Symbols
  BY TemplateAscii DEF Symbols
<1> QED BY <1>1, Untouched

\* It holds of the empty string.
LEMMA LayersInvInit == AsciiWritten /\ LayersInit => LayersInv
<1> SUFFICES ASSUME AsciiWritten, LayersInit PROVE LayersInv
  OBVIOUS
<1> DEFINE e == <<>>
<1>1. e \in Seq(Written) /\ DOMAIN e = {} /\ template = e /\ text = e /\ resolved = <<>>
  BY DEF LayersInit
<1>2. substitute_cred_tokens(e, <<>>) = e
  <2> HIDE DEF e
  <2> QED BY <1>1, NothingResolved
<1> QED BY <1>1, <1>2, LayersTypeInit DEF LayersInv

\* Writing comes before the first layer.
LEMMA WriteKeeps ==
  ASSUME AsciiWritten, LayersInv, LayersTypeOK', NEW f \in Fragments, Write(f)
  PROVE  LayersInv'
<1>1. template' = Then(template, f) /\ text' = template' /\ resolved' = resolved /\ layers' = layers /\ layers = 0
  BY DEF Write, Then
<1>2. template' \in Seq(Written)
  BY <1>1, FragmentsAreTexts, Concat DEF LayersInv
<1>3. resolved = <<>>
  BY <1>1 DEF LayersInv
<1>4. substitute_cred_tokens(template', <<>>) = template'
  BY <1>2, NothingResolved
<1> QED BY <1>1, <1>2, <1>3, <1>4 DEF LayersInv

\* Of two sets of values, one resolved after the other.
LEMMA LayerKeeps ==
  ASSUME AsciiWritten, LayersInv, LayersTypeOK',
         NEW known \in SUBSET References(text), NEW value \in [known -> Values], Layer(known, value)
  PROVE  LayersInv'
<1> DEFINE found == [u \in known |-> <<value[u]>>]
<1>1. /\ \A u \in DOMAIN found : found[u] \in [{1} -> Values]
      /\ DOMAIN found = known /\ DOMAIN resolved' = DOMAIN resolved \cup known
      /\ \A u \in DOMAIN resolved' : resolved'[u] = IF u \in known THEN found[u] ELSE resolved[u]
      /\ \A u \in DOMAIN resolved' : resolved'[u] \in [{1} -> Values]
      /\ text' = substitute_cred_tokens(text, found)
      /\ template' = template /\ layers' = layers + 1
  <2>1. LayersTypeOK
    BY DEF LayersInv
  <2>2. /\ \A u \in DOMAIN found : found[u] \in [{1} -> Values]
        /\ DOMAIN found = known /\ DOMAIN resolved' = DOMAIN resolved \cup known
        /\ \A u \in DOMAIN resolved' : resolved'[u] = IF u \in known THEN found[u] ELSE resolved[u]
        /\ \A u \in DOMAIN resolved' : resolved'[u] \in [{1} -> Values]
        /\ text' = substitute_cred_tokens(text, found) /\ text' \in Seq(Symbols)
        /\ template' = template /\ pieces' = pieces /\ layers' = layers + 1 /\ layers < MaxLayers
    BY <2>1, LayerResolves
  <2> HIDE DEF found
  <2> QED BY <2>2
<1> HIDE DEF found
<1>2. known \subseteq Seq(Symbols) /\ known \subseteq Range(cred_tokens(text))
  <2>1. cred_tokens(text) \in Seq(Seq(Symbols))
    BY TokensIn DEF LayersInv, LayersTypeOK
  <2>2. known \subseteq Range(cred_tokens(text))
    <3> DEFINE tokens == cred_tokens(text)
    <3>1. References(text) = {u \in Range(tokens) : parse(u) # NoRef}
      BY DEF References
    <3> HIDE DEF tokens
    <3>2. known \subseteq References(text)
      OBVIOUS
    <3>3. known \subseteq Range(tokens)
      BY <3>1, <3>2
    <3> QED BY <3>3 DEF tokens
  <2>3. Range(cred_tokens(text)) \subseteq Seq(Symbols)
    <3> DEFINE tokens == cred_tokens(text)
    <3> HIDE DEF tokens
    <3>1. tokens \in Seq(Seq(Symbols)) => Range(tokens) \subseteq Seq(Symbols)
      BY DEF Range
    <3> QED BY <2>1, <3>1 DEF tokens
  <2> QED BY <2>2, <2>3
<1>3. DOMAIN resolved' \subseteq Seq(Symbols)
  BY <1>1, <1>2 DEF LayersInv
<1>4. layers' # 0
  BY <1>1 DEF LayersInv, LayersTypeOK
<1>5. ASSUME QuoteFree' PROVE text' = substitute_cred_tokens(template', resolved')
  <2>1. QuoteFree
    BY <1>1, <1>5 DEF QuoteFree
  <2>2. /\ PlainFound(resolved, Symbols) /\ template \in Seq(Symbols) /\ AsciiText(template)
        /\ text = substitute_cred_tokens(template, resolved)
    BY <2>1, PlainNow
  <2>3. cred_tokens(text) \in Seq(Seq(Symbols) \ DOMAIN resolved)
    BY <2>2, TokensLeft
  <2>4. DOMAIN resolved \cap known = {}
    BY <1>2, <2>3 DEF Range
  <2>5. Merges(resolved, found, resolved')
    BY <1>1, <2>4 DEF Merges
  <2>6. Serves(found, Symbols) /\ Serves(resolved', Symbols)
    BY <1>1, ResolvedServe
  <2>7. substitute_cred_tokens(substitute_cred_tokens(template, resolved), found)
          = substitute_cred_tokens(template, resolved')
    BY <2>2, <2>5, <2>6, Composes
  <2> QED BY <1>1, <2>2, <2>7
<1> QED BY <1>1, <1>3, <1>4, <1>5 DEF LayersInv

\* Writing and the layers keep it.
LEMMA LayersInvStep == AsciiWritten /\ LayersInv /\ [LayersNext]_layerVars => LayersInv'
<1> SUFFICES ASSUME AsciiWritten, LayersInv, [LayersNext]_layerVars PROVE LayersInv'
  OBVIOUS
<1>0. LayersTypeOK'
  BY LayersTypeStep DEF LayersInv
<1>1. ASSUME NEW f \in Fragments, Write(f) PROVE LayersInv'
  BY <1>0, <1>1, WriteKeeps
<1>2. ASSUME NEW known \in SUBSET References(text), NEW value \in [known -> Values], Layer(known, value)
      PROVE  LayersInv'
  BY <1>0, <1>2, LayerKeeps
<1>3. ASSUME UNCHANGED layerVars PROVE LayersInv'
  BY <1>3 DEF layerVars, LayersInv, LayersTypeOK, QuoteFree
<1> QED BY <1>1, <1>2, <1>3 DEF LayersNext

\* For every string an operator writes in ASCII, whatever layers resolve, in any
\* division of the work, the tokens that the scan finds and they resolve are
\* replaced, in order, and nothing else is changed, as long as no URI that was
\* resolved holds a quote: with one, what opens a literal before a token would close it
\* behind (cred_tokens, substitute_cred_tokens).
THEOREM TokensReplacedExactlyAlways ==
  ASSUME AsciiWritten
  PROVE  LayersSpec => [](QuoteFree => TokensReplacedExactly)
<1>1. LayersInit => LayersInv
  BY LayersInvInit
<1>2. LayersInv /\ [LayersNext]_layerVars => LayersInv'
  BY LayersInvStep
<1>3. LayersInv => (QuoteFree => TokensReplacedExactly)
  BY ReplacedExactly
<1> QED BY <1>1, <1>2, <1>3, PTL DEF LayersSpec

=============================================================================
