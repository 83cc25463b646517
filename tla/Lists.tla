-------------------------------- MODULE Lists --------------------------------
(***************************************************************************)
(* Lists that are filtered, as Vec's filter does.                          *)
(***************************************************************************)
EXTENDS Integers, Sequences

\* The items of s that are in S, in order.
Within(s, S) ==
  LET kept[n \in 0..Len(s)] ==
        IF n = 0 THEN <<>>
        ELSE IF s[n] \in S THEN Append(kept[n - 1], s[n]) ELSE kept[n - 1]
  IN kept[Len(s)]

=============================================================================
