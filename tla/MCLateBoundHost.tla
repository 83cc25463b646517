-------------------------- MODULE MCLateBoundHost --------------------------
(* Small instances of LateBoundHost for TLC. *)
EXTENDS LateBoundHostInv, TLC

CONSTANTS s1, s2, s3

\* Two subscriptions of one kind and one of the other.
MCKindOf == [s \in Subs |-> IF s = s1 THEN "revocation" ELSE "rotation"]

\* Threads of one role, and hosts, are interchangeable.
Symmetry == Permutations(Plugins) \cup Permutations(Hosts)

=============================================================================
