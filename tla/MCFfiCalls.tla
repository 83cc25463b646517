----------------------------- MODULE MCFfiCalls -----------------------------
(* A small vocabulary for FfiCalls: two payloads, two errors, two attributes. *)
EXTENDS FfiCalls

CONSTANTS e1, e2, l0, l1, sub, org

MCErrors == {e1, e2}
MCLists == {l0, l1}
MCRank == [k \in {sub, org} |-> IF k = sub THEN 1 ELSE 0]

=============================================================================
