--------------------------- MODULE MCCapabilities ---------------------------
(* A small vocabulary for Capabilities: kinds without arguments, two kinds   *)
(* whose lists have different names, a kind from the future and every way of *)
(* writing an entry badly.                                                   *)
EXTENDS Capabilities

CONSTANTS a1, a2, future

Str(k) == [form |-> "string", kind |-> k, field |-> "none", strings |-> FALSE,
           args |-> {}]
Obj(k, f, ok, A) == [form |-> "object", kind |-> k, field |-> f, strings |-> ok,
                     args |-> A]
Dcl(j, k, f, ok, A) == [json |-> j, kind |-> k, field |-> f, strings |-> ok,
                        args |-> A]

MCEntries ==
  {Str("cluster_lock_acquire"), Str("secrets_read"), Str(future),
   [Str(NotAString) EXCEPT !.form = "other"],
   Obj("cluster_peer_read", "none", FALSE, {}),
   Obj("cluster_lock_acquire", "paths", TRUE, {a1}),
   Obj(future, "none", FALSE, {}), Obj(NotAString, "paths", TRUE, {a1}),
   Obj("secrets_read", "paths", TRUE, {a1}),
   Obj("secrets_read", "schemes", FALSE, {})}
  \cup {Obj("secrets_read", "schemes", TRUE, A) : A \in SUBSET Args}
  \cup {Obj("filesystem_read", "paths", TRUE, A) : A \in {{a1}, {a1, a2}}}

MCDecls ==
  {Dcl("object", future, "none", FALSE, {}),
   Dcl("empty", "secrets_read", "none", FALSE, {}),
   Dcl("object", "secrets_read", "paths", TRUE, {a1}),
   Dcl("object", "audit_write", "paths", TRUE, {a1}),
   Dcl("nonobject", "secrets_read", "none", FALSE, {}),
   Dcl("malformed", "audit_write", "none", FALSE, {})}

=============================================================================
