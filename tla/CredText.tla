------------------------------ MODULE CredText ------------------------------
(***************************************************************************)
(* The text of credential references (credential.rs): the URI              *)
(* cred://plugin_id/target#part and the ${cred://...} token that carries   *)
(* one in a config string.                                                 *)
(*                                                                         *)
(* A text is a sequence of symbols, one per byte, except that the prefix   *)
(* `cred://` is the one symbol CRED_SCHEME and a run of letters one        *)
(* symbol.  A character that is not ASCII is its UTF-8 bytes.              *)
(***************************************************************************)
EXTENDS Integers, Sequences, SequencesExt

CRED_SCHEME == "cred://"

\* No text has this form: the None of an Option over texts.
None == <<"none">>

\* str::split_once: the texts around the first c, or None.
split_once(s, c) ==
  IF Contains(s, c)
  THEN LET i == CHOOSE j \in DOMAIN s :
                  s[j] = c /\ \A k \in 1..(j - 1) : s[k] # c
       IN <<SubSeq(s, 1, i - 1), SubSeq(s, i + 1, Len(s))>>
  ELSE None

is_cred_uri(s) == s # <<>> /\ Head(s) = CRED_SCHEME

----------------------------------------------------------------------------
(* CredRef *)

CredRef(plugin_id, target, part) ==
  [plugin_id |-> plugin_id, target |-> target, part |-> part]

NoRef == CredRef(None, None, None)

\* Path and fragment: no fragment is part None, an empty one is malformed.
Fragment(rest) ==
  LET f == split_once(rest, "#")
  IN IF f = None THEN [path |-> rest, part |-> None, ok |-> TRUE]
     ELSE [path |-> f[1], part |-> f[2], ok |-> f[2] # <<>>]

parse(uri) ==
  IF ~is_cred_uri(uri) THEN NoRef
  ELSE LET f == Fragment(Tail(uri))
           p == split_once(f.path, "/")
       IN IF ~f.ok \/ p = None \/ p[1] = <<>> \/ p[2] = <<>> THEN NoRef
          ELSE CredRef(p[1], p[2], f.part)

to_uri(r) ==
  <<CRED_SCHEME>> \o r.plugin_id \o <<"/">> \o r.target
    \o (IF r.part = None THEN <<>> ELSE <<"#">> \o r.part)

\* The part is not in it: one credential serves all its parts.
cache_key(r) == <<r.plugin_id, r.target>>

----------------------------------------------------------------------------
(* ${...} blocks *)

\* A turn of find_matching_brace's loop, at position i: how deep in braces, and
\* in "code", in a "string" literal or behind a backslash ("escaped") in one,
\* whose braces do not count.
brace_turn(q, c, i) ==
  IF q.end # 0 THEN q
  ELSE CASE q.mode = "code" /\ c = "{" -> [q EXCEPT !.depth = @ + 1]
         [] q.mode = "code" /\ c = "}" ->
              [q EXCEPT !.depth = @ - 1, !.end = IF q.depth = 1 THEN i ELSE 0]
         [] q.mode = "code" /\ c = "\"" -> [q EXCEPT !.mode = "string"]
         [] q.mode = "string" /\ c = "\"" -> [q EXCEPT !.mode = "code"]
         [] q.mode = "string" /\ c = "\\" -> [q EXCEPT !.mode = "escaped"]
         [] q.mode = "escaped" -> [q EXCEPT !.mode = "string"]
         [] OTHER -> q

\* The position of the } that closes the block whose inside starts at
\* `start`, 0 when there is none: where the loop returns.
find_matching_brace(s, start) ==
  LET after[i \in (start - 1)..Len(s)] ==
        IF i < start THEN [depth |-> 1, mode |-> "code", end |-> 0]
        ELSE brace_turn(after[i - 1], s[i], i)
  IN after[Len(s)].end

\* The end of the block that opens at i, 0 when none does.
BlockEnd(s, i) ==
  IF i < Len(s) /\ s[i] = "$" /\ s[i + 1] = "{"
  THEN find_matching_brace(s, i + 2) ELSE 0

\* str::trim
trim(s) ==
  LET ink == {i \in DOMAIN s : s[i] # " "}
  IN IF ink = {} THEN <<>>
     ELSE SubSeq(s, CHOOSE i \in ink : \A j \in ink : i <= j,
                    CHOOSE i \in ink : \A j \in ink : i >= j)

Inner(s, i, end) == trim(SubSeq(s, i + 2, end - 1))

\* A turn of cred_tokens' loop, at position q.i: a block is read as a whole, so
\* a token inside another block is not one.
scan_turn(s, q) ==
  LET end == BlockEnd(s, q.i)
  IN IF q.i >= Len(s) THEN q
     ELSE IF end = 0 THEN [q EXCEPT !.i = @ + 1]
     ELSE [i |-> end + 1,
           out |-> IF is_cred_uri(Inner(s, q.i, end)) THEN Append(q.out, Inner(s, q.i, end)) ELSE q.out]

\* The URIs of the ${cred://...} tokens of s, in order.
cred_tokens(s) ==
  LET after[n \in 0..Len(s)] ==
        IF n = 0 THEN [i |-> 1, out |-> <<>>] ELSE scan_turn(s, after[n - 1])
  IN after[Len(s)].out

\* `byte as char`, in UTF-8: a byte from 0x80 up becomes the two bytes of the
\* Latin-1 character of that number.  Closed over the bytes of one such
\* character, "C3 A9", written twice.
AsChar(b) ==
  CASE b = "C3" -> <<"C3", "83">>
    [] b = "C2" -> <<"C3", "82">>
    [] b \in {"A9", "83", "82"} -> <<"C2", b>>
    [] OTHER -> <<b>>

\* Faulty variant: only the opener of a block that is not replaced is copied,
\* and its inside is scanned.
substitute_nested_turn(s, found, q) ==
  LET end == BlockEnd(s, q.i)
  IN IF q.i > Len(s) THEN q
     ELSE IF end # 0 /\ Inner(s, q.i, end) \in DOMAIN found
     THEN [i |-> end + 1, out |-> q.out \o found[Inner(s, q.i, end)]]
     ELSE [i |-> q.i + 1, out |-> q.out \o AsChar(s[q.i])]

\* A turn of substitute_cred_tokens' loop, at position q.i.
substitute_turn(s, found, q) ==
  LET end == BlockEnd(s, q.i)
      inner == Inner(s, q.i, end)
  IN IF q.i > Len(s) THEN q
     ELSE IF end = 0 THEN [i |-> q.i + 1, out |-> q.out \o AsChar(s[q.i])]
     ELSE [i |-> end + 1,
           out |-> q.out \o (IF is_cred_uri(inner) /\ inner \in DOMAIN found
                             THEN found[inner] ELSE SubSeq(s, q.i, end))]

\* s with each ${cred://...} token that `found` has a value for replaced.
substitute_cred_tokens(s, found) ==
  LET after[n \in 0..Len(s)] ==
        IF n = 0 THEN [i |-> 1, out |-> <<>>] ELSE substitute_turn(s, found, after[n - 1])
  IN after[Len(s)].out

=============================================================================
