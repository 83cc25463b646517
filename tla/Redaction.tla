------------------------------- MODULE Redaction -------------------------------
(***************************************************************************)
(* The redaction helpers (redact.rs).  A string a plugin logs, shows or    *)
(* exports passes through them, perhaps more than once: an error's reason  *)
(* is redacted where it is made and its JSON again at the sink.            *)
(*                                                                         *)
(* A string is a sequence of characters, of which only the ones the code   *)
(* looks at are told apart: Letter stands for all others.                  *)
(***************************************************************************)
EXTENDS Integers, Sequences, SequencesExt, Lists

CONSTANTS
  Texts,   \* the strings that are redacted
  MaxPasses \* bound: helpers a string passes through

ASSUME TextsAreStrings == \A s \in Texts : s \in Seq(Range(s))

Letter == "a"
REDACTED == <<"r", "]">>   \* "[redacted]", which ends in punctuation
Separator == <<":", "/", "/">>
Punctuation == {"]", ".", ":"}

\* Index of the first position of `s` where the separator starts, 0 for none.
SeparatorAt(s, i) == i + 2 <= Len(s) /\ SubSeq(s, i, i + 2) = Separator
find_separator(s) == SelectInSeq([i \in 1..Len(s) |-> i], LAMBDA i : SeparatorAt(s, i))

\* split_once: what is before and after the first `c`; <<s>> when there is none.
split_at(s, c) ==
  LET i == SelectInSeq(s, LAMBDA x : x = c)
  IN IF i = 0 THEN <<s>> ELSE <<SubSeq(s, 1, i - 1), SubSeq(s, i + 1, Len(s))>>

\* split: a `c` begins another part, and any other character belongs to the last one.
split_turn(parts, x, c) ==
  IF x = c THEN Append(parts, <<>>) ELSE [parts EXCEPT ![Len(parts)] = Append(@, x)]

split(s, c) ==
  LET parts[n \in 0..Len(s)] ==
        IF n = 0 THEN << <<>> >> ELSE split_turn(parts[n - 1], s[n], c)
  IN parts[Len(s)]

join(parts, c) ==
  FlattenSeq([k \in 1..Len(parts) |-> IF k = 1 THEN parts[k] ELSE <<c>> \o parts[k]])

----------------------------------------------------------------------------
(* redact.rs *)

\* First and last position of the authority.
authority_start(s) == find_separator(s) + 3
authority_end(s) ==
  LET i == SelectInSubSeq(s, authority_start(s), Len(s), LAMBDA c : c \in {"/", "?", "#"})
  IN IF i = 0 THEN Len(s) ELSE i - 1

\* Faulty variant: the first `@` ends the userinfo.
last_at_first(s) ==
  SelectInSubSeq(s, authority_start(s), authority_end(s), LAMBDA c : c = "@")

last_at(s) == SelectLastInSubSeq(s, authority_start(s), authority_end(s), LAMBDA c : c = "@")

redact_url_password(s) ==
  IF find_separator(s) = 0 \/ last_at(s) = 0 THEN s
  ELSE SubSeq(s, 1, authority_start(s) - 1) \o SubSeq(s, last_at(s) + 1, Len(s))

redact_pair(pair) ==
  LET p == split_at(pair, "=")
  IN IF Len(p) = 1 THEN pair ELSE p[1] \o <<"=">> \o REDACTED

redact_url_for_display(s) ==
  LET url == redact_url_password(s)
      f == split_at(url, "#")
      q == split_at(f[1], "?")
      pairs == split(q[2], "&")
      query == join([k \in DOMAIN pairs |-> redact_pair(pairs[k])], "&")
  IN IF Len(q) = 1 THEN url
     ELSE q[1] \o <<"?">> \o query \o (IF Len(f) = 1 THEN <<>> ELSE <<"#">> \o f[2])

\* split_trailing_punct: where the core of a token ends.
core_end(tok) == SelectLastInSeq(tok, LAMBDA c : c \notin Punctuation)

redact_token(tok) ==
  LET core == SubSeq(tok, 1, core_end(tok))
      trail == SubSeq(tok, core_end(tok) + 1, Len(tok))
      redacted == redact_url_password(core)
  IN IF find_separator(core) = 0 \/ redacted = core THEN tok ELSE redacted \o trail

\* split_whitespace has no empty words.
words(s) ==
  LET parts == split(s, " ") IN Within(parts, Range(parts) \ {<<>>})

redact_in_text(s) ==
  join([k \in DOMAIN words(s) |-> redact_token(words(s)[k])], " ")

----------------------------------------------------------------------------

\* A JSON object with a string and a number: redact_value visits every leaf
\* and writes back the strings that change.
Doc(s) == [message |-> [string |-> TRUE, text |-> s],
           size |-> [string |-> FALSE, text |-> <<"a">>]]

redact_value(doc) ==
  [k \in DOMAIN doc |->
     IF doc[k].string THEN [doc[k] EXCEPT !.text = redact_in_text(@)] ELSE doc[k]]

\* Every header's name with REDACTED for its value.
redact_header_values(doc) ==
  [k \in DOMAIN doc |-> [string |-> TRUE, text |-> REDACTED]]

VARIABLES
  raw,    \* the string as it was
  doc,    \* where it has got to
  passes  \* the helpers it went through

redactVars == <<raw, doc, passes>>

RedactInit == raw \in Texts /\ doc = Doc(raw) /\ passes = <<>>

Pass(helper, result) ==
  /\ Len(passes) < MaxPasses
  /\ passes' = Append(passes, helper)
  /\ doc' = result
  /\ UNCHANGED raw

Message(f(_)) == [doc EXCEPT !.message.text = f(@)]

Password == Pass("password", Message(redact_url_password))
Display == Pass("display", Message(redact_url_for_display))
Text == Pass("text", Message(redact_in_text))
Value == Pass("value", redact_value(doc))
Headers == Pass("headers", redact_header_values(doc))

RedactNext == Password \/ Display \/ Text \/ Value \/ Headers

RedactSpec == RedactInit /\ [][RedactNext]_redactVars

----------------------------------------------------------------------------
(* Properties *)

Message0 == doc.message.text
Passed(h) == Len(passes) > 0 /\ passes[Len(passes)] = h

\* Reference: the authority of a URL is what stands between the first "://"
\* and the next of / ? #.  A string has userinfo if there is an @ in it.
HasUserinfo(s) ==
  \E i \in 1..Len(s), j \in 1..Len(s) :
    /\ SeparatorAt(s, i)
    /\ \A k \in 1..(i - 1) : ~SeparatorAt(s, k)
    /\ j > i + 2 /\ s[j] = "@"
    /\ \A k \in (i + 3)..j : s[k] \notin {"/", "?", "#"}

\* After the helpers for URLs the string has no userinfo left, an @ in a
\* password included; after one for text, no word has, whatever follows it.
NoUserinfoLeft ==
  /\ Passed("password") \/ Passed("display") => ~HasUserinfo(Message0)
  /\ Passed("text") \/ Passed("value") =>
       \A i \in DOMAIN words(Message0) :
         ~HasUserinfo(SubSeq(words(Message0)[i], 1, core_end(words(Message0)[i])))

\* What is not userinfo stays: an @ in a path or query is not the end of it.
PathAndQueryKept ==
  passes = <<"password">> =>
    LET n == authority_end(raw)
    IN find_separator(raw) # 0 => IsSuffix(SubSeq(raw, n + 1, Len(raw)), Message0)

\* A URL shown has the names of its query and none of its values: in each
\* part of the query nothing but the placeholder follows the first `=`.
QueryValuesWithheld ==
  Passed("display") =>
    LET q == split_at(split_at(Message0, "#")[1], "?")
    IN Len(q) = 2 =>
         \A i \in DOMAIN split(q[2], "&") :
           LET p == split_at(split(q[2], "&")[i], "=")
           IN Len(p) = 1 \/ p[2] = REDACTED

\* A helper that runs again on its own output, at the next sink, changes
\* nothing.
Idempotent ==
  [][\A h \in {"password", "display", "text", "value"} :
       Passed(h) /\ passes' = Append(passes, h) => doc' = doc]_redactVars

\* The helpers take away the userinfo and the query's values, keep the rest of
\* a URL, and a further pass changes nothing.
RedactedExactly ==
  [](NoUserinfoLeft /\ PathAndQueryKept /\ QueryValuesWithheld) /\ Idempotent

=============================================================================
