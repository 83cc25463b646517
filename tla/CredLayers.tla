----------------------------- MODULE CredLayers -----------------------------
(***************************************************************************)
(* Credential tokens in one config string (credential.rs).  An operator    *)
(* writes the string; then layers of the gateway and of a backend each     *)
(* scan it with cred_tokens, resolve some of the URIs found, and call      *)
(* substitute_cred_tokens with what they resolved.  A layer may fail to    *)
(* resolve a URI (a malformed reference, an issuer it cannot reach): a     *)
(* later layer meets the token again.                                      *)
(*                                                                         *)
(* The layers themselves are the caller's; the scan, the parse of a        *)
(* reference and the substitution are CredText.  Resolved values are plain *)
(* (no ${, brace or quote), so that a value is never read as config.       *)
(***************************************************************************)
EXTENDS CredText, Lists, FiniteSets

CONSTANTS
  Fragments,     \* what an operator may write next: a set of texts
  Values,        \* credential values, symbols no fragment holds
  MaxFragments,  \* bound: fragments in one string
  MaxLayers      \* bound: layers that substitute

ASSUME BoundsAreNat == MaxFragments \in Nat /\ MaxLayers \in Nat

Written == UNION {Range(f) : f \in Fragments}
Symbols == Written \cup Values \cup {"C2", "C3", "82", "83"}

ASSUME FragmentsAreTexts == /\ \A f \in Fragments : f \in Seq(Written)
                            /\ "none" \notin Symbols
ASSUME ValuesArePlain ==
  Values \cap (Written \cup {"C2", "C3", "A9", "82", "83", "$", "{", "}", "\"", "\\"}) = {}

VARIABLES
  template,  \* the string as written
  pieces,    \* fragments written so far
  text,      \* the string as the layers so far left it
  resolved,  \* every URI resolved so far, with its value
  layers     \* layers that have run

layerVars == <<template, pieces, text, resolved, layers>>

LayersTypeOK ==
  /\ template \in Seq(Symbols) /\ text \in Seq(Symbols)
  /\ pieces \in 0..MaxFragments /\ layers \in 0..MaxLayers
  /\ \A u \in DOMAIN resolved : resolved[u] \in [{1} -> Values]

LayersInit ==
  /\ template = <<>> /\ text = <<>> /\ pieces = 0
  /\ resolved = <<>> /\ layers = 0

\* The operator writes on, until the first layer reads the string.
Write(f) ==
  /\ layers = 0 /\ pieces < MaxFragments
  /\ template' = template \o f
  /\ text' = template'
  /\ pieces' = pieces + 1
  /\ UNCHANGED <<resolved, layers>>

\* One layer: scan, resolve the well-formed references in `known`, substitute.
Layer(known, value) ==
  /\ layers < MaxLayers
  /\ LET found == [u \in known |-> <<value[u]>>]
     IN /\ text' = substitute_cred_tokens(text, found)
        /\ resolved' = [u \in DOMAIN resolved \cup known |->
                          IF u \in known THEN found[u] ELSE resolved[u]]
  /\ layers' = layers + 1
  /\ UNCHANGED <<template, pieces>>

References(s) == {u \in Range(cred_tokens(s)) : parse(u) # NoRef}

LayersNext ==
  \/ \E f \in Fragments : Write(f)
  \/ \E known \in SUBSET References(text) :
       \E value \in [known -> Values] : Layer(known, value)

LayersSpec == LayersInit /\ [][LayersNext]_layerVars

----------------------------------------------------------------------------
(* Properties *)

\* Scan and substitution read the same tokens (cred_tokens: the two grammars
\* must agree): the values in the string are those of the tokens the scan of
\* the written string finds, in its order, and none for a block inside
\* another block.
SubstitutionFollowsScan ==
  LET tokens == Within(cred_tokens(template), DOMAIN resolved)
  IN Within(text, Values) = [i \in DOMAIN tokens |-> resolved[tokens[i]][1]]

\* A token that a layer could not resolve is there for the next one, and a
\* token that was resolved is not.
UnresolvedSurvive ==
  LET tokens == cred_tokens(template)
  IN cred_tokens(text) = Within(tokens, Range(tokens) \ DOMAIN resolved)

\* Layers compose: what several layers made of the string is what one layer
\* that resolved all of it would have made.
LayersCompose == text = substitute_cred_tokens(template, resolved)

\* A string in which nothing was resolved is left as the operator wrote it
\* (credential.rs: absent tokens and other blocks "are left intact; bare
\* `cred://` is never touched").
LeftIntact == resolved = <<>> => text = template

\* A block ends outside its string literals: one that holds no escape has an
\* even number of quotes.  A } inside a literal ends nothing.
BlocksEndOutsideStrings ==
  \A i \in DOMAIN template :
    LET inside == SubSeq(template, i + 2, BlockEnd(template, i) - 1)
    IN BlockEnd(template, i) # 0 /\ ~Contains(inside, "\\")
         => Cardinality({j \in DOMAIN inside : inside[j] = "\""}) % 2 = 0

\* A reference renders back to the URI it was parsed from, and shares the
\* cache key of the same URI without its fragment.
RefsCanonical ==
  \A u \in References(template) :
    LET bare == IF Contains(u, "#") THEN split_once(u, "#")[1] ELSE u
    IN to_uri(parse(u)) = u /\ cache_key(parse(u)) = cache_key(parse(bare))

\* Layers of the gateway and of a backend replace exactly the tokens that the
\* scan finds and they resolve, in any division of the work, and leave the rest
\* as it was (cred_tokens and substitute_cred_tokens).
TokensReplacedExactly ==
  /\ SubstitutionFollowsScan /\ UnresolvedSurvive /\ LayersCompose /\ LeftIntact
  /\ BlocksEndOutsideStrings /\ RefsCanonical

=============================================================================
