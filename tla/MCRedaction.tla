------------------------------ MODULE MCRedaction ------------------------------
(* URLs with every tail of up to MaxTail characters after the scheme, and     *)
(* short prose; a second word follows some of them.                           *)
EXTENDS Redaction

CONSTANT MaxTail

Tails == BoundedSeq({Letter, "@", "/", "?", "#", "&", "="}, MaxTail)
Urls == {<<Letter>> \o Separator \o t : t \in Tails}
Prose == BoundedSeq({Letter, "@", ".", " "}, 4)
Sentences == {<<Letter, " ">> \o <<Letter>> \o Separator \o t \o <<".">> :
                t \in BoundedSeq({Letter, "@", "/", ":", " "}, 3)}
SampleTexts == Urls \cup Prose \cup Sentences
=============================================================================
