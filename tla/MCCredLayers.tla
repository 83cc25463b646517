---------------------------- MODULE MCCredLayers ----------------------------
(* Instances of CredLayers: tokens with and without spaces and fragments,   *)
(* malformed ones, blocks that are not credentials, quotes and stray braces. *)
EXTENDS CredLayers

Token(body) == <<"$", "{">> \o body \o <<"}">>
CredT == <<CRED_SCHEME, "a", "/", "t">>

MCFragments ==
  { Token(CredT), Token(<<" ">> \o CredT \o <<"#", "u", " ">>),
    Token(<<CRED_SCHEME, "b", "#", "u", "/", "t">>),
    <<"$", "{">>, <<"}">>, <<"\"">>, <<"\\", "\"">> }

\* A bare URI with a character outside ASCII, in UTF-8.
MCAccentFragments == { <<CRED_SCHEME>>, <<"a">>, <<"/">>, <<"C3", "A9">> }
=============================================================================
