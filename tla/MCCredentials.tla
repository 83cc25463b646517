--------------------------- MODULE MCCredentials ---------------------------
(* Identities that differ in one group of fields each, and whose values     *)
(* hold the labels and lengths of the encoding.                             *)
EXTENDS Credentials

MCMaxLength == 4
MCLengths == [n \in 0..MCMaxLength |-> ToString(n)]
MCBytes == {"kind", "trust_level", "subject_id", "auth_provider", "issuer",
            "role", "group", "scope", "attr.k", "attr.v"} \cup Range(MCLengths)
             \cup {"a", "b", "t1", "t2", "b1", "verified", "header", "idp_vault", "tenant",
                   "subject_token", "subject_token_source", "subject_token_binding"}

MCBase == [kind |-> <<"verified">>, trust_level |-> <<"verified">>,
           subject_id |-> <<"a">>, auth_provider |-> None, issuer |-> None,
           roles |-> <<>>, groups |-> <<>>, scopes |-> <<>>, attributes |-> <<>>]

MCTexts == {<<>>, <<"issuer">>, <<"issuer", "0">>}

MCLists == {<<>>, <<<<"a">>, <<"b">>>>, <<<<"b">>, <<"a">>>>, <<<<"a", "b">>>>,
            <<<<"a">>, <<"a">>>>, <<<<"a">>>>}

MCNames == {[MCBase EXCEPT !.auth_provider = p, !.issuer = i] :
              p \in MCTexts \cup {None}, i \in {None, <<>>, <<"issuer">>}}

MCMembers == {[MCBase EXCEPT !.roles = r] : r \in MCLists}
               \cup {[MCBase EXCEPT !.roles = r, !.groups = <<<<"a">>>>] : r \in {<<>>, <<<<"a">>>>}}

MCToken(token, source, binding, tenant) ==
  [MCBase EXCEPT !.attributes =
     [k \in (IF token = None THEN {} ELSE {"subject_token"})
              \cup (IF source = None THEN {} ELSE {"subject_token_source"})
              \cup (IF binding = None THEN {} ELSE {"subject_token_binding"})
              \cup (IF tenant = None THEN {} ELSE {"tenant"}) |->
        CASE k = "subject_token" -> token [] k = "subject_token_source" -> source
          [] k = "subject_token_binding" -> binding [] k = "tenant" -> tenant]]

MCTokens ==
  {MCToken(t, s, b, None) : t \in {None, <<"t1">>, <<"t2">>},
     s \in {<<"header">>, <<"idp_vault">>}, b \in {None, <<"b1">>}}
    \cup {MCToken(t, <<"header">>, None, <<"t1">>) : t \in {None, <<"t1">>, <<"t2">>}}

MCIdentities == MCNames \cup MCMembers \cup MCTokens

MCRefs == {CredRef(<<"p">>, <<"t">>, None), CredRef(<<"p">>, <<"t">>, <<"username">>),
           CredRef(<<"p">>, <<"u">>, None)}
=============================================================================
