--------------------------- MODULE MCToolCatalog ---------------------------
(* Chains of three providers over metadata with and without owner, trust    *)
(* requirement, tags (also repeated) and attributes.                        *)
EXTENDS ToolCatalog

MCWith(owner, trust, tags, attributes) ==
  CatalogMetadata([f \in Scalars |-> CASE f = "owner" -> owner
                                       [] f = "trust_required" -> trust
                                       [] OTHER -> Unset], tags, attributes)

MCAttribute(k, v) == [x \in {k} |-> v]

MCMetadata ==
  { Default,
    MCWith("team1", Unset, <<"t", "t">>, MCAttribute("k", "1")),
    MCWith("team2", "verified", <<"u", "t">>, MCAttribute("k", "2")),
    MCWith(Unset, "anonymous", <<"u">>, MCAttribute("l", "3")),
    MCWith(Unset, "Verified", <<>>, <<>>) }

MCProvider(tool, other, hides, checks) ==
  [holds |-> [t \in Tools |-> IF t = "read" THEN tool ELSE other],
   hides |-> hides, checks_trust |-> checks]

MCProviders ==
  {MCProvider(md, Default, {}, c) : md \in Metadata, c \in BOOLEAN}
    \cup {MCProvider(Default, Default, {"write"}, c) : c \in BOOLEAN}

MCChains == [1..3 -> MCProviders]

=============================================================================
