----------------------------- MODULE ToolCatalog -----------------------------
(***************************************************************************)
(* tools/list through a chain of catalog providers (catalog.rs).  The list *)
(* starts as the registry's tools without metadata; each provider in chain *)
(* order drops tools and merges its own metadata into the others, by       *)
(* merge_from.  Providers are plugins: what one holds for a tool, which    *)
(* tools it hides and whether it drops by trust level is its configuration.*)
(***************************************************************************)
EXTENDS Integers, Sequences, SequencesExt, FiniteSets

CONSTANTS
  Tools,      \* names of the registry's tools
  Metadata,   \* the CatalogMetadata a provider may hold for a tool
  Callers,    \* trust levels callers may have
  Chains      \* the provider chains to try

Unset == "none"

\* A catalog provider: what it holds for each tool, which tools it hides and
\* whether it drops the ones that ask for more trust than the caller has.
Providers == [holds : [Tools -> Metadata], hides : SUBSET Tools, checks_trust : BOOLEAN]

ASSUME ChainsAreProviders == Chains \subseteq Seq(Providers)
ASSUME CallersAreSet == Unset \notin Callers

\* The scalar fields of CatalogMetadata; each may be absent.
Scalars == {"owner", "doc_url", "sample_arguments", "trust_required",
            "requires_approval", "maturity"}

\* CatalogMetadata
CatalogMetadata(scalars, tags, attributes) ==
  [scalars |-> scalars, tags |-> tags, attributes |-> attributes]

ASSUME MetadataIsWhole ==
  \A md \in Metadata :
    /\ md = CatalogMetadata(md.scalars, md.tags, md.attributes)
    /\ md.scalars = [f \in Scalars |-> md.scalars[f]] /\ md.tags \in Seq(Range(md.tags))

Default == CatalogMetadata([f \in Scalars |-> Unset], <<>>, <<>>)

is_empty(md) ==
  md.tags = <<>> /\ (\A f \in Scalars : md.scalars[f] = Unset) /\ md.attributes = <<>>

\* Faulty variant: the later provider's scalars win.
merge_from_last_wins(md, incoming) ==
  CatalogMetadata(
    [f \in Scalars |-> IF incoming.scalars[f] = Unset THEN md.scalars[f]
                       ELSE incoming.scalars[f]],
    md.tags \o SelectSeq(incoming.tags, LAMBDA t : ~Contains(md.tags, t)),
    [k \in DOMAIN md.attributes \cup DOMAIN incoming.attributes |->
       IF k \in DOMAIN md.attributes THEN md.attributes[k] ELSE incoming.attributes[k]])

\* The loop over incoming.tags: each is pushed unless it is there.
push_new(tags, incoming) ==
  LET after[n \in 0..Len(incoming)] ==
        IF n = 0 THEN tags
        ELSE IF Contains(after[n - 1], incoming[n]) THEN after[n - 1]
        ELSE Append(after[n - 1], incoming[n])
  IN after[Len(incoming)]

\* md keeps what it has: scalars and attributes fill gaps, tags are appended
\* when not yet there.
merge_from(md, incoming) ==
  CatalogMetadata(
    [f \in Scalars |-> IF md.scalars[f] = Unset THEN incoming.scalars[f]
                       ELSE md.scalars[f]],
    push_new(md.tags, incoming.tags),
    [k \in DOMAIN md.attributes \cup DOMAIN incoming.attributes |->
       IF k \in DOMAIN md.attributes THEN md.attributes[k] ELSE incoming.attributes[k]])

----------------------------------------------------------------------------
(* Trust levels *)

\* -1 is the None of an unknown level.
trust_level_rank(level) ==
  CASE level = "anonymous" -> 0 [] level = "header_asserted" -> 1
    [] level = "verified" -> 2 [] OTHER -> -1

trust_level_meets(caller, required) ==
  /\ trust_level_rank(caller) # -1 /\ trust_level_rank(required) # -1
  /\ trust_level_rank(caller) >= trust_level_rank(required)

----------------------------------------------------------------------------

VARIABLES
  chain,   \* the providers: what each holds, hides and checks
  caller,  \* trust level of the caller who asked, None between requests
  list,    \* in_progress: the descriptor of each tool still listed, by name
  at,      \* providers that have run for this request
  shown    \* what each caller was last shown

catalogVars == <<chain, caller, list, at, shown>>

\* EnrichedToolDescriptor::from_base: no metadata yet.
from_base == [catalog |-> Default, enriched |-> FALSE]

CatalogTypeOK ==
  /\ chain \in Chains /\ caller \in Callers \cup {Unset}
  /\ at \in 0..Len(chain)
  /\ DOMAIN list \subseteq Tools
  /\ \A t \in DOMAIN list :
       /\ list[t].enriched <=> ~is_empty(list[t].catalog)
       /\ DOMAIN list[t].catalog.scalars = Scalars
  /\ DOMAIN shown \subseteq Callers

CatalogInit ==
  /\ chain \in Chains
  /\ caller = Unset /\ list = <<>> /\ at = 0 /\ shown = <<>>

Request(c) ==
  /\ caller = Unset
  /\ caller' = c /\ at' = 0
  /\ list' = [t \in Tools |-> from_base]
  /\ UNCHANGED <<chain, shown>>

\* Tool t as provider p passes it on.
Enrich(p, t) ==
  LET catalog == merge_from(list[t].catalog, p.holds[t])
  IN [catalog |-> catalog, enriched |-> ~is_empty(catalog)]

\* p hides the tool outright, or checks trust and the caller falls short.
Drops(p, t) ==
  LET required == Enrich(p, t).catalog.scalars["trust_required"]
  IN \/ t \in p.hides
     \/ p.checks_trust /\ required # Unset /\ ~trust_level_meets(caller, required)

filter_and_enrich ==
  /\ caller # Unset /\ at < Len(chain)
  /\ LET p == chain[at + 1]
     IN list' = [t \in {u \in DOMAIN list : ~Drops(p, u)} |-> Enrich(p, t)]
  /\ at' = at + 1
  /\ UNCHANGED <<chain, caller, shown>>

Respond ==
  /\ caller # Unset /\ at = Len(chain)
  /\ shown' = [c \in DOMAIN shown \cup {caller} |->
                 IF c = caller THEN DOMAIN list ELSE shown[c]]
  /\ caller' = Unset /\ list' = <<>> /\ at' = 0
  /\ UNCHANGED chain

CatalogNext == (\E c \in Callers : Request(c)) \/ filter_and_enrich \/ Respond

CatalogSpec == CatalogInit /\ [][CatalogNext]_catalogVars

----------------------------------------------------------------------------
(* Properties *)

\* What the providers so far hold for a tool, in chain order.
Held(tool) == [i \in 1..at |-> chain[i].holds[tool]]

\* Each scalar is that of the first provider in the chain that has one, and
\* each attribute that of the first that has the key: no later provider
\* overwrites an earlier one (merge_from, "first-write-wins").
FirstWriteWins ==
  \A t \in DOMAIN list :
    LET held == Held(t)
        md == list[t].catalog
    IN /\ \A f \in Scalars :
            \/ md.scalars[f] = Unset /\ \A n \in 1..at : held[n].scalars[f] = Unset
            \/ \E n \in 1..at :
                 /\ held[n].scalars[f] # Unset /\ md.scalars[f] = held[n].scalars[f]
                 /\ \A m \in 1..(n - 1) : held[m].scalars[f] = Unset
       /\ DOMAIN md.attributes = UNION {DOMAIN held[n].attributes : n \in 1..at}
       /\ \A k \in DOMAIN md.attributes : \E n \in 1..at :
            /\ k \in DOMAIN held[n].attributes
            /\ md.attributes[k] = held[n].attributes[k]
            /\ \A m \in 1..(n - 1) : k \notin DOMAIN held[m].attributes

\* Tags are the union of the providers' tags, each once, whatever duplicates
\* the providers bring.
TagsAreUnion ==
  \A t \in DOMAIN list :
    LET tags == list[t].catalog.tags
    IN /\ Range(tags) = UNION {Range(Held(t)[n].tags) : n \in 1..at}
       /\ IsInjective(tags)

\* A caller of more trust is shown everything one of less trust is; a level
\* the crate does not know counts least (trust_level_meets: "fail-closed").
MoreTrustShowsMore ==
  \A c, d \in DOMAIN shown :
    trust_level_rank(c) <= trust_level_rank(d) => shown[c] \subseteq shown[d]

\* A caller's list is what the chain's order and the caller's trust make it:
\* earlier providers win, tags add up, more trust shows more.
ListedAsConfigured == FirstWriteWins /\ TagsAreUnion /\ MoreTrustShowsMore

=============================================================================
