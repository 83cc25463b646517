----------------------------- MODULE Credentials -----------------------------
(***************************************************************************)
(* Per-caller credentials (credential.rs): a request of an identified      *)
(* caller names cred:// references; the gateway serves each from a cache   *)
(* keyed by (identity_hash, plugin_id, target) or has the issuer mint a    *)
(* credential, and hands out the parts the references select.              *)
(*                                                                         *)
(* The crate has the hash, the references, the credential and its parts;   *)
(* the cache is the gateway's and is modelled from this crate's account of *)
(* it.  SHA-256 is taken as injective: the hash is the byte sequence fed   *)
(* to it.  Bytes are symbols; a label, a length and a piece of a value are *)
(* one symbol each and drawn from the same alphabet, Bytes, so that nothing*)
(* but the encoding keeps them apart.                                      *)
(***************************************************************************)
EXTENDS CredText, FiniteSets

CONSTANTS
  Bytes,           \* the symbols
  MaxLength,       \* bound: the longest text or list, a u64
  to_le_bytes,     \* how a length is written: by length, its symbol
  Identities,      \* the PluginIdentity values a caller may present
  key_attributes,  \* the operator's allow-list of attribute names
  Refs,            \* the CredRefs of the config
  Lifetimes,       \* the ttl_seconds an issuer may set
  MaxIssues,       \* bound: credentials ever minted
  MaxTime          \* bound: the clock

ASSUME LifetimesArePositive == Lifetimes \subseteq Nat \ {0}
ASSUME RefsAreFinite == IsFiniteSet(Refs)
ASSUME LengthsAreWritten ==
  /\ MaxLength \in Nat \ {0} /\ MaxIssues \in Nat /\ MaxTime \in Nat
  /\ to_le_bytes \in [0..MaxLength -> Bytes] /\ IsInjective(to_le_bytes)
ASSUME LabelsAreBytes ==
  {"kind", "trust_level", "subject_id", "auth_provider", "issuer",
   "role", "group", "scope", "attr.k", "attr.v"} \subseteq Bytes

SUBJECT_TOKEN_ATTRIBUTE == "subject_token"
SUBJECT_TOKEN_SOURCE_ATTRIBUTE == "subject_token_source"
SUBJECT_TOKEN_SOURCE_IDP_VAULT == <<"idp_vault">>
SUBJECT_TOKEN_BINDING_ATTRIBUTE == "subject_token_binding"

\* A String, and a Vec<String>.
IsText(s) == s \in Seq(Bytes) /\ Len(s) <= MaxLength
IsList(l) == l \in Seq(Seq(Bytes)) /\ Len(l) <= MaxLength /\ \A i \in DOMAIN l : IsText(l[i])

\* PluginIdentity: kind, trust_level, subject_id, auth_provider and issuer are
\* texts (the last three optional), roles, groups and scopes lists of texts,
\* attributes a function from some attribute names to texts.
IsPluginIdentity(id) ==
  /\ DOMAIN id = {"kind", "trust_level", "subject_id", "auth_provider",
                  "issuer", "roles", "groups", "scopes", "attributes"}
  /\ IsText(id.kind) /\ IsText(id.trust_level)
  /\ \A v \in {id.subject_id, id.auth_provider, id.issuer} : v = None \/ IsText(v)
  /\ IsList(id.roles) /\ IsList(id.groups) /\ IsList(id.scopes)
  /\ IsFiniteSet(DOMAIN id.attributes) /\ Cardinality(DOMAIN id.attributes) <= MaxLength
  /\ DOMAIN id.attributes \subseteq Bytes
  /\ \A a \in DOMAIN id.attributes : IsText(id.attributes[a])

ASSUME IdentitiesAreWhole == \A id \in Identities : IsPluginIdentity(id)

\* The operator lists claims; the binding is the gateway's own attribute.  Listed,
\* it would count without its source too.
ASSUME BindingIsNotListed == SUBJECT_TOKEN_BINDING_ATTRIBUTE \notin key_attributes

----------------------------------------------------------------------------
(* identity_hash_with_attrs *)

\* Option<&str>::unwrap_or("")
OrEmpty(v) == IF v = None THEN <<>> ELSE v

\* Faulty variant: values are fed without their length.
feed_unprefixed(label, val) == <<label>> \o val

\* Label and value, each behind its length (a label's is part of its symbol).
feed(label, val) == <<label, to_le_bytes[Len(val)]>> \o val

\* Vec::sort: an order that depends on the elements and their number only.
Reorderings(items) ==
  {[i \in DOMAIN items |-> items[p[i]]] :
     p \in {q \in [DOMAIN items -> DOMAIN items] : IsInjective(q)}}
sorted(items) == CHOOSE s \in Reorderings(items) : TRUE

feed_list(label, items) ==
  <<to_le_bytes[Len(items)]>>
    \o FlattenSeq([i \in DOMAIN items |-> feed(label, sorted(items)[i])])

\* A subject token of the caller's stored IdP sign-in, named by its binding.
vault_binding(id) ==
  /\ SUBJECT_TOKEN_SOURCE_ATTRIBUTE \in DOMAIN id.attributes
  /\ id.attributes[SUBJECT_TOKEN_SOURCE_ATTRIBUTE] = SUBJECT_TOKEN_SOURCE_IDP_VAULT
  /\ SUBJECT_TOKEN_BINDING_ATTRIBUTE \in DOMAIN id.attributes

\* The attributes that count: those of the allow-list that are present, and
\* the subject token or, when one stands for it, its binding.
attrs(id, keys) ==
  LET subject_key == IF vault_binding(id) THEN SUBJECT_TOKEN_BINDING_ATTRIBUTE
                     ELSE SUBJECT_TOKEN_ATTRIBUTE
      counted == {k \in keys : ~(vault_binding(id) /\ k = SUBJECT_TOKEN_ATTRIBUTE)}
  IN {<<k, id.attributes[k]>> :
        k \in (counted \cup {subject_key}) \cap DOMAIN id.attributes}

identity_hash_with_attrs(id, keys) ==
  LET kv == SetToSeq(attrs(id, keys))
  IN feed("kind", id.kind) \o feed("trust_level", id.trust_level)
       \o feed("subject_id", OrEmpty(id.subject_id))
       \o feed("auth_provider", OrEmpty(id.auth_provider))
       \o feed("issuer", OrEmpty(id.issuer))
       \o feed_list("role", id.roles) \o feed_list("group", id.groups)
       \o feed_list("scope", id.scopes)
       \o <<to_le_bytes[Len(kv)]>>
       \o FlattenSeq([i \in DOMAIN kv |->
                        feed("attr.k", <<kv[i][1]>>) \o feed("attr.v", kv[i][2])])

----------------------------------------------------------------------------
(* Issuers *)

\* IssuedCredential, with the mint that made it (`serial`, for whom) in place
\* of its bytes: a part's value is the mint and the part's name.
IssuedCredential(serial, identity, target, parts, expires) ==
  [serial |-> serial, identity |-> identity, target |-> target,
   parts |-> parts, expires |-> expires]

\* IssuedCredential::part, and the single value where a reference has no
\* fragment.  None when the credential has no such part.
part(cred, name) ==
  LET wanted == IF name = None THEN <<"value">> ELSE name
  IN IF wanted \in cred.parts THEN <<cred.serial, wanted>> ELSE <<0, None>>

\* CredentialError, with the status the gateway answers with.
CredentialError == {"backend", "not_authorized", "misconfigured", "throttled"}

\* Faulty variant: throttling is passed through as 429.
http_status_429(e) ==
  CASE e = "backend" -> 503 [] e = "throttled" -> 429
    [] e = "not_authorized" -> 403 [] e = "misconfigured" -> 500

http_status(e) ==
  CASE e \in {"backend", "throttled"} -> 503
    [] e = "not_authorized" -> 403
    [] e = "misconfigured" -> 500

----------------------------------------------------------------------------

VARIABLES
  cache,    \* the gateway's cache: from keys to credentials
  minted,   \* number of credentials minted
  now,      \* seconds
  reply     \* the request under way's answer: identity, status, value per reference

issueVars == <<cache, minted, now, reply>>

\* The hash of every identity, under the operator's allow-list.
HashOf == [id \in Identities |-> identity_hash_with_attrs(id, key_attributes)]

key(id, r) == <<HashOf[id], cache_key(r)>>

NoReply == [identity |-> {}, status |-> 0, values |-> <<>>, creds |-> <<>>]

Statuses == {0, 200, 403, 500, 503}

IssueTypeOK ==
  /\ minted \in 0..MaxIssues /\ now \in 0..MaxTime
  /\ \A k \in DOMAIN cache :
       /\ cache[k].serial \in 1..minted
       /\ IsPluginIdentity(cache[k].identity)
       /\ cache[k].expires > now
  /\ reply.status \in Statuses

IssueInit == cache = <<>> /\ minted = 0 /\ now = 0 /\ reply = NoReply

\* A request of id resolves the references `refs` of its backend: a credential
\* in the cache is served, one that is not is minted and cached.
Resolve(id, refs, ttl) ==
  LET missing == {key(id, r) : r \in refs} \ DOMAIN cache
      order == SetToSeq(missing)
      serial(k) == minted + CHOOSE i \in DOMAIN order : order[i] = k
      parts == {r.part : r \in Refs}
      mint(k) == IssuedCredential(serial(k), id, k[2],
                   (parts \ {None}) \cup {<<"value">>}, now + ttl)
      after == [k \in DOMAIN cache \cup missing |->
                  IF k \in missing THEN mint(k) ELSE cache[k]]
  IN /\ reply.status = 0
     /\ minted + Len(order) <= MaxIssues
     /\ cache' = after
     /\ minted' = minted + Len(order)
     /\ reply' = [identity |-> id, status |-> 200,
                  values |-> [r \in refs |-> part(after[key(id, r)], r.part)],
                  creds |-> [r \in refs |-> after[key(id, r)]]]
     /\ UNCHANGED now

\* The issuer refuses a credential that is not cached: nothing is stored.
Refuse(e) ==
  /\ reply.status = 0
  /\ ~ \A id \in Identities, r \in Refs : key(id, r) \in DOMAIN cache
  /\ reply' = [NoReply EXCEPT !.status = http_status(e)]
  /\ UNCHANGED <<cache, minted, now>>

\* Time passes, and the cache evicts what has expired.
Tick ==
  /\ reply.status = 0 /\ now < MaxTime
  /\ now' = now + 1
  /\ cache' = [k \in {c \in DOMAIN cache : cache[c].expires > now + 1} |-> cache[k]]
  /\ UNCHANGED <<minted, reply>>

\* The backend takes the answer.
Deliver ==
  /\ reply.status # 0
  /\ reply' = NoReply
  /\ UNCHANGED <<cache, minted, now>>

IssueNext ==
  \/ \E id \in Identities, refs \in (SUBSET Refs) \ {{}}, ttl \in Lifetimes :
       Resolve(id, refs, ttl)
  \/ \E e \in CredentialError : Refuse(e)
  \/ Tick
  \/ Deliver

IssueSpec == IssueInit /\ [][IssueNext]_issueVars

----------------------------------------------------------------------------
(* Properties *)

\* How often v occurs in a list.
Count(items, v) == Cardinality({i \in DOMAIN items : items[i] = v})

\* Two callers with the same authority, as the hash's documentation has it:
\* None and "" are one, lists count without their order, and of the attributes
\* the allow-listed ones that are present and what stands for the subject token.
SameAuthority(a, b) ==
  /\ a.kind = b.kind /\ a.trust_level = b.trust_level
  /\ \A f \in {"subject_id", "auth_provider", "issuer"} :
       a[f] = b[f] \/ {a[f], b[f]} = {None, <<>>}
  /\ \A f \in {"roles", "groups", "scopes"} :
       \A v \in Range(a[f]) \cup Range(b[f]) : Count(a[f], v) = Count(b[f], v)
  /\ LET listed(id) == {<<k, id.attributes[k]>> :
               k \in (key_attributes \ {SUBJECT_TOKEN_ATTRIBUTE}) \cap DOMAIN id.attributes}
     IN listed(a) = listed(b)
  /\ LET has(id, k) == k \in DOMAIN id.attributes
         vaulted(id) == /\ has(id, SUBJECT_TOKEN_SOURCE_ATTRIBUTE)
                        /\ id.attributes[SUBJECT_TOKEN_SOURCE_ATTRIBUTE] = <<"idp_vault">>
                        /\ has(id, SUBJECT_TOKEN_BINDING_ATTRIBUTE)
         token(id) == IF vaulted(id) THEN <<"vault", id.attributes[SUBJECT_TOKEN_BINDING_ATTRIBUTE]>>
                      ELSE IF has(id, SUBJECT_TOKEN_ATTRIBUTE)
                      THEN <<"bearer", id.attributes[SUBJECT_TOKEN_ATTRIBUTE]>>
                      ELSE <<"none", <<>>>>
     IN token(a) = token(b)

\* A caller is only ever served a credential minted for a caller of the same
\* authority: whatever two identities differ in reaches the cache key.
ServedForSameAuthority ==
  \A r \in DOMAIN reply.creds : SameAuthority(reply.creds[r].identity, reply.identity)

\* The cache never holds two credentials of one target for callers of one
\* authority: list order, an absent field and a rotated vault token do not
\* split it (credential.rs: "one cached credential outlives the IdP rotating
\* the stored token").
OneCredentialPerAuthority ==
  \A k, l \in DOMAIN cache :
    cache[k].target = cache[l].target /\ SameAuthority(cache[k].identity, cache[l].identity)
      => k = l

\* The parts a request reads of one target are parts of one credential: a user
\* name never comes with the password of another mint.
PartsOfOneMint ==
  \A r, s \in DOMAIN reply.values :
    r.plugin_id = s.plugin_id /\ r.target = s.target
      => reply.values[r][1] = reply.values[s][1]

\* The cache key (identity hash, plugin, target) tells apart exactly what has to
\* be: other authority, another credential; same authority, the same one, all
\* of its parts included.
CacheKeysAreExact == ServedForSameAuthority /\ OneCredentialPerAuthority /\ PartsOfOneMint

=============================================================================
