SPECIFICATION ValueSpec
CONSTANTS
  Fragments <- MCFragments
  Values = {"v", "w"}
  MaxFragments = 5
  MaxLayers = 2
  Bytes <- MCBytes
  MaxLength <- MCMaxLength
  to_le_bytes <- MCLengths
  Identities <- MCIdentities
  key_attributes = {"tenant", "subject_token"}
  Refs <- MCRefs
  Lifetimes = {1}
  MaxIssues = 2
  MaxTime = 1
  Texts <- SampleTexts
  MaxPasses = 2
  MaxTail = 4
  Tools = {"read", "write"}
  Metadata <- MCMetadata
  Callers = {"anonymous", "verified", "unauthenticated"}
  Chains <- MCChains
  Keys = {"a", "b"}
  Leaves = {"x"}
  Known <- Sampled
  Unknown = Unknown
  Types = {1, 2, 3}
  Root = 1
  Sizes = {1, 2}
INVARIANTS
  ValuesTypeOK
  TokensReplacedExactly
  CacheKeysAreExact
  ListedAsConfigured
  MergeIsExact
PROPERTIES
  RedactedExactly
  AddressesAreGuarded
  FingerprintPredicts
CHECK_DEADLOCK FALSE
