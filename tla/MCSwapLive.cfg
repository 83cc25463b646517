CONSTANTS
  Setters = {m}
  Plugins = {p, q}
  Broadcasters = {b}
  Hosts = {h1, h2}
  s1 = s1
  s2 = s2
  s3 = s3
  Subs = {s1, s2}
  KindOf <- MCKindOf
  Methods = {}
  HostPanics = TRUE
  NoHost = NoHost
  NoSub = NoSub
  Free = Free
  MaxId = 2
  MaxSets = 2
  MaxFires = 1

SPECIFICATION FairSpec

CHECK_DEADLOCK FALSE

INVARIANT EveryEntryIsOwned

PROPERTY SwapsComplete
PROPERTY ImplementsBus
