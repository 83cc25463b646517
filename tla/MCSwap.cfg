CONSTANTS
  Setters = {m}
  Plugins = {p, q}
  Broadcasters = {b}
  Hosts = {h1, h2}
  s1 = s1
  s2 = s2
  s3 = s3
  Subs = {s1, s2, s3}
  KindOf <- MCKindOf
  Methods = {"cache_get"}
  HostPanics = FALSE
  NoHost = NoHost
  NoSub = NoSub
  Free = Free
  MaxId = 3
  MaxSets = 2
  MaxFires = 1

SPECIFICATION Spec

SYMMETRY Symmetry

INVARIANT SettledOnCurrent
INVARIANT NeverTwice
INVARIANT DroppedIsSilent

PROPERTY HeldIsUndisturbed
