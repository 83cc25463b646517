CONSTANTS
  Setters = {m, n}
  Plugins = {p, q}
  Broadcasters = {b}
  Hosts = {h1, h2}
  s1 = s1
  s2 = s2
  s3 = s3
  Subs = {s1, s2}
  KindOf <- MCKindOf
  Methods = {"invoke_tool"}
  HostPanics = FALSE
  NoHost = NoHost
  NoSub = NoSub
  Free = Free
  MaxId = 2
  MaxSets = 2
  MaxFires = 0

SPECIFICATION Spec

INVARIANT SettledOnCurrent
