SPECIFICATION Spec
CONSTANTS
  Values = {v1, v2}
  e1 = e1
  e2 = e2
  l0 = l0
  l1 = l1
  sub = sub
  org = org
  Errors <- MCErrors
  Internal = e1
  Lists <- MCLists
  NoList = l0
  Codes = {c1}
  Rank <- MCRank
CHECK_DEADLOCK FALSE
INVARIANT DispatcherPanicIsInternal
