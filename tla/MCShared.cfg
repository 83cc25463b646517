SPECIFICATION SharedSpec
CONSTANTS
  None = None
  Names <- MCNames
  NKeys = 3
  Clients = {"c1", "c2"}
  Shapes <- MCShapes
  PageSize = 1
  MaxWrites = 4
  Gateways = {"g1", "g2"}
  Values <- MCValues
  MaxCount = 4
  Nodes = {"g1", "g2"}
  Ttl = 2
  MaxGrants = 3
  Ids = {"a1", "a2"}
  Bound <- MCBound
  Targets <- MCTargets
  Bodies = {"approved", "deny"}
  MaxLeft = 1
INVARIANTS
  SharedTypeOK
  ReadersSeeTheStore
  LeaseIsExclusive
  EndedForCause
PROPERTIES
  SwapsAreExact
  AgesAgree
  LeaseIsFreed
  EveryCallEndsOnce
CHECK_DEADLOCK FALSE
