SPECIFICATION LayersSpec
CONSTANTS
  Fragments <- MCAccentFragments
  Values = {"v"}
  MaxFragments = 4
  MaxLayers = 1
INVARIANT LeftIntact
CHECK_DEADLOCK FALSE
