SPECIFICATION PluginSpec
CONSTANTS
  None = None
  Libraries <- SomePlugins
  Configs <- SomeConfigs
  MAX_EVENT_TYPE_NAME_CHARS = 4
  Plugins = {"p1", "p2"}
  Subs = {"s1", "s2", "s3"}
  Owner <- MCOwner
  MaxId = 3
  Routes <- MCRoutes
  Requests <- MCRequests
  Responses <- MCResponses
  Names = {"a", "b"}
  Texts = {"x", "y"}
  Usages = {0, 7}
  MaxChunks = 2
  Upstream <- MCUpstream
  Refused = {2}
  QueueSize = 2
  MaxRestarts = 2
  MaxTrims = 1
  base64_encode <- MCbase64_encode
  Providers = {"p1", "p2"}
  Characters = {"a", "b", "c", "x", ":", "/"}
  Advertised <- MCAdvertised
  References <- MCReferences
  Sections = {"u", "v"}
  Used = "u"
  MaxVersion = 3
  MaxFaults = 1
INVARIANTS
  PluginsTypeOK
  LoadedAsConfigured
  LifetimesHold
  ServedFaithfully
  FreedSinkIsSilent
  AnswersAreTrue
  StoredExactly
PROPERTIES
  EventuallySettled
  FollowsTheDocument
  EveryOperationEnds
CHECK_DEADLOCK FALSE
