\* Permissions: two kinds.
SPECIFICATION MCSpec
CONSTANTS
  Kinds <- MCKinds
  RulesOf <- MCRulesOf
  Resources <- MCResources
  Covers <- MCCovers
  Subsumes <- MCSubsumes
  Policies <- MCPolicies
  NoKind = none
  None = unused
  MaxTimers = 2
  MaxTime = 4
  Delays = {0, 2}
  Sources = {a, b}
  Composite = any
  MaxListeners = 2
  Events = {tick}
  Callbacks = {f, g}
  MaxAdded = 2
  MaxDepth = 2
  MaxEmits = 2
  Suites <- MCSuites
  Given <- MCGiven
  MaxKeys = 2
  MaxMade = 1
  MaxSeen = 2
CHECK_DEADLOCK FALSE
INVARIANT ReadRequestIsThere
