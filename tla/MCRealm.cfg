\* Two runs that overlap; what a realm keeps.
SPECIFICATION MCSpec
CONSTANTS
  Runs = {r1, r2}
  NoRun = none
  MaxInFlight = 2
  BackstopPoisons = TRUE
  None = unused
  MarkNames = {m, n}
CHECK_DEADLOCK FALSE
INVARIANT ForceHaltIsReported
INVARIANT KeptIsRight
INVARIANT DataComesBack
PROPERTY PoisonedRealmRunsNothingNew
