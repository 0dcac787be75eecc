\* A host that makes one run at a time, two in a row, with the fairness the code
\* gives: bodies and callbacks may run for ever.
SPECIFICATION FairSpec
CONSTANTS
  Runs = {r1, r2}
  NoRun = none
  MaxInFlight = 1
  BackstopPoisons = TRUE
CHECK_DEADLOCK FALSE
INVARIANT FailuresBelongToTheirRun
PROPERTY WatchEndsWithItsRun
PROPERTY RunsAndBodiesEnd
