\* A callback throws on the VM's thread while the host ends its run.
SPECIFICATION Spec
CONSTANTS
  Runs = {r1, r2}
  NoRun = none
  MaxInFlight = 1
  BackstopPoisons = TRUE
CHECK_DEADLOCK FALSE
INVARIANT FailedByItsOwnException
