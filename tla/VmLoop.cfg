\* Three calls for two permits: the third meets a full realm.
SPECIFICATION Spec
CONSTANTS
  Calls = {c1, c2, c3}
  Capacity = 2
CHECK_DEADLOCK FALSE
INVARIANT CallsAndJobsAgree
PROPERTY RefusedOnlyWhenFull
PROPERTY ImplementsJobService
