\* Three takers; one run on a clock that may be held; three runs of a host that
\* makes one at a time; two calls, a permit each; two overlapping runs,
\* the host's slot and both kinds of clock, with JavaScript that never stops.
SPECIFICATION MCSpec
CONSTANTS
  Takers = {t1, t2, t3}
  Target = 2
  MaxFailures = 2
  StopRuns = {r1}
  StopTime = 5
  StopLimits = {1, 2}
  NeverParks = FALSE
  LimitRuns = {r1, r2, r3}
  Settings = 2
  Values = {1, 2}
  Default = 1
  MaxInFlight = 1
  DeadlineRuns = {d1, d2}
  Host = host
  DISARMED = 3
  DeadlineTime = 2
  Timeouts = {1, 9}
  Calls = {c1, c2}
  Capacity = 2
CHECK_DEADLOCK FALSE
INVARIANT PoolIsSound
INVARIANT GivenUpRightly
INVARIANT LimitsAreKept
INVARIANT BudgetsAreExact
PROPERTY TakeTopsUp
PROPERTY PoolSettlesFull
PROPERTY BackstopAnswers
PROPERTY CancelledCallIsUndone
PROPERTY EveryCallMovesOn
PROPERTY HaltedOnlyWhenDue
PROPERTY OverrunsHalt
