-------------------------------- MODULE MCHost --------------------------------
(***************************************************************************)
(* The services beside a script that share no state with one another:      *)
(* `subject' is the one a behaviour is about.  The theorems hold for every *)
(* value of the constants; the configuration gives them a small instance.  *)
(***************************************************************************)
EXTENDS RealmPool, FiniteSets, FiniteSetTheorems, TLAPS, WellFoundedInduction

CONSTANTS
  StopRuns, StopTime, StopLimits, NeverParks,               \* of Backstop
  LimitRuns, Settings, Values, Default, MaxInFlight,        \* of RunLimits
  DeadlineRuns, Host, DISARMED, DeadlineTime, Timeouts,     \* of Deadlines
  Calls, Capacity                                           \* of VmLoop

\* The host's slot is no run's, and no time reaches the value that means "nothing
\* armed" (HOST_TOKEN and u64::MAX, limits.rs).
ASSUME HostAssumption == Host \notin DeadlineRuns
ASSUME TimeAssumption ==
  /\ DISARMED \in Nat /\ DeadlineTime \in Nat /\ DeadlineTime < DISARMED
  /\ Timeouts \subseteq Nat

VARIABLES
  subject,
  now, parked, held, task, budget, wake, notified, raised, waker, job,
  pc, wants, next, applied, ceiling,
  neverParks, ticks, paused, holding, stage, started, armed, earliest, cancelled, timedOut,
  check,
  available, queue, caller, callJob, value, entered, loop, shutdown, handles

poolVars == vars
stopVars == <<now, parked, held, task, budget, wake, notified, raised, waker, job>>
limitVars == <<pc, wants, next, applied, ceiling>>
deadlineVars == <<neverParks, ticks, paused, holding, stage, started, armed, earliest, cancelled,
                  timedOut, check>>
loopVars == <<available, queue, caller, callJob, value, entered, loop, shutdown, handles>>
allVars == <<subject, poolVars, stopVars, limitVars, deadlineVars, loopVars>>

Stop == INSTANCE Backstop WITH Runs <- StopRuns, MaxTime <- StopTime, Limits <- StopLimits
Push == INSTANCE RunLimits WITH Runs <- LimitRuns
Deadline == INSTANCE Deadlines
  WITH Runs <- DeadlineRuns, MaxTime <- DeadlineTime, now <- ticks, parked <- paused,
       held <- holding, phase <- stage
Loop == INSTANCE VmLoop WITH job <- callJob

-------------------------------------------------------------------------------
MCInit ==
  /\ subject \in {"pool", "stop", "limits", "deadlines", "loop"}
  /\ Init /\ Stop!Init /\ Push!Init /\ Deadline!Init /\ Loop!Init
  /\ subject # "deadlines" => ~neverParks

PoolStep ==
  /\ subject = "pool" /\ Next
  /\ UNCHANGED <<subject, stopVars, limitVars, deadlineVars, loopVars>>
StopStep ==
  /\ subject = "stop" /\ Stop!Next
  /\ UNCHANGED <<subject, poolVars, limitVars, deadlineVars, loopVars>>
LimitsStep ==
  /\ subject = "limits" /\ Push!Next
  /\ UNCHANGED <<subject, poolVars, stopVars, deadlineVars, loopVars>>
DeadlinesStep ==
  /\ subject = "deadlines" /\ Deadline!Next
  /\ UNCHANGED <<subject, poolVars, stopVars, limitVars, loopVars>>
LoopStep ==
  /\ subject = "loop" /\ Loop!Next
  /\ UNCHANGED <<subject, poolVars, stopVars, limitVars, deadlineVars>>

MCNext == PoolStep \/ StopStep \/ LimitsStep \/ DeadlinesStep \/ LoopStep

\* The fairness of each subject's FairSpec, asked only of the behaviours that
\* are about it.
MCFairness ==
  /\ WF_vars(subject = "pool" /\ Spawn)
  /\ WF_vars(subject = "pool" /\ (Build \/ Panic))
  /\ WF_vars(subject = "pool" /\ FailedFill)
  /\ WF_vars(subject = "pool" /\ Fill)
  /\ \A t \in Takers : WF_vars(subject = "pool" /\ (Refill(t) \/ InlineBuild(t)))
  /\ \A r \in StopRuns :
       /\ WF_stopVars(subject = "stop" /\ Stop!TaskStep(r))
       /\ WF_stopVars(subject = "stop" /\ Stop!JobWakes(r))
  /\ WF_deadlineVars(subject = "deadlines" /\ Deadline!Check)
  /\ SF_loopVars(subject = "loop" /\ Loop!LoopStep)
  /\ \A c \in Calls :
       /\ SF_loopVars(subject = "loop" /\ Loop!JobStart(c))
       /\ SF_loopVars(subject = "loop" /\ Loop!CancelWakes(c))
       /\ WF_loopVars(subject = "loop" /\ (\/ Loop!JobEnter(c) \/ Loop!JobCheck(c)
                                           \/ Loop!JobBodyReady(c) \/ Loop!JobBodyPending(c)
                                           \/ Loop!JobPark(c) \/ Loop!JobRelease(c)
                                           \/ Loop!JobReply(c)))
       /\ WF_loopVars(subject = "loop" /\ (\/ Loop!Submit(c) \/ Loop!SubmitFails(c)
                                           \/ Loop!ReceiveReply(c) \/ Loop!ReceiveDropped(c)))

MCSpec == MCInit /\ [][MCNext]_allVars /\ MCFairness

-------------------------------------------------------------------------------
(* Properties, each stated in its subject's module *)

\* The pool settles full once takes stop, unless a build failed (fill).
PoolSettlesFull == subject = "pool" => SettlesFull

\* The caller's task sleeps safely and gives a run up rightly (run_until).
GivenUpRightly == Stop!GivenUpRightly

\* The caller's task answers in the end (run_until).
BackstopAnswers == subject = "stop" => Stop!BackstopAnswers

\* A cancelled call gives its permit back, and never starts if it had not
\* (with_parked).
CancelledCallIsUndone == subject = "loop" => Loop!CancelledCallIsUndone

\* No caller waits for ever on the loop itself (the loop task of vm.rs).
EveryCallMovesOn == subject = "loop" => Loop!EveryCallMovesOn

\* Only a run dropped in a setter misleads a later one (apply_limits).
LimitsAreKept == Push!LimitsAreKept

\* The armed budgets and the minimum the handler reads agree (TimeoutState).
BudgetsAreExact == Deadline!BudgetsAreExact

\* JavaScript is force-halted only for a dropped run or a budget that ran out (the
\* interrupt handler).
HaltedOnlyWhenDue == Deadline!HaltedOnlyWhenDue

\* What should be halted is (the interrupt handler).
OverrunsHalt == subject = "deadlines" => Deadline!OverrunsHalt

-------------------------------------------------------------------------------
(* Proofs about the pool, for any number of takers and any target.         *)
(*                                                                         *)
(* The count of builds in flight is never short of the builds there are,   *)
(* and exceeds them by no more than the builds that panicked.              *)

\* The builds there are, whatever stage they are at.
InFlight == spawning + builds + built.ok + built.failed

PlacesCounted ==
  alive => /\ InFlight <= building
           /\ building <= InFlight + panics
           /\ ready + building <= Target

\* A take in progress keeps the pool: acquire borrows it.
TakersHoldThePool == \A t \in Takers : taker[t] \in {"popped", "empty"} => alive

IInv == TypeOK /\ PlacesCounted /\ TakersHoldThePool

LEMMA InitIInv == Init => IInv
BY TargetAssumption, FailureAssumption
   DEF Init, IInv, TypeOK, PlacesCounted, InFlight, TakersHoldThePool

LEMMA LessFits ==
  ASSUME NEW a \in Nat, NEW b \in Nat, NEW c \in Nat, NEW n \in Nat,
         a <= b, b + c <= n
  PROVE  a + c <= n
OBVIOUS

\* A taker changes the places under the lock only.
LEMMA TakerStepIInv ==
  ASSUME IInv, NEW t \in Takers, Pop(t) \/ Refill(t) \/ InlineBuild(t)
  PROVE  IInv'
<1>1. CASE Pop(t)
  <2>1. ready' \in Nat /\ ready' <= ready
    BY <1>1 DEF Pop, Monus, IInv, TypeOK
  <2>2. UNCHANGED <<alive, building, spawning, builds, built, failures, panics>> /\ alive
    BY <1>1 DEF Pop
  <2>3. TypeOK'
    BY <1>1, <2>1, <2>2 DEF Pop, IInv, TypeOK
  <2>4. InFlight' = InFlight /\ building' = building /\ panics' = panics /\ alive
    BY <2>2 DEF InFlight
  <2>5. ready \in Nat /\ building \in Nat
    BY DEF IInv, TypeOK
  <2>6. ready' + building <= Target
    <3>1. ready + building <= Target
      BY <2>4 DEF IInv, PlacesCounted
    <3> QED
      BY <2>1, <2>5, <3>1, TargetAssumption, LessFits
  <2>7. PlacesCounted'
    BY <2>4, <2>6 DEF IInv, PlacesCounted
  <2>8. TakersHoldThePool'
    BY <2>2 DEF TakersHoldThePool
  <2> QED
    BY <2>3, <2>7, <2>8 DEF IInv
<1>2. CASE Refill(t)
  <2>1. Missing \in Nat /\ (alive => ready + building + Missing <= Target)
    BY TargetAssumption DEF Missing, Monus, IInv, TypeOK, PlacesCounted
  <2>2. TypeOK'
    BY <1>2, <2>1 DEF Refill, IInv, TypeOK
  <2>3. PlacesCounted'
    BY <1>2, <2>1 DEF Refill, IInv, TypeOK, PlacesCounted, InFlight
  <2>4. TakersHoldThePool'
    BY <1>2 DEF Refill, IInv, TypeOK, TakersHoldThePool
  <2> QED
    BY <2>2, <2>3, <2>4 DEF IInv
<1>3. CASE InlineBuild(t)
  BY <1>3, FailureAssumption DEF InlineBuild, IInv, TypeOK, PlacesCounted, InFlight, TakersHoldThePool
<1> QED
  BY <1>1, <1>2, <1>3

\* A build keeps its place until it gives it up with its realm.
LEMMA FillStepIInv ==
  ASSUME IInv, DropPool \/ Spawn \/ Build \/ Panic \/ FailedFill \/ Fill
  PROVE  IInv'
<1>1. CASE DropPool
  BY <1>1 DEF DropPool, IInv, TypeOK, PlacesCounted, InFlight, TakersHoldThePool
<1>2. CASE Spawn
  BY <1>2 DEF Spawn, IInv, TypeOK, PlacesCounted, InFlight, TakersHoldThePool
<1>3. CASE Build
  BY <1>3, FailureAssumption DEF Build, IInv, TypeOK, PlacesCounted, InFlight, TakersHoldThePool
<1>4. CASE Panic
  BY <1>4, FailureAssumption DEF Panic, IInv, TypeOK, PlacesCounted, InFlight, TakersHoldThePool
<1>5. CASE FailedFill
  <2>1. /\ built.failed \in Nat /\ built.ok \in Nat /\ built.failed > 0
        /\ built' \in [ok : Nat, failed : Nat]
        /\ built'.ok = built.ok /\ built'.failed = built.failed - 1
    BY <1>5 DEF FailedFill, IInv, TypeOK
  <2>2. alive => building > 0
    BY <2>1 DEF IInv, TypeOK, PlacesCounted, InFlight
  <2>3. TypeOK'
    BY <1>5, <2>1, <2>2 DEF FailedFill, IInv, TypeOK
  <2>4. InFlight' = InFlight - 1 /\ InFlight \in Int
    BY <1>5, <2>1 DEF FailedFill, IInv, TypeOK, InFlight
  <2>5. /\ alive' = alive /\ ready' = ready /\ panics' = panics /\ panics \in Int
        /\ alive => building' = building - 1
        /\ ready \in Nat /\ building \in Nat
    BY <1>5 DEF FailedFill, IInv, TypeOK
  <2>6. PlacesCounted'
    BY <2>4, <2>5, TargetAssumption DEF IInv, PlacesCounted
  <2>7. TakersHoldThePool'
    BY <1>5 DEF FailedFill, IInv, TakersHoldThePool
  <2> QED
    BY <2>3, <2>6, <2>7 DEF IInv
<1>6. CASE Fill
  BY <1>6 DEF Fill, IInv, TypeOK, PlacesCounted, InFlight, TakersHoldThePool
<1> QED
  BY <1>1, <1>2, <1>3, <1>4, <1>5, <1>6

LEMMA NextIInv == IInv /\ [Next]_vars => IInv'
<1> SUFFICES ASSUME IInv, [Next]_vars PROVE IInv'
  OBVIOUS
<1>1. CASE UNCHANGED vars
  BY <1>1 DEF vars, IInv, TypeOK, PlacesCounted, InFlight, TakersHoldThePool
<1>2. CASE Next
  BY <1>2, TakerStepIInv, FillStepIInv DEF Next
<1> QED
  BY <1>1, <1>2

\* The types of the pool's state.
THEOREM TypeCorrect == Spec => []TypeOK
BY InitIInv, NextIInv, PTL DEF Spec, IInv

\* However takes, builds and failures interleave, the pool never holds or makes
\* more realms than its target (refill, pool.rs).
THEOREM PoolIsBounded == Spec => []NeverOverTarget
<1>1. IInv => NeverOverTarget
  BY TargetAssumption DEF IInv, TypeOK, PlacesCounted, InFlight, NeverOverTarget, Coming
<1> QED
  BY <1>1, InitIInv, NextIInv, PTL DEF Spec

\* Every take brings the pool back to its target, but for the builds that panicked
\* (acquire, pool.rs).
THEOREM TakesTopUp == Spec => TakeTopsUp
<1>1. IInv /\ [Next]_vars =>
        [\A t \in Takers :
           taker[t] \in {"popped", "empty"} /\ taker'[t] # taker[t] =>
             Coming' + panics' >= Target]_vars
  <2> SUFFICES ASSUME IInv, Next, NEW t \in Takers,
                      taker[t] \in {"popped", "empty"}, taker'[t] # taker[t]
               PROVE  Coming' + panics' >= Target
    BY DEF vars
  <2>1. PICK u \in Takers : Pop(u) \/ Refill(u) \/ InlineBuild(u)
    BY DEF Next, DropPool, Spawn, Build, Panic, FailedFill, Fill
  <2>2. u = t
    BY <2>1 DEF Pop, Refill, InlineBuild, IInv, TypeOK
  <2>3. Refill(t)
    BY <2>1, <2>2 DEF Pop, InlineBuild
  <2> QED
    BY <2>3, TargetAssumption
       DEF Refill, Missing, Monus, IInv, TypeOK, PlacesCounted, InFlight, TakersHoldThePool,
           Coming
<1> QED
  BY <1>1, InitIInv, NextIInv, PTL DEF Spec, TakeTopsUp

\* The pool's counters are right in every state (pool.rs).
THEOREM PoolCountsRight == Spec => []PoolIsSound
BY TypeCorrect, PoolIsBounded, PTL DEF PoolIsSound

-------------------------------------------------------------------------------
(* Proofs about the backstop, for every set of runs, every clock and every *)
(* limit, by the inductive invariant of Backstop.                          *)

LEMMA StopInitIInv ==
  ASSUME StopTime \in Nat, Stop!Init
  PROVE  Stop!IInv
<1> USE DEF Stop!Init, Stop!NoBudget, Stop!ParkedNow
<1>1. Stop!TypeOK
  <2>1. Stop!NoBudget \in [limit : Nat, started : 0..StopTime, parkedBefore : 0..StopTime]
    OBVIOUS
  <2> QED
    BY <2>1 DEF Stop!TypeOK
<1>2. Stop!AsleepIsWakeable /\ Stop!GivenUpOnlyWhenDue /\ Stop!LoadingIsWakeable /\ Stop!RaisedByItsJob
  BY DEF Stop!AsleepIsWakeable, Stop!GivenUpOnlyWhenDue, Stop!LoadingIsWakeable, Stop!RaisedByItsJob
<1>3. Stop!PauseClockRunsSlow
  BY DEF Stop!PauseClockRunsSlow
<1> QED
  BY <1>1, <1>2, <1>3 DEF Stop!IInv, Stop!GivenUpRightly

LEMMA StopNextIInv ==
  ASSUME StopTime \in Nat, StopLimits \subseteq Nat, NeverParks \in BOOLEAN, Stop!IInv, [Stop!Next]_(Stop!vars)
  PROVE  Stop!IInv'
<1> USE DEF Stop!IInv, Stop!GivenUpRightly, Stop!TypeOK, Stop!AsleepIsWakeable, Stop!GivenUpOnlyWhenDue,
  Stop!LoadingIsWakeable, Stop!RaisedByItsJob, Stop!PauseClockRunsSlow, Stop!ParkedNow, Stop!clockVars
<1>1. CASE Stop!Tick
  BY <1>1 DEF Stop!Tick
<1>2. CASE Stop!Hold
  BY <1>2 DEF Stop!Hold
<1>3. ASSUME NEW r \in StopRuns, Stop!JobParks(r) \/ Stop!JobWakes(r) \/ Stop!JobFinishes(r)
      PROVE  Stop!IInv'
  <2>1. CASE Stop!JobParks(r)
    BY <2>1 DEF Stop!JobParks
  <2>2. CASE Stop!JobWakes(r)
    BY <2>2 DEF Stop!JobWakes
  <2>3. CASE Stop!JobFinishes(r)
    BY <2>3 DEF Stop!JobFinishes
  <2> QED
    BY <1>3, <2>1, <2>2, <2>3
<1>4. ASSUME NEW r \in StopRuns, Stop!Start(r)
      PROVE  Stop!IInv'
  BY <1>4 DEF Stop!Start
<1>5. ASSUME NEW r \in StopRuns, NEW limit \in StopLimits, Stop!Begin(r, limit)
      PROVE  Stop!IInv'
  <2>1. /\ task[r] = "started" /\ task' = [task EXCEPT ![r] = "polling"]
        /\ job' = [job EXCEPT ![r] = "submitted"]
        /\ UNCHANGED <<now, parked, held, wake, notified, raised, waker>>
    BY <1>5 DEF Stop!Begin
  <2> DEFINE begun == [budget[r] EXCEPT !.limit = limit, !.parkedBefore = Stop!ParkedNow]
  <2>2. /\ begun \in [limit : Nat, started : 0..StopTime, parkedBefore : 0..StopTime]
        /\ begun.parkedBefore = Stop!ParkedNow
    <3>1. Stop!ParkedNow \in 0..StopTime
      OBVIOUS
    <3> QED
      BY <3>1
  <2>3. budget' = [budget EXCEPT ![r] = begun]
    BY <1>5 DEF Stop!Begin
  <2> HIDE DEF begun
  <2>4. Stop!TypeOK'
    BY <2>1, <2>2, <2>3
  <2>5. Stop!AsleepIsWakeable' /\ Stop!LoadingIsWakeable' /\ Stop!RaisedByItsJob'
    BY <2>1
  <2>6. Stop!GivenUpOnlyWhenDue' /\ Stop!PauseClockRunsSlow'
    BY <2>1, <2>2, <2>3
  <2> QED
    BY <2>4, <2>5, <2>6
<1>6. ASSUME NEW r \in StopRuns, Stop!PollFuture(r) \/ Stop!Register(r) \/ Stop!Repoll(r) \/ Stop!Reply(r)
      PROVE  Stop!IInv'
  <2>1. Stop!TypeOK'
    BY <1>6 DEF Stop!PollFuture, Stop!Register, Stop!Repoll, Stop!Reply
  <2>2. Stop!AsleepIsWakeable' /\ Stop!LoadingIsWakeable' /\ Stop!RaisedByItsJob'
    BY <1>6 DEF Stop!PollFuture, Stop!Register, Stop!Repoll, Stop!Reply
  <2>3. Stop!GivenUpOnlyWhenDue' /\ Stop!PauseClockRunsSlow'
    BY <1>6 DEF Stop!PollFuture, Stop!Register, Stop!Repoll, Stop!Reply
  <2> QED
    BY <2>1, <2>2, <2>3
<1>7. ASSUME NEW r \in StopRuns, Stop!Load(r) \/ Stop!Resleep(r) \/ Stop!GiveUp(r)
      PROVE  Stop!IInv'
  <2>1. CASE Stop!Load(r)
    <3>1. Stop!DeadlineNow(r) \in Nat
      BY DEF Stop!DeadlineNow, Stop!SaturatingSub
    <3>2. \/ raised[r] /\ task' = [task EXCEPT ![r] = "timing"] /\ wake' = [wake EXCEPT ![r] = Stop!DeadlineNow(r)]
          \/ ~raised[r] /\ task' = [task EXCEPT ![r] = "asleep"] /\ wake' = wake
      BY <2>1 DEF Stop!Load
    <3>3. task[r] = "loading" /\ UNCHANGED <<now, parked, held, budget, notified, raised, waker, job>>
      BY <2>1 DEF Stop!Load
    <3>4. Stop!TypeOK'
      BY <3>1, <3>2, <3>3
    <3>5. Stop!AsleepIsWakeable' /\ Stop!LoadingIsWakeable' /\ Stop!RaisedByItsJob'
      BY <3>2, <3>3
    <3>6. Stop!GivenUpOnlyWhenDue' /\ Stop!PauseClockRunsSlow'
      BY <3>2, <3>3
    <3> QED
      BY <3>4, <3>5, <3>6
  <2>2. CASE Stop!Resleep(r)
    BY <2>2 DEF Stop!Resleep, Stop!DeadlineNow, Stop!SaturatingSub
  <2>3. CASE Stop!GiveUp(r)
    BY <2>3 DEF Stop!GiveUp, Stop!DeadlineNow, Stop!SaturatingSub
  <2> QED
    BY <1>7, <2>1, <2>2, <2>3
<1>8. CASE UNCHANGED Stop!vars
  BY <1>8 DEF Stop!vars
<1> QED
  BY <1>1, <1>2, <1>3, <1>4, <1>5, <1>6, <1>7, <1>8 DEF Stop!Next, Stop!TaskStep

\* However the job's thread and the caller's task interleave and whenever the host
\* holds the process, the task never sleeps with no one left to wake it, and a run is
\* given up only parked and with its limit spent (run_until, poll_parked).
THEOREM GivesUpRightly ==
  ASSUME StopTime \in Nat, StopLimits \subseteq Nat, NeverParks \in BOOLEAN
  PROVE  Stop!Spec => []GivenUpRightly
<1>1. Stop!IInv /\ [Stop!Next]_(Stop!vars) => Stop!IInv'
  BY StopNextIInv
<1>2. Stop!IInv => GivenUpRightly
  BY DEF Stop!IInv, GivenUpRightly
<1> QED
  BY <1>1, <1>2, StopInitIInv, PTL DEF Stop!Spec

-------------------------------------------------------------------------------
(* Proofs about the limits, for every number of runs and of limits, of a   *)
(* host that makes one run at a time, by the inductive invariant of        *)
(* RunLimits.                                                              *)

LEMMA PushInitIInv ==
  ASSUME Settings \in Nat, Default \in Values, Push!Init
  PROVE  Push!IInv
BY DEF Push!Init, Push!Defaults, Push!Limits, Push!InFlight, Push!IInv, Push!TypeOK, Push!OneRun, Push!RecordIsTheRuns,
  Push!NewRunsStartAtTheFirst, Push!EngineLagsAtASetter

\* A run is started only when none is in flight.
LEMMA StartsAlone ==
  ASSUME MaxInFlight = 1, Push!OneRun, Push!Cardinality(Push!InFlight) < MaxInFlight
  PROVE  Push!InFlight = {}
<1> SUFFICES ASSUME NEW r \in Push!InFlight PROVE FALSE
  OBVIOUS
<1>1. Push!InFlight = {r}
  BY DEF Push!OneRun
<1>2. Push!Cardinality({r}) = 1
  BY FS_Singleton DEF Cardinality, Push!Cardinality
<1> QED
  BY <1>1, <1>2

LEMMA PushNextIInv ==
  ASSUME Settings \in Nat, MaxInFlight = 1, Push!IInv, [Push!Next]_(Push!vars)
  PROVE  Push!IInv'
<1> USE DEF Push!IInv, Push!TypeOK, Push!Limits, Push!NewRunsStartAtTheFirst
<1>1. ASSUME NEW r \in LimitRuns, NEW asked \in [Push!Limits -> Values], Push!Start(r, asked)
      PROVE  Push!IInv'
  <2>1. Push!InFlight = {}
    BY <1>1, StartsAlone DEF Push!Start
  <2> USE <1>1 DEF Push!Start
  <2>2. Push!TypeOK'
    OBVIOUS
  <2>3. \A q \in Push!InFlight' : q = r
    BY <2>1 DEF Push!InFlight
  <2>4. Push!OneRun'
    BY <2>3 DEF Push!OneRun
  <2>5. pc'[r] = "applying" /\ next[r] = 1
    OBVIOUS
  <2>6. Push!RecordIsTheRuns'
    BY <2>3, <2>5 DEF Push!RecordIsTheRuns
  <2>7. Push!EngineLagsAtASetter'
    BY DEF Push!EngineLagsAtASetter
  <2> QED
    BY <2>2, <2>4, <2>6, <2>7
<1> USE DEF Push!InFlight
<1>2. ASSUME NEW r \in LimitRuns, Push!Skip(r)
      PROVE  Push!IInv'
  <2> USE <1>2 DEF Push!Skip
  <2>1. Push!TypeOK'
    OBVIOUS
  <2>2. Push!OneRun'
    BY DEF Push!OneRun
  <2>3. Push!RecordIsTheRuns'
    BY DEF Push!RecordIsTheRuns, Push!OneRun
  <2>4. Push!EngineLagsAtASetter'
    BY DEF Push!EngineLagsAtASetter
  <2> QED
    BY <2>1, <2>2, <2>3, <2>4
<1>3. ASSUME NEW r \in LimitRuns, Push!Record(r)
      PROVE  Push!IInv'
  <2> USE <1>3 DEF Push!Record
  <2>1. Push!TypeOK'
    OBVIOUS
  <2>2. Push!OneRun'
    BY DEF Push!OneRun
  <2>3. Push!RecordIsTheRuns'
    BY DEF Push!RecordIsTheRuns, Push!OneRun
  <2>4. Push!EngineLagsAtASetter'
    BY DEF Push!EngineLagsAtASetter
  <2> QED
    BY <2>1, <2>2, <2>3, <2>4
<1>4. ASSUME NEW r \in LimitRuns, Push!Set(r)
      PROVE  Push!IInv'
  <2> USE <1>4 DEF Push!Set
  <2>0. next[r] \in 1..Settings /\ applied[next[r]] = wants[r][next[r]]
    BY DEF Push!RecordIsTheRuns
  <2>1. Push!TypeOK'
    BY <2>0
  <2>2. Push!OneRun'
    BY DEF Push!OneRun
  <2>3. Push!RecordIsTheRuns'
    BY DEF Push!RecordIsTheRuns, Push!OneRun
  <2>4. Push!EngineLagsAtASetter'
    <3> SUFFICES ASSUME NEW s \in Push!Limits, ceiling'[s] # applied[s]
                 PROVE  \E d \in LimitRuns : pc'[d] \in {"setting", "dropped"} /\ next'[d] = s /\ wants[d][s] = applied[s]
      BY DEF Push!EngineLagsAtASetter
    <3>1. s # next[r] /\ ceiling[s] # applied[s]
      BY <2>0
    <3>2. PICK d \in LimitRuns : pc[d] \in {"setting", "dropped"} /\ next[d] = s /\ wants[d][s] = applied[s]
      BY <3>1 DEF Push!EngineLagsAtASetter
    <3> QED
      BY <3>1, <3>2
  <2> QED
    BY <2>1, <2>2, <2>3, <2>4
<1>5. ASSUME NEW r \in LimitRuns, Push!Run(r)
      PROVE  Push!IInv'
  <2> USE <1>5 DEF Push!Run
  <2>1. Push!TypeOK'
    OBVIOUS
  <2>2. Push!OneRun'
    BY DEF Push!OneRun
  <2>3. Push!RecordIsTheRuns'
    BY DEF Push!RecordIsTheRuns, Push!OneRun
  <2>4. Push!EngineLagsAtASetter'
    BY DEF Push!EngineLagsAtASetter
  <2> QED
    BY <2>1, <2>2, <2>3, <2>4
<1>6. ASSUME NEW r \in LimitRuns, Push!Finish(r)
      PROVE  Push!IInv'
  <2> USE <1>6 DEF Push!Finish
  <2>1. Push!TypeOK'
    OBVIOUS
  <2>2. Push!OneRun'
    BY DEF Push!OneRun
  <2>3. Push!RecordIsTheRuns'
    BY DEF Push!RecordIsTheRuns, Push!OneRun
  <2>4. Push!EngineLagsAtASetter'
    BY DEF Push!EngineLagsAtASetter
  <2> QED
    BY <2>1, <2>2, <2>3, <2>4
<1>7. ASSUME NEW r \in LimitRuns, Push!Drop(r)
      PROVE  Push!IInv'
  <2> USE <1>7 DEF Push!Drop
  <2>1. Push!TypeOK'
    OBVIOUS
  <2>2. Push!OneRun'
    BY DEF Push!OneRun
  <2>3. Push!RecordIsTheRuns'
    BY DEF Push!RecordIsTheRuns, Push!OneRun
  <2>4. Push!EngineLagsAtASetter'
    BY DEF Push!EngineLagsAtASetter
  <2> QED
    BY <2>1, <2>2, <2>3, <2>4
<1>8. CASE UNCHANGED Push!vars
  BY <1>8 DEF Push!vars, Push!OneRun, Push!RecordIsTheRuns, Push!EngineLagsAtASetter
<1> QED
  BY <1>1, <1>2, <1>3, <1>4, <1>5, <1>6, <1>7, <1>8 DEF Push!Next

LEMMA PushIInvKeeps ==
  ASSUME Settings \in Nat, Push!IInv
  PROVE  LimitsAreKept
<1> SUFFICES ASSUME NEW r \in LimitRuns, NEW s \in Push!Limits, pc[r] = "running", ceiling[s] # wants[r][s]
             PROVE  \E d \in LimitRuns : pc[d] = "dropped" /\ next[d] = s /\ wants[d][s] = wants[r][s]
  BY DEF Push!IInv, LimitsAreKept, Push!LimitsAreKept, Push!MisledOnlyByADrop
<1>1. applied[s] = wants[r][s]
  <2>1. s < next[r]
    BY DEF Push!IInv, Push!RecordIsTheRuns, Push!InFlight, Push!TypeOK, Push!Limits
  <2> QED
    BY <2>1 DEF Push!IInv, Push!RecordIsTheRuns, Push!InFlight
<1>2. PICK d \in LimitRuns : pc[d] \in {"setting", "dropped"} /\ next[d] = s /\ wants[d][s] = applied[s]
  BY <1>1 DEF Push!IInv, Push!EngineLagsAtASetter
<1>3. pc[d] # "setting"
  BY DEF Push!IInv, Push!OneRun, Push!InFlight
<1> QED
  BY <1>1, <1>2, <1>3

\* A host that makes one run at a time gets, in every run, the limits it asked for,
\* whatever setters were skipped, however many limits and runs there are; but for a
\* limit whose setter an earlier run was dropped in (apply_limits).
THEOREM RunsGetTheirLimits ==
  ASSUME Settings \in Nat, Default \in Values, MaxInFlight = 1
  PROVE  Push!Spec => []LimitsAreKept
<1>1. Push!IInv /\ [Push!Next]_(Push!vars) => Push!IInv'
  BY PushNextIInv
<1> QED
  BY <1>1, PushInitIInv, PushIInvKeeps, PTL DEF Push!Spec

-------------------------------------------------------------------------------
(* Proofs about the deadlines, for every set of runs, every timeout and    *)
(* every length of time, by the inductive invariant of Deadlines.          *)

\* A set of naturals that is not empty has a least element.
LEMMA LeastExists ==
  ASSUME NEW S \in SUBSET Nat, S # {}
  PROVE  \E m \in S : \A k \in S : m <= k
<1>1. IsWellFoundedOn(OpToRel(<, Nat), Nat)
  BY NatLessThanWellFounded
<1>2. PICK m \in S : \A k \in S : ~ (<<k, m>> \in OpToRel(<, Nat))
  BY <1>1, WFMin
<1>3. \A k \in S : ~(k < m)
  BY <1>2 DEF OpToRel
<1> QED
  BY <1>3

\* So Least chooses one.
LEMMA LeastIsLeast ==
  ASSUME NEW S \in SUBSET Nat, S # {}
  PROVE  Deadline!Least(S) \in S /\ \A k \in S : Deadline!Least(S) <= k
BY LeastExists DEF Deadline!Least

\* recompute answers the minimum of the armed deadlines, and DISARMED only when
\* nothing is armed.
LEMMA RecomputedIsMinimum ==
  ASSUME NEW slots \in Deadline!Slots,
         \A t \in Deadline!Tokens : slots[t] # Deadline!Unarmed => slots[t].deadline < DISARMED
  PROVE  /\ Deadline!Recomputed(slots) \in 0..DISARMED
         /\ \A t \in Deadline!Tokens : slots[t] # Deadline!Unarmed
            => Deadline!Recomputed(slots) <= slots[t].deadline
         /\ \/ Deadline!Recomputed(slots) = DISARMED
            \/ \E t \in Deadline!Tokens : slots[t] # Deadline!Unarmed
               /\ slots[t].deadline = Deadline!Recomputed(slots)
         /\ Deadline!Recomputed(slots) = DISARMED => \A t \in Deadline!Tokens : slots[t] = Deadline!Unarmed
<1> DEFINE deadlines == {slots[t].deadline : t \in {u \in Deadline!Tokens : slots[u] # Deadline!Unarmed}}
<1>1. DISARMED \in Nat
  BY TimeAssumption
<1>2. \A t \in Deadline!Tokens : slots[t].deadline \in 0..DISARMED
  BY DEF Deadline!Slots
<1>3. deadlines \in SUBSET Nat
  BY <1>1, <1>2
<1>4. Deadline!Recomputed(slots) = IF deadlines = {} THEN DISARMED ELSE Deadline!Least(deadlines)
  BY DEF Deadline!Recomputed
<1>5. CASE deadlines = {}
  <2>1. \A t \in Deadline!Tokens : slots[t] = Deadline!Unarmed
    BY <1>5
  <2> QED
    BY <1>1, <1>4, <1>5, <2>1
<1>6. CASE deadlines # {}
  <2>1. Deadline!Least(deadlines) \in deadlines /\ \A k \in deadlines : Deadline!Least(deadlines) <= k
    BY <1>3, <1>6, LeastIsLeast
  <2>2. PICK t \in Deadline!Tokens : slots[t] # Deadline!Unarmed
               /\ slots[t].deadline = Deadline!Least(deadlines)
    BY <2>1
  <2>3. Deadline!Least(deadlines) < DISARMED /\ Deadline!Least(deadlines) \in 0..DISARMED
    BY <1>2, <2>2
  <2>4. Deadline!Recomputed(slots) = Deadline!Least(deadlines)
    BY <1>4, <1>6
  <2>5. \A u \in Deadline!Tokens : slots[u] # Deadline!Unarmed
          => Deadline!Recomputed(slots) <= slots[u].deadline
    BY <2>1, <2>4
  <2>6. Deadline!Recomputed(slots) # DISARMED
    BY <1>1, <2>3, <2>4
  <2> HIDE DEF deadlines
  <2> QED
    BY <2>2, <2>3, <2>4, <2>5, <2>6
<1> QED
  BY <1>5, <1>6

\* Whatever is armed or disarmed, the minimum is recomputed with it.
LEMMA SetArmedKeepsMinimum ==
  ASSUME NEW slots \in Deadline!Slots,
         \A t \in Deadline!Tokens : slots[t] # Deadline!Unarmed => slots[t].deadline < DISARMED,
         Deadline!SetArmed(slots)
  PROVE  /\ armed' \in Deadline!Slots
         /\ earliest' \in 0..DISARMED
         /\ Deadline!EarliestIsMinimum'
         /\ Deadline!ArmedBelowDisarmed'
<1>1. armed' = slots /\ earliest' = Deadline!Recomputed(slots)
  BY DEF Deadline!SetArmed
<1>2. /\ Deadline!Recomputed(slots) \in 0..DISARMED
      /\ \A t \in Deadline!Tokens : slots[t] # Deadline!Unarmed
         => Deadline!Recomputed(slots) <= slots[t].deadline
      /\ \/ Deadline!Recomputed(slots) = DISARMED
         \/ \E t \in Deadline!Tokens : slots[t] # Deadline!Unarmed
            /\ slots[t].deadline = Deadline!Recomputed(slots)
      /\ Deadline!Recomputed(slots) = DISARMED => \A t \in Deadline!Tokens : slots[t] = Deadline!Unarmed
  BY RecomputedIsMinimum
<1>3. Deadline!EarliestIsMinimum'
  BY <1>1, <1>2 DEF Deadline!EarliestIsMinimum, Deadline!IsArmed
<1>4. Deadline!ArmedBelowDisarmed'
  BY <1>1 DEF Deadline!ArmedBelowDisarmed, Deadline!IsArmed
<1> QED
  BY <1>1, <1>2, <1>3, <1>4

\* A table with one budget more, or one replaced, is a table.
LEMMA ArmedSlots ==
  ASSUME Deadline!TypeOK, Deadline!ArmedBelowDisarmed, NEW t \in Deadline!Tokens, NEW instant \in Nat
  PROVE  LET slot == [deadline |-> Deadline!DeadlineMs(instant), parkedAt |-> Deadline!ParkedMs]
             slots == [armed EXCEPT ![t] = slot]
         IN  /\ slot # Deadline!Unarmed
             /\ slots \in Deadline!Slots
             /\ \A u \in Deadline!Tokens : slots[u] # Deadline!Unarmed => slots[u].deadline < DISARMED
<1> DEFINE slot == [deadline |-> Deadline!DeadlineMs(instant), parkedAt |-> Deadline!ParkedMs]
           slots == [armed EXCEPT ![t] = slot]
<1>1. Deadline!DeadlineMs(instant) \in 0..DISARMED /\ Deadline!DeadlineMs(instant) < DISARMED
  BY TimeAssumption DEF Deadline!DeadlineMs
<1>2. Deadline!ParkedMs \in Deadline!Instants
  BY TimeAssumption DEF Deadline!ParkedMs, Deadline!TypeOK, Deadline!Instants
<1>3. slot \in [deadline : 0..DISARMED, parkedAt : Deadline!Instants]
  BY <1>1, <1>2
<1>4. slot.deadline < DISARMED
  BY <1>1
<1>5. slot # Deadline!Unarmed
  BY <1>4, TimeAssumption DEF Deadline!Unarmed
<1>6. slots \in Deadline!Slots
  BY <1>3 DEF Deadline!Slots, Deadline!TypeOK
<1>7. \A u \in Deadline!Tokens : slots[u] # Deadline!Unarmed => slots[u].deadline < DISARMED
  BY <1>4 DEF Deadline!ArmedBelowDisarmed, Deadline!IsArmed, Deadline!TypeOK
<1> QED
  BY <1>5, <1>6, <1>7

\* So is a table with one budget less.
LEMMA DisarmedSlots ==
  ASSUME Deadline!TypeOK, Deadline!ArmedBelowDisarmed, NEW t \in Deadline!Tokens
  PROVE  LET slots == [armed EXCEPT ![t] = Deadline!Unarmed]
         IN  /\ slots \in Deadline!Slots
             /\ \A u \in Deadline!Tokens : slots[u] # Deadline!Unarmed => slots[u].deadline < DISARMED
<1>1. Deadline!Unarmed \in [deadline : 0..DISARMED, parkedAt : Deadline!Instants]
  BY TimeAssumption DEF Deadline!Unarmed, Deadline!Instants
<1> QED
  BY <1>1 DEF Deadline!Slots, Deadline!TypeOK, Deadline!ArmedBelowDisarmed, Deadline!IsArmed

LEMMA DeadlineInitIInv == Deadline!Init => Deadline!IInv
<1> SUFFICES ASSUME Deadline!Init PROVE Deadline!IInv
  OBVIOUS
<1>1. Deadline!TypeOK
  <2>1. /\ Deadline!Unarmed \in [deadline : 0..DISARMED, parkedAt : Deadline!Instants]
        /\ Deadline!Idle \in Deadline!Checks
        /\ 0 \in Deadline!Instants /\ DISARMED \in 0..DISARMED
    BY TimeAssumption DEF Deadline!Instants, Deadline!Unarmed, Deadline!Idle, Deadline!Checks
  <2> QED
    BY <2>1 DEF Deadline!Init, Deadline!TypeOK, Deadline!Checks
<1>2. \A t \in Deadline!Tokens : ~Deadline!IsArmed(t)
  BY DEF Deadline!Init, Deadline!IsArmed
<1>3. Deadline!ArmedOnlyInFlight
  BY <1>2 DEF Deadline!Init, Deadline!ArmedOnlyInFlight, Deadline!Tokens
<1>4. Deadline!EarliestIsMinimum /\ Deadline!ArmedBelowDisarmed
  BY <1>2 DEF Deadline!Init, Deadline!EarliestIsMinimum, Deadline!ArmedBelowDisarmed
<1>5. Deadline!ParkedIsPast /\ Deadline!SnapshotsHold
  BY DEF Deadline!Init, Deadline!ParkedIsPast, Deadline!SnapshotsHold, Deadline!Idle
<1> QED
  BY <1>1, <1>3, <1>4, <1>5 DEF Deadline!IInv

\* The table of budgets is left alone.
LEMMA TableKept ==
  ASSUME Deadline!IInv, UNCHANGED <<stage, started, armed, earliest>>
  PROVE  Deadline!ArmedOnlyInFlight' /\ Deadline!EarliestIsMinimum' /\ Deadline!ArmedBelowDisarmed'
<1>1. Deadline!ArmedOnlyInFlight'
  BY DEF Deadline!IInv, Deadline!ArmedOnlyInFlight, Deadline!IsArmed
<1>2. Deadline!EarliestIsMinimum'
  BY DEF Deadline!IInv, Deadline!EarliestIsMinimum, Deadline!IsArmed
<1>3. Deadline!ArmedBelowDisarmed'
  BY DEF Deadline!IInv, Deadline!ArmedBelowDisarmed, Deadline!IsArmed
<1> QED
  BY <1>1, <1>2, <1>3

\* The clocks go forward together, whether the process is held or not.
LEMMA ClockStepIInv ==
  ASSUME Deadline!IInv, Deadline!Tick \/ Deadline!Hold
  PROVE  Deadline!IInv'
<1>1. Deadline!ArmedOnlyInFlight' /\ Deadline!EarliestIsMinimum' /\ Deadline!ArmedBelowDisarmed'
  <2>1. UNCHANGED <<stage, started, armed, earliest>>
    BY DEF Deadline!Tick, Deadline!Hold, Deadline!stateVars
  <2> QED
    BY <2>1, TableKept
<1>2. Deadline!TypeOK'
  <2>1. holding' \in BOOLEAN /\ neverParks' \in BOOLEAN
    BY DEF Deadline!IInv, Deadline!TypeOK, Deadline!Tick, Deadline!Hold
  <2>2. ticks' \in Deadline!Instants /\ paused' \in Deadline!Instants
    BY TimeAssumption DEF Deadline!IInv, Deadline!TypeOK, Deadline!ParkedIsPast, Deadline!Instants,
      Deadline!Tick, Deadline!Hold
  <2>3. UNCHANGED <<stage, started, Deadline!stateVars, check>>
    BY DEF Deadline!Tick, Deadline!Hold
  <2> QED
    BY <2>1, <2>2, <2>3 DEF Deadline!IInv, Deadline!TypeOK, Deadline!stateVars
<1>3. Deadline!ParkedIsPast'
  BY DEF Deadline!IInv, Deadline!TypeOK, Deadline!Instants, Deadline!ParkedIsPast, Deadline!Tick,
    Deadline!Hold
<1>4. Deadline!SnapshotsHold'
  BY DEF Deadline!IInv, Deadline!TypeOK, Deadline!Instants, Deadline!SnapshotsHold, Deadline!Tick,
    Deadline!Hold
<1> QED
  BY <1>1, <1>2, <1>3, <1>4 DEF Deadline!IInv

\* A step of a run or of the host leaves the clocks and the handler alone.
LEMMA SnapshotsKept ==
  ASSUME Deadline!IInv, UNCHANGED <<Deadline!clockVars, check>>
  PROVE  Deadline!ParkedIsPast' /\ Deadline!SnapshotsHold'
BY DEF Deadline!IInv, Deadline!ParkedIsPast, Deadline!SnapshotsHold, Deadline!clockVars

LEMMA RunStepIInv ==
  ASSUME Deadline!IInv, NEW r \in DeadlineRuns, Deadline!RunStep(r)
  PROVE  Deadline!IInv'
<1>0. r \in Deadline!Tokens /\ Deadline!TypeOK /\ Deadline!ArmedBelowDisarmed
  BY DEF Deadline!Tokens, Deadline!IInv
<1>1. CASE Deadline!Start(r)
  <2>1. UNCHANGED <<Deadline!clockVars, check>>
    BY <1>1 DEF Deadline!Start
  <2>2. Deadline!TypeOK'
    BY <1>1 DEF Deadline!IInv, Deadline!TypeOK, Deadline!Start, Deadline!clockVars, Deadline!stateVars
  <2>3. Deadline!ArmedOnlyInFlight'
    BY <1>1 DEF Deadline!IInv, Deadline!TypeOK, Deadline!ArmedOnlyInFlight, Deadline!IsArmed,
      Deadline!Start, Deadline!stateVars
  <2>4. Deadline!EarliestIsMinimum' /\ Deadline!ArmedBelowDisarmed'
    BY <1>1 DEF Deadline!IInv, Deadline!EarliestIsMinimum, Deadline!ArmedBelowDisarmed, Deadline!IsArmed,
      Deadline!Start, Deadline!stateVars
  <2> QED
    BY <2>1, <2>2, <2>3, <2>4, SnapshotsKept DEF Deadline!IInv
<1>2. ASSUME NEW timeout \in Timeouts, Deadline!Arm(r, timeout) PROVE Deadline!IInv'
  <2> DEFINE slot == [deadline |-> Deadline!DeadlineMs(started[r] + timeout),
                      parkedAt |-> Deadline!ParkedMs]
             slots == [armed EXCEPT ![r] = slot]
  <2>1. started[r] + timeout \in Nat
    BY <1>0, TimeAssumption DEF Deadline!TypeOK, Deadline!Instants
  <2>2. /\ slot # Deadline!Unarmed
        /\ slots \in Deadline!Slots
        /\ \A u \in Deadline!Tokens : slots[u] # Deadline!Unarmed => slots[u].deadline < DISARMED
    BY <1>0, <2>1, ArmedSlots
  <2>3. Deadline!SetArmed(slots) /\ armed' = slots
    BY <1>2 DEF Deadline!Arm, Deadline!SetArmed
  <2> HIDE DEF slot
  <2>4. armed' \in Deadline!Slots /\ earliest' \in 0..DISARMED /\ Deadline!EarliestIsMinimum'
          /\ Deadline!ArmedBelowDisarmed'
    BY <2>2, <2>3, SetArmedKeepsMinimum
  <2>5. Deadline!TypeOK'
    <3>1. started' \in [DeadlineRuns -> Deadline!Instants]
      BY <1>0, <1>2, TimeAssumption DEF Deadline!Arm, Deadline!TypeOK, Deadline!Instants
    <3> QED
      BY <1>0, <1>2, <2>4, <3>1 DEF Deadline!Arm, Deadline!TypeOK, Deadline!Slots, Deadline!clockVars
  <2>6. Deadline!ArmedOnlyInFlight'
    BY <1>0, <1>2, <2>2, <2>3 DEF Deadline!IInv, Deadline!TypeOK, Deadline!ArmedOnlyInFlight,
      Deadline!IsArmed, Deadline!Arm, Deadline!Tokens
  <2> QED
    BY <1>2, <2>4, <2>5, <2>6, SnapshotsKept DEF Deadline!Arm, Deadline!IInv
<1>3. CASE Deadline!Finish(r) \/ Deadline!DropRun(r)
  <2> DEFINE slots == [armed EXCEPT ![r] = Deadline!Unarmed]
  <2>1. /\ slots \in Deadline!Slots
        /\ \A u \in Deadline!Tokens : slots[u] # Deadline!Unarmed => slots[u].deadline < DISARMED
    BY <1>0, DisarmedSlots
  <2>2. Deadline!SetArmed(slots) /\ armed' = slots
    BY <1>3 DEF Deadline!Finish, Deadline!DropRun, Deadline!SetArmed
  <2>3. armed' \in Deadline!Slots /\ earliest' \in 0..DISARMED /\ Deadline!EarliestIsMinimum'
          /\ Deadline!ArmedBelowDisarmed'
    BY <2>1, <2>2, SetArmedKeepsMinimum
  <2>4. UNCHANGED <<Deadline!clockVars, timedOut, check>> /\ cancelled' \in BOOLEAN
    BY <1>0, <1>3 DEF Deadline!Finish, Deadline!DropRun, Deadline!TypeOK
  <2>5. /\ stage' = [stage EXCEPT ![r] = "over"]
        /\ started' = started
    BY <1>3 DEF Deadline!Finish, Deadline!DropRun
  <2>6. Deadline!TypeOK'
    BY <1>0, <2>3, <2>4, <2>5 DEF Deadline!TypeOK, Deadline!Slots, Deadline!clockVars
  <2>7. Deadline!ArmedOnlyInFlight'
    BY <1>0, <2>2, <2>5 DEF Deadline!IInv, Deadline!TypeOK, Deadline!ArmedOnlyInFlight, Deadline!IsArmed,
      Deadline!Tokens
  <2> QED
    BY <2>3, <2>4, <2>6, <2>7, SnapshotsKept DEF Deadline!IInv
<1> QED
  BY <1>1, <1>2, <1>3 DEF Deadline!RunStep

LEMMA HostStepIInv ==
  ASSUME Deadline!IInv, Deadline!DisarmHost \/ \E timeout \in Timeouts : Deadline!ArmHost(timeout)
  PROVE  Deadline!IInv'
<1>0. Host \in Deadline!Tokens /\ Deadline!TypeOK /\ Deadline!ArmedBelowDisarmed
  BY DEF Deadline!Tokens, Deadline!IInv
<1>1. ASSUME NEW slots \in Deadline!Slots,
             \A u \in Deadline!Tokens : slots[u] # Deadline!Unarmed => slots[u].deadline < DISARMED,
             \A r \in DeadlineRuns : slots[r] = armed[r],
             Deadline!SetArmed(slots),
             UNCHANGED <<Deadline!clockVars, stage, started, cancelled, timedOut, check>>
      PROVE  Deadline!IInv'
  <2>1. armed' \in Deadline!Slots /\ earliest' \in 0..DISARMED /\ Deadline!EarliestIsMinimum'
          /\ Deadline!ArmedBelowDisarmed'
    BY <1>1, SetArmedKeepsMinimum
  <2>2. Deadline!TypeOK'
    BY <1>0, <1>1, <2>1 DEF Deadline!TypeOK, Deadline!Slots, Deadline!clockVars
  <2>3. Deadline!ArmedOnlyInFlight'
    BY <1>1 DEF Deadline!IInv, Deadline!ArmedOnlyInFlight, Deadline!IsArmed, Deadline!SetArmed
  <2> QED
    BY <1>1, <2>1, <2>2, <2>3, SnapshotsKept DEF Deadline!IInv
<1>2. CASE Deadline!DisarmHost
  <2> DEFINE slots == [armed EXCEPT ![Host] = Deadline!Unarmed]
  <2>1. /\ slots \in Deadline!Slots
        /\ \A u \in Deadline!Tokens : slots[u] # Deadline!Unarmed => slots[u].deadline < DISARMED
    BY <1>0, DisarmedSlots
  <2>2. \A r \in DeadlineRuns : slots[r] = armed[r]
    BY <1>0, HostAssumption DEF Deadline!TypeOK, Deadline!Tokens
  <2> QED
    BY <1>1, <1>2, <2>1, <2>2 DEF Deadline!DisarmHost
<1>3. ASSUME NEW timeout \in Timeouts, Deadline!ArmHost(timeout) PROVE Deadline!IInv'
  <2> DEFINE slots == [armed EXCEPT ![Host] =
               [deadline |-> Deadline!DeadlineMs(ticks + timeout), parkedAt |-> Deadline!ParkedMs]]
  <2>1. ticks + timeout \in Nat
    BY <1>0, TimeAssumption DEF Deadline!TypeOK, Deadline!Instants
  <2>2. /\ slots \in Deadline!Slots
        /\ \A u \in Deadline!Tokens : slots[u] # Deadline!Unarmed => slots[u].deadline < DISARMED
    BY <1>0, <2>1, ArmedSlots
  <2>3. \A r \in DeadlineRuns : slots[r] = armed[r]
    BY <1>0, HostAssumption DEF Deadline!TypeOK, Deadline!Tokens
  <2> QED
    BY <1>1, <1>3, <2>2, <2>3 DEF Deadline!ArmHost
<1> QED
  BY <1>2, <1>3

\* The handler changes nothing but its own snapshots and timed_out.
LEMMA CheckIInv ==
  ASSUME Deadline!IInv, Deadline!Check
  PROVE  Deadline!IInv'
<1>0. Deadline!TypeOK
  BY DEF Deadline!IInv
<1>1. UNCHANGED <<Deadline!clockVars, stage, started, armed, earliest, cancelled>>
  BY DEF Deadline!Check, Deadline!CheckCancelled, Deadline!CheckMinimum, Deadline!CheckElapsed,
    Deadline!CheckParked, Deadline!CheckScan, Deadline!stateVars
<1>2. Deadline!ArmedOnlyInFlight' /\ Deadline!EarliestIsMinimum' /\ Deadline!ArmedBelowDisarmed'
  BY <1>1, TableKept
<1>3. Deadline!ParkedIsPast'
  BY <1>1 DEF Deadline!IInv, Deadline!ParkedIsPast, Deadline!clockVars
<1>4. Deadline!Idle \in Deadline!Checks /\ check \in Deadline!Checks
  BY <1>0, TimeAssumption DEF Deadline!Idle, Deadline!Instants, Deadline!Checks, Deadline!TypeOK
<1>5. Deadline!ParkedMs \in Deadline!Instants /\ Deadline!ParkedMs <= paused
  BY <1>0, TimeAssumption DEF Deadline!ParkedMs, Deadline!TypeOK, Deadline!Instants
<1>6. check' \in Deadline!Checks /\ timedOut' \in BOOLEAN /\ Deadline!SnapshotsHold'
  <2>1. CASE Deadline!CheckCancelled
    <3>1. \/ check' = Deadline!Idle /\ timedOut' = TRUE
          \/ check' = [check EXCEPT !.at = "minimum"] /\ timedOut' = timedOut
      BY <2>1 DEF Deadline!CheckCancelled, Deadline!Halt
    <3> QED
      BY <1>0, <1>4, <3>1 DEF Deadline!Idle, Deadline!Checks, Deadline!SnapshotsHold, Deadline!TypeOK
  <2>2. CASE Deadline!CheckMinimum
    <3>1. /\ timedOut' = timedOut
          /\ \/ check' = Deadline!Idle
             \/ check' = [check EXCEPT !.at = "elapsed", !.earliest = earliest]
      BY <2>2 DEF Deadline!CheckMinimum, Deadline!stateVars
    <3> QED
      BY <1>0, <1>4, <3>1 DEF Deadline!Idle, Deadline!Checks, Deadline!SnapshotsHold, Deadline!TypeOK
  <2>3. CASE Deadline!CheckElapsed
    <3>1. /\ timedOut' = timedOut \/ timedOut' = TRUE
          /\ \/ check' = Deadline!Idle
             \/ ~neverParks /\ check' = [check EXCEPT !.at = "parked", !.elapsed = ticks]
      BY <2>3 DEF Deadline!CheckElapsed, Deadline!Halt
    <3>2. /\ ticks \in Deadline!Instants /\ ticks \in Int /\ ticks' = ticks
          /\ neverParks' = neverParks /\ timedOut \in BOOLEAN
      BY <1>0, <1>1, TimeAssumption DEF Deadline!TypeOK, Deadline!Instants, Deadline!clockVars
    <3>3. CASE check' = Deadline!Idle
      BY <1>4, <3>1, <3>2, <3>3 DEF Deadline!Idle, Deadline!SnapshotsHold
    <3>4. CASE ~neverParks /\ check' = [check EXCEPT !.at = "parked", !.elapsed = ticks]
      <4>1. check' \in Deadline!Checks
        BY <1>4, <3>2, <3>4 DEF Deadline!Checks
      <4>2. check'.at = "parked" /\ check'.elapsed = ticks
        BY <1>4, <3>4 DEF Deadline!Checks
      <4>3. Deadline!SnapshotsHold'
        BY <3>2, <3>4, <4>2 DEF Deadline!SnapshotsHold
      <4> QED
        BY <3>1, <3>2, <4>1, <4>3
    <3> QED
      BY <3>1, <3>3, <3>4
  <2>4. CASE Deadline!CheckParked
    <3>1. /\ timedOut' = timedOut
          /\ check.at = "parked"
          /\ check' = [check EXCEPT !.at = "scan", !.parked = Deadline!ParkedMs]
      BY <2>4 DEF Deadline!CheckParked, Deadline!stateVars
    <3>2. check' \in Deadline!Checks
      BY <1>4, <1>5, <3>1 DEF Deadline!Checks
    <3>3. check'.at = "scan" /\ check'.elapsed = check.elapsed /\ check'.parked = Deadline!ParkedMs
      BY <1>4, <3>1 DEF Deadline!Checks
    <3>4. ~neverParks /\ check.elapsed <= ticks /\ Deadline!ParkedMs = paused
      BY <3>1 DEF Deadline!IInv, Deadline!SnapshotsHold, Deadline!ParkedMs
    <3>5. /\ ticks \in Int /\ paused \in Int /\ check.elapsed \in Int
          /\ ticks' = ticks /\ paused' = paused /\ neverParks' = neverParks
      BY <1>0, <1>1, TimeAssumption DEF Deadline!TypeOK, Deadline!Instants, Deadline!clockVars
    <3>6. check.elapsed - paused <= ticks - paused
      BY <3>4, <3>5
    <3>7. Deadline!SnapshotsHold'
      BY <3>3, <3>4, <3>5, <3>6 DEF Deadline!SnapshotsHold
    <3> QED
      BY <1>0, <3>1, <3>2, <3>7 DEF Deadline!TypeOK
  <2>5. CASE Deadline!CheckScan
    <3>1. /\ timedOut' = timedOut \/ timedOut' = TRUE
          /\ check' = Deadline!Idle
      BY <2>5 DEF Deadline!CheckScan, Deadline!Halt
    <3> QED
      BY <1>0, <1>4, <3>1 DEF Deadline!Idle, Deadline!SnapshotsHold, Deadline!TypeOK
  <2> QED
    BY <2>1, <2>2, <2>3, <2>4, <2>5 DEF Deadline!Check
<1>7. Deadline!TypeOK'
  BY <1>0, <1>1, <1>6 DEF Deadline!TypeOK, Deadline!Checks, Deadline!clockVars
<1> QED
  BY <1>2, <1>3, <1>6, <1>7 DEF Deadline!IInv

LEMMA DeadlineNextIInv == Deadline!IInv /\ [Deadline!Next]_(Deadline!vars) => Deadline!IInv'
<1> SUFFICES ASSUME Deadline!IInv, [Deadline!Next]_(Deadline!vars) PROVE Deadline!IInv'
  OBVIOUS
<1>1. CASE UNCHANGED Deadline!vars
  <2>1. UNCHANGED <<stage, started, armed, earliest, cancelled, timedOut, check, Deadline!clockVars>>
    BY <1>1 DEF Deadline!vars, Deadline!stateVars
  <2>2. Deadline!TypeOK'
    BY <2>1 DEF Deadline!IInv, Deadline!TypeOK, Deadline!clockVars
  <2> QED
    BY <2>1, <2>2, TableKept, SnapshotsKept DEF Deadline!IInv
<1>2. CASE Deadline!Next
  BY <1>2, ClockStepIInv, RunStepIInv, HostStepIInv, CheckIInv DEF Deadline!Next
<1> QED
  BY <1>1, <1>2

THEOREM DeadlineIInvCorrect == Deadline!Spec => []Deadline!IInv
BY DeadlineInitIInv, DeadlineNextIInv, PTL DEF Deadline!Spec

\* The types of the deadline state (TimeoutState), its clamping included.
THEOREM DeadlineTypesCorrect == Deadline!Spec => []Deadline!TypeOK
<1>1. Deadline!IInv => Deadline!TypeOK
  BY DEF Deadline!IInv
<1> QED
  BY <1>1, DeadlineIInvCorrect, PTL

\* The handler's one-load fast path is sound: the cached minimum is the minimum of
\* what is armed after every arm, re-arm and disarm.
THEOREM FastPathSound == Deadline!Spec => []Deadline!EarliestIsMinimum
<1>1. Deadline!IInv => Deadline!EarliestIsMinimum
  BY DEF Deadline!IInv
<1> QED
  BY <1>1, DeadlineIInvCorrect, PTL

\* No run leaves its deadline armed behind it.
THEOREM NothingArmedBetweenRuns == Deadline!Spec => []Deadline!ArmedOnlyInFlight
<1>1. Deadline!IInv => Deadline!ArmedOnlyInFlight
  BY DEF Deadline!IInv
<1> QED
  BY <1>1, DeadlineIInvCorrect, PTL

\* With a pause clock, what the handler finds overrun is due: the time its
\* snapshots are old can only have given a budget less back than it is owed.
LEMMA OverrunIsDue ==
  ASSUME Deadline!IInv, check.at = "scan", Deadline!Overrun(check.elapsed, check.parked)
  PROVE  \E t \in Deadline!Tokens : Deadline!Due(t)
<1>1. PICK t \in Deadline!Tokens :
        /\ Deadline!IsArmed(t)
        /\ check.elapsed >= Deadline!GivenBack(armed[t].deadline,
                                      Deadline!SaturatingSub(check.parked, armed[t].parkedAt))
  BY DEF Deadline!Overrun
<1> DEFINE e == check.elapsed
           p == check.parked
           d == armed[t].deadline
           a == armed[t].parkedAt
<1>2. e \in Int /\ p \in Int /\ d \in Int /\ a \in Int /\ ticks \in Int /\ paused \in Int
  BY TimeAssumption DEF Deadline!IInv, Deadline!TypeOK, Deadline!Instants
<1>3. e <= DeadlineTime /\ DeadlineTime < DISARMED /\ DISARMED \in Int /\ DeadlineTime \in Int
  BY TimeAssumption DEF Deadline!IInv, Deadline!TypeOK, Deadline!Instants
<1>4. e - p <= ticks - paused /\ e <= ticks
  BY DEF Deadline!IInv, Deadline!SnapshotsHold
<1>5. e >= Deadline!GivenBack(d, Deadline!SaturatingSub(p, a))
  BY <1>1
<1> HIDE DEF e, p, d, a
<1>6. e >= d + Deadline!SaturatingSub(p, a)
  BY <1>2, <1>3, <1>5 DEF Deadline!GivenBack, Deadline!SaturatingSub
<1>7. ticks - (paused - a) >= d
  BY <1>2, <1>4, <1>6 DEF Deadline!SaturatingSub
<1> QED
  BY <1>1, <1>7 DEF Deadline!Due, d, a

\* A host with a debugger: JavaScript is force-halted only for a dropped run or a
\* budget that is armed and ran out, however long the process was held.  (Of the
\* default clock it is not true: nothing checks the minimum again.)
THEOREM HaltJustified == Deadline!Spec => HaltedOnlyWhenDue
<1>1. Deadline!IInv /\ [Deadline!Next]_(Deadline!vars) =>
        [~neverParks /\ timedOut' /\ ~timedOut =>
           cancelled \/ \E t \in Deadline!Tokens : Deadline!Due(t)]_(Deadline!vars)
  <2> SUFFICES ASSUME Deadline!IInv, Deadline!Next, ~neverParks, timedOut', ~timedOut, ~cancelled
               PROVE  \E t \in Deadline!Tokens : Deadline!Due(t)
    BY DEF Deadline!vars
  <2>1. ~(Deadline!Tick \/ Deadline!Hold \/ Deadline!DisarmHost)
    BY DEF Deadline!Tick, Deadline!Hold, Deadline!DisarmHost, Deadline!stateVars
  <2>2. ~\E timeout \in Timeouts : Deadline!ArmHost(timeout)
    BY DEF Deadline!ArmHost
  <2>3. ~\E r \in DeadlineRuns : Deadline!RunStep(r)
    BY DEF Deadline!RunStep, Deadline!Start, Deadline!Arm, Deadline!Finish, Deadline!DropRun,
      Deadline!stateVars
  <2>4. Deadline!Check
    BY <2>1, <2>2, <2>3 DEF Deadline!Next
  <2>5. Deadline!CheckScan
    BY <2>4 DEF Deadline!Check, Deadline!CheckCancelled, Deadline!CheckMinimum, Deadline!CheckElapsed,
      Deadline!CheckParked, Deadline!stateVars
  <2>6. check.at = "scan" /\ Deadline!Overrun(check.elapsed, check.parked)
    BY <2>5 DEF Deadline!CheckScan
  <2> QED
    BY <2>6, OverrunIsDue
<1> QED
  BY <1>1, DeadlineIInvCorrect, PTL DEF Deadline!Spec, HaltedOnlyWhenDue, Deadline!HaltedOnlyWhenDue

\* Budgets and minimum agree in every state (TimeoutState).
THEOREM BudgetsExact == Deadline!Spec => []BudgetsAreExact
BY DeadlineTypesCorrect, FastPathSound, NothingArmedBetweenRuns, PTL DEF BudgetsAreExact, Deadline!BudgetsAreExact
===============================================================================
