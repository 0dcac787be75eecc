------------------------------- MODULE Backstop --------------------------------
(***************************************************************************)
(* The backstop of a run (Budget in crates/ferrijs/src/limits.rs, Parked   *)
(* in crates/ferrijs/src/vm.rs): the caller's task waits for its job with  *)
(* no timer at all until the job parks on something outside the VM, then   *)
(* sleeps on a deadline that moves while the host holds the process.       *)
(*                                                                         *)
(* The job raises its signal on the VM's thread; the caller's task is      *)
(* polled on another.  A waker that fires while its task is being polled   *)
(* has the task polled again, which is what `notified` keeps.              *)
(***************************************************************************)
EXTENDS Integers

CONSTANTS
  Runs,         \* The runs of the realm
  MaxTime,      \* Bound on the clock
  Limits,       \* Timeout plus Limits::backstop_grace, for each kind of run
  NeverParks    \* PauseClock::never_parks

VARIABLES
  now,       \* The clock
  parked,    \* PauseClock::parked_now
  held,      \* Whether the host holds the process stopped
  task,      \* Where the caller's task is
  budget,    \* Budget: its limit, when it started, what the pause clock read
  wake,      \* When the timer fires
  notified,  \* Whether the task is due another poll
  raised,    \* Parked::parked
  waker,     \* Whether Parked::waker holds the task's waker
  job        \* Where the run's job is, on the VM

clockVars == <<now, parked, held>>
vars == <<clockVars, task, budget, wake, notified, raised, waker, job>>

NoBudget == [limit |-> 0, started |-> 0, parkedBefore |-> 0]

SaturatingSub(a, b) == IF a > b THEN a - b ELSE 0

ParkedNow == IF NeverParks THEN 0 ELSE parked

\* deadline_now, or the fixed deadline of a clock that never parks.
DeadlineNow(r) ==
  budget[r].started + budget[r].limit + SaturatingSub(ParkedNow, budget[r].parkedBefore)

Init ==
  /\ now = 0 /\ parked = 0 /\ held = FALSE
  /\ task = [r \in Runs |-> "new"]
  /\ budget = [r \in Runs |-> NoBudget]
  /\ wake = [r \in Runs |-> 0]
  /\ notified = [r \in Runs |-> FALSE]
  /\ raised = [r \in Runs |-> FALSE]
  /\ waker = [r \in Runs |-> FALSE]
  /\ job = [r \in Runs |-> "none"]

Tick ==
  /\ now < MaxTime
  /\ now' = now + 1
  /\ parked' = IF held THEN parked + 1 ELSE parked
  /\ UNCHANGED <<held, task, budget, wake, notified, raised, waker, job>>

Hold ==
  /\ ~NeverParks
  /\ held' = ~held
  /\ UNCHANGED <<now, parked, task, budget, wake, notified, raised, waker, job>>

-------------------------------------------------------------------------------
(* The job, on the VM's thread *)

JobParks(r) ==
  /\ job[r] = "submitted"
  /\ job' = [job EXCEPT ![r] = "raising"]
  /\ raised' = [raised EXCEPT ![r] = TRUE]
  /\ UNCHANGED <<clockVars, task, budget, wake, notified, waker>>

\* The second half of raise: whoever registered is woken.
JobWakes(r) ==
  /\ job[r] = "raising"
  /\ job' = [job EXCEPT ![r] = "parked"]
  /\ notified' = [notified EXCEPT ![r] = @ \/ waker[r]]
  /\ waker' = [waker EXCEPT ![r] = FALSE]
  /\ UNCHANGED <<clockVars, task, budget, wake, raised>>

\* Variant: the reply wakes nobody.
JobFinishes_Silent(r) ==
  /\ job[r] \in {"submitted", "parked"}
  /\ job' = [job EXCEPT ![r] = "finished"]
  /\ UNCHANGED <<clockVars, task, budget, wake, notified, raised, waker>>

\* The reply is sent, which wakes the task that awaits it.
JobFinishes(r) ==
  /\ job[r] \in {"submitted", "parked"}
  /\ job' = [job EXCEPT ![r] = "finished"]
  /\ notified' = [notified EXCEPT ![r] = TRUE]
  /\ UNCHANGED <<clockVars, task, budget, wake, raised, waker>>

-------------------------------------------------------------------------------
(* The caller's task *)

\* Runtime::run read its start; the budget is made once the limits are applied.
Start(r) ==
  /\ task[r] = "new"
  /\ task' = [task EXCEPT ![r] = "started"]
  /\ budget' = [budget EXCEPT ![r].started = now]
  /\ UNCHANGED <<clockVars, wake, notified, raised, waker, job>>

\* Variant: what the pause clock read is kept relative to the run's start.
Begin_RelativeToStart(r, limit) ==
  /\ task[r] = "started"
  /\ task' = [task EXCEPT ![r] = "polling"]
  /\ budget' = [budget EXCEPT ![r].limit = limit,
                              ![r].parkedBefore = ParkedNow - budget[r].started]
  /\ job' = [job EXCEPT ![r] = "submitted"]
  /\ UNCHANGED <<clockVars, wake, notified, raised, waker>>

\* Budget::starting_at, and the first poll of run_once_parked.
Begin(r, limit) ==
  /\ task[r] = "started"
  /\ task' = [task EXCEPT ![r] = "polling"]
  /\ budget' = [budget EXCEPT ![r].limit = limit, ![r].parkedBefore = ParkedNow]
  /\ job' = [job EXCEPT ![r] = "submitted"]
  /\ UNCHANGED <<clockVars, wake, notified, raised, waker>>

PollFuture(r) ==
  /\ task[r] = "polling"
  /\ task' = [task EXCEPT ![r] = IF job[r] = "finished" THEN "finished" ELSE "registering"]
  /\ UNCHANGED <<clockVars, budget, wake, notified, raised, waker, job>>

\* Variant: the signal is only looked at, and the waker never registered.
Register_Skipped(r) ==
  /\ task[r] = "registering"
  /\ task' = [task EXCEPT ![r] = "loading"]
  /\ UNCHANGED <<clockVars, budget, wake, notified, raised, waker, job>>

\* poll_parked: first the waker ...
Register(r) ==
  /\ task[r] = "registering"
  /\ task' = [task EXCEPT ![r] = "loading"]
  /\ waker' = [waker EXCEPT ![r] = TRUE]
  /\ UNCHANGED <<clockVars, budget, wake, notified, raised, job>>

\* ... then the signal.
Load(r) ==
  /\ task[r] = "loading"
  /\ IF raised[r]
     THEN /\ task' = [task EXCEPT ![r] = "timing"]
          /\ wake' = [wake EXCEPT ![r] = DeadlineNow(r)]
     ELSE /\ task' = [task EXCEPT ![r] = "asleep"]
          /\ UNCHANGED wake
  /\ UNCHANGED <<clockVars, budget, notified, raised, waker, job>>

Repoll(r) ==
  /\ task[r] = "asleep"
  /\ notified[r]
  /\ task' = [task EXCEPT ![r] = "polling"]
  /\ notified' = [notified EXCEPT ![r] = FALSE]
  /\ UNCHANGED <<clockVars, budget, wake, raised, waker, job>>

\* The select of run_until: the job's reply ...
Reply(r) ==
  /\ task[r] = "timing"
  /\ job[r] = "finished"
  /\ task' = [task EXCEPT ![r] = "finished"]
  /\ UNCHANGED <<clockVars, budget, wake, notified, raised, waker, job>>

\* ... or the end of the sleep, when the deadline may have moved: sleep again.
Resleep(r) ==
  /\ task[r] = "timing"
  /\ now >= wake[r]
  /\ now < DeadlineNow(r)
  /\ wake' = [wake EXCEPT ![r] = DeadlineNow(r)]
  /\ UNCHANGED <<clockVars, task, budget, notified, raised, waker, job>>

\* Variant: the deadline is not derived again when the sleep ends.
GiveUp_NoRecheck(r) ==
  /\ task[r] = "timing"
  /\ now >= wake[r]
  /\ task' = [task EXCEPT ![r] = "timedout"]
  /\ UNCHANGED <<clockVars, budget, wake, notified, raised, waker, job>>

\* Variant: a sleep that ends past its deadline is slept again.
GiveUp_Exact(r) ==
  /\ task[r] = "timing"
  /\ now = DeadlineNow(r)
  /\ task' = [task EXCEPT ![r] = "timedout"]
  /\ UNCHANGED <<clockVars, budget, wake, notified, raised, waker, job>>

GiveUp(r) ==
  /\ task[r] = "timing"
  /\ now >= wake[r]
  /\ now >= DeadlineNow(r)
  /\ task' = [task EXCEPT ![r] = "timedout"]
  /\ UNCHANGED <<clockVars, budget, wake, notified, raised, waker, job>>

TaskStep(r) ==
  \/ PollFuture(r) \/ Register(r) \/ Load(r) \/ Repoll(r)
  \/ Reply(r) \/ Resleep(r) \/ GiveUp(r)

Next ==
  \/ Tick \/ Hold
  \/ \E r \in Runs :
       \/ JobParks(r) \/ JobWakes(r) \/ JobFinishes(r)
       \/ Start(r) \/ TaskStep(r)
       \/ \E limit \in Limits : Begin(r, limit)

Spec == Init /\ [][Next]_vars

\* A woken task is polled, a timer that is due fires, and the VM's thread goes
\* from raising the signal to waking; whether a job parks, finishes or neither
\* is its own affair, and so is the clock.
FairSpec ==
  /\ Spec
  /\ \A r \in Runs : WF_vars(TaskStep(r)) /\ WF_vars(JobWakes(r))

-------------------------------------------------------------------------------
(* Properties *)

TypeOK ==
  /\ now \in 0..MaxTime
  /\ parked \in 0..MaxTime
  /\ held \in BOOLEAN
  /\ task \in [Runs -> {"new", "started", "polling", "registering", "loading",
                        "asleep", "timing", "finished", "timedout"}]
  /\ budget \in [Runs -> [limit : Nat, started : 0..MaxTime, parkedBefore : 0..MaxTime]]
  /\ wake \in [Runs -> Nat]
  /\ notified \in [Runs -> BOOLEAN]
  /\ raised \in [Runs -> BOOLEAN]
  /\ waker \in [Runs -> BOOLEAN]
  /\ job \in [Runs -> {"none", "submitted", "raising", "parked", "finished"}]

\* A task asleep on an untimed wait has someone left to wake it: its waker is
\* registered, or the wake is already on its way.  This is what lets the timer
\* be left out until the job parks.
AsleepIsWakeable ==
  \A r \in Runs :
    task[r] = "asleep" => notified[r] \/ (waker[r] /\ (raised[r] => job[r] = "raising"))

\* A run is given up only when its job parked and it had its whole limit, not
\* counting what the process was held for since its budget was made.
GivenUpOnlyWhenDue ==
  \A r \in Runs :
    task[r] = "timedout" =>
      /\ raised[r]
      /\ now - (ParkedNow - budget[r].parkedBefore) >= budget[r].started + budget[r].limit

\* A run parked for ever on a native await is given up.
ParkedRunIsGivenUp ==
  \A r \in Runs :
    job[r] = "parked" /\ task[r] # "started" /\ now >= DeadlineNow(r)
      ~> task[r] \in {"finished", "timedout"} \/ now < DeadlineNow(r)

\* A job that finishes is heard, parked or not.
FinishedJobIsHeard ==
  \A r \in Runs : job[r] = "finished" ~> task[r] \in {"finished", "timedout"}

\* The caller's task sleeps safely and gives up rightly (run_until, poll_parked).
GivenUpRightly == TypeOK /\ AsleepIsWakeable /\ GivenUpOnlyWhenDue

\* The caller's task answers in the end (run_until).
BackstopAnswers == ParkedRunIsGivenUp /\ FinishedJobIsHeard

-------------------------------------------------------------------------------
(* The inductive invariant, for every set of runs; the proofs are in       *)
(* MCHost.                                                                 *)
(*                                                                         *)
(* A waker once registered stays until a wake is on its way, which is what *)
(* closes the gap between the register and the load of poll_parked.  The   *)
(* pause clock never reads less than it did when the budget was made, and  *)
(* never gains on the clock.                                               *)

LoadingIsWakeable ==
  \A r \in Runs : task[r] = "loading" => notified[r] \/ waker[r]

RaisedByItsJob ==
  \A r \in Runs :
    /\ task[r] \in {"timing", "timedout"} => raised[r]
    /\ job[r] \in {"none", "submitted"} => ~raised[r]
    /\ task[r] \in {"new", "started"} <=> job[r] = "none"

PauseClockRunsSlow ==
  /\ parked <= now
  /\ \A r \in Runs : budget[r].parkedBefore <= ParkedNow

IInv ==
  /\ GivenUpRightly
  /\ LoadingIsWakeable
  /\ RaisedByItsJob
  /\ PauseClockRunsSlow
===============================================================================
