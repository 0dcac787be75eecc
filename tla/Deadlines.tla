------------------------------- MODULE Deadlines -------------------------------
(***************************************************************************)
(* The deadlines of a realm (crates/ferrijs/src/limits.rs): the budgets    *)
(* armed by overlapping runs and by the host, the cached minimum of their  *)
(* deadlines, and the interrupt handler that reads it while JavaScript     *)
(* runs.  Time is counted in ticks; a PauseClock reports the ticks the     *)
(* host held the process stopped.                                          *)
(*                                                                         *)
(* Runs and the host arm and disarm from their own threads.  The handler   *)
(* runs on the VM's thread and is modelled load by load.                   *)
(***************************************************************************)
EXTENDS Integers

CONSTANTS
  Runs,         \* The runs of the realm, each armed once at most
  Host,         \* The token of the host's slot, HOST_TOKEN, which is no run's
  DISARMED,     \* u64::MAX, above every time there is
  MaxTime,      \* Bound on the clock
  Timeouts      \* The timeouts a run or the host may ask for

VARIABLES
  neverParks, \* PauseClock::never_parks, the host's for the realm's lifetime
  now,        \* Ticks since the epoch
  parked,     \* PauseClock::parked_now
  held,       \* Whether the host holds the process stopped
  phase,      \* Where each run is in the run bracket
  started,    \* When each run started, until its deadline is armed
  armed,      \* TimeoutState::armed, by token
  earliest,   \* TimeoutState::earliest_ms
  cancelled,  \* TimeoutState::cancelled
  timedOut,   \* TimeoutState::timed_out
  check       \* The interrupt handler on the VM's thread

clockVars == <<neverParks, now, parked, held>>
stateVars == <<armed, earliest, cancelled, timedOut>>
vars == <<clockVars, phase, started, stateVars, check>>

Tokens == Runs \cup {Host}

Unarmed == [deadline |-> DISARMED, parkedAt |-> 0]
IsArmed(t) == armed[t] # Unarmed

Idle == [at |-> "idle", earliest |-> 0, elapsed |-> 0, parked |-> 0]

Least(S) == CHOOSE x \in S : \A y \in S : x <= y

\* Variant: the deadline is not clamped.
DeadlineMs_Unclamped(t) == t

\* deadline_ms: clamped below the value that means "nothing armed".
DeadlineMs(t) == IF t < DISARMED - 1 THEN t ELSE DISARMED - 1

\* parked_ms: a clock that never parks is not consulted.
ParkedMs == IF neverParks THEN 0 ELSE parked

SaturatingSub(a, b) == IF a > b THEN a - b ELSE 0

\* saturating_add of a deadline.
GivenBack(d, p) == IF d + p < DISARMED THEN d + p ELSE DISARMED

\* recompute: the cached minimum of what is armed.
Recomputed(slots) ==
  LET deadlines == {slots[t].deadline : t \in {u \in Tokens : slots[u] # Unarmed}}
  IN IF deadlines = {} THEN DISARMED ELSE Least(deadlines)

Init ==
  /\ neverParks \in BOOLEAN
  /\ now = 0 /\ parked = 0 /\ held = FALSE
  /\ phase = [r \in Runs |-> "new"]
  /\ started = [r \in Runs |-> 0]
  /\ armed = [t \in Tokens |-> Unarmed]
  /\ earliest = DISARMED
  /\ cancelled = FALSE
  /\ timedOut = FALSE
  /\ check = Idle

-------------------------------------------------------------------------------
(* The clocks *)

Tick ==
  /\ now < MaxTime
  /\ now' = now + 1
  /\ parked' = IF held THEN parked + 1 ELSE parked
  /\ UNCHANGED <<neverParks, held, phase, started, stateVars, check>>

Hold ==
  /\ ~neverParks
  /\ held' = ~held
  /\ UNCHANGED <<neverParks, now, parked, phase, started, stateVars, check>>

-------------------------------------------------------------------------------
(* Runs and the host *)

SetArmed(slots) ==
  /\ armed' = slots
  /\ earliest' = Recomputed(slots)

\* The top of Runtime::run; the limits are applied before the budget is armed.
Start(r) ==
  /\ phase[r] = "new"
  /\ phase' = [phase EXCEPT ![r] = "started"]
  /\ started' = [started EXCEPT ![r] = now]
  /\ UNCHANGED <<clockVars, stateVars, check>>

\* timeout.arm(started + timeout).
Arm(r, timeout) ==
  /\ phase[r] = "started"
  /\ phase' = [phase EXCEPT ![r] = "running"]
  /\ started' = [started EXCEPT ![r] = 0]
  /\ SetArmed([armed EXCEPT ![r] =
       [deadline |-> DeadlineMs(started[r] + timeout), parkedAt |-> ParkedMs]])
  /\ UNCHANGED <<clockVars, cancelled, timedOut, check>>

\* Variant: a run that finishes keeps its budget armed.
Finish_LeavesArmed(r) ==
  /\ phase[r] = "running"
  /\ phase' = [phase EXCEPT ![r] = "over"]
  /\ UNCHANGED <<clockVars, started, stateVars, check>>

\* The job finished, was halted or was given up: the guard is disarmed.
Finish(r) ==
  /\ phase[r] = "running"
  /\ phase' = [phase EXCEPT ![r] = "over"]
  /\ SetArmed([armed EXCEPT ![r] = Unarmed])
  /\ UNCHANGED <<clockVars, started, cancelled, timedOut, check>>

\* The host drops the run: RunGuard::drop.
DropRun(r) ==
  /\ phase[r] = "running"
  /\ phase' = [phase EXCEPT ![r] = "over"]
  /\ cancelled' = TRUE
  /\ SetArmed([armed EXCEPT ![r] = Unarmed])
  /\ UNCHANGED <<clockVars, started, timedOut, check>>

\* Deadline::arm, replacing what the host had armed before.
ArmHost(timeout) ==
  /\ SetArmed([armed EXCEPT ![Host] =
       [deadline |-> DeadlineMs(now + timeout), parkedAt |-> ParkedMs]])
  /\ UNCHANGED <<clockVars, phase, started, cancelled, timedOut, check>>

\* Variant: disarming the slot leaves the cached minimum.
DisarmHost_KeepsMinimum ==
  /\ armed' = [armed EXCEPT ![Host] = Unarmed]
  /\ UNCHANGED <<clockVars, phase, started, earliest, cancelled, timedOut, check>>

DisarmHost ==
  /\ SetArmed([armed EXCEPT ![Host] = Unarmed])
  /\ UNCHANGED <<clockVars, phase, started, cancelled, timedOut, check>>

-------------------------------------------------------------------------------
(* The interrupt handler, on the VM's thread *)

\* The handler's own store, before the interpreter is stopped.
Halt ==
  /\ timedOut' = TRUE
  /\ check' = Idle

\* Variant: the flag a dropped run leaves is not looked at.
CheckCancelled_Ignored ==
  /\ check.at = "idle"
  /\ check' = [check EXCEPT !.at = "minimum"]
  /\ UNCHANGED <<clockVars, phase, started, stateVars>>

CheckCancelled ==
  /\ check.at = "idle"
  /\ IF cancelled
     THEN Halt
     ELSE /\ check' = [check EXCEPT !.at = "minimum"]
          /\ UNCHANGED timedOut
  /\ UNCHANGED <<clockVars, phase, started, armed, earliest, cancelled>>

CheckMinimum ==
  /\ check.at = "minimum"
  /\ check' = IF earliest = DISARMED THEN Idle
              ELSE [check EXCEPT !.at = "elapsed", !.earliest = earliest]
  /\ UNCHANGED <<clockVars, phase, started, stateVars>>

CheckElapsed ==
  /\ check.at = "elapsed"
  /\ \/ /\ now < check.earliest
        /\ check' = Idle
        /\ UNCHANGED timedOut
     \/ /\ now >= check.earliest
        /\ neverParks
        /\ Halt
     \/ /\ now >= check.earliest
        /\ ~neverParks
        /\ check' = [check EXCEPT !.at = "parked", !.elapsed = now]
        /\ UNCHANGED timedOut
  /\ UNCHANGED <<clockVars, phase, started, armed, earliest, cancelled>>

CheckParked ==
  /\ check.at = "parked"
  /\ check' = [check EXCEPT !.at = "scan", !.parked = ParkedMs]
  /\ UNCHANGED <<clockVars, phase, started, stateVars>>

\* Variant: the time a host held the process is not given back.
Overrun_CountsParked(elapsed, parkedNow) ==
  \E t \in Tokens : IsArmed(t) /\ elapsed >= armed[t].deadline

\* Variant: every armed budget has to be due.
Overrun_All(elapsed, parkedNow) ==
  \A t \in Tokens : IsArmed(t) =>
    elapsed >= GivenBack(armed[t].deadline, SaturatingSub(parkedNow, armed[t].parkedAt))

\* The parked-time correction: every armed budget against what it was given back.
Overrun(elapsed, parkedNow) ==
  \E t \in Tokens :
    /\ IsArmed(t)
    /\ elapsed >= GivenBack(armed[t].deadline, SaturatingSub(parkedNow, armed[t].parkedAt))

CheckScan ==
  /\ check.at = "scan"
  /\ IF Overrun(check.elapsed, check.parked)
     THEN Halt
     ELSE check' = Idle /\ UNCHANGED timedOut
  /\ UNCHANGED <<clockVars, phase, started, armed, earliest, cancelled>>

Check == CheckCancelled \/ CheckMinimum \/ CheckElapsed \/ CheckParked \/ CheckScan

RunStep(r) ==
  \/ Start(r) \/ Finish(r) \/ DropRun(r)
  \/ \E timeout \in Timeouts : Arm(r, timeout)

Next ==
  \/ Tick \/ Hold
  \/ \E r \in Runs : RunStep(r)
  \/ \E timeout \in Timeouts : ArmHost(timeout)
  \/ DisarmHost
  \/ Check

Spec == Init /\ [][Next]_vars

\* JavaScript that keeps running keeps being interrupted.  Nothing is assumed of
\* the clocks, of runs finishing or of the host.
FairSpec == Spec /\ WF_vars(Check)

-------------------------------------------------------------------------------
(* Properties *)

Instants == 0..MaxTime

TypeOK ==
  /\ neverParks \in BOOLEAN
  /\ now \in Instants
  /\ parked \in Instants
  /\ held \in BOOLEAN
  /\ phase \in [Runs -> {"new", "started", "running", "over"}]
  /\ started \in [Runs -> Instants]
  /\ armed \in [Tokens -> [deadline : 0..DISARMED, parkedAt : Instants]]
  /\ earliest \in 0..DISARMED
  /\ cancelled \in BOOLEAN
  /\ timedOut \in BOOLEAN
  /\ check \in [at : {"idle", "minimum", "elapsed", "parked", "scan"},
                earliest : 0..DISARMED, elapsed : Instants, parked : Instants]

\* A budget that ran out: the time since its deadline, less what the process was
\* held for since it was armed, is behind it.
Due(t) ==
  /\ IsArmed(t)
  /\ now - (parked - armed[t].parkedAt) >= armed[t].deadline

\* The handler's fast path reads the minimum alone, so it has to be exactly that
\* whatever order budgets are armed, re-armed and disarmed in.
EarliestIsMinimum ==
  /\ \A t \in Tokens : IsArmed(t) => earliest <= armed[t].deadline
  /\ earliest = DISARMED \/ \E t \in Tokens : IsArmed(t) /\ armed[t].deadline = earliest
  /\ earliest = DISARMED => \A t \in Tokens : ~IsArmed(t)

\* Between runs nothing is armed: only a run in flight or the host's own slot
\* keeps a deadline.
ArmedOnlyInFlight ==
  \A r \in Runs : IsArmed(r) <=> phase[r] = "running"

\* With a clock that can be held, JavaScript is force-halted only for a dropped
\* run or for a budget that is armed and really ran out, pauses given back.  (The
\* default clock is not looked at twice: the deadline it halts for may have been
\* disarmed since its minimum was loaded.)
HaltedOnlyWhenDue ==
  [][~neverParks /\ timedOut' /\ ~timedOut =>
       cancelled \/ \E t \in Tokens : Due(t)]_vars

\* A budget that runs out while JavaScript spins is noticed.
DueBudgetHalts ==
  (\E t \in Tokens : Due(t)) ~> timedOut \/ ~\E t \in Tokens : Due(t)

\* After a run was dropped its continuations do not get to run on.
DroppedRunHalts == cancelled ~> timedOut

\* The armed budgets and the minimum the handler reads agree (TimeoutState).
BudgetsAreExact == TypeOK /\ EarliestIsMinimum /\ ArmedOnlyInFlight

\* What should be halted is (the interrupt handler).
OverrunsHalt == DueBudgetHalts /\ DroppedRunHalts

-------------------------------------------------------------------------------
(* The inductive invariant.  The cached minimum follows from the table     *)
(* alone.  That a force-halt is always justified needs to know what the    *)
(* handler's snapshots are worth by the time they are compared: the time   *)
(* it read is not in the future, and the time that passed un-held since    *)
(* then is not negative.                                                   *)

\* An armed budget is not mistaken for none: deadline_ms keeps it below DISARMED.
ArmedBelowDisarmed ==
  \A t \in Tokens : IsArmed(t) => armed[t].deadline < DISARMED

\* Held time is part of the time that passed.
ParkedIsPast == parked <= now

\* What the handler read: the elapsed time is of the past, and a clock read after
\* it accounts for no more held time than there was.
SnapshotsHold ==
  /\ check.at \in {"parked", "scan"} => ~neverParks /\ check.elapsed <= now
  /\ check.at = "scan" => check.elapsed - check.parked <= now - parked

IInv ==
  /\ TypeOK
  /\ ArmedOnlyInFlight
  /\ EarliestIsMinimum
  /\ ArmedBelowDisarmed
  /\ ParkedIsPast
  /\ SnapshotsHold

\* The records a table of budgets holds.
Slots == [Tokens -> [deadline : 0..DISARMED, parkedAt : Instants]]

\* What the handler may be at.
Checks == [at : {"idle", "minimum", "elapsed", "parked", "scan"},
           earliest : 0..DISARMED, elapsed : Instants, parked : Instants]
===============================================================================
