------------------------------ MODULE RunBracket -------------------------------
(***************************************************************************)
(* The run bracket (Runtime::run in crates/ferrijs/src/runtime.rs) and the *)
(* watch for uncaught exceptions (crates/ferrijs/src/uncaught.rs).         *)
(*                                                                         *)
(* Host tasks on any thread enter runs, arm their deadline, submit their   *)
(* body to the VM, wait, and classify what comes back; they may be dropped *)
(* while they wait.  The VM's thread executes one thing at a time: the     *)
(* body of a run, or a callback (a timer, a queued microtask) that some    *)
(* body left behind.  Deadlines lapse at any moment after they are armed;  *)
(* how they are computed is the subject of Deadlines, how the backstop     *)
(* sleeps that of Backstop, and how jobs are admitted that of VmLoop.      *)
(***************************************************************************)
EXTENDS FiniteSets, Integers, TLAPS, FiniteSetTheorems

CONSTANTS
  Runs,             \* The runs the host makes on the realm
  NoRun,            \* No run at all
  MaxInFlight,      \* How many runs the host overlaps
  BackstopPoisons   \* Limits::backstop_poisons

ASSUME NoRunAssumption == NoRun \notin Runs
ASSUME MaxInFlightAssumption == MaxInFlight \in Nat \ {0}
ASSUME BackstopPoisonsAssumption == BackstopPoisons \in BOOLEAN

VARIABLES
  pc,         \* Where the host's task is in each run
  result,     \* What each run answered
  job,        \* Where the body of each run is, on the VM
  outcome,    \* What the body replied with, and then what end made of it
  raised,     \* Runs whose body parked at least once
  armed,      \* Runs whose deadline is armed
  due,        \* Armed runs whose deadline passed
  poisoned,   \* Runtime::poisoned
  cancelled,  \* TimeoutState::cancelled
  timedOut,   \* TimeoutState::timed_out
  watch,      \* Watch, its error left out: it is there exactly when failed
  woken,      \* Runs whose body the watch's waker is about to have polled
  console,    \* ConsoleSlot: the run whose capture the console writes to
  vm,         \* What the VM's thread is executing
  thrown,     \* Runs during which an exception nothing caught was reported
  halted      \* Runs whose body was force-halted

realmVars == <<armed, due, poisoned, cancelled, timedOut>>
watchVars == <<watch, woken>>
ghostVars == <<thrown, halted>>
vars == <<pc, result, job, outcome, raised, realmVars, watchVars, console, vm, ghostVars>>

Idle == [doing |-> "nothing", run |-> NoRun]
Body(r) == [doing |-> "body", run |-> r]
Callback == [doing |-> "callback", run |-> NoRun]
Reporting == [doing |-> "report", run |-> NoRun]

InFlight == {r \in Runs : pc[r] \in {"reserved", "armed", "waiting", "ended", "ending"}}

\* The runs an exception belongs to: those between begin and end, and for one
\* that is kept, until the host looked at what was kept.
Begun == {r \in Runs : pc[r] = "waiting"}
Watched == Begun \cup {r \in Runs : pc[r] = "ended"}

\* The reply channel of r's job: the host no longer awaits it.
Closed(r) == pc[r] = "over"

\* Variant: only a dropped run is noticed.
Expired_CancelOnly == cancelled

\* TimeoutState::expired.
Expired == cancelled \/ due # {}

Init ==
  /\ pc = [r \in Runs |-> "new"]
  /\ result = [r \in Runs |-> "none"]
  /\ job = [r \in Runs |-> "none"]
  /\ outcome = [r \in Runs |-> "none"]
  /\ raised = {}
  /\ armed = {} /\ due = {}
  /\ poisoned = FALSE /\ cancelled = FALSE /\ timedOut = FALSE
  /\ watch = [active |-> FALSE, failed |-> FALSE, waker |-> NoRun]
  /\ woken = {}
  /\ console = NoRun
  /\ vm = Idle
  /\ thrown = {} /\ halted = {}

-------------------------------------------------------------------------------
(* The host's side of a run *)

\* Variant: a failure under a force-halt does not poison.
Classify_KeepsRealm(r, failure) ==
  /\ pc' = [pc EXCEPT ![r] = "over"]
  /\ result' = [result EXCEPT ![r] = IF failure = "ok" THEN "ok"
                                     ELSE IF timedOut THEN "timeout"
                                     ELSE failure]
  /\ poisoned' = (poisoned \/ failure = "oom")

\* finish: how an outcome is classified.  A failure under a force-halt is the
\* run's timeout, and poisons the realm; so does an allocation fault.
Classify(r, failure) ==
  /\ pc' = [pc EXCEPT ![r] = "over"]
  /\ result' = [result EXCEPT ![r] = IF failure = "ok" THEN "ok"
                                     ELSE IF timedOut THEN "timeout"
                                     ELSE failure]
  /\ poisoned' = (poisoned \/ (failure # "ok" /\ (timedOut \/ failure = "oom")))

\* Variant: the token goes and its deadline stays.
Disarm_KeepsDeadline(r) ==
  /\ armed' = armed \ {r}
  /\ UNCHANGED due

\* RunGuard::disarm.
Disarm(r) ==
  /\ armed' = armed \ {r}
  /\ due' = due \ {r}

\* Variant: the poisoned flag is not looked at.
Enter_Unchecked(r) ==
  /\ pc[r] = "new"
  /\ Cardinality(InFlight) < MaxInFlight
  /\ pc' = [pc EXCEPT ![r] = "reserved"]
  /\ UNCHANGED <<result, job, outcome, raised, realmVars, watchVars, console, vm, ghostVars>>

\* The realm is not poisoned and the VM admits the run.
Enter(r) ==
  /\ pc[r] = "new"
  /\ Cardinality(InFlight) < MaxInFlight
  /\ ~poisoned
  /\ pc' = [pc EXCEPT ![r] = "reserved"]
  /\ UNCHANGED <<result, job, outcome, raised, realmVars, watchVars, console, vm, ghostVars>>

Refuse(r) ==
  /\ pc[r] = "new"
  /\ poisoned
  /\ pc' = [pc EXCEPT ![r] = "over"]
  /\ result' = [result EXCEPT ![r] = "refused"]
  /\ UNCHANGED <<job, outcome, raised, realmVars, watchVars, console, vm, ghostVars>>

\* The VM's capacity is exhausted (by other jobs of the host).
Exhausted(r) ==
  /\ pc[r] = "new"
  /\ ~poisoned
  /\ Classify(r, "exhausted")
  /\ UNCHANGED <<job, outcome, raised, armed, due, cancelled, timedOut,
                 watchVars, console, vm, ghostVars>>

\* Variant: the console stays where it was pointed last.
Arm_NoRetarget(r) ==
  /\ pc[r] = "reserved"
  /\ pc' = [pc EXCEPT ![r] = "armed"]
  /\ armed' = armed \cup {r}
  /\ UNCHANGED <<result, job, outcome, raised, due, poisoned, cancelled, timedOut,
                 watchVars, console, vm, ghostVars>>

\* The limits are applied: the deadline is armed, the guard made and the console
\* pointed at the run's capture.
Arm(r) ==
  /\ pc[r] = "reserved"
  /\ pc' = [pc EXCEPT ![r] = "armed"]
  /\ armed' = armed \cup {r}
  /\ console' = r
  /\ UNCHANGED <<result, job, outcome, raised, due, poisoned, cancelled, timedOut,
                 watchVars, vm, ghostVars>>

\* Variant: the watch of a new run starts where the last one was left.
Submit_NoBegin(r) ==
  /\ pc[r] = "armed"
  /\ pc' = [pc EXCEPT ![r] = "waiting"]
  /\ job' = [job EXCEPT ![r] = "queued"]
  /\ UNCHANGED <<result, outcome, raised, realmVars, watchVars, console, vm, ghostVars>>

\* uncaught::begin, and the first poll of the backstop sends the job.
Submit(r) ==
  /\ pc[r] = "armed"
  /\ pc' = [pc EXCEPT ![r] = "waiting"]
  /\ job' = [job EXCEPT ![r] = "queued"]
  /\ watch' = [watch EXCEPT !.active = TRUE]
  /\ UNCHANGED <<result, outcome, raised, realmVars, woken, console, vm, ghostVars>>

\* The reply arrived: uncaught::end stops the watch ...
End(r) ==
  /\ pc[r] = "waiting"
  /\ job[r] = "finished"
  /\ pc' = [pc EXCEPT ![r] = "ended"]
  /\ watch' = [watch EXCEPT !.active = FALSE]
  /\ UNCHANGED <<result, job, outcome, raised, realmVars, woken, console, vm, ghostVars>>

\* Variant: a body that finished is believed, whatever was thrown meanwhile.
EndTake_KeepsOutcome(r) ==
  /\ pc[r] = "ended"
  /\ pc' = [pc EXCEPT ![r] = "ending"]
  /\ watch' = [watch EXCEPT !.failed = FALSE]
  /\ UNCHANGED <<result, job, outcome, raised, realmVars, woken, console, vm, ghostVars>>

\* Variant: what was reported is looked at, and not taken.
EndTake_Peeks(r) ==
  /\ pc[r] = "ended"
  /\ pc' = [pc EXCEPT ![r] = "ending"]
  /\ outcome' = [outcome EXCEPT ![r] = IF watch.failed THEN "uncaught" ELSE @]
  /\ UNCHANGED <<result, job, raised, realmVars, watchVars, console, vm, ghostVars>>

\* ... and an exception that was reported overrides what the body answered.
EndTake(r) ==
  /\ pc[r] = "ended"
  /\ pc' = [pc EXCEPT ![r] = "ending"]
  /\ outcome' = [outcome EXCEPT ![r] = IF watch.failed THEN "uncaught" ELSE @]
  /\ watch' = [watch EXCEPT !.failed = FALSE]
  /\ UNCHANGED <<result, job, raised, realmVars, woken, console, vm, ghostVars>>

\* The guard is disarmed and the outcome classified.
Finish(r) ==
  /\ pc[r] = "ending"
  /\ Disarm(r)
  /\ Classify(r, outcome[r])
  /\ UNCHANGED <<job, outcome, raised, cancelled, timedOut, watchVars, console, vm, ghostVars>>

\* The backstop gives a parked run up: finish_backstop.
Backstop(r) ==
  /\ pc[r] = "waiting"
  /\ r \in raised \cap due
  /\ pc' = [pc EXCEPT ![r] = "over"]
  /\ result' = [result EXCEPT ![r] = "timeout"]
  /\ watch' = [watch EXCEPT !.active = FALSE]
  /\ Disarm(r)
  /\ poisoned' = (poisoned \/ BackstopPoisons)
  /\ UNCHANGED <<job, outcome, raised, cancelled, timedOut, woken, console, vm, ghostVars>>

\* The host drops the run before it was armed: nothing happened yet.
DropEarly(r) ==
  /\ pc[r] = "reserved"
  /\ pc' = [pc EXCEPT ![r] = "over"]
  /\ result' = [result EXCEPT ![r] = "dropped"]
  /\ UNCHANGED <<job, outcome, raised, realmVars, watchVars, console, vm, ghostVars>>

\* Variant: only the deadline goes with the guard.
Drop_DisarmsOnly(r) ==
  /\ pc[r] = "waiting"
  /\ pc' = [pc EXCEPT ![r] = "over"]
  /\ result' = [result EXCEPT ![r] = "dropped"]
  /\ Disarm(r)
  /\ UNCHANGED <<job, outcome, raised, poisoned, cancelled, timedOut, watchVars,
                 console, vm, ghostVars>>

\* The host drops an armed run: RunGuard::drop.
Drop(r) ==
  /\ pc[r] = "waiting"
  /\ pc' = [pc EXCEPT ![r] = "over"]
  /\ result' = [result EXCEPT ![r] = "dropped"]
  /\ poisoned' = TRUE
  /\ cancelled' = TRUE
  /\ Disarm(r)
  /\ UNCHANGED <<job, outcome, raised, timedOut, watchVars, console, vm, ghostVars>>

\* Time passes.
Lapse(r) ==
  /\ r \in armed
  /\ due' = due \cup {r}
  /\ UNCHANGED <<pc, result, job, outcome, raised, armed, poisoned, cancelled, timedOut,
                 watchVars, console, vm, ghostVars>>

-------------------------------------------------------------------------------
(* The VM's thread *)

\* The guarded body is dropped: a waker it stored is taken back, whoever stored
\* the one that is there now.
DropGuard(r, w) == IF r \in raised THEN [w EXCEPT !.waker = NoRun] ELSE w

BodyStart(r) ==
  /\ vm = Idle
  /\ job[r] = "queued"
  /\ IF Closed(r)
     THEN /\ job' = [job EXCEPT ![r] = "gone"]
          /\ UNCHANGED vm
     ELSE /\ job' = [job EXCEPT ![r] = "running"]
          /\ vm' = Body(r)
  /\ UNCHANGED <<pc, result, outcome, raised, realmVars, watchVars, console, ghostVars>>

\* What the body awaited arrives.
BodyResume(r) ==
  /\ vm = Idle
  /\ job[r] = "parked"
  /\ ~Closed(r)
  /\ job' = [job EXCEPT ![r] = "running"]
  /\ vm' = Body(r)
  /\ UNCHANGED <<pc, result, outcome, raised, realmVars, watchVars, console, ghostVars>>

BodyFinish(r, answer) ==
  /\ vm = Body(r)
  /\ vm' = Idle
  /\ job' = [job EXCEPT ![r] = "finished"]
  /\ outcome' = [outcome EXCEPT ![r] = answer]
  /\ watch' = DropGuard(r, watch)
  /\ UNCHANGED <<pc, result, raised, realmVars, woken, console, ghostVars>>

\* Guarded::poll with the body pending: an exception that was reported ends the
\* run, otherwise the next one will wake it; then the job raises its signal and
\* looks whether the host is still there.
GuardPending(r, waits) ==
  /\ woken' = woken \ {r}
  /\ \/ /\ watch.failed
        /\ watch' = [DropGuard(r, watch) EXCEPT !.failed = FALSE]
        /\ job' = [job EXCEPT ![r] = "finished"]
        /\ outcome' = [outcome EXCEPT ![r] = "uncaught"]
        /\ UNCHANGED raised
     \/ /\ ~watch.failed
        /\ watch' = [watch EXCEPT !.waker = IF Closed(r) THEN NoRun ELSE r]
        /\ job' = [job EXCEPT ![r] = IF Closed(r) THEN "gone" ELSE waits]
        /\ raised' = raised \cup {r}
        /\ UNCHANGED outcome

BodyPark(r) ==
  /\ vm = Body(r)
  /\ vm' = Idle
  /\ GuardPending(r, "parked")
  /\ UNCHANGED <<pc, result, realmVars, console, ghostVars>>

\* The watch's waker has the parked job polled, though nothing it awaits arrived.
WatchPoll(r) ==
  /\ vm = Idle
  /\ r \in woken
  /\ job[r] \in {"parked", "stuck"}
  /\ ~Closed(r)
  /\ GuardPending(r, job[r])
  /\ UNCHANGED <<pc, result, realmVars, console, vm, ghostVars>>

\* The host is gone: the job is polled once more, and drops its body.
BodyReap(r) ==
  /\ vm = Idle
  /\ job[r] \in {"parked", "stuck"}
  /\ Closed(r)
  /\ job' = [job EXCEPT ![r] = "gone"]
  /\ watch' = DropGuard(r, watch)
  /\ woken' = woken \ {r}
  /\ UNCHANGED <<pc, result, outcome, raised, realmVars, console, vm, ghostVars>>

\* A callback some body left behind.
CallbackStart ==
  /\ vm = Idle
  /\ \E r \in Runs : job[r] \in {"parked", "stuck", "finished"} \/ r \in raised
  /\ vm' = Callback
  /\ UNCHANGED <<pc, result, job, outcome, raised, realmVars, watchVars, console, ghostVars>>

CallbackFinish ==
  /\ vm = Callback
  /\ vm' = Idle
  /\ UNCHANGED <<pc, result, job, outcome, raised, realmVars, watchVars, console, ghostVars>>

\* A callback throws and nothing catches it: the handler of uncaught exceptions.
\* After a force-halt it looks no further.  The first exception during a run is
\* kept for the run, any other goes to the host's hook.
CallbackThrow ==
  /\ vm = Callback
  /\ \/ /\ ~timedOut /\ watch.active /\ ~watch.failed
        /\ vm' = Reporting
        /\ UNCHANGED thrown
     \/ /\ timedOut \/ ~watch.active \/ watch.failed
        /\ vm' = Idle
        /\ thrown' = IF timedOut THEN thrown ELSE thrown \cup Begun
  /\ UNCHANGED <<pc, result, job, outcome, raised, realmVars, watchVars, console, halted>>

\* Variant: the exception is kept, and nobody is woken.
Report_NoWake ==
  /\ vm = Reporting
  /\ vm' = Idle
  /\ watch' = [watch EXCEPT !.failed = TRUE]
  /\ thrown' = thrown \cup Watched
  /\ UNCHANGED <<pc, result, job, outcome, raised, realmVars, woken, console, halted>>

\* The exception is kept, and whoever waits on the watch is woken.  The host may
\* have ended its run since the handler looked.
Report ==
  /\ vm = Reporting
  /\ vm' = Idle
  /\ watch' = [watch EXCEPT !.failed = TRUE, !.waker = NoRun]
  /\ woken' = woken \cup ({watch.waker} \ {NoRun})
  /\ thrown' = thrown \cup Watched
  /\ UNCHANGED <<pc, result, job, outcome, raised, realmVars, console, halted>>

\* The interrupt handler stops a callback ...
HaltCallback ==
  /\ vm = Callback
  /\ Expired
  /\ timedOut' = TRUE
  /\ vm' = Idle
  /\ UNCHANGED <<pc, result, job, outcome, raised, armed, due, poisoned, cancelled,
                 watchVars, console, ghostVars>>

\* ... or a body, which then either fails or is left waiting on a promise that
\* nothing is left to settle.
HaltBody(r) ==
  /\ vm = Body(r)
  /\ Expired
  /\ timedOut' = TRUE
  /\ halted' = halted \cup {r}
  /\ vm' = Idle
  /\ \/ /\ job' = [job EXCEPT ![r] = "finished"]
        /\ outcome' = [outcome EXCEPT ![r] = "error"]
        /\ watch' = DropGuard(r, watch)
        /\ UNCHANGED <<raised, woken>>
     \/ GuardPending(r, "stuck")
  /\ UNCHANGED <<pc, result, armed, due, poisoned, cancelled, console, thrown>>

HostStep(r) ==
  \/ Enter(r) \/ Refuse(r) \/ Exhausted(r)
  \/ Arm(r) \/ Submit(r) \/ End(r) \/ EndTake(r) \/ Finish(r) \/ Backstop(r)
  \/ DropEarly(r) \/ Drop(r)

VmStep(r) ==
  \/ BodyStart(r) \/ BodyResume(r) \/ BodyPark(r) \/ HaltBody(r)
  \/ \E answer \in {"ok", "error", "oom"} : BodyFinish(r, answer)
  \/ WatchPoll(r) \/ BodyReap(r)

Next ==
  \/ \E r \in Runs : HostStep(r) \/ VmStep(r) \/ Lapse(r)
  \/ CallbackStart \/ CallbackFinish \/ CallbackThrow \/ Report \/ HaltCallback

Spec == Init /\ [][Next]_vars

\* Host tasks are polled, armed deadlines pass, JavaScript is interrupted once a
\* deadline passed, and the scheduler serves a job that is due a poll however
\* busy callbacks keep the VM.  Bodies and callbacks need never end by
\* themselves, and nothing a body awaits need ever arrive.
FairSpec ==
  /\ Spec
  /\ WF_vars(HaltCallback) /\ WF_vars(Report)
  /\ \A r \in Runs :
       /\ WF_vars(Arm(r)) /\ WF_vars(Submit(r)) /\ WF_vars(End(r))
       /\ WF_vars(EndTake(r)) /\ WF_vars(Finish(r))
       /\ WF_vars(Lapse(r)) /\ WF_vars(Backstop(r))
       /\ WF_vars(HaltBody(r))
       /\ SF_vars(BodyStart(r)) /\ SF_vars(BodyReap(r)) /\ SF_vars(WatchPoll(r))

-------------------------------------------------------------------------------
(* Properties *)

TypeOK ==
  /\ pc \in [Runs -> {"new", "reserved", "armed", "waiting", "ended", "ending", "over"}]
  /\ result \in [Runs -> {"none", "ok", "error", "oom", "uncaught", "timeout",
                          "refused", "exhausted", "dropped"}]
  /\ job \in [Runs -> {"none", "queued", "running", "parked", "stuck", "finished", "gone"}]
  /\ outcome \in [Runs -> {"none", "ok", "error", "oom", "uncaught"}]
  /\ raised \subseteq Runs
  /\ armed \subseteq Runs
  /\ due \subseteq armed
  /\ poisoned \in BOOLEAN /\ cancelled \in BOOLEAN /\ timedOut \in BOOLEAN
  /\ watch \in [active : BOOLEAN, failed : BOOLEAN, waker : Runs \cup {NoRun}]
  /\ woken \subseteq Runs
  /\ console \in Runs \cup {NoRun}
  /\ vm \in {Idle, Callback, Reporting} \cup {Body(r) : r \in Runs}
  /\ thrown \subseteq Runs
  /\ halted \subseteq Runs

\* A run during which an exception was reported that nothing caught does not
\* answer that all is well, even when its body finished.
UncaughtFailsTheRun ==
  \A r \in Runs : result[r] = "ok" => r \notin thrown

\* The host's hook hears what is thrown during a run only after an earlier
\* exception failed that run already.
HookHearsOnlyTheRest ==
  [][vm = Callback /\ vm' = Idle /\ thrown' # thrown => watch.failed]_vars

\* What was reported to a run ends with it: a realm that goes on starts its next
\* run with a clean watch.
ReportEndsWithItsRun ==
  [][\A r \in Watched : r \notin Watched' /\ watch.failed => ~watch'.failed \/ poisoned']_vars

\* A run that fails on an uncaught exception fails on one of its own time.
FailedByItsOwnException ==
  \A r \in Runs : result[r] = "uncaught" => r \in thrown

\* A run waiting on work the throw cut short fails at once: no body stays parked
\* on a failed watch without a wake under way.
FailedRunIsWoken ==
  \A r \in Runs :
    /\ job[r] \in {"parked", "stuck"}
    /\ pc[r] = "waiting"
    /\ watch.failed
    => r \in woken

\* A body that was force-halted never passes for one that finished or failed by
\* itself, and the realm it was stopped in is not offered again.
ForceHaltIsReported ==
  \A r \in halted :
    /\ result[r] \in {"none", "timeout", "dropped"}
    /\ pc[r] = "over" /\ BackstopPoisons => poisoned

\* While a body runs for a host that waits for it, the console is that run's.
ConsoleIsTheRuns ==
  \A r \in Runs : vm = Body(r) /\ pc[r] = "waiting" => console = r

\* Once the realm is poisoned no run that comes after has its body submitted.
PoisonedRealmRunsNothingNew ==
  \A r \in Runs : [](poisoned /\ pc[r] = "new" => []( job[r] = "none"))

\* The body of a dropped run ends, whether it was queued, parked or running when
\* the host went away, and even when it or a callback would never yield.
DroppedBodyStops ==
  \A r \in Runs : result[r] = "dropped" ~> job[r] \in {"none", "finished", "gone"}

\* Every run the host makes is answered: by its body, by the interrupt handler
\* stopping whatever keeps the VM, or by the backstop.
EveryRunEnds ==
  \A r \in Runs : pc[r] = "reserved" ~> pc[r] = "over"

\* What limits.rs says of a force-halt: the realm is poisoned from then on, that
\* is, at the latest when no run is left to report it.
ForceHaltPoisons ==
  timedOut /\ InFlight = {} => poisoned

\* What is thrown and logged during a run is that run's (Runtime::run, uncaught.rs).
FailuresBelongToTheirRun ==
  TypeOK /\ UncaughtFailsTheRun /\ FailedRunIsWoken /\ ConsoleIsTheRuns

\* The watch begins and ends with its run (uncaught::begin, end, take).
WatchEndsWithItsRun == HookHearsOnlyTheRest /\ ReportEndsWithItsRun

\* Whatever the host and the script do, runs and the bodies of dropped runs end
\* (Runtime::run, its guard and the backstop).
RunsAndBodiesEnd == EveryRunEnds /\ DroppedBodyStops

-------------------------------------------------------------------------------
(* Proofs.                                                                 *)
(*                                                                         *)
(* RunsAreInOrder holds of every host: how far a run is bounds where its   *)
(* body can be, and a body that outlives its run leaves a trace in the     *)
(* result and the poisoned flag.  OneAtATime is about a host that makes    *)
(* one run at a time with the limits' default, BackstopPoisons: no body    *)
(* then outlives its run beside another one, so the realm's one watch and  *)
(* console are the run's.                                                  *)

Live == {"queued", "running", "parked", "stuck"}

\* A body that outlives its run.
Outlives(r) == pc[r] = "over" /\ job[r] \in Live

PhaseFitsBody ==
  \A r \in Runs :
    /\ pc[r] \in {"new", "reserved", "armed"} => job[r] = "none"
    /\ pc[r] \in {"ended", "ending"} => job[r] = "finished"
    /\ pc[r] = "waiting" => job[r] \notin {"none", "gone"}
    /\ pc[r] # "over" => result[r] = "none"
    /\ job[r] = "running" <=> vm = Body(r)
    /\ Outlives(r) => result[r] \in {"dropped", "timeout"} /\ (BackstopPoisons => poisoned)

\* A halted body never finishes well, and its run is not over without a trace.
HaltLeavesATrace ==
  \A r \in halted :
    /\ timedOut
    /\ job[r] \in {"stuck", "finished", "gone"}
    /\ job[r] = "finished" => outcome[r] \in {"error", "uncaught"}
    /\ pc[r] = "over" => result[r] \in {"timeout", "dropped"} /\ (BackstopPoisons => poisoned)

RunsAreInOrder == TypeOK /\ PhaseFitsBody /\ HaltLeavesATrace

OneRun ==
  /\ \A r, s \in InFlight : r = s
  /\ \A r \in Runs : Outlives(r) => poisoned /\ InFlight = {}

WatchIsTheRuns ==
  \A r \in Runs :
    /\ pc[r] = "waiting" => watch.active
    /\ pc[r] \in {"armed", "waiting", "ended", "ending"} => console = r
    /\ pc[r] = "waiting" /\ job[r] \in {"parked", "stuck"} =>
         IF watch.failed THEN r \in woken ELSE watch.waker = r

\* What was thrown is on the watch, in the outcome or in the result.
ThrownIsOnRecord ==
  \A r \in thrown :
    /\ pc[r] \in {"waiting", "ended", "ending", "over"}
    /\ pc[r] \in {"waiting", "ended"} =>
         watch.failed \/ (job[r] = "finished" /\ outcome[r] = "uncaught")
    /\ pc[r] = "ending" => outcome[r] = "uncaught"
    /\ pc[r] = "over" => result[r] # "ok"

OneAtATime == RunsAreInOrder /\ OneRun /\ WatchIsTheRuns /\ ThrownIsOnRecord
-------------------------------------------------------------------------------
(* What holds of every host *)

\* What the VM's thread executes, told apart.
LEMMA VmKinds ==
  /\ Idle # Callback /\ Idle # Reporting /\ Callback # Reporting
  /\ \A r \in Runs : Body(r) \notin {Idle, Callback, Reporting}
  /\ \A r, s \in Runs : Body(r) = Body(s) => r = s
BY DEF Idle, Callback, Reporting, Body

\* Initially there are no runs to be out of order.
LEMMA InitInOrder == Init => RunsAreInOrder
<1> SUFFICES ASSUME Init PROVE RunsAreInOrder
  OBVIOUS
<1>1. TypeOK
  BY DEF Init, TypeOK
<1>2. PhaseFitsBody
  BY VmKinds DEF Init, PhaseFitsBody, Outlives
<1>3. HaltLeavesATrace
  BY DEF Init, HaltLeavesATrace
<1> QED
  BY <1>1, <1>2, <1>3 DEF RunsAreInOrder

Bodies == {"none", "queued", "running", "parked", "stuck", "finished", "gone"}

\* What a poll that leaves its body pending may change.
LEMMA GuardPendingType ==
  ASSUME TypeOK, NEW r \in Runs, NEW waits \in Bodies, GuardPending(r, waits)
  PROVE  /\ watch' \in [active : BOOLEAN, failed : BOOLEAN, waker : Runs \cup {NoRun}]
         /\ woken' \subseteq Runs /\ raised' \subseteq Runs
         /\ job' \in [Runs -> Bodies]
         /\ outcome' \in [Runs -> {"none", "ok", "error", "oom", "uncaught"}]
<1> USE DEF Bodies
<1>1. watch.waker \in Runs \cup {NoRun} /\ watch.active \in BOOLEAN /\ watch.failed \in BOOLEAN
  BY DEF TypeOK
<1>2. /\ DropGuard(r, watch).active = watch.active
      /\ DropGuard(r, watch).failed = watch.failed
      /\ DropGuard(r, watch).waker \in Runs \cup {NoRun}
      /\ DropGuard(r, watch) \in [active : BOOLEAN, failed : BOOLEAN, waker : Runs \cup {NoRun}]
  BY <1>1 DEF DropGuard, TypeOK
<1>3. CASE watch.failed
  <2> DEFINE w == DropGuard(r, watch)
  <2>1. watch' = [w EXCEPT !.failed = FALSE]
    BY <1>3 DEF GuardPending
  <2>2. w \in [active : BOOLEAN, failed : BOOLEAN, waker : Runs \cup {NoRun}]
    BY <1>2
  <2> HIDE DEF w
  <2>3. watch' \in [active : BOOLEAN, failed : BOOLEAN, waker : Runs \cup {NoRun}]
    BY <2>1, <2>2
  <2> QED
    BY <1>3, <2>3 DEF GuardPending, TypeOK
<1>4. CASE ~watch.failed
  BY <1>1, <1>4 DEF GuardPending, TypeOK
<1> QED
  BY <1>3, <1>4

\* The host's steps, and time's.
LEMMA HostStepInOrder ==
  ASSUME RunsAreInOrder, NEW r \in Runs, HostStep(r) \/ Lapse(r)
  PROVE  RunsAreInOrder'
<1> USE DEF RunsAreInOrder, PhaseFitsBody, HaltLeavesATrace, Outlives, Live, realmVars, watchVars, ghostVars
<1>1. CASE Enter(r) \/ Refuse(r) \/ Exhausted(r)
  <2> USE <1>1 DEF Enter, Refuse, Exhausted, Classify
  <2>1. TypeOK'
    BY DEF TypeOK
  <2>2. PhaseFitsBody'
    BY VmKinds DEF TypeOK
  <2>3. HaltLeavesATrace'
    BY DEF TypeOK, PhaseFitsBody
  <2> QED
    BY <2>1, <2>2, <2>3
<1>2. CASE Arm(r) \/ Submit(r) \/ DropEarly(r)
  <2> USE <1>2 DEF Arm, Submit, DropEarly
  <2>1. TypeOK'
    BY DEF TypeOK
  <2>2. PhaseFitsBody'
    BY VmKinds DEF TypeOK
  <2>3. HaltLeavesATrace'
    BY DEF TypeOK, PhaseFitsBody
  <2> QED
    BY <2>1, <2>2, <2>3
<1>3. CASE End(r) \/ EndTake(r)
  <2> USE <1>3 DEF End, EndTake
  <2>1. TypeOK'
    BY DEF TypeOK
  <2>2. PhaseFitsBody'
    BY VmKinds DEF TypeOK
  <2>3. HaltLeavesATrace'
    BY DEF TypeOK, PhaseFitsBody
  <2> QED
    BY <2>1, <2>2, <2>3
<1>4. CASE Finish(r)
  <2> USE <1>4 DEF Finish, Disarm, Classify
  <2>1. TypeOK'
    BY DEF TypeOK
  <2>2. PhaseFitsBody'
    BY VmKinds DEF TypeOK
  <2>3. HaltLeavesATrace'
    BY DEF TypeOK, PhaseFitsBody
  <2> QED
    BY <2>1, <2>2, <2>3
<1>5. CASE Backstop(r) \/ Drop(r)
  <2> USE <1>5 DEF Backstop, Drop, Disarm
  <2>1. TypeOK'
    BY DEF TypeOK
  <2>2. PhaseFitsBody'
    <3>1. ASSUME NEW s \in Runs, s # r PROVE pc'[s] = pc[s] /\ result'[s] = result[s]
      BY <3>1 DEF TypeOK
    <3>2. pc'[r] = "over" /\ result'[r] \in {"dropped", "timeout"} /\ (BackstopPoisons => poisoned')
      BY DEF TypeOK
    <3>3. job' = job /\ vm' = vm /\ (poisoned => poisoned')
      BY DEF TypeOK
    <3> QED
      BY <3>1, <3>2, <3>3
  <2>3. HaltLeavesATrace'
    BY DEF TypeOK, PhaseFitsBody
  <2> QED
    BY <2>1, <2>2, <2>3
<1>6. CASE Lapse(r)
  <2> USE <1>6 DEF Lapse
  <2>1. TypeOK'
    BY DEF TypeOK
  <2>2. PhaseFitsBody'
    BY VmKinds DEF TypeOK
  <2>3. HaltLeavesATrace'
    BY DEF TypeOK, PhaseFitsBody
  <2> QED
    BY <2>1, <2>2, <2>3
<1> QED
  BY <1>1, <1>2, <1>3, <1>4, <1>5, <1>6 DEF HostStep

\* A body's steps.
LEMMA VmStepInOrder ==
  ASSUME RunsAreInOrder, NEW r \in Runs, VmStep(r)
  PROVE  RunsAreInOrder'
<1> USE DEF RunsAreInOrder, PhaseFitsBody, HaltLeavesATrace, Outlives, Live, realmVars, watchVars, ghostVars
<1>1. CASE BodyStart(r) \/ BodyResume(r)
  <2> USE <1>1 DEF BodyStart, BodyResume, Closed
  <2>1. TypeOK'
    BY DEF TypeOK
  <2>2. PhaseFitsBody'
    BY VmKinds DEF TypeOK
  <2>3. HaltLeavesATrace'
    BY DEF TypeOK, PhaseFitsBody
  <2> QED
    BY <2>1, <2>2, <2>3
<1>2. CASE BodyPark(r)
  <2>1. TypeOK'
    BY <1>2, GuardPendingType DEF BodyPark, TypeOK, Bodies
  <2> USE <1>2 DEF BodyPark, GuardPending, DropGuard, Closed
  <2>2. PhaseFitsBody'
    BY VmKinds DEF TypeOK
  <2>3. HaltLeavesATrace'
    BY DEF TypeOK, PhaseFitsBody
  <2> QED
    BY <2>1, <2>2, <2>3
<1>3. CASE WatchPoll(r)
  <2>1. TypeOK'
    BY <1>3, GuardPendingType DEF WatchPoll, TypeOK, Bodies
  <2> USE <1>3 DEF WatchPoll, GuardPending, DropGuard, Closed
  <2>2. PhaseFitsBody'
    BY VmKinds DEF TypeOK
  <2>3. HaltLeavesATrace'
    BY DEF TypeOK, PhaseFitsBody
  <2> QED
    BY <2>1, <2>2, <2>3
<1>4. CASE \E answer \in {"ok", "error", "oom"} : BodyFinish(r, answer)
  <2> USE <1>4 DEF BodyFinish, DropGuard
  <2>1. TypeOK'
    BY DEF TypeOK
  <2>2. PhaseFitsBody'
    BY VmKinds DEF TypeOK
  <2>3. HaltLeavesATrace'
    BY DEF TypeOK, PhaseFitsBody
  <2> QED
    BY <2>1, <2>2, <2>3
<1>5. CASE BodyReap(r)
  <2> USE <1>5 DEF BodyReap, DropGuard, Closed
  <2>1. TypeOK'
    BY DEF TypeOK
  <2>2. PhaseFitsBody'
    BY VmKinds DEF TypeOK
  <2>3. HaltLeavesATrace'
    BY DEF TypeOK, PhaseFitsBody
  <2> QED
    BY <2>1, <2>2, <2>3
<1>6. CASE HaltBody(r)
  <2>1. TypeOK'
    <3>1. CASE GuardPending(r, "stuck")
      BY <1>6, <3>1, GuardPendingType DEF HaltBody, TypeOK, Bodies
    <3>2. CASE ~GuardPending(r, "stuck")
      BY <1>6, <3>2 DEF HaltBody, DropGuard, TypeOK
    <3> QED
      BY <3>1, <3>2
  <2> USE <1>6 DEF HaltBody, GuardPending, DropGuard, Closed, Expired
  <2>2. PhaseFitsBody'
    BY VmKinds DEF TypeOK
  <2>3. HaltLeavesATrace'
    BY DEF TypeOK, PhaseFitsBody
  <2> QED
    BY <2>1, <2>2, <2>3
<1> QED
  BY <1>1, <1>2, <1>3, <1>4, <1>5, <1>6 DEF VmStep

\* Callbacks, which leave runs alone.
LEMMA CallbackInOrder ==
  ASSUME RunsAreInOrder,
         CallbackStart \/ CallbackFinish \/ CallbackThrow \/ Report \/ HaltCallback
  PROVE  RunsAreInOrder'
<1> USE DEF RunsAreInOrder, PhaseFitsBody, HaltLeavesATrace, Outlives, Live, realmVars, watchVars, ghostVars
<1>1. CASE CallbackStart \/ CallbackFinish
  <2> USE <1>1 DEF CallbackStart, CallbackFinish
  <2>1. TypeOK'
    BY DEF TypeOK
  <2>2. PhaseFitsBody'
    BY VmKinds DEF TypeOK
  <2>3. HaltLeavesATrace'
    BY DEF TypeOK, PhaseFitsBody
  <2> QED
    BY <2>1, <2>2, <2>3
<1>2. CASE CallbackThrow
  <2> USE <1>2 DEF CallbackThrow, Begun
  <2>1. TypeOK'
    BY DEF TypeOK
  <2>2. PhaseFitsBody'
    BY VmKinds DEF TypeOK
  <2>3. HaltLeavesATrace'
    BY DEF TypeOK, PhaseFitsBody
  <2> QED
    BY <2>1, <2>2, <2>3
<1>3. CASE Report
  <2> USE <1>3 DEF Report, Watched, Begun
  <2>1. TypeOK'
    BY DEF TypeOK
  <2>2. PhaseFitsBody'
    BY VmKinds DEF TypeOK
  <2>3. HaltLeavesATrace'
    BY DEF TypeOK, PhaseFitsBody
  <2> QED
    BY <2>1, <2>2, <2>3
<1>4. CASE HaltCallback
  <2> USE <1>4 DEF HaltCallback
  <2>1. TypeOK'
    BY DEF TypeOK
  <2>2. PhaseFitsBody'
    BY VmKinds DEF TypeOK
  <2>3. HaltLeavesATrace'
    BY DEF TypeOK, PhaseFitsBody
  <2> QED
    BY <2>1, <2>2, <2>3
<1> QED
  BY <1>1, <1>2, <1>3, <1>4

\* Every step keeps runs in order.
LEMMA NextInOrder == RunsAreInOrder /\ [Next]_vars => RunsAreInOrder'
<1> SUFFICES ASSUME RunsAreInOrder, [Next]_vars PROVE RunsAreInOrder'
  OBVIOUS
<1>1. CASE UNCHANGED vars
  BY <1>1 DEF vars, realmVars, watchVars, ghostVars, RunsAreInOrder, TypeOK, PhaseFitsBody,
    HaltLeavesATrace, Outlives
<1> QED
  BY <1>1, HostStepInOrder, VmStepInOrder, CallbackInOrder DEF Next

\* Of every host and every setting, runs are in order.
THEOREM RunsInOrder == Spec => []RunsAreInOrder
BY InitInOrder, NextInOrder, PTL DEF Spec

\* A body that was force-halted never passes for one that finished or failed by
\* itself, and the realm is not offered again (interrupt handler, finish).
THEOREM HaltIsReported == Spec => []ForceHaltIsReported
<1>1. RunsAreInOrder => ForceHaltIsReported
  BY DEF RunsAreInOrder, TypeOK, PhaseFitsBody, HaltLeavesATrace, ForceHaltIsReported
<1> QED
  BY <1>1, RunsInOrder, PTL
-------------------------------------------------------------------------------
(* A poisoned realm *)

\* Once the realm is poisoned no run that comes after has its body submitted
\* (Runtime::run's first look at the flag).
THEOREM PoisonedStaysShut == Spec => PoisonedRealmRunsNothingNew
<1> DEFINE Shut(r) == poisoned /\ pc[r] \in {"new", "over"} /\ job[r] = "none"
<1>1. ASSUME NEW r \in Runs
      PROVE  Spec => [](poisoned /\ pc[r] = "new" => [](job[r] = "none"))
  <2>1. RunsAreInOrder /\ poisoned /\ pc[r] = "new" => Shut(r)
    BY DEF RunsAreInOrder, PhaseFitsBody
  <2>2. RunsAreInOrder /\ Shut(r) /\ [Next]_vars => Shut(r)'
    <3> SUFFICES ASSUME RunsAreInOrder, Shut(r), [Next]_vars PROVE Shut(r)'
      OBVIOUS
    <3> USE DEF RunsAreInOrder, TypeOK, vars, realmVars, watchVars, ghostVars
    <3>1. ASSUME NEW s \in Runs, HostStep(s) \/ Lapse(s) PROVE Shut(r)'
      <4>1. poisoned' = TRUE
        BY <3>1 DEF HostStep, Lapse, Enter, Refuse, Exhausted, Arm, Submit, End, EndTake,
          Finish, Backstop, DropEarly, Drop, Classify
      <4>2. pc'[r] \in {"new", "over"} /\ job'[r] = "none"
        BY <3>1 DEF HostStep, Lapse, Enter, Refuse, Exhausted, Arm, Submit, End, EndTake,
          Finish, Backstop, DropEarly, Drop, Classify
      <4> QED
        BY <4>1, <4>2
    <3>2. ASSUME NEW s \in Runs, VmStep(s) PROVE Shut(r)'
      <4>1. pc' = pc /\ poisoned' = poisoned
        BY <3>2 DEF VmStep, BodyStart, BodyResume, BodyPark, HaltBody, BodyFinish, WatchPoll,
          BodyReap
      <4>2. s # r => job'[r] = job[r]
        BY <3>2 DEF VmStep, BodyStart, BodyResume, BodyPark, HaltBody, BodyFinish, WatchPoll,
          BodyReap, GuardPending
      <4>3. job[s] # "none"
        BY <3>2 DEF VmStep, BodyStart, BodyResume, BodyPark, HaltBody, BodyFinish, WatchPoll,
          BodyReap, PhaseFitsBody
      <4> QED
        BY <4>1, <4>2, <4>3
    <3>3. CASE CallbackStart \/ CallbackFinish \/ CallbackThrow \/ Report \/ HaltCallback
               \/ UNCHANGED vars
      BY <3>3 DEF CallbackStart, CallbackFinish, CallbackThrow, Report, HaltCallback
    <3> QED
      BY <3>1, <3>2, <3>3 DEF Next
  <2>3. Shut(r) => job[r] = "none"
    OBVIOUS
  <2> QED
    BY <2>1, <2>2, <2>3, RunsInOrder, PTL DEF Spec
<1> QED
  BY <1>1 DEF PoisonedRealmRunsNothingNew

-------------------------------------------------------------------------------
(* A host that makes one run at a time *)

\* A run in flight is alone: the others have not begun or left no body behind.
LEMMA Alone ==
  ASSUME OneAtATime, NEW r \in InFlight
  PROVE  \A s \in Runs \ {r} : /\ pc[s] \in {"new", "over"} /\ s \notin InFlight
                               /\ job[s] \notin Live /\ vm # Body(s)
BY DEF OneAtATime, RunsAreInOrder, TypeOK, PhaseFitsBody, OneRun, InFlight, Outlives, Live

\* A run is entered when there is no other.
LEMMA EnteredAlone ==
  ASSUME OneAtATime, MaxInFlight = 1, Cardinality(InFlight) < MaxInFlight
  PROVE  InFlight = {}
<1> SUFFICES ASSUME NEW r \in InFlight PROVE FALSE
  OBVIOUS
<1>1. InFlight = {r}
  BY DEF OneAtATime, OneRun
<1>2. Cardinality(InFlight) = 1
  BY <1>1, FS_Singleton
<1> QED
  BY <1>2

\* Initially nothing runs.
LEMMA InitOneAtATime == Init => OneAtATime
BY InitInOrder DEF Init, OneAtATime, OneRun, WatchIsTheRuns, ThrownIsOnRecord, InFlight,
  Outlives, Live

\* The host's steps keep to one run.
LEMMA HostStepOneAtATime ==
  ASSUME MaxInFlight = 1, BackstopPoisons, OneAtATime, RunsAreInOrder',
         NEW r \in Runs, HostStep(r) \/ Lapse(r)
  PROVE  OneAtATime'
<1> USE DEF InFlight, Outlives, Live, OneAtATime, RunsAreInOrder, TypeOK, PhaseFitsBody,
            realmVars, watchVars, ghostVars
<1>0. pc[r] \in {"reserved", "armed", "waiting", "ended", "ending"} =>
        \A s \in Runs \ {r} : pc[s] \in {"new", "over"} /\ job[s] \notin Live
  BY Alone
<1>1. CASE Refuse(r) \/ Exhausted(r)
  <2> USE <1>1 DEF Refuse, Exhausted, Classify
  <2>1. OneRun'
    BY <1>0 DEF OneRun
  <2>2. WatchIsTheRuns'
    BY <1>0, VmKinds DEF WatchIsTheRuns
  <2>3. ThrownIsOnRecord'
    BY <1>0 DEF ThrownIsOnRecord
  <2> QED
    BY <2>1, <2>2, <2>3
<1>2. CASE Arm(r) \/ DropEarly(r)
  <2> USE <1>2 DEF Arm, DropEarly
  <2>1. OneRun'
    BY <1>0 DEF OneRun
  <2>2. WatchIsTheRuns'
    BY <1>0, VmKinds DEF WatchIsTheRuns
  <2>3. ThrownIsOnRecord'
    BY <1>0 DEF ThrownIsOnRecord
  <2> QED
    BY <2>1, <2>2, <2>3
<1>3. CASE Submit(r)
  <2> USE <1>3 DEF Submit
  <2>1. OneRun'
    BY <1>0 DEF OneRun
  <2>2. WatchIsTheRuns'
    BY <1>0, VmKinds DEF WatchIsTheRuns
  <2>3. ThrownIsOnRecord'
    BY <1>0 DEF ThrownIsOnRecord
  <2> QED
    BY <2>1, <2>2, <2>3
<1>4. CASE End(r) \/ EndTake(r)
  <2> USE <1>4 DEF End, EndTake
  <2>1. OneRun'
    BY <1>0 DEF OneRun
  <2>2. WatchIsTheRuns'
    BY <1>0, VmKinds DEF WatchIsTheRuns
  <2>3. ThrownIsOnRecord'
    BY <1>0 DEF ThrownIsOnRecord
  <2> QED
    BY <2>1, <2>2, <2>3
<1>5. CASE Finish(r)
  <2> USE <1>5 DEF Finish, Disarm, Classify
  <2>1. OneRun'
    BY <1>0 DEF OneRun
  <2>2. WatchIsTheRuns'
    BY <1>0, VmKinds DEF WatchIsTheRuns
  <2>3. ThrownIsOnRecord'
    BY <1>0 DEF ThrownIsOnRecord
  <2> QED
    BY <2>1, <2>2, <2>3
<1>6. CASE Backstop(r) \/ Drop(r)
  <2> USE <1>6 DEF Backstop, Drop, Disarm
  <2>1. OneRun'
    BY <1>0 DEF OneRun
  <2>2. WatchIsTheRuns'
    BY <1>0, VmKinds DEF WatchIsTheRuns
  <2>3. ThrownIsOnRecord'
    BY <1>0 DEF ThrownIsOnRecord
  <2> QED
    BY <2>1, <2>2, <2>3
<1>7. CASE Lapse(r)
  <2> USE <1>7 DEF Lapse
  <2>1. OneRun'
    BY <1>0 DEF OneRun
  <2>2. WatchIsTheRuns'
    BY <1>0, VmKinds DEF WatchIsTheRuns
  <2>3. ThrownIsOnRecord'
    BY <1>0 DEF ThrownIsOnRecord
  <2> QED
    BY <2>1, <2>2, <2>3
<1>8. CASE Enter(r)
  <2> USE <1>8 DEF Enter
  <2>1. InFlight = {} /\ ~poisoned
    BY EnteredAlone
  <2>2. OneRun'
    BY <2>1 DEF OneRun
  <2>3. WatchIsTheRuns' /\ ThrownIsOnRecord'
    BY <2>1 DEF WatchIsTheRuns, ThrownIsOnRecord
  <2> QED
    BY <2>2, <2>3
<1> QED
  BY <1>1, <1>2, <1>3, <1>4, <1>5, <1>6, <1>7, <1>8 DEF HostStep

\* A body's steps keep to one run.
LEMMA VmStepOneAtATime ==
  ASSUME MaxInFlight = 1, BackstopPoisons, OneAtATime, RunsAreInOrder', NEW r \in Runs, VmStep(r)
  PROVE  OneAtATime'
<1> USE DEF InFlight, Outlives, Live, OneAtATime, RunsAreInOrder, TypeOK, PhaseFitsBody,
            realmVars, watchVars, ghostVars
<1>0. \/ pc[r] = "waiting" /\ \A s \in Runs \ {r} : pc[s] \in {"new", "over"} /\ job[s] \notin Live
      \/ pc[r] = "over" /\ \A s \in Runs : pc[s] \in {"new", "over"}
  <2>1. job[r] \in Live
    BY DEF VmStep, BodyStart, BodyResume, BodyPark, HaltBody, BodyFinish, WatchPoll, BodyReap
  <2>2. pc[r] \in {"waiting", "over"}
    BY <2>1
  <2> QED
    BY <2>1, <2>2, Alone DEF OneRun
<1>1. CASE BodyStart(r) \/ BodyResume(r)
  <2> USE <1>1 DEF BodyStart, BodyResume, Closed
  <2>1. OneRun'
    BY <1>0 DEF OneRun
  <2>2. WatchIsTheRuns'
    BY <1>0, VmKinds DEF WatchIsTheRuns
  <2>3. ThrownIsOnRecord'
    BY <1>0 DEF ThrownIsOnRecord
  <2> QED
    BY <2>1, <2>2, <2>3
<1>2. CASE BodyPark(r)
  <2> USE <1>2 DEF BodyPark, GuardPending, DropGuard, Closed
  <2>1. OneRun'
    BY <1>0 DEF OneRun
  <2>2. WatchIsTheRuns'
    BY <1>0, VmKinds DEF WatchIsTheRuns
  <2>3. ThrownIsOnRecord'
    BY <1>0 DEF ThrownIsOnRecord
  <2> QED
    BY <2>1, <2>2, <2>3
<1>3. CASE WatchPoll(r)
  <2> USE <1>3 DEF WatchPoll, GuardPending, DropGuard, Closed
  <2>1. OneRun'
    BY <1>0 DEF OneRun
  <2>2. WatchIsTheRuns'
    BY <1>0, VmKinds DEF WatchIsTheRuns
  <2>3. ThrownIsOnRecord'
    BY <1>0 DEF ThrownIsOnRecord
  <2> QED
    BY <2>1, <2>2, <2>3
<1>4. CASE \E answer \in {"ok", "error", "oom"} : BodyFinish(r, answer)
  <2> USE <1>4 DEF BodyFinish, DropGuard
  <2>1. OneRun'
    BY <1>0 DEF OneRun
  <2>2. WatchIsTheRuns'
    BY <1>0, VmKinds DEF WatchIsTheRuns
  <2>3. ThrownIsOnRecord'
    BY <1>0 DEF ThrownIsOnRecord
  <2> QED
    BY <2>1, <2>2, <2>3
<1>5. CASE BodyReap(r)
  <2> USE <1>5 DEF BodyReap, DropGuard, Closed
  <2>1. OneRun'
    BY <1>0 DEF OneRun
  <2>2. WatchIsTheRuns'
    BY <1>0, VmKinds DEF WatchIsTheRuns
  <2>3. ThrownIsOnRecord'
    BY <1>0 DEF ThrownIsOnRecord
  <2> QED
    BY <2>1, <2>2, <2>3
<1>6. CASE HaltBody(r)
  <2> USE <1>6 DEF HaltBody, GuardPending, DropGuard, Closed, Expired
  <2>1. OneRun'
    BY <1>0 DEF OneRun
  <2>2. WatchIsTheRuns'
    BY <1>0, VmKinds DEF WatchIsTheRuns
  <2>3. ThrownIsOnRecord'
    BY <1>0 DEF ThrownIsOnRecord
  <2> QED
    BY <2>1, <2>2, <2>3
<1> QED
  BY <1>1, <1>2, <1>3, <1>4, <1>5, <1>6 DEF VmStep

\* What is thrown in a callback is the run's, if there is one.
LEMMA CallbackOneAtATime ==
  ASSUME MaxInFlight = 1, BackstopPoisons, OneAtATime, RunsAreInOrder',
         CallbackStart \/ CallbackFinish \/ CallbackThrow \/ Report \/ HaltCallback
  PROVE  OneAtATime'
<1> USE DEF InFlight, Outlives, Live, OneAtATime, RunsAreInOrder, TypeOK, PhaseFitsBody,
            realmVars, watchVars, ghostVars
<1>0. \A r \in Runs : pc[r] = "waiting" => watch.active
  BY DEF WatchIsTheRuns
<1>1. CASE CallbackStart \/ CallbackFinish
  <2> USE <1>1 DEF CallbackStart, CallbackFinish
  <2>1. OneRun'
    BY <1>0 DEF OneRun
  <2>2. WatchIsTheRuns'
    BY <1>0, VmKinds DEF WatchIsTheRuns
  <2>3. ThrownIsOnRecord'
    BY <1>0 DEF ThrownIsOnRecord
  <2> QED
    BY <2>1, <2>2, <2>3
<1>2. CASE CallbackThrow
  <2> USE <1>2 DEF CallbackThrow, Begun
  <2>1. OneRun'
    BY <1>0 DEF OneRun
  <2>2. WatchIsTheRuns'
    BY <1>0, VmKinds DEF WatchIsTheRuns
  <2>3. ThrownIsOnRecord'
    BY <1>0 DEF ThrownIsOnRecord
  <2> QED
    BY <2>1, <2>2, <2>3
<1>3. CASE Report
  <2> USE <1>3 DEF Report, Watched, Begun
  <2>1. OneRun'
    BY <1>0 DEF OneRun
  <2>2. WatchIsTheRuns'
    BY <1>0, NoRunAssumption DEF WatchIsTheRuns
  <2>3. ThrownIsOnRecord'
    BY <1>0 DEF ThrownIsOnRecord
  <2> QED
    BY <2>1, <2>2, <2>3
<1>4. CASE HaltCallback
  <2> USE <1>4 DEF HaltCallback
  <2>1. OneRun'
    BY <1>0 DEF OneRun
  <2>2. WatchIsTheRuns'
    BY <1>0, VmKinds DEF WatchIsTheRuns
  <2>3. ThrownIsOnRecord'
    BY <1>0 DEF ThrownIsOnRecord
  <2> QED
    BY <2>1, <2>2, <2>3
<1> QED
  BY <1>1, <1>2, <1>3, <1>4

\* Every step keeps to one run.
LEMMA NextOneAtATime ==
  ASSUME MaxInFlight = 1, BackstopPoisons, OneAtATime, [Next]_vars
  PROVE  OneAtATime'
<1>1. RunsAreInOrder'
  BY NextInOrder DEF OneAtATime
<1>2. CASE UNCHANGED vars
  BY <1>1, <1>2 DEF vars, realmVars, watchVars, ghostVars, OneAtATime, OneRun, WatchIsTheRuns,
    ThrownIsOnRecord, InFlight, Outlives
<1> QED
  BY <1>1, <1>2, HostStepOneAtATime, VmStepOneAtATime, CallbackOneAtATime DEF Next

\* With one run at a time, what is thrown and logged during a run is that run's: it
\* does not answer that all is well, its parked body is woken, and the console is its
\* own (Runtime::run, uncaught.rs).
THEOREM FailuresAreTheRuns ==
  ASSUME MaxInFlight = 1, BackstopPoisons
  PROVE  Spec => []FailuresBelongToTheirRun
<1>1. OneAtATime /\ [Next]_vars => OneAtATime'
  BY NextOneAtATime
<1>2. OneAtATime => FailuresBelongToTheirRun
  BY DEF OneAtATime, RunsAreInOrder, WatchIsTheRuns, ThrownIsOnRecord, FailuresBelongToTheirRun,
    TypeOK, PhaseFitsBody, UncaughtFailsTheRun, FailedRunIsWoken, ConsoleIsTheRuns
<1> QED
  BY <1>1, <1>2, InitOneAtATime, PTL DEF Spec

\* With one run at a time, the watch begins and ends with its run: the host's hook
\* hears only what comes after the run failed, and no report is left for the next run
\* but in a realm that is given up (uncaught::begin, end, take).
THEOREM WatchIsForItsRun ==
  ASSUME MaxInFlight = 1, BackstopPoisons
  PROVE  Spec => WatchEndsWithItsRun
<1>1. OneAtATime /\ [Next]_vars => OneAtATime'
  BY NextOneAtATime
<1>2. ASSUME OneAtATime, [Next]_vars
      PROVE  [vm = Callback /\ vm' = Idle /\ thrown' # thrown => watch.failed]_vars
  <2> SUFFICES ASSUME Next, vm = Callback, vm' = Idle, thrown' # thrown PROVE watch.failed
    BY <1>2
  <2>1. ASSUME NEW r \in Runs, HostStep(r) \/ VmStep(r) \/ Lapse(r) PROVE thrown' = thrown
    BY <2>1 DEF HostStep, Enter, Refuse, Exhausted, Arm, Submit, End, EndTake, Finish, Backstop,
      DropEarly, Drop, Lapse, VmStep, BodyStart, BodyResume, BodyPark, HaltBody, BodyFinish,
      WatchPoll, BodyReap, ghostVars
  <2>2. CallbackThrow
    BY <2>1, VmKinds DEF Next, CallbackStart, CallbackFinish, Report, HaltCallback, ghostVars
  <2> QED
    BY <1>2, <2>2, VmKinds DEF CallbackThrow, Begun, OneAtATime, WatchIsTheRuns
<1>3. ASSUME OneAtATime, [Next]_vars
      PROVE  [\A r \in Watched : r \notin Watched' /\ watch.failed => ~watch'.failed \/ poisoned']_vars
  <2> SUFFICES ASSUME Next, NEW r \in Watched, r \notin Watched' PROVE ~watch'.failed \/ poisoned'
    BY <1>3
  <2> USE DEF Watched, Begun
  <2>1. PICK s \in Runs : HostStep(s)
    BY DEF Next, VmStep, BodyStart, BodyResume, BodyPark, HaltBody, BodyFinish, WatchPoll,
      BodyReap, Lapse, CallbackStart, CallbackFinish, CallbackThrow, Report, HaltCallback
  <2>2. EndTake(s) \/ Backstop(s) \/ Drop(s)
    BY <1>3, <2>1 DEF HostStep, Enter, Refuse, Exhausted, Classify, Arm, Submit, End, Finish,
      DropEarly, OneAtATime, RunsAreInOrder, TypeOK
  <2> QED
    BY <1>3, <2>2 DEF EndTake, Backstop, Drop, OneAtATime, RunsAreInOrder, TypeOK
<1>4. Spec => []OneAtATime
  BY <1>1, InitOneAtATime, PTL DEF Spec
<1> QED
  BY <1>2, <1>3, <1>4, PTL DEF Spec, WatchEndsWithItsRun, HookHearsOnlyTheRest, ReportEndsWithItsRun
===============================================================================
