-------------------------------- MODULE VmLoop --------------------------------
(***************************************************************************)
(* The event loop that owns a realm's VM (crates/ferrijs/src/vm.rs).       *)
(*                                                                         *)
(* Tasks on any thread submit jobs: `reserve` takes a permit from the      *)
(* admission counter or refuses at once, `with_parked` sends the job on an *)
(* unbounded channel and awaits its reply.  One task owns the VM: it takes *)
(* jobs off the channel, spawns each on the VM's scheduler and polls them  *)
(* one at a time.  Callers run on other threads, so a caller may go away   *)
(* between any two instructions of the job it submitted.                   *)
(***************************************************************************)
EXTENDS FiniteSets, Integers, Sequences, TLAPS, FiniteSetTheorems

CONSTANTS
  Calls,     \* The calls of VmHandle::with that are ever made
  Capacity   \* The admission limit, Builder::vm_capacity

\* Runtime::create refuses a capacity of zero.
ASSUME CapacityAssumption == Capacity \in Nat \ {0}

ASSUME CallsAssumption == IsFiniteSet(Calls)

VARIABLES
  available,  \* VmHandle::admission
  queue,      \* The channel from the handles to the loop
  caller,     \* Where the task that makes each call is
  job,        \* Where the job of each call is
  value,      \* Whether the job's body produced the value to reply with
  entered,    \* Whether the job's body was ever called into
  loop,       \* The loop task
  shutdown,   \* Whether the session dropped its VmShutdown
  handles     \* Whether some VmHandle still exists

vars == <<available, queue, caller, job, value, entered, loop, shutdown, handles>>

\* A job within one poll: the loop task polls nothing else meanwhile.
MidPoll == {"entering", "polling", "body", "parking", "unwinding", "replying"}

JobState == {"none", "queued", "spawned", "parked", "done", "dropped"} \cup MidPoll

CallerState == {"idle", "reserved", "waiting", "answered", "exhausted",
                "loop_gone", "job_dropped", "cancelled"}

VmIdle == \A c \in Calls : job[c] \notin MidPoll

\* The loop's future still polls the scheduler: it has not returned from recv.
Driving == loop = "running"

\* VmPermit is moved from the reservation into the job and from there into the
\* job's future; it is given back where its holder drops it.
HoldsPermit(c) ==
  \/ caller[c] = "reserved"
  \/ job[c] \in {"queued", "spawned", "entering", "polling", "body",
                 "parking", "parked", "unwinding"}

Holders == {c \in Calls : HoldsPermit(c)}

\* tx.is_closed(): the caller's end of the reply channel is gone.
Closed(c) == caller[c] = "cancelled"

Init ==
  /\ available = Capacity
  /\ queue = <<>>
  /\ caller = [c \in Calls |-> "idle"]
  /\ job = [c \in Calls |-> "none"]
  /\ value = [c \in Calls |-> FALSE]
  /\ entered = [c \in Calls |-> FALSE]
  /\ loop = "running"
  /\ shutdown = FALSE
  /\ handles = TRUE

-------------------------------------------------------------------------------
(* The caller's side *)

\* Variant: the counter is decremented without the check.
Reserve_Unchecked(c) ==
  /\ handles
  /\ caller[c] = "idle"
  /\ available' = available - 1
  /\ caller' = [caller EXCEPT ![c] = "reserved"]
  /\ UNCHANGED <<queue, job, value, entered, loop, shutdown, handles>>

Reserve(c) ==
  /\ handles
  /\ caller[c] = "idle"
  /\ available > 0
  /\ available' = available - 1
  /\ caller' = [caller EXCEPT ![c] = "reserved"]
  /\ UNCHANGED <<queue, job, value, entered, loop, shutdown, handles>>

ReserveExhausted(c) ==
  /\ handles
  /\ caller[c] = "idle"
  /\ available = 0
  /\ caller' = [caller EXCEPT ![c] = "exhausted"]
  /\ UNCHANGED <<available, queue, job, value, entered, loop, shutdown, handles>>

Submit(c) ==
  /\ caller[c] = "reserved"
  /\ loop # "ended"
  /\ queue' = Append(queue, c)
  /\ job' = [job EXCEPT ![c] = "queued"]
  /\ caller' = [caller EXCEPT ![c] = "waiting"]
  /\ UNCHANGED <<available, value, entered, loop, shutdown, handles>>

\* Variant: the job handed back by a failed send is leaked.
SubmitFails_KeepsPermit(c) ==
  /\ caller[c] = "reserved"
  /\ loop = "ended"
  /\ caller' = [caller EXCEPT ![c] = "loop_gone"]
  /\ UNCHANGED <<available, queue, job, value, entered, loop, shutdown, handles>>

\* The receiver is gone: send hands the job back, and dropping it drops the
\* permit.
SubmitFails(c) ==
  /\ caller[c] = "reserved"
  /\ loop = "ended"
  /\ available' = available + 1
  /\ caller' = [caller EXCEPT ![c] = "loop_gone"]
  /\ UNCHANGED <<queue, job, value, entered, loop, shutdown, handles>>

\* Variant: the reservation has no permit of its own to drop.
CancelReservation_KeepsPermit(c) ==
  /\ caller[c] = "reserved"
  /\ caller' = [caller EXCEPT ![c] = "cancelled"]
  /\ UNCHANGED <<available, queue, job, value, entered, loop, shutdown, handles>>

\* The caller is dropped between reserve and with: the run bracket awaits the
\* engine's setters there.
CancelReservation(c) ==
  /\ caller[c] = "reserved"
  /\ available' = available + 1
  /\ caller' = [caller EXCEPT ![c] = "cancelled"]
  /\ UNCHANGED <<queue, job, value, entered, loop, shutdown, handles>>

CancelCall(c) ==
  /\ caller[c] = "waiting"
  /\ caller' = [caller EXCEPT ![c] = "cancelled"]
  /\ UNCHANGED <<available, queue, job, value, entered, loop, shutdown, handles>>

\* Variant: the reply is sent before the permit is dropped.
ReceiveReply_BeforeRelease(c) ==
  /\ caller[c] = "waiting"
  /\ job[c] \in {"unwinding", "replying", "done"}
  /\ value[c]
  /\ caller' = [caller EXCEPT ![c] = "answered"]
  /\ UNCHANGED <<available, queue, job, value, entered, loop, shutdown, handles>>

ReceiveReply(c) ==
  /\ caller[c] = "waiting"
  /\ job[c] = "done"
  /\ value[c]
  /\ caller' = [caller EXCEPT ![c] = "answered"]
  /\ UNCHANGED <<available, queue, job, value, entered, loop, shutdown, handles>>

\* The sender was dropped without sending.
ReceiveDropped(c) ==
  /\ caller[c] = "waiting"
  /\ \/ job[c] = "dropped"
     \/ job[c] = "done" /\ ~value[c]
  /\ caller' = [caller EXCEPT ![c] = "job_dropped"]
  /\ UNCHANGED <<available, queue, job, value, entered, loop, shutdown, handles>>

-------------------------------------------------------------------------------
(* The loop task *)

\* Variant: the job is read but left in the channel.
LoopReceive_Peeks ==
  /\ Driving
  /\ VmIdle
  /\ queue # <<>>
  /\ job' = [job EXCEPT ![Head(queue)] = "spawned"]
  /\ UNCHANGED <<available, queue, caller, value, entered, loop, shutdown, handles>>

\* Variant: the loop awaits each job in place of spawning it.
LoopReceive_AwaitsJobs ==
  /\ Driving
  /\ VmIdle
  /\ queue # <<>>
  /\ \A c \in Calls : job[c] \notin {"spawned", "parked"}
  /\ job' = [job EXCEPT ![Head(queue)] = "spawned"]
  /\ queue' = Tail(queue)
  /\ UNCHANGED <<available, caller, value, entered, loop, shutdown, handles>>

LoopReceive ==
  /\ Driving
  /\ VmIdle
  /\ queue # <<>>
  /\ job' = [job EXCEPT ![Head(queue)] = "spawned"]
  /\ queue' = Tail(queue)
  /\ UNCHANGED <<available, caller, value, entered, loop, shutdown, handles>>

\* recv answers None once every handle is gone; otherwise the shutdown branch
\* is polled only after recv, so only when the channel is empty.
LoopBreak ==
  /\ Driving
  /\ VmIdle
  /\ queue = <<>>
  /\ shutdown \/ ~handles
  /\ loop' = "broken"
  /\ UNCHANGED <<available, queue, caller, job, value, entered, shutdown, handles>>

\* Variant: the receiver outlives the loop and keeps what was queued.
LoopEnd_LeavesQueue ==
  /\ loop = "broken"
  /\ loop' = "ended"
  /\ UNCHANGED <<available, queue, caller, job, value, entered, shutdown, handles>>

\* The loop's future completes and its receiver is dropped with whatever was
\* still queued, permits included.
LoopEnd ==
  /\ loop = "broken"
  /\ loop' = "ended"
  /\ job' = [c \in Calls |-> IF job[c] = "queued" THEN "dropped" ELSE job[c]]
  /\ available' = available + Cardinality({c \in Calls : job[c] = "queued"})
  /\ queue' = <<>>
  /\ UNCHANGED <<caller, value, entered, shutdown, handles>>

\* With the loop's context and the session gone the engine is freed, and the
\* futures left on its scheduler with it.
RuntimeDropped ==
  /\ loop = "ended"
  /\ shutdown
  /\ LET left == {c \in Calls : job[c] \in {"spawned", "parked"}}
     IN /\ left # {}
        /\ job' = [c \in Calls |-> IF c \in left THEN "dropped" ELSE job[c]]
        /\ available' = available + Cardinality(left)
  /\ UNCHANGED <<queue, caller, value, entered, loop, shutdown, handles>>

-------------------------------------------------------------------------------
(* One poll of a job, instruction by instruction *)

\* Variant: no look at the reply channel before the body is called.
JobStart_Unchecked(c) ==
  /\ Driving
  /\ VmIdle
  /\ job[c] = "spawned"
  /\ job' = [job EXCEPT ![c] = "entering"]
  /\ UNCHANGED <<available, queue, caller, value, entered, loop, shutdown, handles>>

\* First poll: a call cancelled while its job was queued ends here.
JobStart(c) ==
  /\ Driving
  /\ VmIdle
  /\ job[c] = "spawned"
  /\ IF Closed(c)
     THEN /\ job' = [job EXCEPT ![c] = "done"]
          /\ available' = available + 1
     ELSE /\ job' = [job EXCEPT ![c] = "entering"]
          /\ UNCHANGED available
  /\ UNCHANGED <<queue, caller, value, entered, loop, shutdown, handles>>

\* `let mut future = f(ctx)`
JobEnter(c) ==
  /\ job[c] = "entering"
  /\ job' = [job EXCEPT ![c] = "polling"]
  /\ entered' = [entered EXCEPT ![c] = TRUE]
  /\ UNCHANGED <<available, queue, caller, value, loop, shutdown, handles>>

\* The top of the poll_fn: no poll of the body once the caller is gone.
JobCheck(c) ==
  /\ job[c] = "polling"
  /\ job' = [job EXCEPT ![c] = IF Closed(c) THEN "unwinding" ELSE "body"]
  /\ UNCHANGED <<available, queue, caller, value, entered, loop, shutdown, handles>>

JobBodyReady(c) ==
  /\ job[c] = "body"
  /\ job' = [job EXCEPT ![c] = "unwinding"]
  /\ value' = [value EXCEPT ![c] = TRUE]
  /\ UNCHANGED <<available, queue, caller, entered, loop, shutdown, handles>>

JobBodyPending(c) ==
  /\ job[c] = "body"
  /\ job' = [job EXCEPT ![c] = "parking"]
  /\ UNCHANGED <<available, queue, caller, value, entered, loop, shutdown, handles>>

\* Variant: poll_closed's answer is not looked at.
JobPark_Unwinds(c) ==
  /\ job[c] = "parking"
  /\ job' = [job EXCEPT ![c] = "unwinding"]
  /\ UNCHANGED <<available, queue, caller, value, entered, loop, shutdown, handles>>

\* tx.poll_closed(cx): either the caller is gone, or its going will wake the job.
JobPark(c) ==
  /\ job[c] = "parking"
  /\ job' = [job EXCEPT ![c] = IF Closed(c) THEN "unwinding" ELSE "parked"]
  /\ UNCHANGED <<available, queue, caller, value, entered, loop, shutdown, handles>>

\* The body's future has been dropped; now the permit, and only then the reply.
JobRelease(c) ==
  /\ job[c] = "unwinding"
  /\ available' = available + 1
  /\ job' = [job EXCEPT ![c] = IF value[c] THEN "replying" ELSE "done"]
  /\ UNCHANGED <<queue, caller, value, entered, loop, shutdown, handles>>

JobReply(c) ==
  /\ job[c] = "replying"
  /\ job' = [job EXCEPT ![c] = "done"]
  /\ UNCHANGED <<available, queue, caller, value, entered, loop, shutdown, handles>>

\* Whatever the body awaited completed (or the scheduler polled it anyway).
BodyWoken(c) ==
  /\ Driving
  /\ VmIdle
  /\ job[c] = "parked"
  /\ job' = [job EXCEPT ![c] = "polling"]
  /\ UNCHANGED <<available, queue, caller, value, entered, loop, shutdown, handles>>

\* Variant: the parked job registers no waker for its caller going away.
CancelWakes_Unregistered(c) ==
  /\ FALSE
  /\ UNCHANGED vars

\* The waker poll_closed registered.
CancelWakes(c) ==
  /\ Driving
  /\ VmIdle
  /\ job[c] = "parked"
  /\ Closed(c)
  /\ job' = [job EXCEPT ![c] = "polling"]
  /\ UNCHANGED <<available, queue, caller, value, entered, loop, shutdown, handles>>

-------------------------------------------------------------------------------
(* The session *)

DropShutdown ==
  /\ ~shutdown
  /\ shutdown' = TRUE
  /\ UNCHANGED <<available, queue, caller, job, value, entered, loop, handles>>

\* A call borrows its handle, so the last handle outlives every call.
DropHandles ==
  /\ handles
  /\ \A c \in Calls : caller[c] \notin {"reserved", "waiting"}
  /\ handles' = FALSE
  /\ UNCHANGED <<available, queue, caller, job, value, entered, loop, shutdown>>

CallerStep(c) ==
  \/ Reserve(c) \/ ReserveExhausted(c)
  \/ Submit(c) \/ SubmitFails(c)
  \/ CancelReservation(c) \/ CancelCall(c)
  \/ ReceiveReply(c) \/ ReceiveDropped(c)

JobStep(c) ==
  \/ JobStart(c) \/ JobEnter(c) \/ JobCheck(c)
  \/ JobBodyReady(c) \/ JobBodyPending(c) \/ JobPark(c)
  \/ JobRelease(c) \/ JobReply(c)
  \/ BodyWoken(c) \/ CancelWakes(c)

LoopStep == LoopReceive \/ LoopBreak \/ LoopEnd \/ RuntimeDropped

Next ==
  \/ \E c \in Calls : CallerStep(c) \/ JobStep(c)
  \/ LoopStep
  \/ DropShutdown
  \/ DropHandles

Spec == Init /\ [][Next]_vars

\* Every poll of the loop task polls recv first and then the scheduler, which
\* serves its wake queue in order and yields: neither the loop nor a job that is
\* due a poll is passed over for ever by jobs that keep waking (hence SF).
\* Nothing is assumed of the bodies (a parked one may never be woken), of
\* callers that could call or be dropped, nor of the session.
Fairness ==
  /\ SF_vars(LoopStep)
  /\ \A c \in Calls :
       /\ SF_vars(JobStart(c))
       /\ SF_vars(CancelWakes(c))
       /\ WF_vars(JobEnter(c) \/ JobCheck(c) \/ JobBodyReady(c) \/ JobBodyPending(c)
                   \/ JobPark(c) \/ JobRelease(c) \/ JobReply(c))
       /\ WF_vars(Submit(c) \/ SubmitFails(c) \/ ReceiveReply(c) \/ ReceiveDropped(c))

FairSpec == Spec /\ Fairness

-------------------------------------------------------------------------------
(* Properties *)

TypeOK ==
  /\ available \in 0..Capacity
  /\ queue \in Seq(Calls)
  /\ caller \in [Calls -> CallerState]
  /\ job \in [Calls -> JobState]
  /\ value \in [Calls -> BOOLEAN]
  /\ entered \in [Calls -> BOOLEAN]
  /\ loop \in {"running", "broken", "ended"}
  /\ shutdown \in BOOLEAN
  /\ handles \in BOOLEAN

\* No permit is lost and none is given back twice, whichever of the five places
\* that drop one got there first (a reply, a cancelled job, a refused
\* submission, an abandoned reservation, the loop and the engine going away).
PermitsConserved ==
  available + Cardinality(Holders) = Capacity

\* A reply may immediately submit another job on another thread: by the time
\* a caller has its answer, of any kind, its permit is back.
AnsweredCallersHoldNoPermit ==
  \A c \in Calls :
    caller[c] \in {"answered", "loop_gone", "exhausted"} => ~HoldsPermit(c)

\* A refusal for capacity means that many callers really have an unanswered
\* call, or left one behind that the VM has not ended yet.
Unanswered(c) ==
  \/ caller[c] \in {"reserved", "waiting"}
  \/ caller[c] = "cancelled" /\ job[c] \notin {"none", "done", "dropped"}
RefusedOnlyWhenFull ==
  [][\A c \in Calls :
       caller[c] = "idle" /\ caller'[c] = "exhausted" =>
         Cardinality({d \in Calls : Unanswered(d)}) >= Capacity]_vars

\* A caller dropped before its job is first polled never has its body called.
\* (Dropped later, between that poll's look at the reply channel and the call,
\* it may still see its body called once.)
CancelledBeforeStartNeverRuns ==
  \A c \in Calls :
    [](Closed(c) /\ job[c] \in {"none", "queued", "spawned"} => []~entered[c])

\* The calls the loop may have to answer for are in the channel exactly once,
\* so a job is spawned once and jobs start in the order they were submitted.
QueueHoldsQueuedJobs ==
  /\ \A c \in Calls : job[c] = "queued" <=> \E i \in DOMAIN queue : queue[i] = c
  /\ \A i, j \in DOMAIN queue : queue[i] = queue[j] => i = j

\* Dropping the caller frees its permit even when the body is parked on
\* something that never happens, as long as a handle is left to want it.
CancelledCallFreesItsPermit ==
  \A c \in Calls :
    Closed(c) /\ HoldsPermit(c) ~> ~HoldsPermit(c) \/ ~handles

\* A job parked on a host await never blocks one that arrives behind it: every
\* submitted job has its body called, unless its caller is answered without.
SubmittedJobStarts ==
  \A c \in Calls : caller[c] = "waiting" ~> entered[c] \/ caller[c] # "waiting"

\* Once the session drops its VmShutdown no caller is left waiting for ever.
ShutdownAnswersEveryCaller ==
  \A c \in Calls :
    shutdown /\ caller[c] \in {"reserved", "waiting"}
      ~> caller[c] \notin {"reserved", "waiting"}

\* Callers, channel, jobs and the admission counter of VmHandle tell one story.
CallsAndJobsAgree ==
  /\ TypeOK
  /\ PermitsConserved
  /\ QueueHoldsQueuedJobs
  /\ AnsweredCallersHoldNoPermit

\* A caller that goes away takes its job along (with_parked).
CancelledCallIsUndone == CancelledBeforeStartNeverRuns /\ CancelledCallFreesItsPermit

\* No caller waits for ever on the loop itself (the loop task of vm.rs).
EveryCallMovesOn == SubmittedJobStarts /\ ShutdownAnswersEveryCaller

-------------------------------------------------------------------------------
(* The job service this implements *)

ClientOf(c) ==
  IF caller[c] = "idle" THEN "new"
  ELSE IF caller[c] \in {"reserved", "waiting"} THEN "waiting"
  ELSE IF caller[c] = "exhausted" THEN "refused"
  ELSE IF caller[c] \in {"loop_gone", "job_dropped"} THEN "failed"
  ELSE caller[c]

WorkOf(c) ==
  IF caller[c] = "reserved" \/ job[c] \in {"queued", "spawned", "entering"} THEN "held"
  ELSE IF job[c] \in {"polling", "body", "parking", "parked", "unwinding"} THEN "begun"
  ELSE IF job[c] \in {"replying", "done"} /\ value[c] THEN "completed"
  ELSE IF job[c] \in {"done", "dropped"} \/ caller[c] \in {"loop_gone", "cancelled"}
       THEN "abandoned"
  ELSE "none"

Service == INSTANCE JobService WITH
  client <- [c \in Calls |-> ClientOf(c)],
  work <- [c \in Calls |-> WorkOf(c)],
  closed <- loop # "running"

ImplementsJobService == Service!Spec

-------------------------------------------------------------------------------
(* Proofs, for every set of calls and every capacity.                      *)
(*                                                                         *)
(* None of the invariants is inductive alone.  The permit account needs to *)
(* know that a call that has not been submitted has no job, and that the   *)
(* job at the head of the channel is still the queued one; the channel     *)
(* needs that a call is submitted once.  IInv is their conjunction.  That  *)
(* every step is one of the job service needs in addition how a job's end  *)
(* is known to its caller (EndsAreExplained).                              *)

\* How far a caller is bounds where its job can be.
CallerAgreesWithJob ==
  \A c \in Calls :
    /\ caller[c] \in {"idle", "reserved", "exhausted", "loop_gone"} => job[c] = "none"
    /\ caller[c] = "waiting" => job[c] # "none"
    /\ caller[c] = "answered" => job[c] = "done"
    /\ caller[c] = "job_dropped" => job[c] \in {"done", "dropped"}

IInv ==
  /\ TypeOK
  /\ PermitsConserved
  /\ QueueHoldsQueuedJobs
  /\ CallerAgreesWithJob

-------------------------------------------------------------------------------
(* The permit account *)

\* The permit holders are finitely many, so they can be counted.
LEMMA HoldersFinite ==
  /\ IsFiniteSet(Holders)
  /\ Cardinality(Holders) \in Nat
<1>1. Holders \subseteq Calls
  BY DEF Holders
<1>2. IsFiniteSet(Holders)
  BY <1>1, CallsAssumption, FS_Subset
<1> QED
  BY <1>2, FS_CardinalityType

\* The same of the holders after a step.
LEMMA HoldersFiniteNext ==
  /\ IsFiniteSet(Holders')
  /\ Cardinality(Holders') \in Nat
<1>1. Holders' \subseteq Calls
  BY DEF Holders
<1>2. IsFiniteSet(Holders')
  BY <1>1, CallsAssumption, FS_Subset
<1> QED
  BY <1>2, FS_CardinalityType

\* A step that neither takes nor gives a permit keeps the account.
LEMMA AccountKept ==
  ASSUME TypeOK, PermitsConserved,
         available' = available,
         \A c \in Calls : HoldsPermit(c)' <=> HoldsPermit(c)
  PROVE  PermitsConserved' /\ available' \in 0..Capacity
<1>1. Holders' = Holders
  BY DEF Holders
<1> QED
  BY <1>1 DEF PermitsConserved, TypeOK

\* One call takes a permit off the counter.
LEMMA AccountTaken ==
  ASSUME TypeOK, PermitsConserved,
         NEW c \in Calls,
         available > 0,
         available' = available - 1,
         ~HoldsPermit(c), HoldsPermit(c)',
         \A d \in Calls \ {c} : HoldsPermit(d)' <=> HoldsPermit(d)
  PROVE  PermitsConserved' /\ available' \in 0..Capacity
<1>1. Holders' = Holders \cup {c} /\ c \notin Holders
  BY DEF Holders
<1>2. Cardinality(Holders') = Cardinality(Holders) + 1
  BY <1>1, HoldersFinite, FS_AddElement
<1> QED
  BY <1>2, HoldersFinite, CapacityAssumption DEF PermitsConserved, TypeOK

\* One call gives its permit back.
LEMMA AccountReturned ==
  ASSUME TypeOK, PermitsConserved,
         NEW c \in Calls,
         available' = available + 1,
         HoldsPermit(c), ~HoldsPermit(c)',
         \A d \in Calls \ {c} : HoldsPermit(d)' <=> HoldsPermit(d)
  PROVE  PermitsConserved' /\ available' \in 0..Capacity
<1>1. Holders' = Holders \ {c} /\ c \in Holders
  BY DEF Holders
<1>2. Cardinality(Holders') = Cardinality(Holders) - 1
  BY <1>1, HoldersFinite, FS_RemoveElement
<1>3. Cardinality(Holders') \in Nat
  BY HoldersFiniteNext
<1> QED
  BY <1>2, <1>3, HoldersFinite, CapacityAssumption DEF PermitsConserved, TypeOK

\* Teardown gives back the permits of every job it drops, at once.
LEMMA AccountTornDown ==
  ASSUME TypeOK, PermitsConserved,
         NEW left, left \subseteq Holders,
         available' = available + Cardinality(left),
         \A c \in Calls : HoldsPermit(c)' <=> HoldsPermit(c) /\ c \notin left
  PROVE  PermitsConserved' /\ available' \in 0..Capacity
<1>1. Holders' = Holders \ left
  BY DEF Holders
<1>2. Holders \cap left = left
  OBVIOUS
<1>3. Cardinality(Holders') = Cardinality(Holders) - Cardinality(left)
  BY <1>1, <1>2, HoldersFinite, FS_Difference
<1>4. IsFiniteSet(left)
  BY HoldersFinite, FS_Subset
<1>5. Cardinality(left) \in Nat
  BY <1>4, FS_CardinalityType
<1>6. Cardinality(Holders') \in Nat
  BY HoldersFiniteNext
<1> QED
  BY <1>3, <1>5, <1>6, HoldersFinite, CapacityAssumption
  DEF PermitsConserved, TypeOK

-------------------------------------------------------------------------------
(* The inductive invariant *)

\* Initially every permit is on the counter and no call has a job.
LEMMA InitIInv == Init => IInv
<1> SUFFICES ASSUME Init PROVE IInv
  OBVIOUS
<1>1. Holders = {}
  BY DEF Init, Holders, HoldsPermit, MidPoll
<1>2. Cardinality(Holders) = 0
  BY <1>1, FS_EmptySet
<1>3. TypeOK
  <2>1. available \in 0..Capacity
    BY CapacityAssumption DEF Init
  <2>2. queue \in Seq(Calls)
    BY DEF Init
  <2>3. caller \in [Calls -> CallerState] /\ job \in [Calls -> JobState]
    BY DEF Init, CallerState, JobState
  <2>4. value \in [Calls -> BOOLEAN] /\ entered \in [Calls -> BOOLEAN]
    BY DEF Init
  <2> QED
    BY <2>1, <2>2, <2>3, <2>4 DEF Init, TypeOK
<1>4. PermitsConserved
  BY <1>2, CapacityAssumption DEF Init, PermitsConserved
<1>5. QueueHoldsQueuedJobs /\ CallerAgreesWithJob
  BY DEF Init, QueueHoldsQueuedJobs, CallerAgreesWithJob
<1> QED
  BY <1>3, <1>4, <1>5 DEF IInv

\* Every step of a caller keeps it.
LEMMA CallerStepIInv ==
  ASSUME IInv, NEW c \in Calls, CallerStep(c)
  PROVE  IInv'
<1> USE DEF IInv
<1>1. CASE Reserve(c)
  <2>1. ~HoldsPermit(c) /\ HoldsPermit(c)'
    BY <1>1 DEF Reserve, HoldsPermit, CallerAgreesWithJob, TypeOK
  <2>2. \A d \in Calls \ {c} : HoldsPermit(d)' <=> HoldsPermit(d)
    BY <1>1 DEF Reserve, HoldsPermit, TypeOK
  <2>3. PermitsConserved' /\ available' \in 0..Capacity
    BY <1>1, <2>1, <2>2, AccountTaken DEF Reserve
  <2>4. TypeOK'
    BY <1>1, <2>3 DEF Reserve, TypeOK, CallerState
  <2>5. QueueHoldsQueuedJobs'
    BY <1>1 DEF Reserve, QueueHoldsQueuedJobs
  <2>6. CallerAgreesWithJob'
    BY <1>1 DEF Reserve, CallerAgreesWithJob, TypeOK
  <2> QED
    BY <2>3, <2>4, <2>5, <2>6
<1>2. CASE ReserveExhausted(c)
  <2>1. \A d \in Calls : HoldsPermit(d)' <=> HoldsPermit(d)
    BY <1>2 DEF ReserveExhausted, HoldsPermit, TypeOK
  <2>2. PermitsConserved' /\ available' \in 0..Capacity
    BY <1>2, <2>1, AccountKept DEF ReserveExhausted
  <2>3. TypeOK'
    BY <1>2, <2>2 DEF ReserveExhausted, TypeOK, CallerState
  <2>4. QueueHoldsQueuedJobs' /\ CallerAgreesWithJob'
    BY <1>2 DEF ReserveExhausted, QueueHoldsQueuedJobs, CallerAgreesWithJob, TypeOK
  <2> QED
    BY <2>2, <2>3, <2>4
<1>3. CASE Submit(c)
  <2>1. \A d \in Calls : HoldsPermit(d)' <=> HoldsPermit(d)
    BY <1>3 DEF Submit, HoldsPermit, TypeOK
  <2>2. PermitsConserved' /\ available' \in 0..Capacity
    BY <1>3, <2>1, AccountKept DEF Submit
  <2>3. TypeOK'
    BY <1>3, <2>2 DEF Submit, TypeOK, CallerState, JobState
  <2>4. job[c] # "queued"
    BY <1>3 DEF Submit, CallerAgreesWithJob
  <2>5. /\ DOMAIN queue' = 1..Len(queue) + 1
        /\ queue'[Len(queue) + 1] = c
        /\ \A i \in 1..Len(queue) : queue'[i] = queue[i]
        /\ Len(queue) \in Nat
        /\ DOMAIN queue = 1..Len(queue)
    BY <1>3 DEF Submit, TypeOK
  <2>6. QueueHoldsQueuedJobs'
    BY <1>3, <2>4, <2>5 DEF Submit, QueueHoldsQueuedJobs, TypeOK
  <2>7. CallerAgreesWithJob'
    BY <1>3 DEF Submit, CallerAgreesWithJob, TypeOK
  <2> QED
    BY <2>2, <2>3, <2>6, <2>7
<1>4. CASE SubmitFails(c) \/ CancelReservation(c)
  <2>1. HoldsPermit(c) /\ ~HoldsPermit(c)'
    BY <1>4 DEF SubmitFails, CancelReservation, HoldsPermit, CallerAgreesWithJob, TypeOK
  <2>2. \A d \in Calls \ {c} : HoldsPermit(d)' <=> HoldsPermit(d)
    BY <1>4 DEF SubmitFails, CancelReservation, HoldsPermit, TypeOK
  <2>3. PermitsConserved' /\ available' \in 0..Capacity
    BY <1>4, <2>1, <2>2, AccountReturned DEF SubmitFails, CancelReservation
  <2>4. TypeOK'
    BY <1>4, <2>3 DEF SubmitFails, CancelReservation, TypeOK, CallerState
  <2>5. QueueHoldsQueuedJobs'
    BY <1>4 DEF SubmitFails, CancelReservation, QueueHoldsQueuedJobs
  <2>6. CallerAgreesWithJob'
    BY <1>4 DEF SubmitFails, CancelReservation, CallerAgreesWithJob, TypeOK
  <2> QED
    BY <2>3, <2>4, <2>5, <2>6
<1>5. CASE CancelCall(c) \/ ReceiveReply(c) \/ ReceiveDropped(c)
  <2>1. \A d \in Calls : HoldsPermit(d)' <=> HoldsPermit(d)
    BY <1>5 DEF CancelCall, ReceiveReply, ReceiveDropped, HoldsPermit, TypeOK
  <2>2. PermitsConserved' /\ available' \in 0..Capacity
    BY <1>5, <2>1, AccountKept DEF CancelCall, ReceiveReply, ReceiveDropped
  <2>3. TypeOK'
    BY <1>5, <2>2 DEF CancelCall, ReceiveReply, ReceiveDropped, TypeOK, CallerState
  <2>4. QueueHoldsQueuedJobs'
    BY <1>5 DEF CancelCall, ReceiveReply, ReceiveDropped, QueueHoldsQueuedJobs
  <2>5. CallerAgreesWithJob'
    BY <1>5 DEF CancelCall, ReceiveReply, ReceiveDropped, CallerAgreesWithJob, TypeOK
  <2> QED
    BY <2>2, <2>3, <2>4, <2>5
<1> QED
  BY <1>1, <1>2, <1>3, <1>4, <1>5 DEF CallerStep

\* Every step of a poll of a job keeps it.
LEMMA JobStepIInv ==
  ASSUME IInv, NEW c \in Calls, JobStep(c)
  PROVE  IInv'
<1> USE DEF IInv
<1> DEFINE Moves == \/ JobEnter(c) \/ JobCheck(c) \/ JobBodyReady(c)
                    \/ JobBodyPending(c) \/ JobPark(c) \/ JobReply(c)
                    \/ BodyWoken(c) \/ CancelWakes(c)
<1>1. CASE (JobStart(c) /\ ~Closed(c)) \/ Moves
  <2> USE <1>1 DEF JobStart, JobEnter, JobCheck, JobBodyReady, JobBodyPending,
                   JobPark, JobReply, BodyWoken, CancelWakes
  <2>1. \A d \in Calls : HoldsPermit(d)' <=> HoldsPermit(d)
    BY DEF HoldsPermit, TypeOK
  <2>2. PermitsConserved' /\ available' \in 0..Capacity
    BY <2>1, AccountKept
  <2>3. TypeOK'
    BY <2>2 DEF TypeOK, JobState, MidPoll
  <2>4. QueueHoldsQueuedJobs'
    BY DEF QueueHoldsQueuedJobs, TypeOK
  <2>5. CallerAgreesWithJob'
    BY DEF CallerAgreesWithJob, TypeOK
  <2> QED
    BY <2>2, <2>3, <2>4, <2>5
<1>2. CASE (JobStart(c) /\ Closed(c)) \/ JobRelease(c)
  <2> USE <1>2 DEF JobStart, JobRelease
  <2>1. HoldsPermit(c)
    BY DEF HoldsPermit
  <2>2. ~HoldsPermit(c)'
    <3>1. job'[c] \in {"done", "replying"}
      BY DEF TypeOK
    <3>2. caller[c] # "reserved"
      BY DEF CallerAgreesWithJob
    <3> QED
      BY <3>1, <3>2 DEF HoldsPermit
  <2>3. \A d \in Calls \ {c} : HoldsPermit(d)' <=> HoldsPermit(d)
    BY DEF HoldsPermit, TypeOK
  <2>4. PermitsConserved' /\ available' \in 0..Capacity
    BY <2>1, <2>2, <2>3, AccountReturned
  <2>5. TypeOK'
    BY <2>4 DEF TypeOK, JobState, MidPoll
  <2>6. QueueHoldsQueuedJobs'
    BY DEF QueueHoldsQueuedJobs, TypeOK
  <2>7. CallerAgreesWithJob'
    BY DEF CallerAgreesWithJob, TypeOK
  <2> QED
    BY <2>4, <2>5, <2>6, <2>7
<1> QED
  BY <1>1, <1>2 DEF JobStep

\* Every step of the loop task keeps it.
LEMMA LoopStepIInv ==
  ASSUME IInv, LoopStep
  PROVE  IInv'
<1> USE DEF IInv
<1>1. CASE LoopReceive
  <2> DEFINE h == Head(queue)
  <2>1. /\ queue # <<>>
        /\ Len(queue) \in Nat \ {0}
        /\ DOMAIN queue = 1..Len(queue)
        /\ h = queue[1] /\ h \in Calls
        /\ DOMAIN queue' = 1..Len(queue) - 1
        /\ \A i \in 1..Len(queue) - 1 : queue'[i] = queue[i + 1]
        /\ queue' \in Seq(Calls)
    BY <1>1 DEF LoopReceive, TypeOK
  <2>2. job[h] = "queued" /\ job' = [job EXCEPT ![h] = "spawned"]
    BY <1>1, <2>1 DEF LoopReceive, QueueHoldsQueuedJobs
  <2>3. UNCHANGED <<available, caller, value, entered, loop, shutdown, handles>>
    BY <1>1 DEF LoopReceive
  <2> HIDE DEF h
  <2>4. \A d \in Calls : HoldsPermit(d)' <=> HoldsPermit(d)
    BY <2>1, <2>2, <2>3 DEF HoldsPermit, TypeOK
  <2>5. PermitsConserved' /\ available' \in 0..Capacity
    BY <2>3, <2>4, AccountKept
  <2>6. TypeOK'
    BY <2>1, <2>2, <2>3, <2>5 DEF TypeOK, JobState
  <2>7. QueueHoldsQueuedJobs'
    <3>1. \A i, j \in DOMAIN queue' : queue'[i] = queue'[j] => i = j
      <4>1. SUFFICES ASSUME NEW i \in DOMAIN queue', NEW j \in DOMAIN queue',
                            queue'[i] = queue'[j]
                     PROVE  i = j
        OBVIOUS
      <4>2. /\ i \in Int /\ i + 1 \in DOMAIN queue /\ queue'[i] = queue[i + 1]
            /\ j \in Int /\ j + 1 \in DOMAIN queue /\ queue'[j] = queue[j + 1]
        BY <2>1
      <4>3. i + 1 = j + 1
        BY <4>1, <4>2 DEF QueueHoldsQueuedJobs
      <4> QED
        BY <4>2, <4>3
    <3>2. ASSUME NEW i \in DOMAIN queue' PROVE job'[queue'[i]] = "queued"
      <4>1. queue'[i] = queue[i + 1] /\ i + 1 \in DOMAIN queue /\ i + 1 # 1
        BY <2>1, <3>2
      <4>2. queue'[i] # h /\ job[queue'[i]] = "queued" /\ queue'[i] \in Calls
        BY <2>1, <4>1 DEF QueueHoldsQueuedJobs, TypeOK
      <4> QED
        BY <2>2, <4>2 DEF TypeOK
    <3>3. ASSUME NEW d \in Calls, job'[d] = "queued"
          PROVE  \E i \in DOMAIN queue' : queue'[i] = d
      <4>1. d # h /\ job[d] = "queued"
        BY <2>1, <2>2, <3>3 DEF TypeOK
      <4>2. PICK k \in DOMAIN queue : queue[k] = d
        BY <4>1 DEF QueueHoldsQueuedJobs
      <4>3. k - 1 \in DOMAIN queue' /\ queue'[k - 1] = d
        BY <2>1, <4>1, <4>2
      <4> QED
        BY <4>3
    <3>4. \A d \in Calls : job'[d] = "queued" <=> \E i \in DOMAIN queue' : queue'[i] = d
      BY <3>2, <3>3
    <3> QED
      BY <3>1, <3>4 DEF QueueHoldsQueuedJobs
  <2>8. CallerAgreesWithJob'
    BY <2>1, <2>2, <2>3 DEF CallerAgreesWithJob, TypeOK
  <2> QED
    BY <2>5, <2>6, <2>7, <2>8
<1>2. CASE LoopBreak
  <2>1. \A d \in Calls : HoldsPermit(d)' <=> HoldsPermit(d)
    BY <1>2 DEF LoopBreak, HoldsPermit
  <2>2. PermitsConserved' /\ available' \in 0..Capacity
    BY <1>2, <2>1, AccountKept DEF LoopBreak
  <2>3. TypeOK'
    BY <1>2, <2>2 DEF LoopBreak, TypeOK
  <2>4. QueueHoldsQueuedJobs' /\ CallerAgreesWithJob'
    BY <1>2 DEF LoopBreak, QueueHoldsQueuedJobs, CallerAgreesWithJob
  <2> QED
    BY <2>2, <2>3, <2>4
<1>3. CASE LoopEnd
  <2> DEFINE left == {c \in Calls : job[c] = "queued"}
  <2>1. left \subseteq Holders /\ available' = available + Cardinality(left)
    BY <1>3 DEF LoopEnd, Holders, HoldsPermit
  <2>2. \A c \in Calls : HoldsPermit(c)' <=> HoldsPermit(c) /\ c \notin left
    BY <1>3 DEF LoopEnd, HoldsPermit, CallerAgreesWithJob, TypeOK
  <2>3. PermitsConserved' /\ available' \in 0..Capacity
    <3> HIDE DEF left
    <3> QED
      BY <2>1, <2>2, AccountTornDown
  <2>4. TypeOK'
    <3>1. job' \in [Calls -> JobState]
      BY <1>3 DEF LoopEnd, TypeOK, JobState
    <3> QED
      BY <1>3, <2>3, <3>1 DEF LoopEnd, TypeOK
  <2>5. QueueHoldsQueuedJobs'
    <3>1. queue' = <<>> /\ \A c \in Calls : job'[c] # "queued"
      BY <1>3 DEF LoopEnd, TypeOK
    <3> QED
      BY <3>1 DEF QueueHoldsQueuedJobs
  <2>6. CallerAgreesWithJob'
    BY <1>3 DEF LoopEnd, CallerAgreesWithJob, TypeOK
  <2> QED
    BY <2>3, <2>4, <2>5, <2>6
<1>4. CASE RuntimeDropped
  <2> DEFINE left == {c \in Calls : job[c] \in {"spawned", "parked"}}
  <2>1. left \subseteq Holders /\ available' = available + Cardinality(left)
    BY <1>4 DEF RuntimeDropped, Holders, HoldsPermit
  <2>2. \A c \in Calls : HoldsPermit(c)' <=> HoldsPermit(c) /\ c \notin left
    BY <1>4 DEF RuntimeDropped, HoldsPermit, CallerAgreesWithJob, TypeOK
  <2>3. PermitsConserved' /\ available' \in 0..Capacity
    <3> HIDE DEF left
    <3> QED
      BY <2>1, <2>2, AccountTornDown
  <2>4. TypeOK'
    <3>1. job' \in [Calls -> JobState]
      BY <1>4 DEF RuntimeDropped, TypeOK, JobState
    <3> QED
      BY <1>4, <2>3, <3>1 DEF RuntimeDropped, TypeOK
  <2>5. QueueHoldsQueuedJobs'
    <3>1. queue' = queue /\ \A c \in Calls : job'[c] = "queued" <=> job[c] = "queued"
      BY <1>4 DEF RuntimeDropped, TypeOK
    <3> QED
      BY <3>1 DEF QueueHoldsQueuedJobs
  <2>6. CallerAgreesWithJob'
    BY <1>4 DEF RuntimeDropped, CallerAgreesWithJob, TypeOK
  <2> QED
    BY <2>3, <2>4, <2>5, <2>6
<1> QED
  BY <1>1, <1>2, <1>3, <1>4 DEF LoopStep

\* Every step keeps it.
LEMMA NextIInv == IInv /\ [Next]_vars => IInv'
<1> SUFFICES ASSUME IInv, [Next]_vars PROVE IInv'
  OBVIOUS
<1>1. ASSUME NEW c \in Calls, CallerStep(c) \/ JobStep(c) PROVE IInv'
  BY <1>1, CallerStepIInv, JobStepIInv
<1>2. CASE LoopStep
  BY <1>2, LoopStepIInv
<1>3. CASE DropShutdown \/ DropHandles \/ UNCHANGED vars
  <2>1. \A d \in Calls : HoldsPermit(d)' <=> HoldsPermit(d)
    BY <1>3 DEF DropShutdown, DropHandles, vars, HoldsPermit
  <2>2. PermitsConserved' /\ available' \in 0..Capacity
    BY <1>3, <2>1, AccountKept DEF DropShutdown, DropHandles, vars, IInv
  <2>3. TypeOK'
    BY <1>3, <2>2 DEF DropShutdown, DropHandles, vars, IInv, TypeOK
  <2>4. QueueHoldsQueuedJobs' /\ CallerAgreesWithJob'
    BY <1>3 DEF DropShutdown, DropHandles, vars, IInv,
                QueueHoldsQueuedJobs, CallerAgreesWithJob
  <2> QED
    BY <2>2, <2>3, <2>4 DEF IInv
<1> QED
  BY <1>1, <1>2, <1>3 DEF Next

\* The conjunction is an invariant of the event loop.
THEOREM IInvCorrect == Spec => []IInv
<1> QED
  BY InitIInv, NextIInv, PTL DEF Spec

-------------------------------------------------------------------------------
(* What follows *)

\* Type correctness: in particular the admission counter never leaves
\* 0..Capacity, whichever of its decrements and increments race.
THEOREM TypeCorrect == Spec => []TypeOK
<1>1. IInv => TypeOK
  BY DEF IInv
<1> QED
  BY <1>1, IInvCorrect, PTL

\* reserve and the drops of VmPermit: permits on the counter and permits held
\* always add up to the capacity.
THEOREM PermitsAccounted == Spec => []PermitsConserved
<1>1. IInv => PermitsConserved
  BY DEF IInv
<1> QED
  BY <1>1, IInvCorrect, PTL

\* with_parked drops the permit before it sends the reply.
THEOREM AnswerFreesPermit == Spec => []AnsweredCallersHoldNoPermit
<1>1. IInv => AnsweredCallersHoldNoPermit
  BY DEF IInv, CallerAgreesWithJob, AnsweredCallersHoldNoPermit, HoldsPermit
<1> QED
  BY <1>1, IInvCorrect, PTL

\* The channel carries each queued job once.
THEOREM QueueExact == Spec => []QueueHoldsQueuedJobs
<1>1. IInv => QueueHoldsQueuedJobs
  BY DEF IInv
<1> QED
  BY <1>1, IInvCorrect, PTL

\* reserve refuses for capacity only when Capacity callers are unanswered.
THEOREM RefusalJustified == Spec => RefusedOnlyWhenFull
<1> DEFINE Full == Cardinality({d \in Calls : Unanswered(d)}) >= Capacity
           Refusal == \A c \in Calls : caller[c] = "idle" /\ caller'[c] = "exhausted" => Full
<1>1. ASSUME IInv, available = 0 PROVE Full
  <2>1. Cardinality(Holders) = Capacity
    BY <1>1, HoldersFinite, CapacityAssumption DEF IInv, PermitsConserved
  <2>2. Holders \subseteq {d \in Calls : Unanswered(d)}
    <3> SUFFICES ASSUME NEW d \in Calls, HoldsPermit(d) PROVE Unanswered(d)
      BY DEF Holders
    <3>1. caller[d] \in CallerState
      BY <1>1 DEF IInv, TypeOK
    <3> QED
      BY <1>1, <3>1 DEF IInv, CallerAgreesWithJob, HoldsPermit, Unanswered, CallerState
  <2>3. {d \in Calls : Unanswered(d)} \subseteq Calls
    OBVIOUS
  <2>4. IsFiniteSet({d \in Calls : Unanswered(d)})
    BY <2>3, CallsAssumption, FS_Subset
  <2>5. /\ Cardinality({d \in Calls : Unanswered(d)}) \in Nat
        /\ Cardinality(Holders) <= Cardinality({d \in Calls : Unanswered(d)})
    BY <2>2, <2>4, FS_Subset, FS_CardinalityType
  <2> QED
    BY <2>1, <2>5, CapacityAssumption
<1>2. ASSUME IInv, [Next]_vars PROVE [Refusal]_vars
  <2> SUFFICES ASSUME NEW c \in Calls, caller[c] = "idle", caller'[c] = "exhausted"
               PROVE  Full
    OBVIOUS
  <2>1. available = 0
    <3> HIDE DEF Full
    <3>1. caller \in [Calls -> CallerState]
      BY <1>2 DEF IInv, TypeOK
    <3>2. ASSUME NEW d \in Calls, CallerStep(d) PROVE available = 0
      BY <3>1, <3>2 DEF CallerStep, Reserve, ReserveExhausted, Submit, SubmitFails,
        CancelReservation, CancelCall, ReceiveReply, ReceiveDropped
    <3>3. ASSUME NEW d \in Calls, JobStep(d) PROVE caller' = caller
      BY <3>3 DEF JobStep, JobStart, JobEnter, JobCheck, JobBodyReady, JobBodyPending,
        JobPark, JobRelease, JobReply, BodyWoken, CancelWakes
    <3>4. CASE LoopStep \/ DropShutdown \/ DropHandles \/ UNCHANGED vars
      BY <3>4 DEF LoopStep, LoopReceive, LoopBreak, LoopEnd, RuntimeDropped,
        DropShutdown, DropHandles, vars
    <3> QED
      BY <1>2, <3>2, <3>3, <3>4 DEF Next
  <2> QED
    BY <1>1, <1>2, <2>1
<1> QED
  BY <1>2, IInvCorrect, PTL DEF Spec, RefusedOnlyWhenFull


\* Callers, channel, jobs and the counter agree in every state (vm.rs).
THEOREM CallsAgreeWithJobs == Spec => []CallsAndJobsAgree
BY TypeCorrect, PermitsAccounted, QueueExact, AnswerFreesPermit, PTL DEF CallsAndJobsAgree

-------------------------------------------------------------------------------
(* The job service *)

\* What a job's end says of its value, its caller and the loop: a job ends
\* without a value only when its caller had gone, and calls lose their job or
\* are refused a submission only by a loop that stopped.
EndsAreExplained ==
  \A c \in Calls :
    /\ value[c] => job[c] \in {"unwinding", "replying", "done"}
    /\ job[c] = "replying" => value[c]
    /\ job[c] \in {"unwinding", "done"} /\ ~value[c] => Closed(c)
    /\ job[c] = "dropped" => loop = "ended"
    /\ caller[c] = "answered" => value[c]
    /\ caller[c] = "loop_gone" => loop = "ended"

\* Initially no job has ended.
LEMMA InitEnds == Init => EndsAreExplained
BY DEF Init, EndsAreExplained

\* Every step keeps it.
LEMMA NextEnds == IInv /\ EndsAreExplained /\ [Next]_vars => EndsAreExplained'
<1> SUFFICES ASSUME IInv, EndsAreExplained, [Next]_vars PROVE EndsAreExplained'
  OBVIOUS
<1> USE DEF IInv, TypeOK, CallerAgreesWithJob, EndsAreExplained, Closed
<1>1. ASSUME NEW c \in Calls, CallerStep(c) PROVE EndsAreExplained'
  BY <1>1 DEF CallerStep, Reserve, ReserveExhausted, Submit, SubmitFails,
    CancelReservation, CancelCall, ReceiveReply, ReceiveDropped
<1>2. ASSUME NEW c \in Calls, JobStep(c) PROVE EndsAreExplained'
  <2>1. CASE JobStart(c) \/ JobEnter(c) \/ JobCheck(c) \/ JobBodyReady(c)
    BY <2>1 DEF JobStart, JobEnter, JobCheck, JobBodyReady
  <2>2. CASE JobBodyPending(c) \/ JobPark(c) \/ JobRelease(c) \/ JobReply(c)
    BY <2>2 DEF JobBodyPending, JobPark, JobRelease, JobReply
  <2>3. CASE BodyWoken(c) \/ CancelWakes(c)
    BY <2>3 DEF BodyWoken, CancelWakes
  <2> QED
    BY <1>2, <2>1, <2>2, <2>3 DEF JobStep
<1>3. CASE LoopReceive
  <2>1. Head(queue) \in Calls /\ job[Head(queue)] = "queued"
    BY <1>3 DEF LoopReceive, QueueHoldsQueuedJobs
  <2> QED
    BY <1>3, <2>1 DEF LoopReceive
<1>4. CASE LoopBreak
  BY <1>4 DEF LoopBreak, Driving
<1>6. CASE LoopEnd \/ RuntimeDropped
  <2>1. /\ UNCHANGED <<value, caller>> /\ loop' = "ended"
        /\ \A c \in Calls :
             \/ job'[c] = job[c]
             \/ job'[c] = "dropped" /\ job[c] \in {"queued", "spawned", "parked"}
    BY <1>6 DEF LoopEnd, RuntimeDropped
  <2>2. ASSUME NEW c \in Calls PROVE value[c] \in BOOLEAN
    OBVIOUS
  <2> QED
    BY <2>1, <2>2
<1>5. CASE DropShutdown \/ DropHandles \/ UNCHANGED vars
  BY <1>5 DEF DropShutdown, DropHandles, vars
<1> QED
  BY <1>1, <1>2, <1>3, <1>4, <1>5, <1>6 DEF Next, LoopStep

\* What the service sees of the calls.
Client == [c \in Calls |-> ClientOf(c)]
Work == [c \in Calls |-> WorkOf(c)]

\* Who occupies the service is who holds a permit.
LEMMA OccupyingIsHolders ==
  ASSUME IInv, EndsAreExplained
  PROVE  Service!Occupying = Holders
<1>1. ASSUME NEW c \in Calls PROVE WorkOf(c) \in {"held", "begun"} <=> HoldsPermit(c)
  <2>1. /\ job[c] \in JobState /\ caller[c] \in CallerState
        /\ caller[c] = "reserved" => job[c] = "none"
        /\ job[c] = "replying" => value[c]
        /\ value[c] => job[c] \in {"unwinding", "replying", "done"}
    BY DEF IInv, TypeOK, CallerAgreesWithJob, EndsAreExplained
  <2>2. CASE caller[c] = "reserved" \/ job[c] \in {"queued", "spawned", "entering"}
    BY <2>2 DEF WorkOf, HoldsPermit
  <2>3. CASE /\ caller[c] # "reserved"
             /\ job[c] \in {"polling", "body", "parking", "parked", "unwinding"}
    BY <2>3 DEF WorkOf, HoldsPermit
  <2>4. CASE caller[c] # "reserved" /\ job[c] \in {"none", "replying", "done", "dropped"}
    BY <2>1, <2>4 DEF WorkOf, HoldsPermit
  <2> QED
    BY <2>1, <2>2, <2>3, <2>4 DEF JobState, MidPoll
<1> QED
  BY <1>1 DEF Service!Occupying, Holders

\* A step that changes what the service sees of one call only.
LEMMA OneCallSeen ==
  ASSUME NEW c \in Calls,
         \A d \in Calls \ {c} : ClientOf(d)' = ClientOf(d) /\ WorkOf(d)' = WorkOf(d)
  PROVE  /\ Client' = [Client EXCEPT ![c] = ClientOf(c)']
         /\ Work' = [Work EXCEPT ![c] = WorkOf(c)']
BY DEF Client, Work

\* A step that changes nothing of what the service sees.
LEMMA NothingSeen ==
  ASSUME \A d \in Calls : ClientOf(d)' = ClientOf(d) /\ WorkOf(d)' = WorkOf(d),
         loop' = loop
  PROVE  UNCHANGED Service!vars
BY DEF Service!vars

\* They are as many.
LEMMA OccupyingCounted ==
  ASSUME IInv, EndsAreExplained
  PROVE  Service!Cardinality(Service!Occupying) = Cardinality(Holders)
<1>1. ASSUME NEW S PROVE Service!Cardinality(S) = Cardinality(S)
  BY DEF Service!Cardinality, Cardinality
<1> QED
  BY <1>1, OccupyingIsHolders

\* A caller's steps are its client's, and a reservation given up abandons its work.
LEMMA CallerStepIsServed ==
  ASSUME IInv, EndsAreExplained, NEW c \in Calls, CallerStep(c)
  PROVE  Service!Next \/ UNCHANGED Service!vars
<1> USE DEF IInv
<1> DEFINE Same == \A d \in Calls \ {c} : ClientOf(d)' = ClientOf(d) /\ WorkOf(d)' = WorkOf(d)
           Seen == /\ Client' = [Client EXCEPT ![c] = ClientOf(c)']
                   /\ Work' = [Work EXCEPT ![c] = WorkOf(c)']
<1>0. Same => Seen
  BY OneCallSeen
<1>1. CASE Reserve(c)
  <2>1. Same
    BY <1>1 DEF Reserve, ClientOf, WorkOf, TypeOK
  <2>2. /\ ClientOf(c) = "new" /\ ClientOf(c)' = "waiting" /\ WorkOf(c)' = "held"
        /\ loop' = loop
    BY <1>1 DEF Reserve, ClientOf, WorkOf, TypeOK
  <2>3. Cardinality(Holders) < Capacity
    BY <1>1, HoldersFinite, CapacityAssumption DEF Reserve, PermitsConserved, TypeOK
  <2>4. Service!Admit(c)
    BY <1>0, <2>1, <2>2, <2>3, OccupyingCounted DEF Service!Admit, Client, Work
  <2> QED
    BY <2>4 DEF Service!Next
<1>2. CASE ReserveExhausted(c)
  <2>1. Same
    BY <1>2 DEF ReserveExhausted, ClientOf, WorkOf, TypeOK
  <2>2. /\ ClientOf(c) = "new" /\ ClientOf(c)' = "refused" /\ WorkOf(c)' = WorkOf(c)
        /\ loop' = loop
    BY <1>2 DEF ReserveExhausted, ClientOf, WorkOf, TypeOK, CallerAgreesWithJob
  <2>3. Cardinality(Holders) = Capacity
    BY <1>2, HoldersFinite, CapacityAssumption DEF ReserveExhausted, PermitsConserved, TypeOK
  <2>4. Service!Refuse(c)
    BY <1>0, <2>1, <2>2, <2>3, OccupyingCounted DEF Service!Refuse, Client, Work
  <2> QED
    BY <2>4 DEF Service!Next
<1>3. CASE Submit(c)
  <2>1. \A d \in Calls : ClientOf(d)' = ClientOf(d) /\ WorkOf(d)' = WorkOf(d)
    BY <1>3 DEF Submit, ClientOf, WorkOf, TypeOK
  <2> QED
    BY <1>3, <2>1, NothingSeen DEF Submit
<1>4. CASE SubmitFails(c)
  <2>1. Same
    BY <1>4 DEF SubmitFails, ClientOf, WorkOf, TypeOK
  <2>2. /\ ClientOf(c) = "waiting" /\ ClientOf(c)' = "failed"
        /\ WorkOf(c) = "held" /\ WorkOf(c)' = "abandoned"
        /\ loop = "ended" /\ loop' = loop
    BY <1>4 DEF SubmitFails, ClientOf, WorkOf, TypeOK, CallerAgreesWithJob, EndsAreExplained
  <2>3. Service!Abandon({c}, {c})
    BY <1>0, <2>1, <2>2 DEF Service!Abandon, Client, Work
  <2> QED
    BY <2>3 DEF Service!Next
<1>5. CASE CancelReservation(c) \/ CancelCall(c)
  <2>1. Same
    BY <1>5 DEF CancelReservation, CancelCall, ClientOf, WorkOf, TypeOK
  <2>2. ClientOf(c) = "waiting" /\ ClientOf(c)' = "cancelled" /\ loop' = loop
    BY <1>5 DEF CancelReservation, CancelCall, ClientOf, TypeOK
  <2>3. \/ WorkOf(c)' = WorkOf(c)
        \/ WorkOf(c) = "held" /\ WorkOf(c)' = "abandoned"
    <3>1. CASE CancelReservation(c)
      BY <3>1 DEF CancelReservation, WorkOf, TypeOK, CallerAgreesWithJob, EndsAreExplained
    <3>2. CASE CancelCall(c)
      <4>1. /\ caller[c] = "waiting" /\ caller'[c] = "cancelled"
            /\ job' = job /\ value' = value /\ job[c] # "none"
            /\ job[c] \in JobState
            /\ job[c] = "replying" => value[c]
        BY <3>2 DEF CancelCall, TypeOK, CallerAgreesWithJob, EndsAreExplained
      <4>2. \/ job[c] \in {"queued", "spawned", "entering"}
            \/ job[c] \in {"polling", "body", "parking", "parked", "unwinding"}
            \/ job[c] \in {"replying", "done"} /\ value[c]
            \/ job[c] \in {"done", "dropped"} /\ ~(job[c] \in {"replying", "done"} /\ value[c])
        BY <4>1 DEF JobState, MidPoll
      <4>3. WorkOf(c)' = WorkOf(c)
        BY <4>1, <4>2 DEF WorkOf
      <4> QED
        BY <4>3
    <3> QED
      BY <1>5, <3>1, <3>2
  <2>4. Service!Cancel(c)
    BY <1>0, <2>1, <2>2, <2>3 DEF Service!Cancel, Client, Work
  <2> QED
    BY <2>4 DEF Service!Next
<1>6. CASE ReceiveReply(c)
  <2>1. Same
    BY <1>6 DEF ReceiveReply, ClientOf, WorkOf, TypeOK
  <2>2. /\ ClientOf(c) = "waiting" /\ ClientOf(c)' = "answered"
        /\ WorkOf(c) = "completed" /\ WorkOf(c)' = "completed" /\ loop' = loop
    BY <1>6 DEF ReceiveReply, ClientOf, WorkOf, TypeOK
  <2>3. Service!Answer(c)
    BY <1>0, <2>1, <2>2 DEF Service!Answer, Client, Work
  <2> QED
    BY <2>3 DEF Service!Next
<1>7. CASE ReceiveDropped(c)
  <2>1. Same
    BY <1>7 DEF ReceiveDropped, ClientOf, WorkOf, TypeOK
  <2>2. /\ ClientOf(c) = "waiting" /\ ClientOf(c)' = "failed"
        /\ WorkOf(c) = "abandoned" /\ WorkOf(c)' = "abandoned" /\ loop' = loop
    BY <1>7 DEF ReceiveDropped, ClientOf, WorkOf, TypeOK, EndsAreExplained
  <2>3. Service!Fail(c)
    BY <1>0, <2>1, <2>2 DEF Service!Fail, Client, Work
  <2> QED
    BY <2>3 DEF Service!Next
<1> QED
  BY <1>1, <1>2, <1>3, <1>4, <1>5, <1>6, <1>7 DEF CallerStep

\* A poll of a job begins its work when it calls the body, and ends it where it
\* gives the permit back.
LEMMA JobStepIsServed ==
  ASSUME IInv, EndsAreExplained, NEW c \in Calls, JobStep(c)
  PROVE  Service!Next \/ UNCHANGED Service!vars
<1> USE DEF IInv
<1> DEFINE Same == \A d \in Calls \ {c} : ClientOf(d)' = ClientOf(d) /\ WorkOf(d)' = WorkOf(d)
           Seen == /\ Client' = [Client EXCEPT ![c] = ClientOf(c)']
                   /\ Work' = [Work EXCEPT ![c] = WorkOf(c)']
<1>0. Same => Seen
  BY OneCallSeen
<1>1. CASE \/ JobStart(c) /\ Closed(c)
           \/ JobRelease(c) /\ ~value[c]
  <2> USE <1>1 DEF JobStart, JobRelease
  <2>1. Same
    BY DEF ClientOf, WorkOf, TypeOK
  <2>2. /\ caller[c] = "cancelled" /\ caller' = caller /\ loop' = loop
        /\ job'[c] = "done" /\ value' = value /\ ~value[c]
        /\ job[c] \in {"spawned", "unwinding"}
    BY DEF TypeOK, Closed, EndsAreExplained
  <2>3. /\ ClientOf(c) = "cancelled" /\ ClientOf(c)' = "cancelled"
        /\ WorkOf(c) \in {"held", "begun"} /\ WorkOf(c)' = "abandoned"
    BY <2>2 DEF ClientOf, WorkOf
  <2>4. Service!Abandon({c}, {})
    BY <1>0, <2>1, <2>2, <2>3 DEF Service!Abandon, Client, Work
  <2> QED
    BY <2>4 DEF Service!Next
<1>2. CASE JobEnter(c)
  <2>1. Same
    BY <1>2 DEF JobEnter, ClientOf, WorkOf, TypeOK
  <2>2. /\ ClientOf(c)' = ClientOf(c) /\ WorkOf(c) = "held" /\ WorkOf(c)' = "begun"
        /\ loop' = loop
    BY <1>2 DEF JobEnter, ClientOf, WorkOf, TypeOK, CallerAgreesWithJob
  <2>3. Service!Begin(c)
    BY <1>0, <2>1, <2>2 DEF Service!Begin, Client, Work
  <2> QED
    BY <2>3 DEF Service!Next
<1>3. CASE JobRelease(c) /\ value[c]
  <2>1. Same
    BY <1>3 DEF JobRelease, ClientOf, WorkOf, TypeOK
  <2>2. /\ ClientOf(c)' = ClientOf(c) /\ WorkOf(c) = "begun" /\ WorkOf(c)' = "completed"
        /\ loop' = loop
    BY <1>3 DEF JobRelease, ClientOf, WorkOf, TypeOK, CallerAgreesWithJob
  <2>3. Service!Complete(c)
    BY <1>0, <2>1, <2>2 DEF Service!Complete, Client, Work
  <2> QED
    BY <2>3 DEF Service!Next
<1>4. CASE \/ JobStart(c) /\ ~Closed(c)
           \/ JobCheck(c) \/ JobBodyReady(c) \/ JobBodyPending(c) \/ JobPark(c)
           \/ JobReply(c) \/ BodyWoken(c) \/ CancelWakes(c)
  <2> USE <1>4 DEF JobStart, JobCheck, JobBodyReady, JobBodyPending, JobPark,
                   JobReply, BodyWoken, CancelWakes
  <2>1. caller' = caller /\ loop' = loop
    OBVIOUS
  <2>2. \A d \in Calls : ClientOf(d)' = ClientOf(d)
    BY <2>1 DEF ClientOf
  <2>3. \A d \in Calls : WorkOf(d)' = WorkOf(d)
    BY <2>1 DEF WorkOf, TypeOK, EndsAreExplained
  <2> QED
    BY <2>1, <2>2, <2>3, NothingSeen
<1> QED
  BY <1>1, <1>2, <1>3, <1>4 DEF JobStep

\* The loop's end closes the service, and teardown abandons what is left.
LEMMA LoopStepIsServed ==
  ASSUME IInv, EndsAreExplained, LoopStep
  PROVE  Service!Next \/ UNCHANGED Service!vars
<1> USE DEF IInv
<1>1. CASE LoopReceive
  <2>1. Head(queue) \in Calls /\ job[Head(queue)] = "queued"
    BY <1>1 DEF LoopReceive, QueueHoldsQueuedJobs, TypeOK
  <2>2. \A d \in Calls : ClientOf(d)' = ClientOf(d) /\ WorkOf(d)' = WorkOf(d)
    BY <1>1, <2>1 DEF LoopReceive, ClientOf, WorkOf, TypeOK
  <2> QED
    BY <1>1, <2>2, NothingSeen DEF LoopReceive
<1>2. CASE LoopBreak
  <2>1. Service!Close
    BY <1>2 DEF LoopBreak, Service!Close, ClientOf, WorkOf
  <2> QED
    BY <2>1 DEF Service!Next
<1>3. CASE LoopEnd \/ RuntimeDropped
  <2> DEFINE left == {c \in Calls : job[c] # job'[c]}
  <2>1. /\ UNCHANGED <<value, caller>> /\ loop # "running" /\ loop' # "running"
        /\ job \in [Calls -> JobState] /\ job' \in [Calls -> JobState]
        /\ \A c \in Calls :
             \/ job'[c] = job[c]
             \/ job'[c] = "dropped" /\ job[c] \in {"queued", "spawned", "parked"}
    BY <1>3 DEF LoopEnd, RuntimeDropped, TypeOK, JobState
  <2>2. ASSUME NEW c \in left PROVE WorkOf(c) \in {"held", "begun"} /\ WorkOf(c)' = "abandoned"
    BY <2>1 DEF WorkOf, CallerAgreesWithJob, EndsAreExplained
  <2>3. ASSUME NEW c \in Calls \ left PROVE WorkOf(c)' = WorkOf(c)
    BY <2>1 DEF WorkOf
  <2>4. Work' = [c \in Calls |-> IF c \in left THEN "abandoned" ELSE WorkOf(c)]
    BY <2>2, <2>3 DEF Work
  <2>5. \A c \in Calls : ClientOf(c)' = ClientOf(c)
    BY <2>1 DEF ClientOf
  <2>6. left \subseteq Calls
    OBVIOUS
  <2> HIDE DEF left
  <2>7. Service!Abandon(left, {})
    BY <2>1, <2>2, <2>4, <2>5, <2>6 DEF Service!Abandon, Work
  <2> QED
    BY <2>6, <2>7 DEF Service!Next
<1> QED
  BY <1>1, <1>2, <1>3 DEF LoopStep

\* The event loop is a service of jobs: calls beyond its capacity are refused at
\* once, a caller is answered once and only of work that completed, and work is lost
\* only with its caller or with the loop (vm.rs).
THEOREM LoopServesJobs == Spec => ImplementsJobService
<1>1. Init => Service!Init
  BY DEF Init, Service!Init, ClientOf, WorkOf
<1>2. ASSUME IInv, EndsAreExplained, [Next]_vars
      PROVE  Service!Next \/ UNCHANGED Service!vars
  <2>1. ASSUME NEW c \in Calls, CallerStep(c) \/ JobStep(c)
        PROVE  Service!Next \/ UNCHANGED Service!vars
    BY <1>2, <2>1, CallerStepIsServed, JobStepIsServed
  <2>2. CASE LoopStep
    BY <1>2, <2>2, LoopStepIsServed
  <2>3. CASE DropShutdown \/ DropHandles \/ UNCHANGED vars
    BY <2>3, NothingSeen DEF DropShutdown, DropHandles, vars, ClientOf, WorkOf
  <2> QED
    BY <1>2, <2>1, <2>2, <2>3 DEF Next
<1>3. Spec => []EndsAreExplained
  BY InitEnds, NextEnds, IInvCorrect, PTL DEF Spec
<1> QED
  BY <1>1, <1>2, <1>3, IInvCorrect, PTL DEF Spec, ImplementsJobService, Service!Spec

-------------------------------------------------------------------------------
(* Cancellation *)

\* A body that was called into was called by its job's first poll, which comes
\* after the look at the reply channel.
EnteredIsPolled ==
  \A c \in Calls : entered[c] => job[c] \notin {"none", "queued", "spawned", "entering"}

\* A call given up before that, which is never to run.
GivenUpEarly(c) ==
  Closed(c) /\ ~entered[c] /\ job[c] \in {"none", "queued", "spawned", "done", "dropped"}

\* Every step keeps it, and a call given up early stays so.
LEMMA NextGivenUp ==
  ASSUME IInv, EnteredIsPolled, [Next]_vars
  PROVE  /\ EnteredIsPolled'
         /\ \A c \in Calls : GivenUpEarly(c) => GivenUpEarly(c)'
<1> DEFINE Goal == /\ EnteredIsPolled'
                   /\ \A c \in Calls : GivenUpEarly(c) => GivenUpEarly(c)'
<1> USE DEF IInv, TypeOK, CallerAgreesWithJob, EnteredIsPolled, GivenUpEarly, Closed
<1>1. ASSUME NEW c \in Calls, CallerStep(c) PROVE Goal
  BY <1>1 DEF CallerStep, Reserve, ReserveExhausted, Submit, SubmitFails,
    CancelReservation, CancelCall, ReceiveReply, ReceiveDropped
<1>2. ASSUME NEW c \in Calls, JobStep(c) PROVE Goal
  <2>1. CASE JobStart(c) \/ JobEnter(c) \/ JobCheck(c) \/ JobBodyReady(c)
    BY <2>1 DEF JobStart, JobEnter, JobCheck, JobBodyReady
  <2>2. CASE JobBodyPending(c) \/ JobPark(c) \/ JobRelease(c) \/ JobReply(c)
    BY <2>2 DEF JobBodyPending, JobPark, JobRelease, JobReply
  <2>3. CASE BodyWoken(c) \/ CancelWakes(c)
    BY <2>3 DEF BodyWoken, CancelWakes
  <2> QED
    BY <1>2, <2>1, <2>2, <2>3 DEF JobStep
<1>3. CASE LoopReceive
  <2>1. Head(queue) \in Calls /\ job[Head(queue)] = "queued"
    BY <1>3 DEF LoopReceive, QueueHoldsQueuedJobs
  <2> QED
    BY <1>3, <2>1 DEF LoopReceive
<1>4. CASE LoopBreak
  BY <1>4 DEF LoopBreak, Driving
<1>5. CASE LoopEnd \/ RuntimeDropped
  <2>1. /\ UNCHANGED <<entered, caller>>
        /\ \A c \in Calls :
             \/ job'[c] = job[c]
             \/ job'[c] = "dropped" /\ job[c] \in {"queued", "spawned", "parked"}
    BY <1>5 DEF LoopEnd, RuntimeDropped
  <2> QED
    BY <2>1
<1>6. CASE DropShutdown \/ DropHandles \/ UNCHANGED vars
  BY <1>6 DEF DropShutdown, DropHandles, vars
<1> QED
  BY <1>1, <1>2, <1>3, <1>4, <1>5, <1>6 DEF Next, LoopStep

\* A caller dropped before its job is first polled never has its body called,
\* however long the loop lives on (with_parked's look at tx.is_closed()).
THEOREM CancelledEarlyNeverRuns == Spec => CancelledBeforeStartNeverRuns
<1>1. Spec => []EnteredIsPolled
  <2>1. Init => EnteredIsPolled
    BY DEF Init, EnteredIsPolled
  <2> QED
    BY <2>1, NextGivenUp, IInvCorrect, PTL DEF Spec
<1>2. ASSUME NEW c \in Calls
      PROVE  Spec => [](Closed(c) /\ job[c] \in {"none", "queued", "spawned"} => []~entered[c])
  <2>1. EnteredIsPolled /\ Closed(c) /\ job[c] \in {"none", "queued", "spawned"}
          => GivenUpEarly(c)
    BY DEF EnteredIsPolled, GivenUpEarly
  <2>2. IInv /\ EnteredIsPolled /\ GivenUpEarly(c) /\ [Next]_vars => GivenUpEarly(c)'
    BY NextGivenUp
  <2>3. GivenUpEarly(c) => ~entered[c]
    BY DEF GivenUpEarly
  <2> QED
    BY <1>1, <2>1, <2>2, <2>3, IInvCorrect, PTL DEF Spec
<1> QED
  BY <1>2 DEF CancelledBeforeStartNeverRuns
===============================================================================
