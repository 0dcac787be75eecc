--------------------------------- MODULE Tee ---------------------------------
(***************************************************************************)
(* tee() of a stream with a default controller (readable/stream/tee.rs):   *)
(* one reader on the source, two branches that take every chunk, and a     *)
(* source that is cancelled when both are.                                 *)
(*                                                                         *)
(* The branches' pull algorithm runs in the middle of their operations, at *)
(* their end; what it reads comes back as an answer of the source, which   *)
(* Absorb handles at once.  Both branches count one for every chunk.  The  *)
(* answers of a branch are in the order in which it decides them: where    *)
(* the pull() of the source runs in the middle of a read of a branch, that *)
(* read is settled after it.                                               *)
(***************************************************************************)
EXTENDS Readable

CONSTANTS
    MaxChunks,
    MaxReads,       \* reads of each branch
    HighWaterMarks  \* of the source

VARIABLES
    tee,            \* the source, the branches and the TeeState
    made,           \* chunks handed to enqueue()
    issued,         \* reads of each branch
    split           \* chunks given to the branches

vars == <<tee, made, issued, split>>

Branches == {1, 2}
Other(i) == 3 - i

Init ==
    /\ \E hwm \in HighWaterMarks :
          tee = [src |-> AcquireReader(NewReadable(hwm), 1),
                 br |-> [i \in Branches |-> AcquireReader(NewReadable(1), 1)],
                 reading |-> FALSE, again |-> FALSE, jobs |-> <<>>,
                 cancelled |-> {}, cancelPromise |-> "pending", forwarded |-> FALSE]
    /\ made = 0 /\ issued = [i \in Branches |-> 0] /\ split = 0

-----------------------------------------------------------------------------
(* The algorithms *)

Live(t) == Branches \ t.cancelled

ResolveCancel(t) ==
    IF t.cancelled = Branches THEN t ELSE [t EXCEPT !.cancelPromise = "resolved"]

\* close_steps
CloseSteps(t) ==
    ResolveCancel([t EXCEPT !.reading = FALSE,
                            !.br = [i \in Branches |-> IF i \in Live(t) THEN ControllerClose(@[i])
                                                       ELSE @[i]]])

\* What the source has answered the one read there may be: a chunk is given to the
\* branches by a job of its own.
Absorb(t) ==
    LET what == Head(t.src.answers).what
        heard == [t EXCEPT !.src.answers = <<>>]
    IN  IF t.src.answers = <<>> THEN t
        ELSE CASE what = Done -> CloseSteps(heard)
               [] what = Failed -> [heard EXCEPT !.reading = FALSE]
               [] OTHER -> [heard EXCEPT !.jobs = Append(@, what.chunk)]

\* tee_pull_algorithm
Pull(t) ==
    IF t.reading THEN [t EXCEPT !.again = TRUE]
    ELSE Absorb([t EXCEPT !.reading = TRUE, !.src = Read(@, 1)])

\* Branch i becomes `after', having perhaps called its pull algorithm.
Becomes(t, i, after) ==
    LET next == [t EXCEPT !.br[i] = after]
    IN  IF after.pulling /\ ~t.br[i].pulling THEN Pull(next) ELSE next

Give(t, i, chunk) ==
    IF i \in t.cancelled THEN t ELSE Becomes(t, i, Enqueue(t.br[i], chunk))

\* Variant: what is asked for meanwhile is forgotten when both have been given.
ChunkSteps_Forgets(t) ==
    LET taken == [t EXCEPT !.jobs = Tail(@), !.again = FALSE]
        given == Give(Give(taken, 1, Head(t.jobs)), 2, Head(t.jobs))
    IN  [given EXCEPT !.reading = FALSE]

\* The job of chunk_steps.
ChunkSteps(t) ==
    LET taken == [t EXCEPT !.jobs = Tail(@), !.again = FALSE]
        given == Give(Give(taken, 1, Head(t.jobs)), 2, Head(t.jobs))
        idle == [given EXCEPT !.reading = FALSE]
    IN  IF idle.again THEN Pull(idle) ELSE idle

\* tee_cancel_algorithm_impl
CancelBranch(t, i) ==
    LET closed == [t EXCEPT !.br[i] = Cancel(@), !.cancelled = @ \union {i}]
    IN  IF t.br[i].state # "readable" THEN [t EXCEPT !.br[i] = Cancel(@)]
        ELSE IF Other(i) \notin t.cancelled THEN closed
        ELSE Absorb([closed EXCEPT !.src = Cancel(@), !.cancelPromise = "resolved"])

\* The reader's closed promise is rejected.
ForwardError(t) ==
    ResolveCancel([t EXCEPT !.forwarded = TRUE,
                            !.br = [i \in Branches |-> ControllerError(@[i])]])

-----------------------------------------------------------------------------
(* The source, the jobs and the readers of the branches *)

SourceDoes(after) == tee' = Absorb([tee EXCEPT !.src = after])

SourceStarts ==
    /\ ~tee.src.started /\ SourceDoes(StartFulfilled(tee.src))
    /\ UNCHANGED <<made, issued, split>>

SourceEnqueues ==
    /\ made < MaxChunks /\ CanCloseOrEnqueue(tee.src)
    /\ made' = made + 1 /\ SourceDoes(Enqueue(tee.src, made + 1))
    /\ UNCHANGED <<issued, split>>

SourceCloses ==
    /\ CanCloseOrEnqueue(tee.src) /\ SourceDoes(ControllerClose(tee.src))
    /\ UNCHANGED <<made, issued, split>>

SourceErrors ==
    /\ tee.src.state = "readable" /\ SourceDoes(ControllerError(tee.src))
    /\ UNCHANGED <<made, issued, split>>

SourcePulled ==
    /\ tee.src.pulling /\ SourceDoes(PullFulfilled(tee.src))
    /\ UNCHANGED <<made, issued, split>>

RunChunkSteps ==
    /\ tee.jobs # <<>> /\ tee' = ChunkSteps(tee) /\ split' = split + 1
    /\ UNCHANGED <<made, issued>>

\* A job for a chunk was queued before the promise could be rejected.
RunForward ==
    /\ tee.src.closed = "rejected" /\ ~tee.forwarded /\ tee.jobs = <<>>
    /\ tee' = ForwardError(tee) /\ UNCHANGED <<made, issued, split>>

BranchStarts(i) ==
    /\ ~tee.br[i].started /\ tee' = Becomes(tee, i, StartFulfilled(tee.br[i]))
    /\ UNCHANGED <<made, issued, split>>

\* The pull algorithm returns a promise that is resolved.
BranchPulled(i) ==
    LET after == PullFulfilled(tee.br[i])
        next == [tee EXCEPT !.br[i] = after]
    IN  /\ tee.br[i].pulling /\ tee' = IF after.pulling THEN Pull(next) ELSE next
        /\ UNCHANGED <<made, issued, split>>

ReadBranch(i) ==
    /\ issued[i] < MaxReads /\ issued' = [issued EXCEPT ![i] = @ + 1]
    /\ tee' = Becomes(tee, i, Read(tee.br[i], issued[i] + 1))
    /\ UNCHANGED <<made, split>>

CancelCall(i) ==
    /\ i \notin tee.cancelled /\ tee.br[i].state = "readable"
    /\ tee' = CancelBranch(tee, i) /\ UNCHANGED <<made, issued, split>>

Next ==
    \/ SourceStarts \/ SourceEnqueues \/ SourceCloses \/ SourceErrors \/ SourcePulled
    \/ RunChunkSteps \/ RunForward
    \/ \E i \in Branches : BranchStarts(i) \/ BranchPulled(i) \/ ReadBranch(i) \/ CancelCall(i)

Spec == Init /\ [][Next]_vars

-----------------------------------------------------------------------------
(* Properties *)

Chunks(r) ==
    LET told == SelectSeq(r.answers, LAMBDA a : a.what.kind = "chunk")
    IN  [i \in DOMAIN told |-> told[i].what.chunk] \o [i \in DOMAIN r.queue |-> r.queue[i].chunk]

\* Each branch has every chunk in order, however its reads, its pulls and the other
\* branch's cancel fall, up to its own end (chunk_steps).
SameChunks ==
    \A i \in Branches :
        LET got == Chunks(tee.br[i])
        IN  /\ got = [n \in DOMAIN got |-> n] /\ Len(got) <= split
            /\ tee.br[i].state = "readable" => Len(got) = split

\* Nothing gets between the source and the branches.
NothingIsLost ==
    /\ tee.src.state = "readable" => split + Len(tee.jobs) + Len(tee.src.queue) = made
    /\ tee.reading <=> Len(tee.src.requests) + Len(tee.jobs) = 1
    /\ Len(tee.src.requests) <= 1

\* Demand of either branch reaches the source, though one read at a time is out.
DemandReachesTheSource ==
    \A i \in Branches :
        ShouldCallPull(tee.br[i], tee.br[i].requests) => tee.reading \/ tee.br[i].pulling
                                                         \/ tee.src.closed = "rejected"

\* The source is cancelled for both branches and for no less, and who cancelled one
\* learns of it or of the end of the other (tee_cancel_algorithm_impl).
CancelIsForBoth ==
    /\ tee.cancelled = Branches => tee.src.state # "readable"
    /\ tee.src.state = "closed" /\ tee.cancelled # Branches => split + Len(tee.jobs) = made
    /\ \A i \in tee.cancelled :
          tee.br[Other(i)].state # "readable" => tee.cancelPromise = "resolved"

TeeIsFair == SameChunks /\ NothingIsLost /\ DemandReachesTheSource /\ CancelIsForBoth
=============================================================================
