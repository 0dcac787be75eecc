--------------------------- MODULE ReadableStream ---------------------------
(***************************************************************************)
(* A readable stream in the hands of a script: its source (start, pull,    *)
(* enqueue, close, error, size) and its consumer (getReader, read,         *)
(* releaseLock, cancel) call it in any order, from one another's callbacks *)
(* and from promise reactions.  Everything runs on one thread; what        *)
(* interleaves are the calls, the promise reactions and the call-backs     *)
(* that have not returned.                                                 *)
(***************************************************************************)
EXTENDS Readable

CONSTANTS
    MaxChunks,      \* how many chunks the source makes
    MaxReads,       \* how many reads the consumer issues
    MaxReaders,     \* how many readers are acquired over the stream's life
    HighWaterMarks, \* the strategies to start from
    Sizes,          \* what size() may answer
    MaxNesting      \* how deep size() may call enqueue() again

ASSUME BoundsAssumption ==
    /\ {MaxChunks, MaxReads, MaxReaders, MaxNesting} \subseteq Nat \ {0}
    /\ HighWaterMarks \subseteq Nat
    /\ Sizes \subseteq Nat

VARIABLES
    rs,        \* the stream
    start,     \* the promise of the source's start()
    pull,      \* the promise of the pull() that runs: "none", "idle", "fed"
    made,      \* chunks handed to enqueue()
    issued,    \* reads issued
    readers,   \* readers acquired so far
    lost,      \* reads whose reader was released before they were answered
    settling,  \* the read in whose middle pull() runs, its chunk in hand
    sizeFn,    \* the strategy has a size() written in JavaScript
    diligent   \* the source does something in every pull()

vars == <<rs, start, pull, made, issued, readers, lost, settling, sizeFn, diligent>>

Chunks == 1..MaxChunks
Reads == 1..MaxReads
Readers == 1..MaxReaders

\* No read is in that state.
NoRead == [read |-> 0, depth |-> 0]

Init ==
    /\ \E hwm \in HighWaterMarks : rs = NewReadable(hwm)
    /\ start = "running"
    /\ pull = "none"
    /\ made = 0 /\ issued = 0 /\ readers = 0
    /\ lost = {} /\ settling = NoRead
    /\ sizeFn \in BOOLEAN /\ diligent \in BOOLEAN

\* An operation that leaves the stream as `after', having perhaps called
\* pull().
Becomes(after) ==
    /\ rs' = after
    /\ pull' = IF after.pulling /\ ~rs.pulling THEN "idle" ELSE pull

\* The source has done something for the pull that runs.
Feeds(after) ==
    /\ rs' = after
    /\ pull' = CASE after.pulling /\ ~rs.pulling -> "idle"
                 [] pull = "idle" -> "fed"
                 [] OTHER -> pull

-----------------------------------------------------------------------------
(* The source. *)

StartFulfils ==
    /\ start = "running" /\ rs.sizing = <<>>
    /\ start' = "done"
    /\ Becomes(StartFulfilled(rs))
    /\ UNCHANGED <<made, issued, readers, lost, settling, sizeFn, diligent>>

StartRejects ==
    /\ start = "running" /\ rs.sizing = <<>>
    /\ start' = "done"
    /\ Becomes(ControllerError(rs))
    /\ UNCHANGED <<made, issued, readers, lost, settling, sizeFn, diligent>>

\* controller.enqueue(); it throws where CanCloseOrEnqueue is false.
EnqueueCall ==
    /\ made < MaxChunks
    /\ CanCloseOrEnqueue(rs)
    /\ Len(rs.sizing) < MaxNesting
    /\ made' = made + 1
    /\ Feeds(IF sizeFn THEN EnqueueStart(rs, made + 1) ELSE Enqueue(rs, made + 1))
    /\ UNCHANGED <<start, issued, readers, lost, settling, sizeFn, diligent>>

\* The innermost callback returns first.
SizeReturns ==
    /\ rs.sizing # <<>>
    /\ settling = NoRead \/ Len(rs.sizing) > settling.depth
    /\ \/ \E size \in Sizes : Becomes(SizeReturned(rs, size))
       \/ Becomes(SizeFailed(rs))
    /\ UNCHANGED <<start, made, issued, readers, lost, settling, sizeFn, diligent>>

CloseCall ==
    /\ CanCloseOrEnqueue(rs)
    /\ Feeds(ControllerClose(rs))
    /\ UNCHANGED <<start, made, issued, readers, lost, settling, sizeFn, diligent>>

ErrorCall ==
    /\ rs.state = "readable"
    /\ Feeds(ControllerError(rs))
    /\ UNCHANGED <<start, made, issued, readers, lost, settling, sizeFn, diligent>>

\* The promise of pull() settles; reactions run when no callback does.
PullFulfils ==
    /\ pull # "none"
    /\ diligent => pull = "fed" \/ ~CanCloseOrEnqueue(rs)
    /\ rs.sizing = <<>> /\ settling = NoRead
    /\ LET after == PullFulfilled(rs)
       IN  /\ rs' = after
           /\ pull' = IF after.pulling THEN "idle" ELSE "none"
    /\ UNCHANGED <<start, made, issued, readers, lost, settling, sizeFn, diligent>>

\* A pull that fails leaves pulling as it is: the stream never pulls again.
PullRejects ==
    /\ pull # "none"
    /\ rs.sizing = <<>> /\ settling = NoRead
    /\ rs' = ControllerError(rs)
    /\ pull' = "none"
    /\ UNCHANGED <<start, made, issued, readers, lost, settling, sizeFn, diligent>>

-----------------------------------------------------------------------------
(* The consumer. *)

GetReader ==
    /\ ~Locked(rs)
    /\ readers < MaxReaders
    /\ readers' = readers + 1
    /\ Becomes(AcquireReader(rs, readers + 1))
    /\ UNCHANGED <<start, made, issued, lost, settling, sizeFn, diligent>>

ReadCall ==
    /\ Locked(rs)
    /\ issued < MaxReads
    /\ issued' = issued + 1
    /\ Becomes(Read(rs, issued + 1))
    /\ settling' = IF ReadCallsPull(rs, issued + 1)
                    THEN [read |-> issued + 1, depth |-> Len(rs.sizing)]
                    ELSE settling
    /\ UNCHANGED <<start, made, readers, lost, sizeFn, diligent>>

\* pull() returns to the read that called it, and the promise of the read is
\* settled with the chunk taken before.  What pull() called has returned.
PullReturns ==
    /\ settling # NoRead
    /\ Len(rs.sizing) = settling.depth
    /\ settling' = NoRead
    /\ UNCHANGED <<rs, start, pull, made, issued, readers, lost, sizeFn, diligent>>

ReleaseLock ==
    /\ Locked(rs)
    /\ lost' = lost \union {rs.requests[i] : i \in DOMAIN rs.requests}
    /\ Becomes(ReleaseReader(rs))
    /\ UNCHANGED <<start, made, issued, readers, settling, sizeFn, diligent>>

\* reader.cancel(), or stream.cancel() of a stream that is not locked.
CancelCall ==
    /\ ~rs.disturbed \/ rs.state = "readable"
    /\ Becomes(Cancel(rs))
    /\ UNCHANGED <<start, made, issued, readers, lost, settling, sizeFn, diligent>>

SyncDrainCall ==
    /\ CanSyncDrain(rs)
    /\ rs.sizing = <<>>
    /\ Becomes(SyncDrain(rs))
    /\ UNCHANGED <<start, made, issued, readers, lost, settling, sizeFn, diligent>>

-----------------------------------------------------------------------------
Next ==
    \/ StartFulfils \/ StartRejects
    \/ EnqueueCall \/ SizeReturns \/ CloseCall \/ ErrorCall
    \/ PullFulfils \/ PullRejects
    \/ GetReader \/ ReadCall \/ PullReturns \/ ReleaseLock \/ CancelCall \/ SyncDrainCall

\* What the scripting engine and the source owe: a promise reaction that is
\* due runs, a size() or pull() that was called returns, and a source asked to pull goes
\* on enqueuing, or ends the pull, or the stream.
Fairness ==
    /\ WF_vars(StartFulfils \/ StartRejects)
    /\ WF_vars(SizeReturns)
    /\ WF_vars(PullReturns)
    /\ WF_vars(pull = "idle" /\ (EnqueueCall \/ CloseCall \/ ErrorCall))
    /\ WF_vars(PullFulfils \/ PullRejects)

Spec == Init /\ [][Next]_vars /\ Fairness

(***************************************************************************)
(* Properties                                                              *)
(***************************************************************************)
TypeOK ==
    /\ ReadableTypeOK(rs, Chunks, Sizes \union {1}, Readers, Reads)
    /\ start \in {"running", "done"}
    /\ pull \in {"none", "idle", "fed"}
    /\ made \in 0..MaxChunks /\ issued \in 0..MaxReads /\ readers \in 0..MaxReaders
    /\ lost \subseteq Reads
    /\ settling \in [read : Reads \union {0}, depth : Nat]
    /\ {sizeFn, diligent} \subseteq BOOLEAN

\* The pull, cancel and size algorithms are unwrapped with expect() wherever
\* they are called; every such place is reached only while the stream is
\* readable, and there they have not been cleared.
AlgorithmsAreThere == rs.state = "readable" => rs.algorithms

\* The answers that hand out a chunk.
Got(r) == {i \in DOMAIN r.answers : r.answers[i].what.kind = "chunk"}

\* Chunk c was handed to a read, or waits in the queue.
IsKept(r, c) ==
    \/ \E i \in Got(r) : r.answers[i].what.chunk = c
    \/ \E i \in DOMAIN r.queue : r.queue[i].chunk = c

\* A read issued later gets a later chunk, and the queue holds ever later chunks
\* than those that were handed out.
InOrder(r) ==
    /\ \A i, j \in Got(r) :
           r.answers[i].to < r.answers[j].to => r.answers[i].what.chunk < r.answers[j].what.chunk
    /\ \A i, j \in DOMAIN r.queue : i < j => r.queue[i].chunk < r.queue[j].chunk
    /\ \A i \in Got(r), j \in DOMAIN r.queue : r.answers[i].what.chunk < r.queue[j].chunk

\* With a strategy that runs no script, what was read and what is still queued
\* are together the chunks enqueued, in order and none twice: whatever the
\* reads, the readers that come and go and the pulls that overlap.  The order is
\* that of the reads: a pull() that reads and enqueues in the middle of a read
\* settles the later read first, each with the chunk of its turn.
ChunksInOrder ==
    ~sizeFn => InOrder(rs) /\ (rs.state = "readable" => \A c \in 1..made : IsKept(rs, c))

\* However size() re-enters the stream, no chunk is handed out twice.
NoChunkTwice ==
    /\ \A i, j \in Got(rs) : rs.answers[i].what = rs.answers[j].what => i = j
    /\ \A i, j \in DOMAIN rs.queue : rs.queue[i].chunk = rs.queue[j].chunk => i = j
    /\ \A i \in Got(rs), j \in DOMAIN rs.queue : rs.answers[i].what.chunk # rs.queue[j].chunk

\* A stream that ended holds no read: each was answered when it ended or is
\* answered at once; and no read is answered twice.
EndedAnswersEverything ==
    /\ rs.state # "readable" => rs.requests = <<>>
    /\ \A i, j \in DOMAIN rs.answers : rs.answers[i].to = rs.answers[j].to => i = j

\* reader.closed tells the state of the stream the reader holds.
ClosedTellsTheState ==
    rs.closed = IF Locked(rs) THEN ClosedPromise(rs.state) ELSE "none"

\* Demand is never forgotten: a source that has done something for each pull
\* is pulled again whenever a read waits or the queue has room, at once or,
\* when a pull runs, by way of pullAgain as soon as that pull ends.
DemandIsPulled ==
    (diligent /\ rs.started /\ rs.sizing = <<>>) =>
        (ShouldCallPull(rs, rs.requests) => pull # "none")

\* A source that feeds each pull is asked until every read is answered, unless
\* its reader was released first or the chunks of this instance are spent.
\* (A read issued from inside size() is overtaken by the chunk being sized, and
\* may wait for ever behind a close: so this says nothing of such strategies.)
Answered(read) == read # settling.read /\ \E i \in DOMAIN rs.answers : rs.answers[i].to = read
EveryReadIsAnswered ==
    (diligent /\ ~sizeFn) ~> \A read \in 1..issued :
                   Answered(read) \/ read \in lost \/ made = MaxChunks

\* What reads get: every chunk once, in order, and no cleared callback on the way
\* (pull_steps, enqueue).
ReadersAreServed == TypeOK /\ AlgorithmsAreThere /\ ChunksInOrder /\ NoChunkTwice

\* Readers learn of the end, and the source of demand (readable_stream_close,
\* call_pull_if_needed).
ReadersAreTold == EndedAnswersEverything /\ ClosedTellsTheState /\ DemandIsPulled

\* The comment on the release ("Perform ! ReadableStreamDefaultReaderError-
\* ReadRequests(reader, e)") promises that reads left waiting are rejected.
\* They are cleared first, so they never settle.
ReleasedReadsAreRejected == \A read \in lost : Answered(read)
=============================================================================
