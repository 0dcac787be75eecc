----------------------------- MODULE Transform -----------------------------
(***************************************************************************)
(* A TransformStream (stream_web/transform): a writable stream and a       *)
(* readable stream whose sink and source are the transformer.  A chunk     *)
(* written waits until the readable side asks for data, is transformed,    *)
(* and is enqueued there.                                                  *)
(*                                                                         *)
(* `t' holds the two streams and the state between them.  `change' says    *)
(* that a backpressureChangePromise exists; the write and the pull that    *)
(* wait for it are "blocked" until it resolves.  The stages of a write     *)
(* are: blocked, woken (its reaction is due), running (the transformer's   *)
(* promise), and ok or failed (the sink's promise, which the writable side *)
(* has yet to see).  Neither side has a size() of its own here.            *)
(***************************************************************************)
EXTENDS Readable, Writable

CONSTANTS
    MaxWrites,              \* chunks written
    MaxReads,               \* reads issued
    ReadableHighWaterMarks,
    WritableHighWaterMarks

VARIABLES
    t,          \* the transform stream
    identity,   \* the transformer has no transform(): chunks pass unchanged
    starting,   \* the promise of the transformer's start() is pending
    wrote, issued,
    produced    \* chunks a transform() of the script has enqueued

vars == <<t, identity, starting, wrote, issued, produced>>

TheReader == 1
TheWriter == 1

Init ==
    /\ identity \in BOOLEAN
    /\ starting = TRUE
    /\ wrote = 0 /\ issued = 0 /\ produced = 0
    /\ \E r \in ReadableHighWaterMarks, w \in WritableHighWaterMarks :
           t = [rs |-> AcquireReader(NewReadable(r), TheReader),
                ws |-> AcquireWriter(NewWritable(w), TheWriter),
                backpressure |-> TRUE, change |-> TRUE, algorithms |-> TRUE,
                write |-> "none", pull |-> "none", flush |-> "none",
                abort |-> "none", cancel |-> "none", panicked |-> FALSE]

-----------------------------------------------------------------------------
(* Between the two sides. *)

ResolveChange_PullOnly(x) ==
    [x EXCEPT !.change = FALSE, !.pull = IF @ = "blocked" THEN "due" ELSE @]

ResolveChange(x) ==
    [x EXCEPT !.change = FALSE,
              !.write = IF @ = "blocked" THEN "woken" ELSE @,
              !.pull = IF @ = "blocked" THEN "due" ELSE @]

SetBackpressure_KeepsPromise(x, backpressure) ==
    [x EXCEPT !.change = TRUE, !.backpressure = backpressure]

\* transform_stream_set_backpressure: the old promise resolves, a new one is
\* made, whether or not the backpressure changes.
SetBackpressure(x, backpressure) ==
    [ResolveChange(x) EXCEPT !.change = TRUE, !.backpressure = backpressure]

\* The readable side pulls, and waits for the promise made here.
SourcePull(x) == [SetBackpressure(x, FALSE) EXCEPT !.pull = "blocked"]

WithReadable(x, rs) ==
    LET moved == [x EXCEPT !.rs = rs]
    IN  IF rs.pulling /\ ~x.rs.pulling THEN SourcePull(moved) ELSE moved

\* An enqueue the readable side cannot take is ignored.
EnqueueChunk(x, chunk) ==
    LET put == IF CanCloseOrEnqueue(x.rs) THEN WithReadable(x, Enqueue(x.rs, chunk)) ELSE x
        full == DesiredSize(put.rs) <= 0
    IN  IF full # put.backpressure THEN SetBackpressure(put, TRUE) ELSE put

\* expect("transform algorithm must exist")
PerformTransform(x, chunk) ==
    CASE ~x.algorithms -> [x EXCEPT !.panicked = TRUE]
      [] x.algorithms /\ identity -> [EnqueueChunk(x, chunk) EXCEPT !.write = "running"]
      [] OTHER -> [x EXCEPT !.write = "running"]

SinkWrite_Unchecked(x, chunk) == PerformTransform(x, chunk)

SinkWrite(x, chunk) ==
    IF x.backpressure /\ x.change THEN [x EXCEPT !.write = "blocked"]
    ELSE PerformTransform(x, chunk)

\* The writable side moves on, and perhaps calls its sink.
WithWritable(x, ws) ==
    LET moved == [x EXCEPT !.ws = ws]
    IN  IF Len(ws.calls) = Len(x.ws.calls) THEN moved
        ELSE CASE Last(ws.calls) = CloseOp -> [moved EXCEPT !.flush = "running"]
               [] Last(ws.calls) = AbortOp -> [moved EXCEPT !.abort = "running"]
               [] OTHER -> SinkWrite(moved, Last(ws.calls))

ErrorWritableAndUnblockWrite(x) ==
    LET errored == WithWritable(x, ErrorIfNeeded(x.ws, x.ws.writer))
    IN  ResolveChange([errored EXCEPT !.algorithms = FALSE, !.backpressure = FALSE])

TransformError_ReadableOnly(x) == WithReadable(x, ControllerError(x.rs))

TransformError(x) == ErrorWritableAndUnblockWrite(WithReadable(x, ControllerError(x.rs)))

Terminate(x) == ErrorWritableAndUnblockWrite(WithReadable(x, ControllerClose(x.rs)))

-----------------------------------------------------------------------------
(* Promises settle. *)

StartSettles ==
    /\ starting
    /\ starting' = FALSE
    /\ t' \in {WithWritable(t, SinkStarted(t.ws)), WithWritable(t, SinkFailedToStart(t.ws))}
    /\ UNCHANGED <<identity, wrote, issued, produced>>

\* The readable side does not wait for start().
ReadableStarts ==
    /\ ~t.rs.started
    /\ t' = WithReadable(t, StartFulfilled(t.rs))
    /\ UNCHANGED <<identity, starting, wrote, issued, produced>>

WriteWakes ==
    /\ t.write = "woken"
    /\ t' = PerformTransform(t, Head(t.ws.queue).chunk)
    /\ UNCHANGED <<identity, starting, wrote, issued, produced>>

TransformSettles ==
    /\ t.write = "running"
    /\ \/ t' = [t EXCEPT !.write = "ok"]
       \/ /\ ~identity
          /\ t' = [TransformError(t) EXCEPT !.write = "failed"]
    /\ UNCHANGED <<identity, starting, wrote, issued, produced>>

WriteSettles ==
    /\ t.write \in {"ok", "failed"}
    /\ t' = WithWritable([t EXCEPT !.write = "none"],
                         IF t.write = "ok" THEN WriteFulfilled(t.ws) ELSE WriteRejected(t.ws))
    /\ UNCHANGED <<identity, starting, wrote, issued, produced>>

FlushSettles ==
    /\ t.flush = "running"
    /\ LET cleared == [t EXCEPT !.algorithms = FALSE]
       IN  \/ t' = [WithReadable(ResolveChange(cleared), ControllerClose(t.rs))
                       EXCEPT !.flush = "ok"]
           \/ t' = [TransformError(cleared) EXCEPT !.flush = "failed"]
    /\ UNCHANGED <<identity, starting, wrote, issued, produced>>

CloseSettles ==
    /\ t.flush \in {"ok", "failed"}
    /\ t' = WithWritable([t EXCEPT !.flush = "none"],
                         IF t.flush = "ok" THEN CloseFulfilled(t.ws) ELSE CloseRejected(t.ws))
    /\ UNCHANGED <<identity, starting, wrote, issued, produced>>

\* The transformer's cancel() is the sink's abort; the readable side is not
\* told of it.
AbortSettles ==
    /\ t.abort = "running"
    /\ \E what \in {"ok", "failed"} :
           t' = WithWritable([t EXCEPT !.abort = "none", !.algorithms = FALSE],
                             AbortSettled(t.ws, what))
    /\ UNCHANGED <<identity, starting, wrote, issued, produced>>

PullSettles ==
    /\ t.pull = "due"
    /\ LET rs == PullFulfilled(t.rs)
           settled == [t EXCEPT !.rs = rs, !.pull = "none"]
       IN  t' = IF rs.pulling THEN SourcePull(settled) ELSE settled
    /\ UNCHANGED <<identity, starting, wrote, issued, produced>>

CancelSettles ==
    /\ t.cancel = "running"
    /\ t' = ErrorWritableAndUnblockWrite([t EXCEPT !.cancel = "none"])
    /\ UNCHANGED <<identity, starting, wrote, issued, produced>>

-----------------------------------------------------------------------------
(* The script: the producer, the consumer, and the transformer's use of its *)
(* controller.                                                              *)

WriteCall ==
    /\ wrote < MaxWrites
    /\ wrote' = wrote + 1
    /\ t' = WithWritable(t, Write(t.ws, TheWriter, wrote + 1))
    /\ UNCHANGED <<identity, starting, issued, produced>>

CloseCall ==
    /\ ~Ended(t.ws) /\ ~CloseQueuedOrInFlight(t.ws)
    /\ t' = WithWritable(t, Close(t.ws, TheWriter))
    /\ UNCHANGED <<identity, starting, wrote, issued, produced>>

AbortCall ==
    /\ ~Ended(t.ws) /\ t.ws.pendingAbort = "none"
    /\ t' = WithWritable(t, Abort(t.ws, TheWriter))
    /\ UNCHANGED <<identity, starting, wrote, issued, produced>>

ReadCall ==
    /\ issued < MaxReads
    /\ issued' = issued + 1
    /\ t' = WithReadable(t, Read(t.rs, issued + 1))
    /\ UNCHANGED <<identity, starting, wrote, produced>>

CancelCall ==
    /\ t.rs.state = "readable"
    /\ t' = [WithReadable(t, Cancel(t.rs)) EXCEPT !.cancel = "running"]
    /\ UNCHANGED <<identity, starting, wrote, issued, produced>>

EnqueueCall ==
    /\ ~identity
    /\ produced < MaxWrites
    /\ produced' = produced + 1
    /\ t' = EnqueueChunk(t, produced + 1)
    /\ UNCHANGED <<identity, starting, wrote, issued>>

ErrorCall ==
    /\ ~identity
    /\ t.rs.state = "readable"
    /\ t' = TransformError(t)
    /\ UNCHANGED <<identity, starting, wrote, issued, produced>>

TerminateCall ==
    /\ ~identity
    /\ CanCloseOrEnqueue(t.rs)
    /\ t' = Terminate(t)
    /\ UNCHANGED <<identity, starting, wrote, issued, produced>>

-----------------------------------------------------------------------------
Reactions ==
    \/ StartSettles \/ ReadableStarts \/ WriteWakes \/ TransformSettles \/ WriteSettles
    \/ FlushSettles \/ CloseSettles \/ AbortSettles \/ PullSettles \/ CancelSettles

\* A panic ends the VM thread.
Next ==
    /\ ~t.panicked
    /\ \/ Reactions
       \/ WriteCall \/ CloseCall \/ AbortCall
       \/ ReadCall \/ CancelCall
       \/ EnqueueCall \/ ErrorCall \/ TerminateCall

\* Reactions that are due run; the transformer settles what it promised.
Spec == Init /\ [][Next]_vars /\ WF_vars(~t.panicked /\ Reactions)

(***************************************************************************)
(* Properties                                                              *)
(***************************************************************************)
Received ==
    LET chunks == SelectSeq(t.rs.answers, LAMBDA a : a.what.kind = "chunk")
    IN  [i \in DOMAIN chunks |-> chunks[i].what.chunk]
Buffered == [i \in DOMAIN t.rs.queue |-> t.rs.queue[i].chunk]
Transformed == Received \o Buffered
Succeeded ==
    {t.ws.answers[i].to : i \in {j \in DOMAIN t.ws.answers : t.ws.answers[j].what = "ok"}}

TypeOK ==
    /\ ReadableTypeOK(t.rs, 1..MaxWrites, {1}, {TheReader}, 1..MaxReads)
    /\ WritableTypeOK(t.ws, 1..MaxWrites, {1}, {TheWriter})
    /\ {t.backpressure, t.change, t.algorithms, t.panicked, identity, starting} \subseteq BOOLEAN
    /\ t.write \in {"none", "blocked", "woken", "running", "ok", "failed"}
    /\ t.pull \in {"none", "blocked", "due"}
    /\ {t.flush, t.abort, t.cancel} \subseteq {"none", "running", "ok", "failed"}
    /\ {wrote, produced} \subseteq 0..MaxWrites /\ issued \in 0..MaxReads

\* Without a transform() of its own the stream hands on what was written, in
\* order, and each write that succeeded, unless the readable side was cancelled
\* or the chunk dropped with the stream's error.
NothingIsLost ==
    identity =>
        /\ \A i, j \in DOMAIN Transformed : i < j => Transformed[i] < Transformed[j]
        /\ t.rs.state = "readable" =>
               \A w \in Succeeded \ {CloseOp, AbortOp} : \E i \in DOMAIN Transformed : Transformed[i] = w

\* The readable side never buffers more than it asked for: its high water mark,
\* and one chunk that was asked for by a read answered meanwhile.
BufferedAtMost(n) == Len(t.rs.queue) <= n
ReadableIsNotFlooded ==
    identity => BufferedAtMost(IF t.rs.hwm = 0 THEN 1 ELSE t.rs.hwm)

\* What waits, waits for a promise that exists.
WaitersHaveAPromise ==
    /\ t.write = "blocked" \/ t.pull = "blocked" => t.change
    /\ t.write # "none" <=> t.ws.inFlightWrite # NoWrite
    /\ t.pull # "none" => t.rs.pulling

\* A readable side that failed takes the writable side along.
FailureReachesTheWritable == t.rs.state = "errored" => t.ws.state # "writable"

\* A read and a write do not wait for each other: with both there, one of them
\* is answered.
NoStandoff ==
    (identity /\ t.rs.requests # <<>> /\ t.ws.queue # <<>>)
        ~> (t.rs.requests = <<>> \/ t.ws.queue = <<>> \/ t.panicked)

\* Chunks pass from side to side (sink write, source pull and what they wait for).
ChunksPass == TypeOK /\ NothingIsLost /\ ReadableIsNotFlooded /\ WaitersHaveAPromise

\* expect("transform algorithm must exist") says a chunk is transformed only
\* while there is a transform.  One that waited for backpressure to change is
\* transformed without a look at what woke it.
TransformAlgorithmExists == ~t.panicked
=============================================================================
