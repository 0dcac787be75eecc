--------------------------- MODULE WritableStream ---------------------------
(***************************************************************************)
(* A writable stream in the hands of a script: its producer (getWriter,    *)
(* write, close, abort, releaseLock) and its sink (start, write, close,    *)
(* abort, controller.error) act in any order, from one another's callbacks *)
(* and from promise reactions.                                             *)
(***************************************************************************)
EXTENDS Writable

CONSTANTS
    MaxWrites,          \* how many chunks are written
    MaxWriters,         \* how many writers are acquired over the stream's life
    MaxFrames,          \* how deep the script's callbacks nest
    WriteHighWaterMarks,
    WriteSizes,         \* what size() may answer
    HandOver            \* a writer may be acquired while a callback runs or
                        \* the sink closes

\* The high water mark is that of extract_high_water_mark; NaN and Infinity are left
\* out, and so is what a size() that is no number weighs.
ConstantsOK ==
    /\ MaxWrites \in Nat /\ MaxWriters \in Nat
    /\ WriteHighWaterMarks \subseteq Nat

VARIABLES
    ws,         \* the stream
    starting,   \* the promise of the sink's start() is pending
    wrote,      \* chunks written
    writers,    \* writers acquired so far
    asked,      \* which of close and abort were accepted
    late,       \* writers acquired while a callback ran or the sink closed
    nested      \* a write was made from the size() of another

vars == <<ws, starting, wrote, writers, asked, late, nested>>

WriteIds == 1..MaxWrites
Writers == 1..MaxWriters

Init ==
    /\ \E hwm \in WriteHighWaterMarks : ws = NewWritable(hwm)
    /\ starting = TRUE
    /\ wrote = 0 /\ writers = 0
    /\ asked = {} /\ late = {}
    /\ nested = FALSE

\* Reactions run when no callback does.
NoFrames == ws.frames = <<>>

-----------------------------------------------------------------------------
(* The sink. *)

StartSettles ==
    /\ starting
    /\ NoFrames
    /\ starting' = FALSE
    /\ ws' \in {SinkStarted(ws), SinkFailedToStart(ws)}
    /\ UNCHANGED <<wrote, writers, asked, late, nested>>

WriteSettles ==
    /\ ws.inFlightWrite # NoWrite
    /\ NoFrames
    /\ ws' \in {WriteFulfilled(ws), WriteRejected(ws)}
    /\ UNCHANGED <<starting, wrote, writers, asked, late, nested>>

CloseSettles ==
    /\ ws.inFlightClose
    /\ NoFrames
    /\ ws' \in {CloseFulfilled(ws), CloseRejected(ws)}
    /\ UNCHANGED <<starting, wrote, writers, asked, late, nested>>

AbortSettles ==
    /\ ws.aborting
    /\ NoFrames
    /\ \E what \in {"ok", "failed"} : ws' = AbortSettled(ws, what)
    /\ UNCHANGED <<starting, wrote, writers, asked, late, nested>>

\* controller.error()
ErrorCall ==
    /\ ws.state = "writable"
    /\ ws' = ControllerErrors(ws, ws.writer)
    /\ UNCHANGED <<starting, wrote, writers, asked, late, nested>>

-----------------------------------------------------------------------------
(* The producer. *)

GetWriter ==
    /\ ~IsLocked(ws)
    /\ writers < MaxWriters
    /\ LET odd == ws.inFlightClose \/ ~NoFrames
       IN  /\ odd => HandOver
           /\ late' = late \union (IF odd THEN {writers + 1} ELSE {})
    /\ writers' = writers + 1
    /\ ws' = AcquireWriter(ws, writers + 1)
    /\ UNCHANGED <<starting, wrote, asked, nested>>

ReleaseLock ==
    /\ IsLocked(ws)
    /\ ws' = ReleaseWriter(ws)
    /\ UNCHANGED <<starting, wrote, writers, asked, late, nested>>

WriteCall ==
    /\ IsLocked(ws)
    /\ wrote < MaxWrites
    /\ Len(ws.frames) < MaxFrames
    /\ wrote' = wrote + 1
    /\ ws' = WriteStart(ws, ws.writer, wrote + 1)
    /\ nested' = (nested \/ \E i \in DOMAIN ws.frames : ws.frames[i].in = "size")
    /\ UNCHANGED <<starting, writers, asked, late>>

SizeReturns ==
    /\ ~NoFrames
    /\ Last(ws.frames).in = "size"
    /\ \/ \E size \in WriteSizes : ws' = WriteSized(ws, size)
       \/ ws' \in {WriteSizeThrew(ws), WriteBadlySized(ws)}
    /\ UNCHANGED <<starting, wrote, writers, asked, late, nested>>

\* By the writer, or on the stream while it has none.
CloseCall ==
    /\ ~Ended(ws)
    /\ ~CloseQueuedOrInFlight(ws)
    /\ asked' = asked \union {CloseOp}
    /\ ws' = Close(ws, ws.writer)
    /\ UNCHANGED <<starting, wrote, writers, late, nested>>

AbortCall ==
    /\ ~Ended(ws)
    /\ Len(ws.frames) < MaxFrames
    /\ ws' = AbortStart(ws, ws.writer)
    /\ asked' = asked \union (IF ws.signalled THEN {AbortOp} ELSE {})
    /\ UNCHANGED <<starting, wrote, writers, late, nested>>

ListenersReturn ==
    /\ ~NoFrames
    /\ Last(ws.frames).in = "signal"
    /\ ws' = AbortSignalled(ws)
    /\ asked' = asked \union (IF Ended(ws) THEN {} ELSE {AbortOp})
    /\ UNCHANGED <<starting, wrote, writers, late, nested>>

-----------------------------------------------------------------------------
Next ==
    \/ StartSettles \/ WriteSettles \/ CloseSettles \/ AbortSettles \/ ErrorCall
    \/ GetWriter \/ ReleaseLock \/ WriteCall \/ SizeReturns
    \/ CloseCall \/ AbortCall \/ ListenersReturn

\* The sink settles what it was called with, and callbacks return.
Fairness ==
    /\ WF_vars(StartSettles)
    /\ WF_vars(WriteSettles)
    /\ WF_vars(CloseSettles)
    /\ WF_vars(AbortSettles)
    /\ WF_vars(SizeReturns \/ ListenersReturn)

Spec == Init /\ [][Next]_vars /\ Fairness

(***************************************************************************)
(* Properties                                                              *)
(***************************************************************************)
TypeOK ==
    /\ WritableTypeOK(ws, WriteIds, WriteSizes, Writers)
    /\ wrote \in 0..MaxWrites /\ writers \in 0..MaxWriters
    /\ asked \subseteq {CloseOp, AbortOp}
    /\ late \subseteq Writers
    /\ {starting, nested} \subseteq BOOLEAN

\* No order of calls, callbacks and reactions reaches the panic!() of
\* WritableStreamDealWithRejection or one of the expect()s on an algorithm, a
\* request or the queue.
NeverPanics == ~ws.panicked

Settled(op) == \E i \in DOMAIN ws.answers : ws.answers[i].to = op

\* The sink is called with one thing at a time, with the writes in the order
\* they were made (one made from the size() of another is queued before it),
\* and with nothing after a close or an abort.
SinkCalledInTurn ==
    \A i, j \in DOMAIN ws.calls : i < j =>
        /\ Settled(ws.calls[i])
        /\ ws.calls[i] \in WriteIds
        /\ ~nested /\ ws.calls[j] \in WriteIds => ws.calls[i] < ws.calls[j]

\* No promise settles twice, and a write that succeeded reached the sink.
SettledOnce ==
    /\ \A i, j \in DOMAIN ws.answers : ws.answers[i].to = ws.answers[j].to => i = j
    /\ \A i \in DOMAIN ws.answers :
           ws.answers[i].to \in WriteIds /\ ws.answers[i].what = "ok"
               => \E j \in DOMAIN ws.calls : ws.calls[j] = ws.answers[i].to

\* The queue holds the write in flight, the writes requested, in their order, and
\* the close that is asked for.
QueueIsTheRequests(s) ==
    LET ahead == IF s.inFlightWrite = NoWrite THEN 0 ELSE 1
        close == IF s.closeRequest THEN 1 ELSE 0
    IN  /\ Len(s.queue) = ahead + Len(s.writeRequests) + close
        /\ s.inFlightWrite # NoWrite => s.queue[1].chunk = s.inFlightWrite
        /\ \A i \in DOMAIN s.writeRequests : s.queue[ahead + i].chunk = s.writeRequests[i]
        /\ s.closeRequest => s.queue[Len(s.queue)].chunk = CloseOp

\* A stream that still takes writes has a write request for each chunk in the
\* queue, and asks its writer to wait exactly when the queue is full.
BackpressureIsTheQueues ==
    ws.state = "writable" =>
        /\ QueueIsTheRequests(ws)
        /\ ~CloseQueuedOrInFlight(ws) => ws.backpressure = (WriterDesiredSize(ws) <= 0)
        /\ (IsLocked(ws) /\ ws.writer \notin late) =>
               ws.ready = IF ws.backpressure /\ ~CloseQueuedOrInFlight(ws)
                          THEN "pending" ELSE "fulfilled"

\* A writer knows how its stream fares, unless it was acquired while a callback
\* ran or the sink closed.
WriterKnowsTheState ==
    (IsLocked(ws) /\ ws.writer \notin late) =>
        /\ ws.state \in {"erroring", "errored"} => ws.ready = "rejected"
        /\ ws.closed = "fulfilled" <=> ws.state = "closed"
        /\ ws.closed = "rejected" => ws.state = "errored"
        /\ ws.state = "errored" /\ ~ws.aborting => ws.closed = "rejected"

\* Every write, and every close and abort that was accepted, settles.
EveryCallSettles ==
    /\ \A op \in WriteIds : wrote >= op ~> Settled(op)
    /\ \A op \in {CloseOp, AbortOp} : op \in asked ~> Settled(op)

\* What the sink gets, and what is said of it (advance_queue_if_needed).
SinkIsServed == TypeOK /\ NeverPanics /\ SinkCalledInTurn /\ SettledOnce

\* Writers learn of backpressure and of the end (update_backpressure).
WritersAreTold == BackpressureIsTheQueues /\ WriterKnowsTheState

\* "If writer is not undefined, resolve writer.[[closedPromise]] with
\* undefined", says the comment where a close finishes.  The writer the code
\* tells is the one the close began with, and not the one there is.
CloseTellsTheWriter ==
    [][CloseSettles /\ ws'.state = "closed" /\ IsLocked(ws) => ws'.closed = "fulfilled"]_vars
=============================================================================
