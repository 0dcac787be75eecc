------------------------------ MODULE Writable ------------------------------
(***************************************************************************)
(* A writable stream with its default controller, as a value: every        *)
(* operation of writable/stream/mod.rs, writable/default_controller.rs and *)
(* writable/default_writer.rs is an operator from the record of the stream *)
(* before to the record of the stream after.  WritableStream, Transform    *)
(* and Pipe turn them into actions.                                        *)
(*                                                                         *)
(* Most operations carry the writer they were begun with (`w') and tell it *)
(* of what happens; one that was released meanwhile is told in vain.  The  *)
(* script runs in the middle of two operations, and `frames' holds what    *)
(* the code keeps on its stack for them: size() inside a write, and the    *)
(* listeners of the controller's signal inside an abort.                   *)
(***************************************************************************)
EXTENDS Integers, Sequences, SequencesExt

NoWriter == 0

\* A write is named by its chunk, a number from 1; these are the other calls.
CloseOp == 0
AbortOp == -1
NoWrite == 0

NewWritable(hwm) ==
    [state |-> "writable", writer |-> NoWriter, ready |-> "none", closed |-> "none",
     writeRequests |-> <<>>, inFlightWrite |-> NoWrite,
     closeRequest |-> FALSE, inFlightClose |-> FALSE, closeTells |-> NoWriter,
     pendingAbort |-> "none", aborting |-> FALSE, signalled |-> FALSE,
     backpressure |-> hwm <= 0, started |-> FALSE, algorithms |-> TRUE,
     queue |-> <<>>, hwm |-> hwm, frames |-> <<>>,
     answers |-> <<>>, calls |-> <<>>, panicked |-> FALSE]

\* An expect() or a panic!() of the code is reached.
Panic(s) == [s EXCEPT !.panicked = TRUE]

\* The promises of these calls settle.
Answers(s, ops, what) ==
    [s EXCEPT !.answers = @ \o [i \in DOMAIN ops |-> [to |-> ops[i], what |-> what]]]

HasWriter(s, w) == w # NoWriter /\ w = s.writer

RejectReady_WhenPending(s, w) ==
    IF HasWriter(s, w) /\ s.ready = "pending" THEN [s EXCEPT !.ready = "rejected"] ELSE s

RejectReady(s, w) == IF HasWriter(s, w) THEN [s EXCEPT !.ready = "rejected"] ELSE s

ResolveReady(s, w) ==
    IF HasWriter(s, w) /\ s.ready = "pending" THEN [s EXCEPT !.ready = "fulfilled"] ELSE s

SettleClosed(s, w, what) ==
    IF HasWriter(s, w) /\ s.closed = "pending" THEN [s EXCEPT !.closed = what] ELSE s

OperationInFlight(s) == s.inFlightWrite # NoWrite \/ s.inFlightClose
CloseQueuedOrInFlight(s) == s.closeRequest \/ s.inFlightClose
Ended(s) == s.state \in {"closed", "errored"}

ContainerSize(s) == FoldSeq(LAMBDA entry, sum : sum + entry.size, 0, s.queue)
WriterDesiredSize(s) == s.hwm - ContainerSize(s)

(***************************************************************************)
(* Erroring.                                                               *)
(***************************************************************************)
RejectCloseAndClosed(s, w) ==
    LET told == IF s.closeRequest
                THEN Answers([s EXCEPT !.closeRequest = FALSE], <<CloseOp>>, "failed")
                ELSE s
    IN  SettleClosed(told, w, "rejected")

FinishErroring_KeepsRequests(s, w) ==
    LET errored == [s EXCEPT !.state = "errored", !.queue = <<>>, !.pendingAbort = "none"]
    IN  CASE s.pendingAbort = "none" -> RejectCloseAndClosed(errored, w)
          [] s.pendingAbort = "late" ->
                 RejectCloseAndClosed(Answers(errored, <<AbortOp>>, "failed"), w)
          [] OTHER -> [errored EXCEPT !.aborting = TRUE, !.algorithms = FALSE,
                                      !.calls = Append(@, AbortOp)]

FinishErroring(s, w) ==
    LET errored == [Answers(s, s.writeRequests, "failed")
                       EXCEPT !.state = "errored", !.queue = <<>>,
                              !.writeRequests = <<>>, !.pendingAbort = "none"]
    IN  CASE s.pendingAbort = "none" -> RejectCloseAndClosed(errored, w)
          [] s.pendingAbort = "late" ->
                 RejectCloseAndClosed(Answers(errored, <<AbortOp>>, "failed"), w)
          [] s.pendingAbort = "fresh" /\ s.algorithms ->
                 [errored EXCEPT !.aborting = TRUE, !.algorithms = FALSE,
                                 !.calls = Append(@, AbortOp)]
          [] OTHER -> Panic(s)

StartErroring_AtOnce(s, w) ==
    LET erroring == RejectReady([s EXCEPT !.state = "erroring"], w)
    IN  IF s.started THEN FinishErroring(erroring, w) ELSE erroring

StartErroring(s, w) ==
    LET erroring == RejectReady([s EXCEPT !.state = "erroring"], w)
    IN  IF s.started /\ ~OperationInFlight(s) THEN FinishErroring(erroring, w) ELSE erroring

DealWithRejection(s, w) ==
    CASE s.state = "writable" -> StartErroring(s, w)
      [] s.state = "erroring" -> FinishErroring(s, w)
      [] OTHER -> Panic(s)

ControllerErrors(s, w) == StartErroring([s EXCEPT !.algorithms = FALSE], w)
ErrorIfNeeded(s, w) == IF s.state = "writable" THEN ControllerErrors(s, w) ELSE s

(***************************************************************************)
(* The queue.                                                              *)
(***************************************************************************)
UpdateBackpressure(s, w) ==
    LET backpressure == WriterDesiredSize(s) <= 0
        told == CASE backpressure = s.backpressure \/ ~HasWriter(s, w) -> s
                  [] HasWriter(s, w) /\ backpressure /\ ~s.backpressure ->
                         [s EXCEPT !.ready = "pending"]
                  [] OTHER -> ResolveReady(s, w)
    IN  [told EXCEPT !.backpressure = backpressure]

\* Once a close is queued, and once the stream errors, ready is not touched.
UpdateWhileOpen(s, w) ==
    IF s.state = "writable" /\ ~CloseQueuedOrInFlight(s) THEN UpdateBackpressure(s, w) ELSE s

ProcessClose_KeepsTheRequest(s, w) ==
    [s EXCEPT !.inFlightClose = TRUE, !.closeTells = w,
              !.queue = Tail(@), !.algorithms = FALSE, !.calls = Append(@, CloseOp)]

\* The writer told when the close settles is the one there is now.
ProcessClose(s, w) ==
    IF ~(s.closeRequest /\ s.algorithms) THEN Panic(s)
    ELSE [s EXCEPT !.closeRequest = FALSE, !.inFlightClose = TRUE, !.closeTells = w,
                   !.queue = Tail(@), !.algorithms = FALSE, !.calls = Append(@, CloseOp)]

ProcessWrite(s) ==
    IF ~(s.writeRequests # <<>> /\ s.algorithms) THEN Panic(s)
    ELSE [s EXCEPT !.inFlightWrite = Head(s.writeRequests), !.writeRequests = Tail(@),
                   !.calls = Append(@, Head(s.queue).chunk)]

AdvanceQueueIfNeeded_Overlaps(s, w) ==
    CASE ~s.started -> s
      [] s.started /\ s.state = "erroring" -> FinishErroring(s, w)
      [] s.started /\ s.state # "erroring" /\ s.queue = <<>> -> s
      [] OTHER -> IF Head(s.queue).chunk = CloseOp THEN ProcessClose(s, w) ELSE ProcessWrite(s)

AdvanceQueueIfNeeded(s, w) ==
    LET idle == s.started /\ s.inFlightWrite = NoWrite
    IN  CASE ~idle -> s
          [] idle /\ s.state = "erroring" -> FinishErroring(s, w)
          [] idle /\ s.state # "erroring" /\ s.queue = <<>> -> s
          [] OTHER -> IF Head(s.queue).chunk = CloseOp
                      THEN ProcessClose(s, w) ELSE ProcessWrite(s)

(***************************************************************************)
(* The promises of the sink's start, write, close and abort settle.  All   *)
(* but the close look up the writer the stream has by then.                *)
(***************************************************************************)
SinkStarted(s) == AdvanceQueueIfNeeded([s EXCEPT !.started = TRUE], s.writer)
SinkFailedToStart(s) == DealWithRejection([s EXCEPT !.started = TRUE], s.writer)

WriteFulfilled_KeepsBackpressure(s) ==
    AdvanceQueueIfNeeded(
        Answers([s EXCEPT !.inFlightWrite = NoWrite, !.queue = Tail(@)],
                <<s.inFlightWrite>>, "ok"), s.writer)

WriteFulfilled(s) ==
    LET done == Answers([s EXCEPT !.inFlightWrite = NoWrite, !.queue = Tail(@)],
                        <<s.inFlightWrite>>, "ok")
    IN  IF s.queue = <<>> THEN Panic(s)
        ELSE AdvanceQueueIfNeeded(UpdateWhileOpen(done, s.writer), s.writer)

WriteRejected(s) ==
    LET cleared == [s EXCEPT !.inFlightWrite = NoWrite,
                             !.algorithms = @ /\ s.state # "writable"]
    IN  DealWithRejection(Answers(cleared, <<s.inFlightWrite>>, "failed"), s.writer)

CloseFulfilled_LeavesTheAbort(s) ==
    SettleClosed(Answers([s EXCEPT !.inFlightClose = FALSE, !.state = "closed"],
                         <<CloseOp>>, "ok"), s.closeTells, "fulfilled")

CloseFulfilled(s) ==
    LET done == Answers([s EXCEPT !.inFlightClose = FALSE, !.state = "closed"],
                        <<CloseOp>>, "ok")
        told == IF s.state = "erroring" /\ s.pendingAbort # "none"
                THEN Answers([done EXCEPT !.pendingAbort = "none"], <<AbortOp>>, "ok")
                ELSE done
    IN  SettleClosed(told, s.closeTells, "fulfilled")

CloseRejected(s) ==
    LET done == Answers([s EXCEPT !.inFlightClose = FALSE], <<CloseOp>>, "failed")
        told == IF s.pendingAbort # "none"
                THEN Answers([done EXCEPT !.pendingAbort = "none"], <<AbortOp>>, "failed")
                ELSE done
    IN  DealWithRejection(told, s.closeTells)

AbortSettled(s, what) ==
    RejectCloseAndClosed(Answers([s EXCEPT !.aborting = FALSE], <<AbortOp>>, what), s.writer)

(***************************************************************************)
(* Writers, and what they call.                                            *)
(***************************************************************************)
IsLocked(s) == s.writer # NoWriter

ReadyOfNewWriter(s) ==
    CASE s.state = "writable" -> IF ~CloseQueuedOrInFlight(s) /\ s.backpressure
                                 THEN "pending" ELSE "fulfilled"
      [] s.state = "closed" -> "fulfilled"
      [] OTHER -> "rejected"

ClosedOfNewWriter(s) ==
    CASE s.state = "closed" -> "fulfilled"
      [] s.state = "errored" -> "rejected"
      [] OTHER -> "pending"

AcquireWriter(s, w) ==
    [s EXCEPT !.writer = w, !.ready = ReadyOfNewWriter(s), !.closed = ClosedOfNewWriter(s)]

\* Its promises are rejected; nothing tells them again.
ReleaseWriter(s) == [s EXCEPT !.writer = NoWriter, !.ready = "none", !.closed = "none"]

\* A write calls size() first.  The stream may be anything when that returns.
WriteStart(s, w, chunk) ==
    [s EXCEPT !.frames = Append(@, [in |-> "size", writer |-> w, chunk |-> chunk])]

Refuses(s, w) == ~HasWriter(s, w) \/ s.state # "writable" \/ CloseQueuedOrInFlight(s)

ControllerWrite_Accumulates(s, w, chunk, size) ==
    AdvanceQueueIfNeeded(
        UpdateWhileOpen([s EXCEPT !.queue = Append(@,
            [chunk |-> chunk, size |-> size + ContainerSize(s)])], w), w)

ControllerWrite(s, w, chunk, size) ==
    AdvanceQueueIfNeeded(
        UpdateWhileOpen([s EXCEPT !.queue = Append(@, [chunk |-> chunk, size |-> size])], w), w)

\* size() has returned a number that EnqueueValueWithSize takes.
WriteSized(s, size) ==
    LET frame == Last(s.frames)
        popped == [s EXCEPT !.frames = Front(@)]
    IN  IF Refuses(popped, frame.writer)
        THEN Answers(popped, <<frame.chunk>>, "failed")
        ELSE ControllerWrite([popped EXCEPT !.writeRequests = Append(@, frame.chunk)],
                             frame.writer, frame.chunk, size)

\* size() has thrown: the stream errors, and the write with it.
WriteSizeThrew(s) ==
    LET frame == Last(s.frames)
    IN  Answers(ErrorIfNeeded([s EXCEPT !.frames = Front(@)], frame.writer),
                <<frame.chunk>>, "failed")

\* size() has returned no finite non-negative number: the write is a request
\* by the time that is noticed, and fails with the others.
WriteBadlySized(s) ==
    LET frame == Last(s.frames)
        popped == [s EXCEPT !.frames = Front(@)]
    IN  IF Refuses(popped, frame.writer)
        THEN Answers(popped, <<frame.chunk>>, "failed")
        ELSE ErrorIfNeeded([popped EXCEPT !.writeRequests = Append(@, frame.chunk)],
                           frame.writer)

\* A write where the strategy has no size().
Write(s, w, chunk) == WriteSized(WriteStart(s, w, chunk), 1)

\* Callers reject a close that is under way; one of a stream that has ended is
\* rejected here.  Neither changes anything.
Close(s, w) ==
    LET asked == [s EXCEPT !.closeRequest = TRUE,
                           !.queue = Append(@, [chunk |-> CloseOp, size |-> 0])]
        told == IF s.backpressure /\ s.state = "writable" THEN ResolveReady(asked, w) ELSE asked
    IN  IF Ended(s) THEN s ELSE AdvanceQueueIfNeeded(told, w)

\* The close of a pipe: no error when the stream is closing already.
CloseWithErrorPropagation(s, w) ==
    IF CloseQueuedOrInFlight(s) \/ Ended(s) THEN s ELSE Close(s, w)

\* The second half of an abort, when the signal's listeners have run.
AbortAfterSignal(s, w) ==
    CASE Ended(s) \/ s.pendingAbort # "none" -> s
      [] s.state = "erroring" /\ s.pendingAbort = "none" -> [s EXCEPT !.pendingAbort = "late"]
      [] OTHER -> StartErroring([s EXCEPT !.pendingAbort = "fresh"], w)

\* The signal is raised once.
AbortStart(s, w) ==
    CASE Ended(s) -> s
      [] ~Ended(s) /\ s.signalled -> AbortAfterSignal(s, w)
      [] OTHER -> [s EXCEPT !.signalled = TRUE,
                            !.frames = Append(@, [in |-> "signal", writer |-> w,
                                                  chunk |-> AbortOp])]

AbortSignalled(s) ==
    AbortAfterSignal([s EXCEPT !.frames = Front(@)], Last(s.frames).writer)

\* An abort where nobody listens to the signal.
Abort(s, w) == IF Ended(s) THEN s ELSE AbortAfterSignal([s EXCEPT !.signalled = TRUE], w)

-----------------------------------------------------------------------------
(***************************************************************************)
(* The values such a record takes.                                         *)
(***************************************************************************)
WritableTypeOK(s, Chunks, Sizes, Writers) ==
    /\ s.state \in {"writable", "erroring", "errored", "closed"}
    /\ {s.ready, s.closed} \subseteq {"none", "pending", "fulfilled", "rejected"}
    /\ {s.writer, s.closeTells} \subseteq Writers \union {NoWriter}
    /\ s.inFlightWrite \in Chunks \union {NoWrite}
    /\ s.writeRequests \in Seq(Chunks)
    /\ s.pendingAbort \in {"none", "fresh", "late"}
    /\ {s.closeRequest, s.inFlightClose, s.aborting, s.signalled, s.backpressure, s.started,
        s.algorithms, s.panicked} \subseteq BOOLEAN
    /\ \A i \in DOMAIN s.queue :
           /\ s.queue[i].chunk \in Chunks \union {CloseOp}
           /\ s.queue[i].size \in Sizes \union {0}
    /\ \A i \in DOMAIN s.answers :
           /\ s.answers[i].to \in Chunks \union {CloseOp, AbortOp}
           /\ s.answers[i].what \in {"ok", "failed"}
    /\ s.hwm \in Nat
=============================================================================
