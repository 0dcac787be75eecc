------------------------------ MODULE Readable ------------------------------
(***************************************************************************)
(* A readable stream with a default controller, as a value: every          *)
(* operation of readable/stream/mod.rs, readable/default_controller.rs and *)
(* readable/default_reader.rs is an operator from the record of the stream *)
(* before to the record of the stream after.  The modules that own such a  *)
(* stream (ReadableStream, Pipe, Tee, Transform) turn them into actions.   *)
(*                                                                         *)
(* The script's callbacks run in the middle of some operations.  After     *)
(* size() the code goes on with what it kept on its stack, so Enqueue is   *)
(* split at that call, and `sizing' holds what is kept.  cancel() ends the *)
(* operation that calls it, and so does pull(), save in a read that is     *)
(* served from the queue: its chunk is taken first, then pull() runs, then *)
(* the promise of the read is settled.  `answers' are in the order in      *)
(* which the stream decides them, which for that read is before pull()     *)
(* runs, and its promise settles after it: ReadCallsPull tells when, and a *)
(* module whose pull() is a script's keeps the read pending meanwhile      *)
(* (ReadableStream).  The other owners take a read as one step: their      *)
(* pull() is native code (Transform, FetchBody), or native code reads from *)
(* a script's stream, one chunk at a time (Tee, Pipe, RequestBody), or     *)
(* nothing is queued ahead (AsyncIteration).                               *)
(***************************************************************************)
EXTENDS Integers, Sequences, SequencesExt

NoReader == 0

\* What each of the reads is told.
Told(requests, what) == [i \in DOMAIN requests |-> [to |-> requests[i], what |-> what]]
Done == [kind |-> "done"]
Failed == [kind |-> "failed"]
Chunk(c) == [kind |-> "chunk", chunk |-> c]

NewReadable(hwm) ==
    [state |-> "readable", disturbed |-> FALSE, reader |-> NoReader, closed |-> "none",
     requests |-> <<>>, answers |-> <<>>,
     started |-> FALSE, closeRequested |-> FALSE, pulling |-> FALSE, pullAgain |-> FALSE,
     algorithms |-> TRUE, queue |-> <<>>, hwm |-> hwm, sizing |-> <<>>]

(***************************************************************************)
(* The stream: ReadableStreamError, ReadableStreamClose,                   *)
(* ReadableStreamFulfillReadRequest.                                       *)
(***************************************************************************)
Settle_Forgets(r, promise, what) ==
    [r EXCEPT !.closed = IF @ = "pending" THEN promise ELSE @]

Settle(r, promise, what) ==
    [r EXCEPT !.closed = IF @ = "pending" THEN promise ELSE @,
              !.answers = @ \o Told(r.requests, what),
              !.requests = <<>>]

StreamError(r) == Settle([r EXCEPT !.state = "errored"], "rejected", Failed)
StreamClose(r) == Settle([r EXCEPT !.state = "closed"], "fulfilled", Done)

FulfillReadRequest(r, chunk) ==
    [r EXCEPT !.answers = Append(@, [to |-> Head(r.requests), what |-> Chunk(chunk)]),
              !.requests = Tail(@)]

(***************************************************************************)
(* The default controller.                                                 *)
(***************************************************************************)
CanCloseOrEnqueue(r) == r.state = "readable" /\ ~r.closeRequested

QueueTotalSize(queue) == FoldSeq(LAMBDA entry, sum : sum + entry.size, 0, queue)

DesiredSize(r) == IF r.state = "readable" THEN r.hwm - QueueTotalSize(r.queue) ELSE 0

\* `requests' are those of the reader the caller holds, which may have been
\* released since.
ShouldCallPull_IgnoresReads(r, requests) ==
    CanCloseOrEnqueue(r) /\ r.started /\ DesiredSize(r) > 0

ShouldCallPull(r, requests) ==
    /\ CanCloseOrEnqueue(r)
    /\ r.started
    /\ requests # <<>> \/ DesiredSize(r) > 0

CallPullWith_WhilePulling(r, requests) ==
    IF ShouldCallPull(r, requests) /\ ~r.pulling THEN [r EXCEPT !.pulling = TRUE] ELSE r

CallPullWith(r, requests) ==
    CASE ~ShouldCallPull(r, requests) -> r
      [] ShouldCallPull(r, requests) /\ r.pulling -> [r EXCEPT !.pullAgain = TRUE]
      [] OTHER -> [r EXCEPT !.pulling = TRUE]

CallPullIfNeeded(r) == CallPullWith(r, r.requests)

ClearAlgorithms(r) == [r EXCEPT !.algorithms = FALSE]

ControllerError(r) ==
    IF r.state # "readable" THEN r
    ELSE StreamError(ClearAlgorithms([r EXCEPT !.queue = <<>>]))

ControllerClose_ClearsEarly(r) ==
    LET asked == ClearAlgorithms([r EXCEPT !.closeRequested = TRUE])
    IN  IF ~CanCloseOrEnqueue(r) THEN r
        ELSE IF r.queue # <<>> THEN asked ELSE StreamClose(asked)

ControllerClose(r) ==
    LET asked == [r EXCEPT !.closeRequested = TRUE]
    IN  IF ~CanCloseOrEnqueue(r) THEN r
        ELSE IF r.queue # <<>> THEN asked
        ELSE StreamClose(ClearAlgorithms(asked))

EnqueueStart_FallsThrough(r, chunk) ==
    LET sizing(s) == [s EXCEPT !.sizing = Append(@, [chunk |-> chunk, reader |-> s.reader])]
    IN  IF ~CanCloseOrEnqueue(r) THEN r
        ELSE IF r.requests # <<>> THEN sizing(FulfillReadRequest(r, chunk))
        ELSE sizing(r)

\* The first half of an enqueue: hand the chunk to a waiting read, or call
\* size() with it.
EnqueueStart(r, chunk) ==
    IF ~CanCloseOrEnqueue(r) THEN r
    ELSE IF r.requests # <<>> THEN CallPullIfNeeded(FulfillReadRequest(r, chunk))
    ELSE [r EXCEPT !.sizing = Append(@, [chunk |-> chunk, reader |-> r.reader])]

SizeReturned_Accumulates(r, size) ==
    LET frame == Last(r.sizing)
        total == size + QueueTotalSize(r.queue)
    IN  [r EXCEPT !.sizing = Front(@),
                  !.queue = Append(@, [chunk |-> frame.chunk, size |-> total])]

\* The second half, when the innermost size() has returned `size'.  The reader
\* is the one the enqueue began with.
SizeReturned(r, size) ==
    LET frame == Last(r.sizing)
        popped == [r EXCEPT !.sizing = Front(@)]
        queued == [popped EXCEPT !.queue = Append(@, [chunk |-> frame.chunk, size |-> size])]
    IN  CallPullWith(queued, IF frame.reader = r.reader THEN r.requests ELSE <<>>)

\* size() threw, or returned what is not a finite non-negative number.
SizeFailed(r) == ControllerError([r EXCEPT !.sizing = Front(@)])

\* An enqueue whose strategy has no size(): every chunk counts one.
Enqueue(r, chunk) ==
    LET begun == EnqueueStart(r, chunk)
    IN  IF Len(begun.sizing) = Len(r.sizing) THEN begun ELSE SizeReturned(begun, 1)

StartFulfilled(r) == CallPullIfNeeded([r EXCEPT !.started = TRUE])

PullFulfilled(r) ==
    LET rest == [r EXCEPT !.pulling = FALSE, !.pullAgain = FALSE]
    IN  IF r.pullAgain THEN CallPullIfNeeded(rest) ELSE rest

(***************************************************************************)
(* Readers.                                                                *)
(***************************************************************************)
Locked(r) == r.reader # NoReader

ClosedPromise(state) ==
    CASE state = "readable" -> "pending"
      [] state = "closed" -> "fulfilled"
      [] state = "errored" -> "rejected"

AcquireReader_AlwaysPending(r, reader) ==
    [r EXCEPT !.reader = reader, !.closed = "pending"]

AcquireReader(r, reader) ==
    [r EXCEPT !.reader = reader, !.closed = ClosedPromise(r.state)]

\* The read requests are cleared before they can be rejected, so their
\* promises are left as they are.
ReleaseReader(r) ==
    [r EXCEPT !.requests = <<>>, !.reader = NoReader, !.closed = "none"]

PullSteps_SkipsQueue(r, request) ==
    CallPullIfNeeded([r EXCEPT !.requests = Append(@, request)])

PullSteps(r, request) ==
    LET entry == Head(r.queue)
        taken == [r EXCEPT !.queue = Tail(@)]
        next == IF r.closeRequested /\ taken.queue = <<>>
                THEN StreamClose(ClearAlgorithms(taken))
                ELSE CallPullIfNeeded(taken)
    IN  IF r.queue = <<>>
        THEN CallPullIfNeeded([r EXCEPT !.requests = Append(@, request)])
        ELSE [next EXCEPT !.answers = Append(@, [to |-> request, what |-> Chunk(entry.chunk)])]

\* Read(r, request) calls pull() with the chunk of the request in hand.
ReadCallsPull(r, request) ==
    r.state = "readable" /\ r.queue # <<>> /\ ~r.pulling /\ PullSteps(r, request).pulling

Read(r, request) ==
    LET seen == [r EXCEPT !.disturbed = TRUE]
    IN  CASE r.state = "closed" -> [seen EXCEPT !.answers = @ \o Told(<<request>>, Done)]
          [] r.state = "errored" -> [seen EXCEPT !.answers = @ \o Told(<<request>>, Failed)]
          [] OTHER -> PullSteps(seen, request)

\* Cancelling closes the stream first; the source's cancel() runs after that.
Cancel(r) ==
    LET seen == [r EXCEPT !.disturbed = TRUE]
        cancelled == [StreamClose(seen) EXCEPT !.queue = <<>>]
    IN  IF r.state = "readable" THEN ClearAlgorithms(cancelled) ELSE seen

\* The drain of a stream that has all its data: no reader, no promise.
CanSyncDrain(r) ==
    /\ ~r.disturbed
    /\ ~Locked(r)
    /\ r.state = "readable"
    /\ r.closeRequested
SyncDrain(r) == [r EXCEPT !.queue = <<>>, !.disturbed = TRUE, !.state = "closed"]

-----------------------------------------------------------------------------
(***************************************************************************)
(* The values such a record takes.                                         *)
(***************************************************************************)
ReadableTypeOK(r, Chunks, Sizes, Readers, Requests) ==
    /\ r.state \in {"readable", "closed", "errored"}
    /\ r.closed \in {"none", "pending", "fulfilled", "rejected"}
    /\ r.reader \in Readers \union {NoReader}
    /\ \A i \in DOMAIN r.requests : r.requests[i] \in Requests
    /\ \A i \in DOMAIN r.answers :
           /\ r.answers[i].to \in Requests
           /\ r.answers[i].what \in {Done, Failed} \union {Chunk(c) : c \in Chunks}
    /\ \A i \in DOMAIN r.queue : r.queue[i].chunk \in Chunks /\ r.queue[i].size \in Sizes
    /\ {r.disturbed, r.started, r.closeRequested, r.pulling, r.pullAgain, r.algorithms}
           \subseteq BOOLEAN
    /\ r.hwm \in Nat

\* What readers are told, and the streams two readers may read in turn.
Outcomes == {Done, Failed} \union {Chunk(n) : n \in Nat}
Bodies ==
    [state : {"readable", "closed", "errored"}, disturbed : BOOLEAN, reader : {0, 1, 2},
     closed : {"none", "pending", "fulfilled", "rejected"},
     requests : Seq({1, 2}), answers : Seq([to : {1, 2}, what : Outcomes]),
     started : BOOLEAN, closeRequested : BOOLEAN, pulling : BOOLEAN, pullAgain : BOOLEAN,
     algorithms : BOOLEAN, queue : Seq([chunk : Nat, size : {1}]), hwm : Nat, sizing : {<<>>}]

End(state) == IF state = "closed" THEN Done ELSE Failed

\* The first c answers are the chunks in order and the rest the end; the first k are the first
\* reader's and the rest the second's; the queue goes on where the answers leave off.
InTurn(r, c, k) ==
    /\ r \in Bodies
    /\ c \in 0..Len(r.answers) /\ k \in 0..Len(r.answers)
    /\ \A i \in 1..Len(r.answers) :
          /\ i <= c => r.answers[i].what = Chunk(i)
          /\ i > c => r.answers[i].what = End(r.state)
          /\ r.answers[i].to = IF i <= k THEN 1 ELSE 2
    /\ \A j \in 1..Len(r.queue) : r.queue[j].chunk = c + j
    /\ r.state = "readable" => Len(r.answers) = c
    /\ r.state # "readable" => r.queue = <<>> /\ r.requests = <<>>
    /\ r.requests # <<>> => r.queue = <<>>
    /\ \A i \in 1..Len(r.requests) : r.requests[i] = r.reader
    /\ r.reader = 0 => r.requests = <<>>
    /\ r.reader # 2 => Len(r.answers) = k

\* Answers and requests only move on.
Outstanding(r) == Len(r.answers) + Len(r.requests)

\* What calling pull() changes of a stream.
SameReads(r, s) ==
    /\ s \in Bodies
    /\ s.state = r.state /\ s.reader = r.reader /\ s.requests = r.requests /\ s.answers = r.answers
    /\ s.closeRequested = r.closeRequested /\ s.queue = r.queue

\* What the end of a stream changes of it: the reads that wait are told.
Ends(r, s, c, k) ==
    /\ InTurn(s, c, k) /\ Outstanding(s) = Outstanding(r) /\ s.requests = <<>> /\ s.queue = <<>>
    /\ Len(s.answers) >= Len(r.answers)
    /\ \A i \in 1..Len(r.answers) : s.answers[i] = r.answers[i]
    /\ s.reader = r.reader /\ s.pulling = r.pulling

\* What a stream that ends tells the reads that wait.
Tells(r, s) ==
    /\ s \in Bodies /\ s.state \in {"closed", "errored"} /\ s.requests = <<>> /\ s.queue = <<>>
    /\ s.answers = r.answers \o Told(r.requests, End(s.state))
    /\ s.reader = r.reader /\ s.pulling = r.pulling

\* What a read does to a stream.
ReadTo(r, s, c, k) ==
    /\ s.reader = r.reader /\ s.closeRequested = r.closeRequested
    /\ Len(s.answers) >= Len(r.answers)
    /\ \A i \in 1..Len(r.answers) : s.answers[i] = r.answers[i]
    /\ Outstanding(s) = Outstanding(r) + 1
    /\ \E d, l : InTurn(s, d, l) /\ (r.reader = 2 => l = k) /\ d + Len(s.queue) = c + Len(r.queue)
    /\ s.state # r.state
          => r.state = "readable" /\ r.closeRequested /\ s.state = "closed"
    /\ r.pulling => s.pulling
    /\ s.pulling => r.pulling \/ CanCloseOrEnqueue(r)

\* An answer more: the end, or the next chunk.
OneMore(r, s, c, d, what) ==
    /\ s \in Bodies /\ s.answers = Append(r.answers, [to |-> r.reader, what |-> what])
    /\ s.requests = r.requests /\ s.reader = r.reader
    /\ \A j \in 1..Len(s.queue) : s.queue[j].chunk = d + j
    /\ \/ d = c /\ what = End(s.state) /\ r.state # "readable" /\ s.state = r.state /\ s.queue = <<>>
       \/ d = c + 1 /\ what = Chunk(d) /\ r.state = "readable" /\ r.requests = <<>>
    /\ s.state # "readable" => s.queue = <<>>
=============================================================================
