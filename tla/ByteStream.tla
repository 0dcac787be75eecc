----------------------------- MODULE ByteStream -----------------------------
(***************************************************************************)
(* A readable byte stream in the hands of a script                         *)
(* (readable/byte_controller.rs and byob_reader.rs): a source that         *)
(* enqueues or writes into the buffers of readers, and default and BYOB    *)
(* readers that take turns.                                                *)
(*                                                                         *)
(* A byte is its number, so a chunk, a filled view and a queue entry are   *)
(* sequences of them.  The reader's own promise and what a stream with a   *)
(* default controller shares with this one are in Readable.                *)
(*                                                                         *)
(* Answers are in the order in which the stream decides them.  With a high *)
(* water mark over 0 a read that is served from the queue calls pull()     *)
(* with its bytes in hand, and its promise settles after pull() returned;  *)
(* what is settled meanwhile is not told apart here.  With a mark of 0     *)
(* such a read calls no pull().                                            *)
(***************************************************************************)
EXTENDS Naturals, Sequences, FiniteSets, SequencesExt, FiniteSetsExt

CONSTANTS
    MaxBytes,       \* how many bytes the source makes
    ChunkSizes,     \* how many at once
    Views,          \* what BYOB reads ask for: len, elem and min, in bytes
    MaxReads,
    MaxReaders,
    HighWaterMarks,
    AutoSizes       \* values of autoAllocateChunkSize, 0 for none

VARIABLES
    b,              \* the stream and its controller
    start,          \* the promise of start()
    pull,           \* the promise of the pull() that runs
    made,           \* bytes made
    asked,          \* the view of each read, in the order of the reads
    readers,        \* readers acquired
    overtaken       \* a pull() called in the middle of an enqueue made bytes

vars == <<b, start, pull, made, asked, readers, overtaken>>

NoReader == [kind |-> "none", id |-> 0]
NoView == [len |-> 0, elem |-> 1, min |-> 0]

NewByteStream(hwm, auto) ==
    [state |-> "readable", reader |-> NoReader, requests |-> <<>>, answers |-> <<>>,
     pending |-> <<>>, queue |-> <<>>, started |-> FALSE, closeRequested |-> FALSE,
     pulling |-> FALSE, pullAgain |-> FALSE, hwm |-> hwm, auto |-> auto,
     frame |-> <<>>, stuck |-> "no"]

-----------------------------------------------------------------------------
(* The stream. *)

Tell(s, requests, what) ==
    s.answers \o [i \in DOMAIN requests |-> [to |-> requests[i], what |-> what, bytes |-> <<>>]]

\* A BYOB read waits until the source has given its buffer back.
StreamClose(s) ==
    IF s.reader.kind = "byob" THEN [s EXCEPT !.state = "closed"]
    ELSE [s EXCEPT !.state = "closed", !.answers = Tell(s, s.requests, "done"), !.requests = <<>>]

StreamError(s) ==
    [s EXCEPT !.state = "errored", !.answers = Tell(s, s.requests, "failed"), !.requests = <<>>]

\* fulfill_read_request and fulfill_read_into_request expect a request of their
\* kind of reader to be there.
Fulfill(s, kind, bytes) ==
    IF s.reader.kind # kind \/ s.requests = <<>> THEN [s EXCEPT !.stuck = "panic"]
    ELSE [s EXCEPT !.requests = Tail(@),
                   !.answers = Append(@, [to |-> Head(s.requests), bytes |-> bytes,
                                          what |-> IF s.state = "closed" THEN "done" ELSE "chunk"])]

-----------------------------------------------------------------------------
(* The controller. *)

QueueTotalSize(s) == Len(FlattenSeq(s.queue))

ShouldCallPull(s) ==
    /\ s.state = "readable" /\ ~s.closeRequested /\ s.started
    /\ s.requests # <<>> \/ s.hwm > QueueTotalSize(s)

CallPullIfNeeded(s) ==
    CASE ~ShouldCallPull(s) -> s
      [] ShouldCallPull(s) /\ s.pulling -> [s EXCEPT !.pullAgain = TRUE]
      [] OTHER -> [s EXCEPT !.pulling = TRUE]

HandleQueueDrain(s) ==
    IF s.queue = <<>> /\ s.closeRequested THEN StreamClose(s) ELSE CallPullIfNeeded(s)

ControllerError(s) ==
    IF s.state # "readable" THEN s ELSE StreamError([s EXCEPT !.pending = <<>>, !.queue = <<>>])

\* A buffer that ends within an element fails the stream.
ControllerClose(s) ==
    CASE s.queue # <<>> -> [s EXCEPT !.closeRequested = TRUE]
      [] s.queue = <<>> /\ s.pending # <<>> /\ Len(s.pending[1].bytes) % s.pending[1].elem # 0 ->
             ControllerError(s)
      [] OTHER -> StreamClose(s)

PullInto(view, kind) ==
    [bytes |-> <<>>, len |-> view.len, elem |-> view.elem, min |-> view.min, reader |-> kind]

\* The queue without its first n bytes.
Without(queue, n) ==
    LET Before(i) == Len(FlattenSeq(SubSeq(queue, 1, i - 1)))
        Left(i) == SubSeq(queue[i], 1 + (IF n > Before(i) THEN n - Before(i) ELSE 0), Len(queue[i]))
    IN  SelectSeq([i \in DOMAIN queue |-> Left(i)], LAMBDA entry : entry # <<>>)

\* fill_pull_into_descriptor_from_queue: whole elements once the minimum is
\* reached, whatever there is before.
Fill(d, queue) ==
    LET bytes == FlattenSeq(queue)
        most == Min({Len(d.bytes) + Len(bytes), d.len})
        aligned == most - (most % d.elem)
        ready == aligned >= d.min
        taken == (IF ready THEN aligned ELSE most) - Len(d.bytes)
    IN  [ready |-> ready, into |-> [d EXCEPT !.bytes = @ \o SubSeq(bytes, 1, taken)],
         queue |-> Without(queue, taken)]

Commit(s, d) == Fulfill(s, IF d.reader = "default" THEN "default" ELSE "byob", d.bytes)

\* One round of process_pull_into_descriptors_using_queue; one that fills its
\* buffer short of the minimum is repeated for ever.
ProcessOne(s) ==
    LET Filled(fill) ==
            IF fill.ready
            THEN Commit([s EXCEPT !.queue = fill.queue, !.pending = Tail(@)], fill.into)
            ELSE [s EXCEPT !.queue = fill.queue, !.pending[1] = fill.into,
                           !.stuck = IF fill.queue = <<>> THEN @ ELSE "spin"]
    IN  IF s.pending = <<>> \/ s.queue = <<>> \/ s.stuck # "no" THEN s
        ELSE Filled(Fill(s.pending[1], s.queue))

ProcessPullIntos(s) == FoldLeft(LAMBDA acc, d : ProcessOne(acc), s, s.pending)

\* fill_read_request_from_queue, for the first request.
ServeOne(s) ==
    LET entry == Head(s.queue)
    IN  IF s.requests = <<>> \/ s.queue = <<>> THEN s
        ELSE HandleQueueDrain(Fulfill([s EXCEPT !.queue = Tail(@)], s.reader.kind, entry))

\* Variant: what the reader that left had been given is dropped.
DetachFirst_Drops(s) == [s EXCEPT !.pending = Tail(@)]

\* enqueue_detached_pull_into_to_queue
DetachFirst(s) ==
    LET bytes == s.pending[1].bytes
    IN  [s EXCEPT !.pending = Tail(@), !.queue = IF bytes = <<>> THEN @ ELSE Append(@, bytes)]

\* The rest of an enqueue, for the reader it began with.
EnqueueEnd(s, bytes, reader) ==
    LET mine == s.reader = reader
        served == IF mine THEN FoldLeft(LAMBDA acc, entry : ServeOne(acc), s, s.queue) ELSE s
        queued == [served EXCEPT !.queue = Append(@, bytes)]
    IN  CallPullIfNeeded(
            CASE reader.kind = "byob" -> ProcessPullIntos([s EXCEPT !.queue = Append(@, bytes)])
              [] reader.kind = "default" /\ mine /\ served.requests # <<>> ->
                     Fulfill([served EXCEPT !.pending = IF @ = <<>> THEN @ ELSE Tail(@)],
                             "default", bytes)
              [] OTHER -> queued)

\* enqueue_impl.  A request served on the way may call pull(), which runs before
\* the chunk is anywhere: `frame' holds it meanwhile.
Enqueue(s, bytes) ==
    LET ours == s.pending # <<>> /\ s.pending[1].reader = "none"
        detached == IF ours THEN DetachFirst(s) ELSE s
        served == ServeOne(detached)
    IN  IF s.reader.kind = "default" /\ served.pulling /\ ~s.pulling
        THEN [served EXCEPT !.frame = <<[bytes |-> bytes, reader |-> s.reader]>>]
        ELSE EnqueueEnd(IF s.reader.kind = "default" THEN served ELSE detached, bytes, s.reader)

\* respond_in_readable_state
RespondReadable(s, bytes) ==
    LET filled == [s EXCEPT !.pending[1].bytes = @ \o bytes]
        d == filled.pending[1]
        rest == Len(d.bytes) % d.elem
        whole == Len(d.bytes) - rest
        shifted == [filled EXCEPT !.pending = Tail(@)]
        kept == IF rest = 0 THEN shifted
                ELSE [shifted EXCEPT !.queue = Append(@, SubSeq(d.bytes, whole + 1, Len(d.bytes)))]
    IN  CallPullIfNeeded(
            IF d.reader # "none" /\ Len(d.bytes) < d.min THEN filled
            ELSE ProcessPullIntos(
                     IF d.reader = "none" THEN DetachFirst(filled)
                     ELSE Commit(kept, [d EXCEPT !.bytes = SubSeq(@, 1, whole)])))

\* respond_in_closed_state
RespondClosed(s) ==
    LET left == IF s.pending[1].reader = "none" THEN [s EXCEPT !.pending = Tail(@)] ELSE s
        CommitOne(acc) ==
            IF acc.pending = <<>> THEN [acc EXCEPT !.stuck = "panic"]
            ELSE Commit([acc EXCEPT !.pending = Tail(@)], acc.pending[1])
    IN  IF s.reader.kind # "byob" THEN left
        ELSE FoldLeft(LAMBDA acc, r : CommitOne(acc), left, s.requests)

Respond(s, bytes) == IF s.state = "closed" THEN RespondClosed(s) ELSE RespondReadable(s, bytes)

AddRequest(s, id) == [s EXCEPT !.requests = Append(@, id)]
Answer(s, id, what, bytes) ==
    [s EXCEPT !.answers = Append(@, [to |-> id, what |-> what, bytes |-> bytes])]

\* readable_stream_default_reader_read and pull_steps
DefaultRead(s, id) ==
    LET served == HandleQueueDrain([s EXCEPT !.queue = Tail(@)])
        buffer == PullInto([len |-> s.auto, elem |-> 1, min |-> 1], "default")
        allocated == IF s.auto = 0 THEN s ELSE [s EXCEPT !.pending = Append(@, buffer)]
    IN  CASE s.state = "closed" -> Answer(s, id, "done", <<>>)
          [] s.state = "errored" -> Answer(s, id, "failed", <<>>)
          [] s.state = "readable" /\ s.queue # <<>> -> Answer(served, id, "chunk", Head(s.queue))
          [] OTHER -> CallPullIfNeeded(AddRequest(allocated, id))

\* readable_stream_byob_reader_read and pull_into
ByobRead(s, id, view) ==
    LET d == PullInto(view, "byob")
        waiting == AddRequest([s EXCEPT !.pending = Append(@, d)], id)
        fill == Fill(d, s.queue)
        filled == [s EXCEPT !.queue = fill.queue]
    IN  CASE s.state = "errored" -> Answer(s, id, "failed", <<>>)
          [] s.state # "errored" /\ s.pending # <<>> -> waiting
          [] s.state = "closed" /\ s.pending = <<>> -> Answer(s, id, "done", <<>>)
          [] s.state = "readable" /\ s.pending = <<>> /\ s.queue = <<>> -> CallPullIfNeeded(waiting)
          [] OTHER ->
                 IF fill.ready THEN Answer(HandleQueueDrain(filled), id, "chunk", fill.into.bytes)
                 ELSE IF s.closeRequested THEN Answer(ControllerError(filled), id, "failed", <<>>)
                 ELSE CallPullIfNeeded([waiting EXCEPT !.pending = <<fill.into>>,
                                                       !.queue = fill.queue])

\* A buffer that the source may still be filling stays behind; what is asked of
\* a default reader is forgotten, what is asked of a BYOB reader fails.
ReleaseReader(s) ==
    [s EXCEPT !.reader = NoReader, !.requests = <<>>,
              !.pending = IF @ = <<>> THEN @ ELSE <<[@[1] EXCEPT !.reader = "none"]>>,
              !.answers = IF s.reader.kind = "byob" THEN Tell(s, s.requests, "failed") ELSE @]

\* readable_stream_cancel and cancel_steps
CancelStream(s) ==
    LET closed == StreamClose(s)
    IN  [closed EXCEPT !.pending = <<>>, !.queue = <<>>, !.requests = <<>>,
                       !.answers = Tell(closed, closed.requests, "done")]

-----------------------------------------------------------------------------
(* The source and the readers.                                             *)

Init ==
    /\ \E hwm \in HighWaterMarks, auto \in AutoSizes : b = NewByteStream(hwm, auto)
    /\ start = "pending" /\ pull = "none"
    /\ made = 0 /\ asked = <<>> /\ readers = 0 /\ overtaken = FALSE

\* The stream becomes s; a pull() it has called is running.
Becomes(s) ==
    /\ b.stuck = "no"
    /\ b' = s
    /\ pull' = IF s.pulling /\ ~b.pulling THEN "running" ELSE pull

\* Promises settle when nothing is on the stack.
Turn == b.frame = <<>>

StartFulfils ==
    /\ Turn /\ start = "pending" /\ start' = "done"
    /\ Becomes(CallPullIfNeeded([b EXCEPT !.started = TRUE]))
    /\ UNCHANGED <<made, asked, readers, overtaken>>

StartRejects ==
    /\ Turn /\ start = "pending" /\ start' = "done"
    /\ Becomes(ControllerError(b))
    /\ UNCHANGED <<made, asked, readers, overtaken>>

PullFulfils ==
    LET idle == [b EXCEPT !.pulling = FALSE, !.pullAgain = FALSE]
        next == IF b.pullAgain THEN CallPullIfNeeded(idle) ELSE idle
    IN  /\ Turn /\ pull = "running" /\ b.stuck = "no"
        /\ b' = next /\ pull' = IF next.pulling THEN "running" ELSE "none"
        /\ UNCHANGED <<start, made, asked, readers, overtaken>>

PullRejects ==
    /\ Turn /\ pull = "running" /\ pull' = "rejected"
    /\ b.stuck = "no" /\ b' = ControllerError(b)
    /\ UNCHANGED <<start, made, asked, readers, overtaken>>

Make(n) == made + n <= MaxBytes /\ made' = made + n /\ overtaken' = (overtaken \/ b.frame # <<>>)
Made(n) == [i \in 1..n |-> made + i]

SourceEnqueues ==
    \E n \in ChunkSizes :
        /\ b.state = "readable" /\ ~b.closeRequested
        /\ Make(n) /\ Becomes(Enqueue(b, Made(n)))
        /\ UNCHANGED <<start, asked, readers>>

EnqueueGoesOn ==
    /\ b.frame # <<>>
    /\ Becomes(EnqueueEnd([b EXCEPT !.frame = <<>>], b.frame[1].bytes, b.frame[1].reader))
    /\ UNCHANGED <<start, made, asked, readers, overtaken>>

\* byobRequest.respond(n), for the buffer at the front.
SourceResponds ==
    \E n \in 0..MaxBytes :
        /\ b.pending # <<>>
        /\ IF b.state = "closed" THEN n = 0
           ELSE n > 0 /\ Len(b.pending[1].bytes) + n <= b.pending[1].len
        /\ Make(n) /\ Becomes(Respond(b, Made(n)))
        /\ UNCHANGED <<start, asked, readers>>

SourceCloses ==
    /\ b.state = "readable" /\ ~b.closeRequested
    /\ Becomes(ControllerClose(b))
    /\ UNCHANGED <<start, made, asked, readers, overtaken>>

SourceErrors ==
    /\ b.state = "readable" /\ Becomes(ControllerError(b))
    /\ UNCHANGED <<start, made, asked, readers, overtaken>>

GetReader ==
    \E kind \in {"default", "byob"} :
        /\ b.reader = NoReader /\ readers < MaxReaders /\ readers' = readers + 1
        /\ Becomes([b EXCEPT !.reader = [kind |-> kind, id |-> readers + 1]])
        /\ UNCHANGED <<start, made, asked, overtaken>>

Ask(view) == Len(asked) < MaxReads /\ asked' = Append(asked, view)

ReadDefault ==
    /\ b.reader.kind = "default" /\ Ask(NoView)
    /\ Becomes(DefaultRead(b, Len(asked) + 1))
    /\ UNCHANGED <<start, made, readers, overtaken>>

ReadInto ==
    \E view \in Views :
        /\ b.reader.kind = "byob" /\ Ask(view)
        /\ Becomes(ByobRead(b, Len(asked) + 1, view))
        /\ UNCHANGED <<start, made, readers, overtaken>>

ReleaseLock ==
    /\ b.reader # NoReader /\ Becomes(ReleaseReader(b))
    /\ UNCHANGED <<start, made, asked, readers, overtaken>>

Cancel ==
    /\ b.state = "readable" /\ Becomes(CancelStream(b))
    /\ UNCHANGED <<start, made, asked, readers, overtaken>>

Next ==
    \/ StartFulfils \/ StartRejects \/ PullFulfils \/ PullRejects
    \/ SourceEnqueues \/ EnqueueGoesOn \/ SourceResponds \/ SourceCloses \/ SourceErrors
    \/ GetReader \/ ReadDefault \/ ReadInto \/ ReleaseLock \/ Cancel

Spec == Init /\ [][Next]_vars

-----------------------------------------------------------------------------
(* Properties *)

\* What the reads received, in the order they were answered.
Received == FlattenSeq([i \in DOMAIN b.answers |-> b.answers[i].bytes])

\* Where each byte is while the stream is readable: with a reader, in a buffer a
\* reader gave, in the queue or on its way into it, in the order it was made
\* (fill_pull_into_descriptor_from_queue, enqueue_impl).
BytesInOrder ==
    LET buffered == FlattenSeq([i \in DOMAIN b.pending |-> b.pending[i].bytes])
        onTheWay == IF b.frame = <<>> THEN <<>> ELSE b.frame[1].bytes
    IN  b.state = "readable" /\ ~overtaken /\ b.stuck = "no"
            => Received \o buffered \o FlattenSeq(b.queue) \o onTheWay = [i \in 1..made |-> i]

\* No read receives a byte another one has, and reads are answered once and in
\* turn, unless a default reader that gave no buffer came after a BYOB reader.
ReadsAreApart ==
    /\ ~overtaken => \A i, j \in DOMAIN Received : i < j => Received[i] < Received[j]
    /\ \A i, j \in DOMAIN b.answers :
           i < j /\ b.auto > 0 => b.answers[i].to < b.answers[j].to

\* A BYOB read receives whole elements, no fewer than it asked for and no more
\* than its buffer holds (commit_pull_into_descriptor, respond_in_readable_state).
ViewsAreWhole ==
    \A i \in DOMAIN b.answers :
        LET a == b.answers[i] view == asked[a.to]
        IN  a.what = "chunk" /\ view # NoView
                => /\ Len(a.bytes) % view.elem = 0
                   /\ Len(a.bytes) >= view.min /\ Len(a.bytes) <= view.len

\* Every BYOB read that waits has its buffer, and every buffer but one left by an
\* earlier reader its read.
BuffersHaveReads ==
    b.reader.kind = "byob" /\ b.state # "errored"
        => Len(b.requests) = Len(SelectSeq(b.pending, LAMBDA d : d.reader = "byob"))

\* No read waits while there are bytes for it, if it gave a buffer for them.
NobodyWaitsBesideData ==
    /\ b.state = "readable" /\ b.frame = <<>> /\ b.stuck = "no"
    /\ b.requests # <<>> /\ (b.reader.kind = "byob" \/ b.auto > 0)
    => b.queue = <<>>

\* "ReadableStreamFulfillReadRequest called with empty readRequests": what
\* fulfill_read_request and fulfill_read_into_request expect holds, and
\* process_pull_into_descriptors_using_queue ends.
NeverStuck == b.stuck = "no"

\* Bytes reach the reads they are for, whole and in order, where no buffer is
\* allocated for a default reader (enqueue_impl, respond, pull_into).
BytesReachTheirReads ==
    /\ BytesInOrder /\ ReadsAreApart /\ ViewsAreWhole
    /\ BuffersHaveReads /\ NobodyWaitsBesideData
    /\ b.auto = 0 => NeverStuck
=============================================================================
