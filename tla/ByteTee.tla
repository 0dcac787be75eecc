------------------------------- MODULE ByteTee -------------------------------
(***************************************************************************)
(* tee() of a byte stream (readable/stream/tee.rs).  A branch that is read *)
(* into a buffer lends it to the source, so the one reader on the source   *)
(* is exchanged for one of the other kind as the branches ask; the other   *)
(* branch gets a copy.                                                     *)
(*                                                                         *)
(* The streams are records of ByteStream.  A branch keeps the reader it is *)
(* given at first.                                                         *)
(***************************************************************************)
EXTENDS Naturals, Sequences, SequencesExt

CONSTANTS
    MaxBytes,
    ChunkSizes,
    Views,          \* what BYOB reads of a branch ask for
    MaxReads,       \* reads of each branch
    AutoSizes       \* autoAllocateChunkSize of the source

VARIABLES
    tee,            \* the source, the branches and what the algorithms share
    made,           \* bytes made
    issued          \* reads of each branch

vars == <<tee, made, issued>>

S == INSTANCE ByteStream WITH
    MaxReaders <- 1, HighWaterMarks <- {0},
    b <- tee, start <- "done", pull <- "none", asked <- <<>>, readers <- 1, overtaken <- FALSE

Branches == {1, 2}
Other(i) == 3 - i

Reader(kind) == [kind |-> kind, id |-> 1]

Init ==
    /\ \E auto \in AutoSizes, kinds \in [Branches -> {"default", "byob"}] :
          tee = [src |-> [S!NewByteStream(0, auto) EXCEPT !.reader = Reader("default")],
                 br |-> [i \in Branches |->
                           [S!NewByteStream(0, 0) EXCEPT !.reader = Reader(kinds[i])]],
                 reading |-> FALSE, again |-> {}, for |-> 0, jobs |-> <<>>, split |-> <<>>,
                 cancelled |-> {}, cancelPromise |-> "pending", forwarded |-> FALSE,
                 threw |-> FALSE]
    /\ made = 0 /\ issued = [i \in Branches |-> 0]

-----------------------------------------------------------------------------
(* The algorithms *)

Live(t) == Branches \ t.cancelled

ResolveCancel(t) ==
    IF t.cancelled = Branches THEN t ELSE [t EXCEPT !.cancelPromise = "resolved"]

\* A branch whose buffer ends within an element fails when it is closed, and the
\* steps that close it go no further.
Close(t, i) ==
    LET closed == S!ControllerClose(t.br[i])
    IN  IF t.threw \/ i \in t.cancelled \/ t.br[i].closeRequested \/ t.br[i].state # "readable"
        THEN t
        ELSE [t EXCEPT !.br[i] = closed, !.threw = closed.state = "errored"]

\* The buffers that readers gave the branch come back empty.
GiveBack(t, i) ==
    IF t.br[i].pending = <<>> THEN t ELSE [t EXCEPT !.br[i] = S!Respond(@, <<>>)]

\* close_steps of both kinds of request: the byob branch, if there is one, is first.
\* A read-into request that is cancelled with the stream has no chunk.
CloseSteps(t) ==
    LET first == IF t.for = 2 THEN 2 ELSE 1
        closed == Close(Close([t EXCEPT !.reading = FALSE], first), Other(first))
        back == IF t.for # 0 /\ t.cancelled = Branches THEN closed
                ELSE GiveBack(GiveBack(closed, first), Other(first))
    IN  IF closed.threw THEN closed ELSE ResolveCancel(back)

\* What the source has answered the one read there may be.
Absorb(t) ==
    LET answer == Head(t.src.answers)
        heard == [t EXCEPT !.src.answers = <<>>]
    IN  IF t.src.answers = <<>> THEN t
        ELSE CASE answer.what = "done" -> CloseSteps(heard)
               [] answer.what = "failed" -> [heard EXCEPT !.reading = FALSE]
               [] OTHER -> [heard EXCEPT !.jobs = Append(@, answer.bytes)]

\* The reader on the source, of the kind that is asked for.
Exchanged(src, kind) ==
    IF src.reader.kind = kind THEN src
    ELSE [S!ReleaseReader(src) EXCEPT !.reader = Reader(kind)]

PullWithDefaultReader(t) ==
    [t EXCEPT !.for = 0, !.src = S!DefaultRead(Exchanged(@, "default"), 1)]

\* The view that is lent is what is left of the branch's first buffer.
PullWithByobReader(t, i) ==
    LET buffer == t.br[i].pending[1]
        view == [len |-> buffer.len - Len(buffer.bytes), elem |-> 1, min |-> 1]
    IN  [t EXCEPT !.for = i, !.src = S!ByobRead(Exchanged(@, "byob"), 1, view)]

\* readable_byte_stream_pull_1_algorithm and readable_byte_stream_pull_2_algorithm
Pull(t, i) ==
    LET begun == [t EXCEPT !.reading = TRUE]
    IN  IF t.reading THEN [t EXCEPT !.again = @ \union {i}]
        ELSE Absorb(IF t.br[i].pending = <<>> THEN PullWithDefaultReader(begun)
                    ELSE PullWithByobReader(begun, i))

\* Branch i becomes `after', having perhaps called its pull algorithm.
Becomes(t, i, after) ==
    LET next == [t EXCEPT !.br[i] = after]
    IN  IF after.pulling /\ ~t.br[i].pulling THEN Pull(next, i) ELSE next

\* enqueue of a branch.  Its pull algorithm, if called on the way, finds a read out.
Give(t, i, bytes) ==
    LET begun == S!Enqueue(t.br[i], bytes)
        done == IF begun.frame = <<>> THEN begun
                ELSE S!EnqueueEnd([begun EXCEPT !.frame = <<>>], bytes, begun.reader)
    IN  IF i \in t.cancelled \/ t.br[i].closeRequested \/ t.br[i].state # "readable" THEN t
        ELSE Becomes(t, i, done)

\* respond_with_new_view: the bytes are in the buffer that was lent.
Return(t, i, bytes) ==
    IF i \in t.cancelled THEN t
    ELSE IF t.br[i].pending = <<>> THEN [t EXCEPT !.br[i].stuck = "panic"]
    ELSE Becomes(t, i, S!Respond(t.br[i], bytes))

\* Variant: what the other branch asks for waits for its next chunk.
PullAgain_One(t) ==
    IF t.again = {1} THEN Pull(t, 1) ELSE t

PullAgain(t) ==
    IF t.again = {} THEN t ELSE Pull(t, IF 1 \in t.again THEN 1 ELSE 2)

\* The jobs of chunk_steps, by the kind of the request.
ChunkSteps(t) ==
    LET bytes == Head(t.jobs)
        taken == [t EXCEPT !.jobs = Tail(@), !.again = {}, !.split = @ \o bytes]
        given == IF t.for = 0 THEN Give(Give(taken, 1, bytes), 2, bytes)
                 ELSE Give(Return(taken, t.for, bytes), Other(t.for), bytes)
    IN  PullAgain([given EXCEPT !.reading = FALSE])

\* tee_cancel_algorithm_impl
CancelBranch(t, i) ==
    LET closed == [t EXCEPT !.br[i] = S!CancelStream(@), !.cancelled = @ \union {i}]
    IN  IF Other(i) \notin t.cancelled THEN closed
        ELSE Absorb([closed EXCEPT !.cancelPromise = "resolved",
                                   !.src = IF @.state = "readable" THEN S!CancelStream(@) ELSE @])

\* readable_byte_stream_forward_reader_error, for the reader there is
ForwardError(t) ==
    ResolveCancel([t EXCEPT !.forwarded = TRUE,
                            !.br = [i \in Branches |-> S!ControllerError(@[i])]])

-----------------------------------------------------------------------------
(* The source, the jobs and the readers of the branches *)

SourceDoes(after) == tee' = Absorb([tee EXCEPT !.src = after])

SourceStarts ==
    /\ ~tee.src.started /\ SourceDoes(S!CallPullIfNeeded([tee.src EXCEPT !.started = TRUE]))
    /\ UNCHANGED <<made, issued>>

Make(n) == made + n <= MaxBytes /\ made' = made + n
Made(n) == [k \in 1..n |-> made + k]

SourceEnqueues ==
    \E n \in ChunkSizes :
        /\ tee.src.state = "readable" /\ ~tee.src.closeRequested
        /\ Make(n) /\ SourceDoes(S!Enqueue(tee.src, Made(n))) /\ UNCHANGED issued

SourceResponds ==
    \E n \in 0..MaxBytes :
        /\ tee.src.pending # <<>>
        /\ IF tee.src.state = "closed" THEN n = 0
           ELSE n > 0 /\ Len(tee.src.pending[1].bytes) + n <= tee.src.pending[1].len
        /\ Make(n) /\ SourceDoes(S!Respond(tee.src, Made(n))) /\ UNCHANGED issued

SourceCloses ==
    /\ tee.src.state = "readable" /\ ~tee.src.closeRequested
    /\ SourceDoes(S!ControllerClose(tee.src)) /\ UNCHANGED <<made, issued>>

SourceErrors ==
    /\ tee.src.state = "readable" /\ SourceDoes(S!ControllerError(tee.src))
    /\ UNCHANGED <<made, issued>>

\* The promise of a pull() is fulfilled.
Pulled(s) ==
    LET idle == [s EXCEPT !.pulling = FALSE, !.pullAgain = FALSE]
    IN  IF s.pullAgain THEN S!CallPullIfNeeded(idle) ELSE idle

SourcePulled ==
    /\ tee.src.pulling /\ SourceDoes(Pulled(tee.src)) /\ UNCHANGED <<made, issued>>

RunChunkSteps == tee.jobs # <<>> /\ tee' = ChunkSteps(tee) /\ UNCHANGED <<made, issued>>

\* A job for a chunk was queued before the promise could be rejected.
RunForward ==
    /\ tee.src.state = "errored" /\ ~tee.forwarded /\ tee.jobs = <<>>
    /\ tee' = ForwardError(tee) /\ UNCHANGED <<made, issued>>

BranchStarts(i) ==
    /\ ~tee.br[i].started
    /\ tee' = Becomes(tee, i, S!CallPullIfNeeded([tee.br[i] EXCEPT !.started = TRUE]))
    /\ UNCHANGED <<made, issued>>

BranchPulled(i) ==
    LET after == Pulled(tee.br[i])
        next == [tee EXCEPT !.br[i] = after]
    IN  /\ tee.br[i].pulling /\ tee' = IF after.pulling THEN Pull(next, i) ELSE next
        /\ UNCHANGED <<made, issued>>

ReadBranch(i) ==
    /\ issued[i] < MaxReads /\ issued' = [issued EXCEPT ![i] = @ + 1] /\ UNCHANGED made
    /\ IF tee.br[i].reader.kind = "default"
       THEN tee' = Becomes(tee, i, S!DefaultRead(tee.br[i], issued[i] + 1))
       ELSE \E view \in Views : tee' = Becomes(tee, i, S!ByobRead(tee.br[i], issued[i] + 1, view))

CancelCall(i) ==
    /\ tee.br[i].state = "readable" /\ tee' = CancelBranch(tee, i) /\ UNCHANGED <<made, issued>>

Next ==
    \/ SourceStarts \/ SourceEnqueues \/ SourceResponds \/ SourceCloses \/ SourceErrors
    \/ SourcePulled \/ RunChunkSteps \/ RunForward
    \/ \E i \in Branches : BranchStarts(i) \/ BranchPulled(i) \/ ReadBranch(i) \/ CancelCall(i)

Spec == Init /\ [][Next]_vars

-----------------------------------------------------------------------------
(* Properties *)

\* The bytes of a branch: with its reads, in the buffers they gave, in the queue.
Bytes(s) ==
    FlattenSeq([k \in DOMAIN s.answers |-> s.answers[k].bytes])
        \o FlattenSeq([k \in DOMAIN s.pending |-> s.pending[k].bytes]) \o FlattenSeq(s.queue)

\* Each branch has every byte in order, whichever of them lends its buffer
\* (chunk_steps).
SameBytes ==
    /\ tee.split = [k \in DOMAIN tee.split |-> k]
    /\ \A i \in Branches :
          IF tee.br[i].state = "readable" THEN Bytes(tee.br[i]) = tee.split
          ELSE IsPrefix(Bytes(tee.br[i]), tee.split)

\* One read is out, of the kind of reader there is, and it is never let go of by
\* exchanging the reader ("reader.[[readIntoRequests]] is empty").
OneRead ==
    /\ tee.reading <=> Len(tee.src.requests) + Len(tee.jobs) = 1
    /\ tee.src.requests # <<>> => tee.src.reader.kind = IF tee.for = 0 THEN "default" ELSE "byob"
    /\ tee.src.frame = <<>>

\* The buffer that was lent is still the first of its branch when it comes back.
LentComesBack ==
    /\ \A i \in Branches : tee.br[i].stuck = "no"
    /\ tee.reading /\ tee.for \in Live(tee) /\ tee.br[tee.for].state = "readable" =>
          /\ tee.br[tee.for].pending # <<>>
          /\ \A k \in DOMAIN tee.jobs :
                Len(tee.jobs[k]) + Len(tee.br[tee.for].pending[1].bytes)
                    <= tee.br[tee.for].pending[1].len

\* Demand of either branch reaches the source.
DemandReachesTheSource ==
    \A i \in Branches :
        S!ShouldCallPull(tee.br[i]) =>
            tee.reading \/ tee.br[i].pulling \/ tee.src.state = "errored" \/ tee.threw

\* The source is cancelled for both branches only, and who cancelled one learns of
\* the end of the other, unless closing a branch threw.
CancelIsForBoth ==
    \A i \in tee.cancelled :
        tee.br[Other(i)].state # "readable" => tee.cancelPromise = "resolved" \/ tee.threw

ByteTeeIsFair ==
    SameBytes /\ OneRead /\ LentComesBack /\ DemandReachesTheSource /\ CancelIsForBoth
=============================================================================
