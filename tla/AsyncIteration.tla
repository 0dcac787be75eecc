---------------------------- MODULE AsyncIteration ----------------------------
(***************************************************************************)
(* A stream made from an async iterable and read by its async iterator     *)
(* (readable/iterator.rs, ReadableStream.from in readable/stream/mod.rs).  *)
(*                                                                         *)
(* A call of next() or return() waits for the one before it, as far as     *)
(* that is remembered: the handler of a call that has been answered        *)
(* forgets whichever call came last.  The jobs of promises run in any      *)
(* order, since the script may call in any job that is between them.       *)
(***************************************************************************)
EXTENDS Readable

CONSTANTS
    MaxChunks,      \* what the iterable yields
    MaxCalls        \* of next() and return()

VARIABLES
    s,              \* the stream
    iterable,       \* [at, made, returned]: the promise of its next(), its return()
    calls,          \* of the stream's iterator, in order
    ongoing,        \* the call that is remembered, or 0
    finished,       \* is_finished
    preventCancel,
    overtook,       \* a call was made while one before it was not over, and did not wait
    foreign         \* the script got a reader of its own

vars == <<s, iterable, calls, ongoing, finished, preventCancel, overtook, foreign>>

Iterator == 1
Foreign == 2

Init ==
    /\ s = AcquireReader(NewReadable(0), Iterator)
    /\ iterable = [at |-> "idle", made |-> 0, returned |-> 0]
    /\ calls = <<>> /\ ongoing = 0 /\ finished = FALSE /\ overtook = FALSE /\ foreign = FALSE
    /\ preventCancel \in BOOLEAN

Over(k) == calls[k].at = "over"

-----------------------------------------------------------------------------
(* The steps *)

\* close_steps and error_steps of a read give the lock up, whoever has it.
Absorb(before, after) ==
    IF \E i \in DOMAIN after.answers \ DOMAIN before.answers :
           after.answers[i].what \in {Done, Failed}
    THEN ReleaseReader(after) ELSE after

\* The stream becomes `after', having perhaps called next() of the iterable.
Becomes(after) ==
    LET next == Absorb(s, after)
    IN  /\ s' = next
        /\ iterable' = IF next.pulling /\ ~s.pulling THEN [iterable EXCEPT !.at = "asked"]
                       ELSE iterable

Put(k, kind, at) ==
    calls' = [i \in DOMAIN calls \union {k} |->
                IF i = k THEN [kind |-> kind, at |-> at, after |-> 0, result |-> Done] ELSE calls[i]]

\* next_steps of call k
NextSteps(k) ==
    /\ UNCHANGED finished
    /\ IF finished THEN Put(k, "next", "over") /\ UNCHANGED <<s, iterable>>
       ELSE Put(k, "next", "reading") /\ Becomes(Read(s, k))

\* return_steps.  The stream is closed before the iterable's return() is called.
ReturnSteps(k) ==
    LET cancels == ~preventCancel /\ s.state = "readable"
    IN  /\ finished' = TRUE
        /\ IF finished THEN Put(k, "return", "over") /\ UNCHANGED <<s, iterable>>
           ELSE /\ Put(k, "return", IF cancels THEN "cancelling" ELSE "over")
                /\ s' = ReleaseReader(IF preventCancel THEN s ELSE Absorb(s, Cancel(s)))
                /\ iterable' = IF cancels THEN [iterable EXCEPT !.returned = @ + 1] ELSE iterable

Steps(kind, k) == IF kind = "next" THEN NextSteps(k) ELSE ReturnSteps(k)

-----------------------------------------------------------------------------
(* The script *)

\* A call waits for the one that is remembered.
Call(kind) ==
    LET k == Len(calls) + 1
    IN  /\ k <= MaxCalls /\ ongoing' = k /\ UNCHANGED <<preventCancel, foreign>>
        /\ IF ongoing # 0
           THEN /\ calls' = Append(calls, [kind |-> kind, at |-> "waiting", after |-> ongoing,
                                           result |-> Done])
                /\ UNCHANGED <<s, iterable, finished, overtook>>
           ELSE /\ Steps(kind, k)
                /\ overtook' = (overtook \/ \E i \in DOMAIN calls : ~Over(i))

\* Another reader of the script, once the iterator has let go.
GetReader ==
    /\ ~Locked(s) /\ s' = AcquireReader(s, Foreign) /\ foreign' = TRUE
    /\ UNCHANGED <<iterable, calls, ongoing, finished, preventCancel, overtook>>

-----------------------------------------------------------------------------
(* The jobs *)

\* Variant: the end of the stream is answered and not kept.
CallAnswered_Forgets ==
    \E k \in DOMAIN calls, i \in DOMAIN s.answers :
        /\ calls[k].at = "reading" /\ s.answers[i].to = k
        /\ calls' = [calls EXCEPT ![k].at = "over", ![k].result = s.answers[i].what]
        /\ ongoing' = 0 /\ UNCHANGED <<s, iterable, finished, preventCancel, overtook, foreign>>

\* The handler of a read that was answered.
CallAnswered ==
    \E k \in DOMAIN calls, i \in DOMAIN s.answers :
        /\ calls[k].at = "reading" /\ s.answers[i].to = k
        /\ calls' = [calls EXCEPT ![k].at = "over", ![k].result = s.answers[i].what]
        /\ ongoing' = 0 /\ finished' = (finished \/ s.answers[i].what \in {Done, Failed})
        /\ UNCHANGED <<s, iterable, preventCancel, overtook, foreign>>

WaitIsOver ==
    \E k \in DOMAIN calls :
        /\ calls[k].at = "waiting" /\ Over(calls[k].after) /\ Steps(calls[k].kind, k)
        /\ UNCHANGED <<ongoing, preventCancel, overtook, foreign>>

\* The promise of the iterable's return() settles, which does not reset what is
\* remembered.
ReturnSettles ==
    \E k \in DOMAIN calls :
        /\ calls[k].at = "cancelling" /\ calls' = [calls EXCEPT ![k].at = "over"]
        /\ UNCHANGED <<s, iterable, ongoing, finished, preventCancel, overtook, foreign>>

StreamStarts ==
    /\ ~s.started /\ Becomes(StartFulfilled(s))
    /\ UNCHANGED <<calls, ongoing, finished, preventCancel, overtook, foreign>>

\* The promise of the iterable's next() is fulfilled, or rejected.
Asked == iterable.at = "asked" /\ UNCHANGED <<calls, ongoing, finished, preventCancel, overtook, foreign>>

IterableYields ==
    /\ Asked /\ iterable.made < MaxChunks
    /\ iterable' = [iterable EXCEPT !.at = "fed", !.made = @ + 1]
    /\ s' = Absorb(s, Enqueue(s, iterable.made + 1))

IterableEnds ==
    /\ Asked /\ iterable' = [iterable EXCEPT !.at = "fed"]
    /\ s' = Absorb(s, ControllerClose(s))

IterableFails ==
    /\ Asked /\ iterable' = [iterable EXCEPT !.at = "failed"]
    /\ s' = Absorb(s, ControllerError(s))

PullFulfils ==
    /\ iterable.at = "fed" /\ s' = PullFulfilled(s)
    /\ iterable' = [iterable EXCEPT !.at = IF s'.pulling THEN "asked" ELSE "idle"]
    /\ UNCHANGED <<calls, ongoing, finished, preventCancel, overtook, foreign>>

Next ==
    \/ Call("next") \/ Call("return") \/ GetReader
    \/ CallAnswered \/ WaitIsOver \/ ReturnSettles
    \/ StreamStarts \/ IterableYields \/ IterableEnds \/ IterableFails \/ PullFulfils

Spec == Init /\ [][Next]_vars

-----------------------------------------------------------------------------
(* Properties *)

Answered(k) == \E i \in DOMAIN s.answers : s.answers[i].to = k

\* Every call of next() that reads has its request with the stream, or its answer,
\* unless a return() that does not cancel let the lock go under it (next_steps).
NoCallIsLost ==
    \A k \in DOMAIN calls : calls[k].at = "reading" =>
        Answered(k) \/ (k \in ToSet(s.requests)) \/ (preventCancel /\ overtook)

\* Calls that waited are answered in the order they were made, and after the end
\* there is nothing but the end (the handlers of next()).
CallsInOrder ==
    ~overtook =>
        \A j, k \in DOMAIN calls :
            j < k /\ Over(j) /\ Over(k) /\ calls[k].result.kind = "chunk" =>
                calls[j].result.kind = "chunk" /\ calls[j].result.chunk < calls[k].result.chunk

\* The lock is given up at the end, and only after a call that overtook is it taken
\* from a reader that came later.
LockIsGivenUp ==
    /\ foreign => s.reader = Foreign \/ overtook
    /\ finished => s.reader # Iterator
    /\ s.reader = Iterator => s.state = "readable"

\* The iterable is asked for no more than was read, and told to return at most once,
\* of a stream it had not ended.
IterableIsAskedLazily ==
    /\ iterable.made <= Len(SelectSeq(calls, LAMBDA c : c.kind = "next"))
    /\ iterable.returned <= 1
    /\ iterable.returned = 1 => finished /\ ~preventCancel

IterationIsOrderly == NoCallIsLost /\ CallsInOrder /\ LockIsGivenUp /\ IterableIsAskedLazily
=============================================================================
