-------------------------------- MODULE Pipe --------------------------------
(***************************************************************************)
(* source.pipeTo(dest, options) (readable/stream/pipe.rs): a loop of       *)
(* promise reactions that moves chunks from a readable to a writable       *)
(* stream, and four ways in which it shuts down.                           *)
(*                                                                         *)
(* Promise reactions are jobs of the scripting engine's queue, run one     *)
(* after the other; everything else (the source, the sink, the signal)     *)
(* happens between two jobs.  The order of jobs decides what a shutdown    *)
(* that was asked for meanwhile still sees, so a job also says how many    *)
(* more turns of the queue the promises in front of it take (`hops').      *)
(*                                                                         *)
(* `p' holds the two streams and what pipe_to keeps; the strategies have   *)
(* no size() of their own.                                                 *)
(***************************************************************************)
EXTENDS Readable, Writable, FiniteSets

CONSTANTS
    MaxChunks,          \* how many chunks the source makes
    SourceHighWaterMarks,
    DestHighWaterMarks

ASSUME BoundsAssumption ==
    /\ MaxChunks \in Nat \ {0}
    /\ SourceHighWaterMarks \union DestHighWaterMarks \subseteq Nat

VARIABLES
    p,          \* the pipe and its two streams
    opts,       \* StreamPipeOptions
    starting,   \* the promise of the sink's start() is pending
    made,       \* chunks the source has enqueued
    aborted     \* the signal

vars == <<p, opts, starting, made, aborted>>

TheReader == 1
TheWriter == 1
TheRead == 1

Options == [preventClose : BOOLEAN, preventAbort : BOOLEAN, preventCancel : BOOLEAN]

Init ==
    /\ opts \in Options
    /\ starting = TRUE
    /\ made = 0
    /\ aborted = FALSE
    /\ \E r \in SourceHighWaterMarks, w \in DestHighWaterMarks :
           p = [rs |-> StartFulfilled(NewReadable(r)), ws |-> NewWritable(w),
                piping |-> FALSE, listening |-> FALSE, loop |-> "none", jobs |-> <<>>,
                current |-> NoWrite, written |-> TRUE, waitFor |-> NoWrite, waiting |-> FALSE,
                depth |-> 0,
                shutting |-> FALSE, cause |-> "none", awaiting |-> {}, failing |-> FALSE,
                cancelling |-> FALSE, result |-> "none",
                piped |-> <<>>, delivered |-> {}, late |-> FALSE,
                closedBefore |-> FALSE]

-----------------------------------------------------------------------------
(* The job queue. *)

Job(do, arg, hops) == [do |-> do, arg |-> arg, hops |-> hops]

\* The job runs when it was at the head of the queue for the `hops'-th time.
Queue(x, do, hops) == [x EXCEPT !.jobs = Append(@, Job(do, NoWrite, hops))]

-----------------------------------------------------------------------------
(* The action of a shutdown, and its end. *)

\* Promise.all, which a signal's two actions go through, takes a turn more.
ActionSettles_KeepsError(x, action, ok) ==
    LET left == IF ok THEN x.awaiting \ {action} ELSE {}
        hops == IF x.cause = "aborted" THEN 2 ELSE 1
    IN  CASE action \notin x.awaiting -> x
          [] action \in x.awaiting /\ left # {} -> [x EXCEPT !.awaiting = left]
          [] OTHER -> Queue([x EXCEPT !.awaiting = {}], "finalize", hops)

ActionSettles(x, action, ok) ==
    LET left == IF ok THEN x.awaiting \ {action} ELSE {}
        hops == IF x.cause = "aborted" THEN 2 ELSE 1
    IN  CASE action \notin x.awaiting -> x
          [] action \in x.awaiting /\ left # {} -> [x EXCEPT !.awaiting = left]
          [] OTHER -> Queue([x EXCEPT !.awaiting = {}, !.failing = ~ok], "finalize", hops)

\* A call of the destination is answered.
WriteAnswered(x, answer) ==
    CASE answer.to = CloseOp -> ActionSettles(x, "close", answer.what = "ok")
      [] answer.to = AbortOp -> ActionSettles(x, "abort", answer.what = "ok")
      [] OTHER -> [x EXCEPT !.jobs = Append(@, Job("caught", answer.to, 1)),
                            !.delivered = IF answer.what = "ok" THEN @ \union {answer.to} ELSE @]

\* The loop waits for the writer's ready promise.
ReadyHeard(x) ==
    CASE x.loop = "ready" /\ x.ws.ready = "fulfilled" ->
             Queue([x EXCEPT !.loop = "reading"], "read", 1)
      [] x.loop = "ready" /\ x.ws.ready \in {"rejected", "none"} -> [x EXCEPT !.loop = "ended"]
      [] OTHER -> x

\* The destination becomes `ws', and what waits for its promises hears of it.
WithDest(x, ws) ==
    LET moved == [x EXCEPT !.ws = [ws EXCEPT !.answers = <<>>, !.calls = <<>>]]
        heard == ReadyHeard(FoldLeft(WriteAnswered, moved, ws.answers))
    IN  IF x.listening /\ x.ws.closed = "pending" /\ ws.closed = "rejected"
        THEN Queue(heard, "destErrored", 1) ELSE heard

\* The read request: chunk, close and error steps.
ReadAnswered(x, what, hops) ==
    IF what.kind # "chunk" THEN [x EXCEPT !.loop = "ended"]
    ELSE LET wrote == WithDest([x EXCEPT !.piped = Append(@, what.chunk)],
                               Write(x.ws, TheWriter, what.chunk))
         IN  Queue([wrote EXCEPT !.current = what.chunk, !.written = FALSE], "next", hops)

\* The source becomes `rs'.
WithSource(x, rs, hops) ==
    LET moved == [x EXCEPT !.rs = [rs EXCEPT !.answers = <<>>]]
        settled == x.listening /\ x.rs.closed = "pending"
        heard == CASE settled /\ rs.closed = "rejected" -> Queue(moved, "sourceErrored", 1)
                   [] settled /\ rs.closed = "fulfilled" -> Queue(moved, "sourceClosed", 1)
                   [] OTHER -> moved
    IN  IF rs.answers = <<>> THEN heard ELSE ReadAnswered(heard, Head(rs.answers).what, hops)

AbortDest(x) ==
    IF Ended(x.ws) THEN ActionSettles(x, "abort", TRUE)
    ELSE WithDest(x, Abort(x.ws, TheWriter))

CancelSource(x) ==
    CASE x.rs.state = "closed" -> ActionSettles(x, "cancel", TRUE)
      [] x.rs.state = "errored" -> ActionSettles(x, "cancel", FALSE)
      [] OTHER -> WithSource([x EXCEPT !.cancelling = TRUE], Cancel(x.rs), 2)

CloseDest(x) ==
    CASE CloseQueuedOrInFlight(x.ws) \/ x.ws.state = "closed" -> ActionSettles(x, "close", TRUE)
      [] x.ws.state = "errored" -> ActionSettles(x, "close", FALSE)
      [] OTHER -> WithDest(x, CloseWithErrorPropagation(x.ws, TheWriter))

ReleaseBoth_ReaderOnly(x) ==
    [x EXCEPT !.rs = ReleaseReader(@)]

\* The writer's ready promise is rejected with its release.
ReleaseBoth(x) ==
    ReadyHeard([x EXCEPT !.rs = ReleaseReader(@), !.ws = ReleaseWriter(@)])

Erroneous == {"sourceErrored", "destErrored", "destClosing", "aborted"}

Finalize(x) ==
    [ReleaseBoth(x) EXCEPT !.listening = FALSE,
        !.result = IF x.cause \in Erroneous \/ x.failing THEN "failed" ELSE "ok"]

Actions_Swapped(x) ==
    CASE x.cause = "sourceErrored" -> IF opts.preventCancel THEN {} ELSE {"abort"}
      [] x.cause \in {"destErrored", "destClosing"} ->
             IF opts.preventAbort THEN {} ELSE {"cancel"}
      [] x.cause = "sourceClosed" -> IF opts.preventClose THEN {} ELSE {"close"}
      [] x.cause = "aborted" -> {}

\* What the shutdown does once the writes are done.
Actions(x) ==
    CASE x.cause = "sourceErrored" -> IF opts.preventAbort THEN {} ELSE {"abort"}
      [] x.cause \in {"destErrored", "destClosing"} ->
             IF opts.preventCancel THEN {} ELSE {"cancel"}
      [] x.cause = "sourceClosed" -> IF opts.preventClose THEN {} ELSE {"close"}
      [] x.cause = "aborted" ->
             (IF opts.preventAbort \/ x.ws.state # "writable" THEN {} ELSE {"abort"})
             \union (IF opts.preventCancel \/ x.rs.state # "readable" THEN {} ELSE {"cancel"})

TheRest(x) ==
    LET actions == Actions(x)
        begun == [x EXCEPT !.awaiting = actions]
        one == IF "abort" \in actions THEN AbortDest(begun) ELSE begun
        two == IF "cancel" \in actions THEN CancelSource(one) ELSE one
    IN  CASE "close" \in actions -> CloseDest(begun)
          [] "close" \notin actions /\ actions # {} -> two
          [] actions = {} /\ x.cause = "aborted" -> Queue(x, "finalize", 2)
          [] OTHER -> Finalize(x)

AwaitWrites_Pending(x) == [x EXCEPT !.waitFor = x.current, !.waiting = TRUE]

\* wait_for_writes_to_finish, for the write there is now.
AwaitWrites(x) ==
    LET asked == [x EXCEPT !.waitFor = x.current]
    IN  IF x.written THEN Queue(asked, "check", 1) ELSE [asked EXCEPT !.waiting = TRUE]

Shutdown(x, cause) ==
    LET s == [x EXCEPT !.shutting = TRUE, !.cause = cause]
    IN  CASE x.shutting -> x
          [] ~x.shutting /\ x.ws.state = "writable" /\ ~CloseQueuedOrInFlight(x.ws) ->
                 AwaitWrites(s)
          [] OTHER -> TheRest(s)

-----------------------------------------------------------------------------
(* The jobs. *)

PipeStep_NeverWaits(x) ==
    CASE x.shutting \/ x.ws.ready = "rejected" -> [x EXCEPT !.loop = "ended"]
      [] OTHER -> Queue([x EXCEPT !.loop = "reading"], "read", 1)

PipeStep(x) ==
    CASE x.shutting \/ x.ws.ready = "rejected" -> [x EXCEPT !.loop = "ended"]
      [] ~x.shutting /\ x.ws.ready = "pending" -> [x EXCEPT !.loop = "ready"]
      [] OTHER -> Queue([x EXCEPT !.loop = "reading"], "read", 1)

\* The loop does not look at the shutdown again before it reads.
ReadChunk(x) ==
    WithSource([x EXCEPT !.late = @ \/ x.shutting], Read(x.rs, TheRead), 3)

\* The write's promise, its failure caught, fulfils.
Caught(x, chunk) ==
    LET seen == [x EXCEPT !.written = @ \/ chunk = x.current]
    IN  IF x.waiting /\ x.waitFor = chunk
        THEN Queue([seen EXCEPT !.waiting = FALSE], "check", 1) ELSE seen

\* Another write may have been made while this one was waited for.
Check(x) ==
    IF x.waitFor = x.current THEN Queue(x, "rest", 1 + x.depth)
    ELSE AwaitWrites([x EXCEPT !.depth = @ + 1])

Run(x, job) ==
    CASE job.do = "next" -> PipeStep(x)
      [] job.do = "read" -> ReadChunk(x)
      [] job.do = "caught" -> Caught(x, job.arg)
      [] job.do = "check" -> Check(x)
      [] job.do = "rest" -> TheRest(x)
      [] job.do = "finalize" -> Finalize(x)
      [] OTHER -> Shutdown(x, job.do)

RunJob ==
    /\ p.jobs # <<>>
    /\ LET job == Head(p.jobs)
           rest == [p EXCEPT !.jobs = Tail(@)]
       IN  p' = IF job.hops > 1
                THEN [rest EXCEPT !.jobs = Append(@, [job EXCEPT !.hops = @ - 1])]
                ELSE Run(rest, job)
    /\ UNCHANGED <<opts, starting, made, aborted>>

-----------------------------------------------------------------------------
(* pipe_to *)

\* Errors and closing there are already, in the order the code looks for them.
AlreadyOver(x) ==
    LET a == IF x.rs.state = "errored" THEN Shutdown(x, "sourceErrored") ELSE x
        b == IF x.ws.state \in {"erroring", "errored"} THEN Shutdown(a, "destErrored") ELSE a
        c == IF x.rs.state = "closed" THEN Shutdown(b, "sourceClosed") ELSE b
    IN  IF CloseQueuedOrInFlight(x.ws) \/ x.ws.state = "closed"
        THEN Shutdown(c, "destClosing") ELSE c

PipeTo ==
    /\ ~p.piping
    /\ LET acquired == [p EXCEPT !.piping = TRUE,
                                 !.rs = [AcquireReader(@, TheReader) EXCEPT !.disturbed = TRUE],
                                 !.ws = AcquireWriter(@, TheWriter)]
           listening == [acquired EXCEPT !.listening = TRUE]
           over == AlreadyOver(listening)
       IN  p' = IF aborted THEN Shutdown(acquired, "aborted") ELSE PipeStep(over)
    /\ UNCHANGED <<opts, starting, made, aborted>>

\* The listener is removed when the pipe is done.
SignalAborts ==
    /\ ~aborted
    /\ aborted' = TRUE
    /\ p' = IF p.listening THEN Shutdown(p, "aborted") ELSE p
    /\ UNCHANGED <<opts, starting, made>>

-----------------------------------------------------------------------------
(* The source. *)

SourceCall ==
    /\ CanCloseOrEnqueue(p.rs)
    /\ \/ /\ made < MaxChunks
          /\ made' = made + 1
          /\ p' = WithSource(p, Enqueue(p.rs, made + 1), 2)
       \/ /\ p' \in {WithSource(p, ControllerClose(p.rs), 2),
                     WithSource(p, ControllerError(p.rs), 2)}
          /\ UNCHANGED made
    /\ UNCHANGED <<opts, starting, aborted>>

PullSettles ==
    /\ p.rs.pulling
    /\ p' = WithSource(p, PullFulfilled(p.rs), 2)
    /\ UNCHANGED <<opts, starting, made, aborted>>

CancelSettles ==
    /\ p.cancelling
    /\ \E ok \in BOOLEAN : p' = ActionSettles([p EXCEPT !.cancelling = FALSE], "cancel", ok)
    /\ UNCHANGED <<opts, starting, made, aborted>>

-----------------------------------------------------------------------------
(* The sink. *)

SinkStarts ==
    /\ starting
    /\ starting' = FALSE
    /\ p' \in {WithDest(p, SinkStarted(p.ws)), WithDest(p, SinkFailedToStart(p.ws))}
    /\ UNCHANGED <<opts, made, aborted>>

SinkOwes == p.ws.inFlightWrite # NoWrite \/ p.ws.inFlightClose \/ p.ws.aborting

SinkSettles ==
    /\ \/ /\ p.ws.inFlightWrite # NoWrite
          /\ p' \in {WithDest(p, WriteFulfilled(p.ws)), WithDest(p, WriteRejected(p.ws))}
       \/ /\ p.ws.inFlightClose
          /\ p' \in {WithDest(p, CloseFulfilled(p.ws)), WithDest(p, CloseRejected(p.ws))}
       \/ /\ p.ws.aborting
          /\ \E what \in {"ok", "failed"} : p' = WithDest(p, AbortSettled(p.ws, what))
    /\ UNCHANGED <<opts, starting, made, aborted>>

SinkErrors ==
    /\ p.ws.state = "writable"
    /\ p' = WithDest(p, ControllerErrors(p.ws, p.ws.writer))
    /\ UNCHANGED <<opts, starting, made, aborted>>

\* dest.close() before it is piped to.
CloseBefore ==
    /\ ~p.piping
    /\ p.ws.state = "writable" /\ ~CloseQueuedOrInFlight(p.ws)
    /\ p' = [WithDest(p, Close(p.ws, NoWriter)) EXCEPT !.closedBefore = TRUE]
    /\ UNCHANGED <<opts, starting, made, aborted>>

-----------------------------------------------------------------------------
Next ==
    \/ PipeTo \/ RunJob \/ SignalAborts
    \/ SourceCall \/ PullSettles \/ CancelSettles
    \/ SinkStarts \/ SinkSettles \/ SinkErrors \/ CloseBefore

\* Jobs run, and the sink and the source settle the promises they return: weak
\* fairness, spelled out with what enables each action.
Fairness ==
    /\ []<>(p.jobs = <<>>) \/ []<><<RunJob>>_vars
    /\ []<>(~starting) \/ []<><<SinkStarts>>_vars
    /\ []<>(~SinkOwes) \/ []<><<SinkSettles>>_vars
    /\ []<>(~p.cancelling) \/ []<><<CancelSettles>>_vars

Spec == Init /\ [][Next]_vars /\ Fairness

(***************************************************************************)
(* Properties                                                              *)
(***************************************************************************)
TypeOK ==
    /\ ReadableTypeOK(p.rs, 1..MaxChunks, {1}, {TheReader}, {TheRead})
    /\ WritableTypeOK(p.ws, 1..MaxChunks, {1}, {TheWriter})
    /\ ~p.ws.panicked
    /\ opts \in Options
    /\ starting \in BOOLEAN
    /\ made \in 0..MaxChunks
    /\ p.loop \in {"none", "ready", "reading", "ended"}
    /\ p.awaiting \subseteq {"abort", "cancel", "close"}
    /\ p.result \in {"none", "ok", "failed"}

\* Every chunk goes over once and in order; while the source is readable each
\* is still queued there or was handed to the destination.
PipedInOrder ==
    LET all == p.piped \o [i \in DOMAIN p.rs.queue |-> p.rs.queue[i].chunk]
    IN  /\ \A i, j \in DOMAIN all : i < j => all[i] < all[j]
        /\ p.rs.state = "readable" => Len(all) = made

\* "Backpressure must be enforced": the destination never holds more chunks
\* than its high water mark.
BackpressureIsEnforced ==
    Cardinality({i \in DOMAIN p.ws.queue : p.ws.queue[i].chunk # CloseOp}) <= p.ws.hwm

\* A pipe that was to close its destination, and says all went well, has it
\* closed, with every chunk of the source accepted by the sink.  (One that was
\* closing when the pipe began is left to whoever closed it.)
SuccessMeansDelivered ==
    p.result = "ok" /\ ~opts.preventClose /\ ~p.closedBefore =>
        p.ws.state = "closed" /\ p.rs.state = "closed" /\ p.delivered = 1..made

\* What ended one side ended the other by the time the pipe is settled, unless
\* the options say otherwise.
BothSidesEnd ==
    p.result # "none" =>
        /\ p.cause = "sourceErrored" /\ ~opts.preventAbort => p.ws.state # "writable"
        /\ p.cause \in {"destErrored", "destClosing"} /\ ~opts.preventCancel =>
               p.rs.state # "readable"
        /\ p.cause = "aborted" =>
               /\ opts.preventAbort \/ p.ws.state # "writable" \/ CloseQueuedOrInFlight(p.ws)
               /\ opts.preventCancel \/ p.rs.state # "readable"
        /\ p.cause \in Erroneous => p.result = "failed"

\* Once its promise is settled the pipe has let go of both streams, and takes no
\* chunk again, nor waits for one, whatever jobs were left in the queue.
SettledPipeLetsGo ==
    [][p.result # "none" =>
          /\ ~Locked(p.rs) /\ ~IsLocked(p.ws)
          /\ p'.piped = p.piped /\ p'.rs.requests = <<>> /\ p'.result = p.result]_vars

\* A pipe whose source ended, whose destination failed or whose signal was
\* aborted is settled.
PipeSettles ==
    (p.piping /\ (p.rs.state # "readable" \/ p.ws.state = "errored" \/ aborted))
        ~> p.result # "none"

\* Chunks are handed over as both sides allow (pipe_step).
ChunksAreHandedOver == TypeOK /\ PipedInOrder /\ BackpressureIsEnforced

\* What a pipe stands for that says it is done (finalize).
SettledPipeIsOver == SuccessMeansDelivered /\ BothSidesEnd

\* A pipe settles, and then is over (shutdown_with_action, finalize).
PipeSettlesForGood == PipeSettles /\ SettledPipeLetsGo

\* "Shutdown must stop all activity", says the comment on the loop.  A step that
\* was waiting for the destination still reads a chunk.
ShutdownStopsReads == ~p.late
=============================================================================
