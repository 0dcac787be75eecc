------------------------------ MODULE FetchBody ------------------------------
(***************************************************************************)
(* The body of a response that fetch() resolved to (fetch/mod.rs,          *)
(* fetch/streams.rs): the socket behind it, the stream that `.body' makes  *)
(* over it, and text() and its like, which read it to the end.             *)
(*                                                                         *)
(* Every pull of the stream is a task of its own that holds the lock of    *)
(* the socket while it waits for a chunk.  An async method holds the       *)
(* response from its call to its end, so a call that meets it throws.      *)
(***************************************************************************)
EXTENDS Readable

CONSTANTS
    MaxChunks,      \* what the server sends
    MaxReads,       \* reads of the script
    MaxBody         \* chunks that text() takes (MAX_FETCH_BODY_BYTES)

VARIABLES
    net,            \* the socket: [live, pos, ended]
    response,       \* [used, vended]
    body,           \* the stream
    task,           \* the pull: "none", "spawned", "holding", "settled"
    text,           \* the reader of the whole: [at, got, read]
    reads,          \* reads of the script
    cancel          \* a cancel() of the stream: "no", "freed" the socket, "missed" it

vars == <<net, response, body, task, text, reads, cancel>>

Script == 1
Drainer == 2        \* the readers: the script's, and the one of drain_stream

Init ==
    /\ net = [live |-> TRUE, pos |-> 0, ended |-> "no"]
    /\ response = [used |-> FALSE, vended |-> FALSE]
    /\ body = NewReadable(1) /\ task = "none" /\ reads = 0 /\ cancel = "no"
    /\ text = [at |-> "idle", got |-> <<>>, read |-> 0]

Free == text.at \in {"idle", "resolved", "rejected"}

\* The stream becomes `after', having perhaps called its pull algorithm.
Becomes(after) ==
    /\ body' = after
    /\ task' = IF after.pulling /\ ~body.pulling THEN "spawned" ELSE task

-----------------------------------------------------------------------------
(* The script *)

\* ensure_body_stream takes the socket from the response.
Body ==
    /\ Free /\ ~response.vended /\ response' = [response EXCEPT !.vended = TRUE]
    /\ UNCHANGED <<net, body, task, text, reads, cancel>>

StreamStarts ==
    /\ response.vended /\ ~body.started /\ Becomes(StartFulfilled(body))
    /\ UNCHANGED <<net, response, text, reads, cancel>>

GetReader ==
    /\ response.vended /\ ~Locked(body) /\ body' = AcquireReader(body, Script)
    /\ UNCHANGED <<net, response, task, text, reads, cancel>>

ReadCall ==
    /\ body.reader = Script /\ reads < MaxReads /\ reads' = reads + 1
    /\ Becomes(Read(body, Script)) /\ UNCHANGED <<net, response, text, cancel>>

ReleaseLock ==
    /\ body.reader = Script /\ body' = ReleaseReader(body)
    /\ UNCHANGED <<net, response, task, text, reads, cancel>>

\* The cancel algorithm only tries the lock.
CancelCall ==
    /\ response.vended /\ body.reader # Drainer /\ body.state = "readable"
    /\ body' = Cancel(body)
    /\ IF task = "holding" THEN cancel' = "missed" /\ UNCHANGED net
       ELSE cancel' = "freed" /\ net' = [net EXCEPT !.live = FALSE]
    /\ UNCHANGED <<response, task, text, reads>>

\* text(), json(), ...: the promise is polled after the call.
TextCall ==
    /\ Free /\ ~response.used /\ text' = [text EXCEPT !.at = "called"]
    /\ UNCHANGED <<net, response, body, task, reads, cancel>>

Settles(outcome) == text' = [text EXCEPT !.at = outcome]

\* Where the answer to a read that is made now will be.
NextAnswer == Outstanding(body) + 1

-----------------------------------------------------------------------------
(* consume *)

TextStarts ==
    /\ text.at = "called" /\ UNCHANGED <<net, reads, cancel>>
    /\ IF response.vended /\ Locked(body)
       THEN Settles("rejected") /\ UNCHANGED <<response, body, task>>
       ELSE /\ response' = [response EXCEPT !.used = TRUE]
            /\ IF response.vended
               THEN Becomes(Read(AcquireReader(body, Drainer), Drainer))
                      /\ text' = [text EXCEPT !.at = "stream", !.read = NextAnswer]
               ELSE Settles("socket") /\ UNCHANGED <<body, task>>

\* Variant: what was read before is taken for the whole when the socket fails.
SocketFails_Quietly ==
    /\ text.at = "socket" /\ net' = [net EXCEPT !.live = FALSE, !.ended = "failed"]
    /\ Settles("resolved") /\ UNCHANGED <<response, body, task, reads, cancel>>

\* The socket, read to the end without a stream; it is freed whatever happens.
SocketChunk ==
    LET more == Append(text.got, net.pos + 1)
        over == Len(more) > MaxBody
    IN  /\ text.at = "socket" /\ net.pos < MaxChunks
        /\ net' = [net EXCEPT !.pos = @ + 1, !.live = ~over]
        /\ text' = IF over THEN [text EXCEPT !.at = "rejected"] ELSE [text EXCEPT !.got = more]
        /\ UNCHANGED <<response, body, task, reads, cancel>>

SocketEnds ==
    /\ text.at = "socket" /\ net' = [net EXCEPT !.live = FALSE, !.ended = "clean"]
    /\ Settles("resolved") /\ UNCHANGED <<response, body, task, reads, cancel>>

\* It failed, or nothing came within FETCH_BODY_DRAIN_TIMEOUT.
SocketFails ==
    /\ text.at = "socket" /\ net' = [net EXCEPT !.live = FALSE, !.ended = "failed"]
    /\ Settles("rejected") /\ UNCHANGED <<response, body, task, reads, cancel>>

\* drain_stream: the answer to its last read.  A body that is too large leaves the
\* reader, and the socket, as they are.
DrainHears ==
    LET what == body.answers[text.read].what
    IN  /\ text.at = "stream" /\ Len(body.answers) >= text.read
        /\ \/ what = Done /\ Settles("resolved") /\ UNCHANGED <<body, task>>
           \/ what = Failed /\ Settles("rejected") /\ UNCHANGED <<body, task>>
           \/ /\ what.kind = "chunk"
              /\ IF Len(text.got) >= MaxBody THEN Settles("rejected") /\ UNCHANGED <<body, task>>
                 ELSE /\ text' = [text EXCEPT !.got = Append(@, what.chunk), !.read = NextAnswer]
                      /\ Becomes(Read(body, Drainer))
        /\ UNCHANGED <<net, response, reads, cancel>>

\* The read that is out stays out, of a reader nobody has.
DrainTimesOut ==
    /\ text.at = "stream" /\ Settles("rejected")
    /\ UNCHANGED <<net, response, body, task, reads, cancel>>

-----------------------------------------------------------------------------
(* The pull (from_net) *)

PullLocks ==
    /\ task = "spawned" /\ UNCHANGED <<net, response, text, reads, cancel>>
    /\ IF net.live THEN task' = "holding" /\ UNCHANGED body
       ELSE task' = "settled" /\ body' = ControllerClose(body)

\* A chunk for a stream that was cancelled meanwhile is let fall.
PullChunk ==
    /\ task = "holding" /\ net.pos < MaxChunks /\ net' = [net EXCEPT !.pos = @ + 1]
    /\ body' = (IF CanCloseOrEnqueue(body) THEN Enqueue(body, net.pos + 1) ELSE body)
    /\ task' = "settled" /\ UNCHANGED <<response, text, reads, cancel>>

PullEnds ==
    /\ task = "holding" /\ net' = [net EXCEPT !.live = FALSE, !.ended = "clean"]
    /\ body' = ControllerClose(body) /\ task' = "settled"
    /\ UNCHANGED <<response, text, reads, cancel>>

\* The socket failed, or nothing came within NET_CHUNK_TIMEOUT.
PullFails ==
    /\ task = "holding" /\ net' = [net EXCEPT !.live = FALSE, !.ended = "failed"]
    /\ body' = ControllerError(body) /\ task' = "settled"
    /\ UNCHANGED <<response, text, reads, cancel>>

PullSettles ==
    /\ task = "settled" /\ body' = PullFulfilled(body)
    /\ task' = IF body'.pulling THEN "spawned" ELSE "none"
    /\ UNCHANGED <<net, response, text, reads, cancel>>

Next ==
    \/ Body \/ StreamStarts \/ GetReader \/ ReadCall \/ ReleaseLock \/ CancelCall \/ TextCall
    \/ TextStarts \/ SocketChunk \/ SocketEnds \/ SocketFails \/ DrainHears \/ DrainTimesOut
    \/ PullLocks \/ PullChunk \/ PullEnds \/ PullFails \/ PullSettles

Spec == Init /\ [][Next]_vars

-----------------------------------------------------------------------------
(* Properties *)

\* Every chunk goes to one reader, in order, and none is dropped while the stream is
\* open (from_net).
ChunksInOrder ==
    \E given \in 0..Len(body.answers) :
        /\ \A i \in DOMAIN body.answers :
              body.answers[i].what \in IF i <= given THEN {Chunk(i)} ELSE {Done, Failed}
        /\ \A j \in DOMAIN body.queue : body.queue[j].chunk = given + j
        /\ response.vended /\ body.state = "readable" /\ (net.live \/ net.ended # "no") =>
              net.pos = given + Len(body.queue) + (IF text.read = 0 THEN Len(text.got) ELSE 0)

\* text() resolves with all that the script had left of a body that ended well, or
\* that the script has cancelled: never with the beginning of one that failed (consume).
WholeOrRejected ==
    text.at = "resolved" =>
        \/ /\ net.ended = "clean" /\ Len(text.got) <= MaxBody
           /\ \E given \in 0..net.pos :
                 /\ {i \in DOMAIN body.answers : body.answers[i].to = Script
                       /\ body.answers[i].what.kind = "chunk"} = 1..given
                 /\ text.got = [j \in 1..(net.pos - given) |-> given + j]
        \/ cancel # "no" /\ body.state = "closed"

\* The socket is held for as long as there is something to read of it, and no
\* longer, unless a cancel() came while a pull held it ("cancel() releases the
\* socket").
SocketIsFreed ==
    /\ net.live /\ response.vended /\ body.state # "readable" => cancel = "missed"
    /\ net.live /\ ~response.vended => text.at \in {"idle", "called", "socket"}
    /\ ~net.live /\ net.ended = "no" =>
          text.at = "rejected" \/ cancel = "freed"

\* While text() reads, nobody else does.
DrainIsAlone ==
    text.at = "stream" => body.reader = Drainer /\ \A r \in ToSet(body.requests) : r = Drainer

BodyIsWhole == ChunksInOrder /\ WholeOrRejected /\ SocketIsFreed /\ DrainIsAlone

-----------------------------------------------------------------------------
(* The inductive invariant *)

FetchTypeOK ==
    /\ net \in [live : BOOLEAN, pos : Nat, ended : {"no", "clean", "failed"}]
    /\ response \in [used : BOOLEAN, vended : BOOLEAN]
    /\ task \in {"none", "spawned", "holding", "settled"} /\ cancel \in {"no", "freed", "missed"}
    /\ text \in [at : {"idle", "called", "socket", "stream", "resolved", "rejected"},
                 got : Seq(Nat), read : Nat]

\* A pull is of a stream that the script has, and holds a socket that is there.
PullsAreOfTheStream ==
    /\ net.ended # "no" => ~net.live
    /\ task # "none" => response.vended
    /\ task = "holding" => net.live
    /\ body.state = "readable" => cancel = "no"
    /\ ~response.vended => body.reader = NoReader /\ CanCloseOrEnqueue(body)

Drained == body.reader = Drainer

\* text() is read from the socket or from the stream, once.
TextIsRead ==
    /\ text.at \in {"idle", "called"} => ~response.used
    /\ text.at = "rejected" => response.used \/ response.vended
    /\ text.at = "socket" => response.used /\ ~response.vended /\ net.live
    /\ text.at = "stream" => Drained
    /\ text.at = "resolved" => response.used
    /\ Drained => response.used /\ response.vended /\ text.read > 0
    /\ ~Drained => text.read = 0
    /\ ~response.used => text.got = <<>>
    /\ Len(text.got) <= MaxBody

\* A body whose socket text() has read, which the stream over it then finds empty.
OfSocket(given) ==
    /\ given = 0 /\ body.queue = <<>> /\ \A j \in 1..Len(text.got) : text.got[j] = j
    /\ text.at \in {"socket", "resolved", "rejected"}
    /\ text.at # "socket" => ~net.live
    /\ text.at # "rejected" \/ net.ended # "no" => net.pos = Len(text.got)
    /\ text.at = "resolved" => net.ended = "clean"

\* A body that is read as a stream, if at all: what came of it is answered or queued.
OfStream(given) ==
    /\ body.state = "readable" => given + Len(body.queue) = net.pos
    /\ body.state = "closed" /\ cancel = "no" => net.ended = "clean" /\ given = net.pos
    /\ body.state = "readable" /\ body.closeRequested => net.ended = "clean"
    /\ net.ended # "no" => ~CanCloseOrEnqueue(body)
    /\ ~net.live => net.ended # "no" \/ cancel = "freed"
    /\ net.live /\ body.state # "readable" => cancel = "missed"

\* What text() has is what follows the script's share, and one read is out.
DrainedFrom(given, share) ==
    LET n == Len(text.got)
    IN  /\ \A j \in 1..n : text.got[j] = share + j
        /\ n = 0 \/ share + n <= given
        /\ text.at = "stream" => text.read = share + n + 1 /\ Outstanding(body) = text.read
        /\ text.at = "resolved" => body.state = "closed" /\ given <= share + n

BodyIs(given, share) ==
    /\ InTurn(body, given, share)
    /\ ~response.vended => body.answers = <<>> /\ body.queue = <<>>
    /\ IF response.used /\ ~Drained THEN OfSocket(given) ELSE OfStream(given)
    /\ Drained => DrainedFrom(given, share)

FetchInv ==
    /\ FetchTypeOK /\ PullsAreOfTheStream /\ TextIsRead
    /\ \E given, share \in Nat : BodyIs(given, share)
=============================================================================
