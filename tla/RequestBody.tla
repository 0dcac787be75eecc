----------------------------- MODULE RequestBody -----------------------------
(***************************************************************************)
(* The body that fetch() sends (fetch/mod.rs, fetch/streams.rs): the       *)
(* script's Request, and the pump that reads a stream and hands it to the  *)
(* engine through a channel of one chunk.                                  *)
(***************************************************************************)
EXTENDS Readable

CONSTANTS
    MaxChunks,      \* of the script's stream
    HighWaterMarks  \* of that stream

VARIABLES
    request,        \* [bytes, stream, used, disturbed], then what fetch() made of it
    src,            \* the script's stream
    made,           \* chunks handed to its controller
    pump,           \* [at, hand, heard]
    channel,        \* messages to the engine
    wire            \* [at, got]: what the server is sent

vars == <<request, src, made, pump, channel, wire>>

Pump == 1
Capacity == 1

\* A request is made with bytes, with a stream, or with nothing.
Init ==
    /\ \E kind \in {"none", "bytes", "stream"} :
          request = [bytes |-> kind = "bytes", stream |-> kind = "stream",
                     vended |-> kind = "stream", used |-> FALSE, disturbed |-> FALSE]
    /\ \E hwm \in HighWaterMarks : src = NewReadable(hwm)
    /\ made = 0 /\ pump = [at |-> "none", hand |-> <<>>, heard |-> 0]
    /\ channel = <<>> /\ wire = [at |-> "none", got |-> <<>>]

-----------------------------------------------------------------------------
(* The Request *)

Before == wire.at = "none"

\* `.body' streams a copy of the bytes.
BodyGetter ==
    /\ Before /\ ~request.vended /\ request' = [request EXCEPT !.vended = TRUE]
    /\ UNCHANGED <<src, made, pump, channel, wire>>

\* A reader of `.body', or text() once it is there: the bytes stay where they are.
\* The script's own stream is the one that is read.
ReadBody ==
    /\ Before /\ request.vended /\ ~request.disturbed
    /\ \E whole \in BOOLEAN :
          request' = [request EXCEPT !.disturbed = TRUE, !.used = whole]
    /\ UNCHANGED <<src, made, pump, channel, wire>>

\* text() of bytes that were never streamed takes them.
TakeBytes ==
    /\ Before /\ ~request.vended /\ ~request.used
    /\ request' = [request EXCEPT !.used = TRUE, !.bytes = FALSE]
    /\ UNCHANGED <<src, made, pump, channel, wire>>

\* new Request(other): the bytes that are left, and no stream.
NewFrom ==
    /\ Before
    /\ request' = [request EXCEPT !.stream = FALSE, !.vended = FALSE, !.used = FALSE,
                                  !.disturbed = FALSE]
    /\ UNCHANGED <<src, made, pump, channel, wire>>

Disturbed(r) == r.used \/ r.disturbed

\* fetch(request) sends its bytes, if it has any.
FetchRequest ==
    /\ Before /\ ~Disturbed(request)
    /\ wire' = [at |-> "complete", got |-> IF request.bytes THEN <<"bytes">> ELSE <<>>]
    /\ UNCHANGED <<request, src, made, pump, channel>>

\* fetch(url, {body: stream}), a stream nobody has read: to_byte_stream locks it.
FetchStream ==
    /\ Before /\ request.stream /\ ~request.disturbed
    /\ src' = AcquireReader(src, Pump) /\ pump' = [pump EXCEPT !.at = "ready"]
    /\ wire' = [wire EXCEPT !.at = "sending"] /\ UNCHANGED <<request, made, channel>>

-----------------------------------------------------------------------------
(* The script's stream *)

SourceStarts ==
    /\ ~src.started /\ src' = StartFulfilled(src)
    /\ UNCHANGED <<request, made, pump, channel, wire>>

SourceEnqueues ==
    /\ made < MaxChunks /\ CanCloseOrEnqueue(src)
    /\ made' = made + 1 /\ src' = Enqueue(src, made + 1)
    /\ UNCHANGED <<request, pump, channel, wire>>

SourceCloses ==
    /\ CanCloseOrEnqueue(src) /\ src' = ControllerClose(src)
    /\ UNCHANGED <<request, made, pump, channel, wire>>

SourceErrors ==
    /\ src.state = "readable" /\ src' = ControllerError(src)
    /\ UNCHANGED <<request, made, pump, channel, wire>>

SourcePulled ==
    /\ src.pulling /\ src' = PullFulfilled(src)
    /\ UNCHANGED <<request, made, pump, channel, wire>>

-----------------------------------------------------------------------------
(* The pump *)

PumpReads ==
    /\ pump.at = "ready" /\ src' = Read(src, Pump) /\ pump' = [pump EXCEPT !.at = "reading"]
    /\ UNCHANGED <<request, made, channel, wire>>

\* Variant: an error of the stream ends the body, as its end does.
PumpHears_Alike ==
    LET what == src.answers[pump.heard + 1].what
    IN  /\ pump.at = "reading" /\ Len(src.answers) > pump.heard
        /\ pump' = [heard |-> pump.heard + 1,
                    at |-> IF what.kind = "chunk" THEN "sending" ELSE "ended",
                    hand |-> IF what.kind = "chunk" THEN <<what>> ELSE <<>>]
        /\ UNCHANGED <<request, src, made, channel, wire>>

\* The end drops the sender; an error is a message like a chunk.
PumpHears ==
    LET what == src.answers[pump.heard + 1].what
    IN  /\ pump.at = "reading" /\ Len(src.answers) > pump.heard
        /\ pump' = [heard |-> pump.heard + 1,
                    at |-> IF what = Done THEN "ended" ELSE "sending",
                    hand |-> IF what = Done THEN <<>> ELSE <<what>>]
        /\ UNCHANGED <<request, src, made, channel, wire>>

\* There is room, or the receiver is gone.
PumpSends ==
    /\ pump.at = "sending" /\ UNCHANGED <<request, src, made, wire>>
    /\ \/ /\ wire.at = "sending" /\ Len(channel) < Capacity
          /\ channel' = channel \o pump.hand
          /\ pump' = [pump EXCEPT !.hand = <<>>,
                                  !.at = IF pump.hand = <<Failed>> THEN "ended" ELSE "ready"]
       \/ /\ wire.at \in {"failed", "aborted"}
          /\ pump' = [pump EXCEPT !.hand = <<>>, !.at = "ended"] /\ UNCHANGED channel

-----------------------------------------------------------------------------
(* The engine *)

EngineTakes ==
    /\ wire.at = "sending" /\ channel # <<>> /\ UNCHANGED <<request, src, made, pump>>
    /\ IF Head(channel) = Failed
       THEN wire' = [wire EXCEPT !.at = "failed"] /\ channel' = <<>>
       ELSE wire' = [wire EXCEPT !.got = Append(@, Head(channel).chunk)] /\ channel' = Tail(channel)

EngineEnds ==
    /\ wire.at = "sending" /\ channel = <<>> /\ pump.at = "ended"
    /\ wire' = [wire EXCEPT !.at = "complete"] /\ UNCHANGED <<request, src, made, pump, channel>>

\* The signal aborts the request, or the engine fails: the receiver is dropped.
Abort ==
    /\ wire.at = "sending" /\ wire' = [wire EXCEPT !.at = "aborted"] /\ channel' = <<>>
    /\ UNCHANGED <<request, src, made, pump>>

Next ==
    \/ BodyGetter \/ ReadBody \/ TakeBytes \/ NewFrom \/ FetchRequest \/ FetchStream
    \/ SourceStarts \/ SourceEnqueues \/ SourceCloses \/ SourceErrors \/ SourcePulled
    \/ PumpReads \/ PumpHears \/ PumpSends \/ EngineTakes \/ EngineEnds \/ Abort

Spec == Init /\ [][Next]_vars

-----------------------------------------------------------------------------
(* Properties *)

\* A body that the server takes for complete is the whole of a stream that closed,
\* or the bytes ("A source that errors must fail the request rather than end the
\* body early").
NeverTruncated ==
    wire.at = "complete" =>
        \/ pump.at = "none" /\ wire.got \in {<<>>, <<"bytes">>}
        \/ src.state = "closed" /\ wire.got = [n \in 1..made |-> n]

\* The chunks between the source and the wire, in order, are the queue, the answer
\* to one read, one in hand and one in the channel: the socket is the backpressure.
PumpKeepsPace ==
    LET held == wire.got \o [i \in DOMAIN channel |-> IF channel[i] = Failed THEN 0 ELSE channel[i].chunk]
    IN  wire.at = "sending" =>
          /\ Len(channel) <= Capacity
          /\ pump.heard <= Len(wire.got) + Capacity + 1
          /\ Len(src.answers) + Len(src.requests) <= pump.heard + 1
          /\ \A n \in DOMAIN held : held[n] \in {0, n}

\* Once the request is over the pump hands nothing on, and reads no further.
PumpStops == wire.at \in {"failed", "aborted"} => channel = <<>>

BodyIsSentWhole == NeverTruncated /\ PumpKeepsPace /\ PumpStops

-----------------------------------------------------------------------------
(* The inductive invariant *)

PumpStates == {"none", "ready", "reading", "sending", "ended"}

TypeOK ==
    /\ made \in Nat /\ channel \in Seq(Outcomes)
    /\ pump \in [at : PumpStates, hand : Seq(Outcomes), heard : Nat]
    /\ IF pump.at = "none" THEN wire \in [at : {"none", "complete"}, got : {<<>>, <<"bytes">>}]
       ELSE wire \in [at : {"sending", "complete", "failed", "aborted"}, got : Seq(Nat)]

\* What was made and is neither answered nor lost with an error is queued.
SourceInTurn ==
    \E c \in Nat :
        /\ InTurn(src, c, Len(src.answers))
        /\ src.state = "readable" => c + Len(src.queue) = made
        /\ src.state = "closed" => c = made

\* The pump is the one reader, with one read out while it reads.
PumpReadsAlone ==
    /\ src.reader = IF pump.at = "none" THEN NoReader ELSE Pump
    /\ Outstanding(src) = pump.heard + (IF pump.at = "reading" THEN 1 ELSE 0)
    /\ pump.heard <= Len(src.answers)
    /\ pump.at = "none" => pump.heard = 0

\* What was heard is sent, in the channel, or in hand, each answer once.
OnTheWay(answers) ==
    LET chunksTo(n) == \A i \in 1..n : answers[i].what = Chunk(i)
        passed == Len(wire.got) + Len(channel)
    IN  /\ Len(channel) <= Capacity
        /\ \A i \in 1..Len(wire.got) : wire.got[i] = i /\ answers[i].what = Chunk(i)
        /\ \A j \in 1..Len(channel) : channel[j] = answers[Len(wire.got) + j].what
        /\ pump.at \in {"ready", "reading"} => passed = pump.heard /\ chunksTo(pump.heard)
        /\ pump.at = "sending" =>
              /\ passed + 1 = pump.heard /\ chunksTo(passed)
              /\ pump.hand = <<answers[pump.heard].what>> /\ answers[pump.heard].what # Done
        /\ pump.at = "ended" =>
              /\ pump.heard > 0 /\ chunksTo(pump.heard - 1)
              /\ \/ passed + 1 = pump.heard /\ answers[pump.heard].what = Done
                 \/ passed = pump.heard /\ answers[pump.heard].what = Failed

IInv ==
    /\ TypeOK /\ SourceInTurn /\ PumpReadsAlone /\ PumpStops
    /\ wire.at = "none" => pump.at = "none" /\ wire.got = <<>> /\ channel = <<>>
    /\ wire.at = "sending" => OnTheWay(src.answers)
    /\ wire.at = "complete" /\ pump.at # "none" =>
          src.state = "closed" /\ wire.got = [n \in 1..made |-> n]
=============================================================================
