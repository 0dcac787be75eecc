------------------------------ MODULE MCStreams ------------------------------
(***************************************************************************)
(* A readable stream, a writable one, a tee and the async iterator, each   *)
(* on an instance of its own: `subject' is the one a behaviour is about.   *)
(***************************************************************************)
EXTENDS ReadableStream, TLAPS

CONSTANTS   \* of WritableStream
    MaxWrites, MaxWriters, MaxFrames, WriteHighWaterMarks, WriteSizes, HandOver

VARIABLES subject, ws, starting, wrote, writers, asked, late, nested,
          s1, s2, s3, s4, s5, s6, s7, s8   \* of whichever of the others it is about

writableVars == <<ws, starting, wrote, writers, asked, late, nested>>
slots == <<s1, s2, s3, s4, s5, s6, s7, s8>>
allVars == <<subject, vars, writableVars, slots>>

W == INSTANCE WritableStream_proofs

T == INSTANCE Tee WITH
    MaxChunks <- 3, MaxReads <- 1, HighWaterMarks <- {0, 1},
    tee <- s1, made <- s2, issued <- s3, split <- s4

\* Four calls, so that one may overtake another.
It == INSTANCE AsyncIteration WITH
    MaxChunks <- 2, MaxCalls <- 4, s <- s1, iterable <- s2, calls <- s3, ongoing <- s4,
    finished <- s5, preventCancel <- s6, overtook <- s7, foreign <- s8

None == "none"

\* What a behaviour is not about stays in one initial state.
NoReadable == rs = NewReadable(0) /\ ~sizeFn /\ ~diligent
NoWritable == ws = W!NewWritable(0)
NoTee == s1 = None /\ s2 = None /\ s3 = None
NoIterator == s5 = None /\ s6 = None /\ s7 = None /\ s8 = None

MCInit ==
    /\ Init /\ W!Init
    /\ \/ subject = "readable" /\ NoWritable /\ NoTee /\ s4 = None /\ NoIterator
       \/ subject = "writable" /\ NoReadable /\ NoTee /\ s4 = None /\ NoIterator
       \/ subject = "tee" /\ NoReadable /\ NoWritable /\ T!Init /\ NoIterator
       \/ subject = "iterator" /\ NoReadable /\ NoWritable /\ It!Init

ReadableStep == subject = "readable" /\ Next /\ UNCHANGED <<subject, writableVars, slots>>
WritableStep == subject = "writable" /\ W!Next /\ UNCHANGED <<subject, vars, slots>>
Others == UNCHANGED <<subject, vars, writableVars>>
TeeStep == subject = "tee" /\ T!Next /\ Others /\ UNCHANGED <<s5, s6, s7, s8>>
IteratorStep == subject = "iterator" /\ It!Next /\ Others

MCNext == ReadableStep \/ WritableStep \/ TeeStep \/ IteratorStep

\* The fairness of each subject, asked only of the behaviours about it.
MCFairness ==
    /\ WF_vars(subject = "readable" /\ (StartFulfils \/ StartRejects))
    /\ WF_vars(subject = "readable" /\ SizeReturns)
    /\ WF_vars(subject = "readable" /\ PullReturns)
    /\ WF_vars(subject = "readable" /\ pull = "idle" /\ (EnqueueCall \/ CloseCall \/ ErrorCall))
    /\ WF_vars(subject = "readable" /\ (PullFulfils \/ PullRejects))
    /\ WF_writableVars(subject = "writable" /\ W!StartSettles)
    /\ WF_writableVars(subject = "writable" /\ W!WriteSettles)
    /\ WF_writableVars(subject = "writable" /\ W!CloseSettles)
    /\ WF_writableVars(subject = "writable" /\ W!AbortSettles)
    /\ WF_writableVars(subject = "writable" /\ (W!SizeReturns \/ W!ListenersReturn))

MCSpec == MCInit /\ [][MCNext]_allVars /\ MCFairness

-----------------------------------------------------------------------------
(* Properties of the others, stated in their modules *)

\* What the sink gets, and what is said of it (advance_queue_if_needed).
SinkIsServed == W!SinkIsServed

\* Writers learn of backpressure and of the end (update_backpressure).
WritersAreTold == W!WritersAreTold

\* What is read of one branch is what is read of the other, and the source serves both
\* (chunk_steps); the calls of an iterator share its one reader in order (next_steps).
SourceIsShared ==
    /\ subject = "iterator" => It!IterationIsOrderly
    /\ subject = "tee" => T!TeeIsFair

\* Reads, writes, closes and aborts are answered (call_pull_if_needed,
\* finish_erroring).
EveryCallIsAnswered ==
    /\ subject = "readable" => EveryReadIsAnswered
    /\ subject = "writable" => W!EveryCallSettles

-----------------------------------------------------------------------------
(* Proofs about ReadableStream, for any number of chunks, reads and        *)
(* readers, any strategy, and any depth to which size() calls the stream   *)
(* again; and, from those of WritableStream_proofs, about the writable     *)
(* stream beside it.                                                       *)
(*                                                                         *)
(* A readable stream is sound when its reads and its chunks are each in    *)
(* one place, known by number, when a reader's reads and its closed        *)
(* promise go with the state, and, unless size() is a script's, when       *)
(* chunks are in order and no read waits while one is queued.  Every       *)
(* operation of Readable keeps it so, whoever calls it.                    *)

States == {"readable", "closed", "errored"}
Promises == {"none", "pending", "fulfilled", "rejected"}
Whats == {Done, Failed} \union {Chunk(c) : c \in Chunks}
Answers == [to : Reads, what : Whats]
Entries == [chunk : Chunks, size : Sizes \union {1}]
Frames == [chunk : Chunks, reader : Readers \union {NoReader}]

Streams ==
    [state : States, disturbed : BOOLEAN, reader : Readers \union {NoReader}, closed : Promises,
     requests : Seq(Reads), answers : Seq(Answers),
     started : BOOLEAN, closeRequested : BOOLEAN, pulling : BOOLEAN, pullAgain : BOOLEAN,
     algorithms : BOOLEAN, queue : Seq(Entries), hwm : Nat, sizing : Seq(Frames)]

\* Reads up to the n-th wait or were answered, each once.
ReadsAreKept(r, n) ==
    /\ \A i \in DOMAIN r.requests : r.requests[i] <= n
    /\ \A i \in DOMAIN r.answers : r.answers[i].to <= n
    /\ \A i, j \in DOMAIN r.requests : r.requests[i] = r.requests[j] => i = j
    /\ \A i, j \in DOMAIN r.answers : r.answers[i].to = r.answers[j].to => i = j
    /\ \A i \in DOMAIN r.requests, j \in DOMAIN r.answers : r.requests[i] # r.answers[j].to

\* Chunks up to the m-th were handed out, are queued or are being sized, once.
ChunksAreKnown(r, m) ==
    /\ \A i \in Got(r) : r.answers[i].what.chunk <= m
    /\ \A i \in DOMAIN r.queue : r.queue[i].chunk <= m
    /\ \A i \in DOMAIN r.sizing : r.sizing[i].chunk <= m

ChunksAreOnce(r) ==
    /\ \A i, j \in Got(r) : r.answers[i].what.chunk = r.answers[j].what.chunk => i = j
    /\ \A i, j \in DOMAIN r.queue : r.queue[i].chunk = r.queue[j].chunk => i = j
    /\ \A i, j \in DOMAIN r.sizing : r.sizing[i].chunk = r.sizing[j].chunk => i = j

ChunksAreApart(r) ==
    /\ \A i \in Got(r), j \in DOMAIN r.queue : r.answers[i].what.chunk # r.queue[j].chunk
    /\ \A i \in Got(r), j \in DOMAIN r.sizing : r.answers[i].what.chunk # r.sizing[j].chunk
    /\ \A i \in DOMAIN r.queue, j \in DOMAIN r.sizing : r.queue[i].chunk # r.sizing[j].chunk

ChunksAreKept(r, m) == ChunksAreKnown(r, m) /\ ChunksAreOnce(r) /\ ChunksAreApart(r)

ReaderIsTold(r) ==
    /\ r.closed = IF Locked(r) THEN ClosedPromise(r.state) ELSE "none"
    /\ ~Locked(r) \/ r.state # "readable" => r.requests = <<>>
    /\ r.state = "readable" => r.algorithms

\* Chunks are handed out in order, before those in the queue.
ByTurn(r) ==
    /\ \A i, j \in Got(r) : i < j => r.answers[i].what.chunk < r.answers[j].what.chunk
    /\ \A i, j \in DOMAIN r.queue : i < j => r.queue[i].chunk < r.queue[j].chunk
    /\ \A i \in Got(r), j \in DOMAIN r.queue : r.answers[i].what.chunk < r.queue[j].chunk

\* To the reads in order, before those that wait.
ReadsInTurn(r) ==
    /\ \A i, j \in Got(r) : i < j => r.answers[i].to < r.answers[j].to
    /\ \A i, j \in DOMAIN r.requests : i < j => r.requests[i] < r.requests[j]
    /\ \A i \in Got(r), j \in DOMAIN r.requests : r.answers[i].to < r.requests[j]

\* Without a size() of the script's.
Unsized(r) ==
    /\ r.sizing = <<>> /\ (r.requests = <<>> \/ r.queue = <<>>)
    /\ ByTurn(r) /\ ReadsInTurn(r)

AllKept(r, m) == r.state = "readable" => \A c \in 1..m : IsKept(r, c)

Sound(r, m, n, f) ==
    /\ ReadsAreKept(r, n) /\ ChunksAreKept(r, m) /\ ReaderIsTold(r)
    /\ f \/ Unsized(r)

\* A pull that runs is known to be, and one that was fed while more was wanted
\* is followed by another.
WantsMore(r) == r.requests # <<>> \/ (r.sizing = <<>> /\ DesiredSize(r) > 0)
Demand(r) == CanCloseOrEnqueue(r) /\ r.started /\ WantsMore(r)
PullIsKnown ==
    /\ pull # "none" => rs.pulling
    /\ rs.pulling /\ rs.state = "readable" => pull # "none"
    /\ Demand(rs) => (pull = "fed" => rs.pullAgain) /\ (diligent => pull # "none")

Typed ==
    /\ rs \in Streams
    /\ start \in {"running", "done"} /\ pull \in {"none", "idle", "fed"}
    /\ made \in 0..MaxChunks /\ issued \in 0..MaxReads /\ readers \in 0..MaxReaders
    /\ lost \subseteq Reads
    /\ settling \in [read : Reads \union {0}, depth : Nat]
    /\ sizeFn \in BOOLEAN /\ diligent \in BOOLEAN

IInv ==
    /\ Typed
    /\ Sound(rs, made, issued, sizeFn)
    /\ sizeFn \/ AllKept(rs, made)
    /\ PullIsKnown

\* The answers `all' are those of `answers' and then one to each of `requests'.
Extended(all, answers, requests) ==
    /\ all \in Seq(Answers)
    /\ DOMAIN answers \subseteq DOMAIN all
    /\ \A i \in DOMAIN answers : all[i] = answers[i]
    /\ \A i \in DOMAIN all :
         \/ i \in DOMAIN answers
         \/ \E j \in DOMAIN requests :
               /\ i = Len(answers) + j
               /\ all[i].to = requests[j] /\ all[i].what.kind # "chunk"

\* Reads that are told the end are answered after those that were, none with a chunk.
LEMMA ToldExtends ==
    ASSUME NEW answers \in Seq(Answers), NEW requests \in Seq(Reads), NEW what \in {Done, Failed}
    PROVE  Extended(answers \o Told(requests, what), answers, requests)
<1> DEFINE told == Told(requests, what)
           all == answers \o told
<1>1. \A i \in DOMAIN requests : [to |-> requests[i], what |-> what] \in Answers
  BY DEF Answers, Whats
<1>2. told \in Seq(Answers) /\ Len(told) = Len(requests)
  BY <1>1 DEF Told
<1>3. \A i \in 1..Len(requests) : told[i].to = requests[i] /\ told[i].what = what
  BY DEF Told
<1>4. what.kind # "chunk"
  BY DEF Done, Failed
<1> HIDE DEF told
<1>5. all \in Seq(Answers) /\ Len(all) = Len(answers) + Len(told)
  BY <1>2
<1>6. \A i \in 1..Len(answers) : all[i] = answers[i]
  BY <1>2
<1>7. \A i \in 1..Len(told) : all[Len(answers) + i] = told[i]
  BY <1>2
<1> HIDE DEF all
<1>8. /\ DOMAIN answers = 1..Len(answers) /\ DOMAIN all = 1..Len(all) /\ DOMAIN requests = 1..Len(requests)
      /\ Len(answers) \in Nat /\ Len(requests) \in Nat
  BY <1>5
<1>9. ASSUME NEW i \in DOMAIN all, i \notin DOMAIN answers
      PROVE  \E j \in DOMAIN requests :
                 i = Len(answers) + j /\ all[i].to = requests[j] /\ all[i].what.kind # "chunk"
  <2> DEFINE j == i - Len(answers)
  <2>1. j \in 1..Len(requests) /\ i = Len(answers) + j
    BY <1>2, <1>5, <1>8, <1>9
  <2> HIDE DEF j
  <2>2. all[i] = told[j] /\ told[j].to = requests[j] /\ told[j].what = what
    BY <1>2, <1>3, <1>7, <2>1
  <2> QED
    BY <1>4, <1>8, <2>1, <2>2
<1>10. DOMAIN answers \subseteq DOMAIN all
  BY <1>2, <1>5, <1>8
<1> QED
  BY <1>5, <1>6, <1>8, <1>9, <1>10 DEF Extended, all, told

\* An answer that hands out a chunk hands out one of the source's.
LEMMA GotChunks ==
    ASSUME NEW r \in Streams, NEW i \in Got(r)
    PROVE  /\ r.answers[i].what = Chunk(r.answers[i].what.chunk)
           /\ r.answers[i].what.chunk \in Chunks
<1>1. r.answers[i] \in Answers /\ r.answers[i].what.kind = "chunk"
  BY DEF Streams, Got
<1>2. Done.kind # "chunk" /\ Failed.kind # "chunk"
  BY DEF Done, Failed
<1>3. PICK c \in Chunks : r.answers[i].what = Chunk(c)
  BY <1>1, <1>2 DEF Answers, Whats
<1> QED
  BY <1>3 DEF Chunk

\* The chunks of a stream, wherever they are.
LEMMA ChunksAreNumbers ==
    ASSUME NEW r \in Streams
    PROVE  /\ \A i \in Got(r) : r.answers[i].what.chunk \in Nat
           /\ \A i \in DOMAIN r.queue : r.queue[i].chunk \in Nat
           /\ \A i \in DOMAIN r.sizing : r.sizing[i].chunk \in Nat
<1>1. \A c \in Chunks : c \in Nat
  BY BoundsAssumption DEF Chunks
<1>2. r.queue \in Seq(Entries) /\ r.sizing \in Seq(Frames)
  BY DEF Streams
<1>3. \A i \in DOMAIN r.queue : r.queue[i] \in Entries
  BY <1>2
<1>4. \A i \in DOMAIN r.sizing : r.sizing[i] \in Frames
  BY <1>2
<1> QED
  BY <1>1, <1>3, <1>4, GotChunks DEF Entries, Frames

\* What calling pull() changes of a stream.
SameData(r, s) ==
    /\ s.state = r.state /\ s.reader = r.reader /\ s.closed = r.closed
    /\ s.requests = r.requests /\ s.answers = r.answers
    /\ s.started = r.started /\ s.closeRequested = r.closeRequested
    /\ s.algorithms = r.algorithms /\ s.queue = r.queue /\ s.hwm = r.hwm /\ s.sizing = r.sizing

\* None of it matters to what is kept.
LEMMA SameDataIsSound ==
    ASSUME NEW r, NEW s, SameData(r, s), NEW m, NEW n, NEW f
    PROVE  /\ Sound(r, m, n, f) => Sound(s, m, n, f)
           /\ AllKept(r, m) => AllKept(s, m)
           /\ CanCloseOrEnqueue(s) <=> CanCloseOrEnqueue(r)
           /\ WantsMore(s) <=> WantsMore(r)
<1> USE DEF SameData
<1>1. Got(s) = Got(r)
  BY DEF Got
<1>2. AllKept(r, m) => AllKept(s, m)
  BY <1>1 DEF AllKept, IsKept
<1>3. CanCloseOrEnqueue(s) <=> CanCloseOrEnqueue(r)
  BY DEF CanCloseOrEnqueue
<1>4. WantsMore(s) <=> WantsMore(r)
  BY DEF WantsMore, DesiredSize
<1>5. (ByTurn(r) => ByTurn(s)) /\ (ReadsInTurn(r) => ReadsInTurn(s))
  BY <1>1 DEF ByTurn, ReadsInTurn
<1>6. ReadsAreKept(r, n) => ReadsAreKept(s, n)
  BY DEF ReadsAreKept
<1>7. ChunksAreKept(r, m) => ChunksAreKept(s, m)
  BY <1>1 DEF ChunksAreKept, ChunksAreKnown, ChunksAreOnce, ChunksAreApart
<1> QED
  BY <1>2, <1>3, <1>4, <1>5, <1>6, <1>7 DEF Sound, Unsized, ReaderIsTold, Locked

\* Where pull() is due it is called, or noted for the end of the pull that runs.
LEMMA CallPullWith_Pulls ==
    ASSUME NEW r \in Streams, NEW requests
    PROVE  LET s == CallPullWith(r, requests)
           IN  /\ s \in Streams
               /\ SameData(r, s)
               /\ s.pulling <=> r.pulling \/ ShouldCallPull(r, requests)
               /\ s.pullAgain <=> r.pullAgain \/ (r.pulling /\ ShouldCallPull(r, requests))
<1> DEFINE s == CallPullWith(r, requests)
<1>1. CASE ~ShouldCallPull(r, requests)
  <2>1. s = r
    BY <1>1 DEF CallPullWith
  <2> QED
    BY <1>1, <2>1 DEF SameData
<1>2. CASE ShouldCallPull(r, requests) /\ r.pulling
  <2>1. s = [r EXCEPT !.pullAgain = TRUE]
    BY <1>2 DEF CallPullWith
  <2> QED
    BY <1>2, <2>1 DEF SameData, Streams
<1>3. CASE ShouldCallPull(r, requests) /\ ~r.pulling
  <2>1. s = [r EXCEPT !.pulling = TRUE]
    BY <1>3 DEF CallPullWith
  <2> QED
    BY <1>3, <2>1 DEF SameData, Streams
<1> QED
  BY <1>1, <1>2, <1>3

\* What the end of a stream changes of it.
Ended(r, s) ==
    /\ r.state = "readable" /\ s.reader = r.reader /\ s.sizing = r.sizing
    /\ \/ s.state = "closed" /\ s.closed = IF r.closed = "pending" THEN "fulfilled" ELSE r.closed
       \/ s.state = "errored" /\ s.closed = IF r.closed = "pending" THEN "rejected" ELSE r.closed
    /\ Extended(s.answers, r.answers, r.requests)
    /\ s.requests = <<>>
    /\ s.queue = <<>> \/ s.queue = r.queue

\* A stream that ends answers the reads it holds.
LEMMA EndIsSound ==
    ASSUME NEW r \in Streams, NEW s \in Streams, NEW m, NEW n, NEW f \in BOOLEAN,
           Sound(r, m, n, f), Ended(r, s)
    PROVE  /\ Sound(s, m, n, f)
           /\ Got(s) = Got(r) /\ \A i \in Got(r) : s.answers[i] = r.answers[i]
<1>1. Got(s) = Got(r)
  BY DEF Got, Ended, Extended
<1>2. \A i \in Got(r) : s.answers[i] = r.answers[i]
  BY DEF Got, Ended, Extended
<1>3. DOMAIN <<>> = {}
  OBVIOUS
<1>4. DOMAIN s.queue \subseteq DOMAIN r.queue /\ \A i \in DOMAIN s.queue : s.queue[i] = r.queue[i]
  BY <1>3 DEF Ended
<1>5. DOMAIN s.requests = {}
  BY <1>3 DEF Ended
<1>6. ReadsAreKept(s, n)
  <2>1. ReadsAreKept(r, n)
    BY DEF Sound
  <2>2. ASSUME NEW i \in DOMAIN s.answers
        PROVE  \/ i \in DOMAIN r.answers /\ s.answers[i] = r.answers[i]
               \/ \E q \in DOMAIN r.requests : i = Len(r.answers) + q /\ s.answers[i].to = r.requests[q]
    BY DEF Ended, Extended
  <2>3. \A i \in DOMAIN s.answers : s.answers[i].to <= n
    BY <2>1, <2>2 DEF ReadsAreKept
  <2>4. ASSUME NEW i \in DOMAIN s.answers, NEW j \in DOMAIN s.answers, s.answers[i].to = s.answers[j].to
        PROVE  i = j
    BY <2>1, <2>2, <2>4 DEF ReadsAreKept
  <2> QED
    BY <2>3, <2>4, <1>5 DEF ReadsAreKept
<1>7. ChunksAreKept(s, m)
  <2>1. ChunksAreKept(r, m) /\ s.sizing = r.sizing
    BY DEF Sound, Ended
  <2>2. ChunksAreKnown(s, m) /\ ChunksAreOnce(s)
    BY <1>1, <1>2, <1>4, <2>1 DEF ChunksAreKept, ChunksAreKnown, ChunksAreOnce
  <2>3. ChunksAreApart(s)
    BY <1>1, <1>2, <1>4, <2>1 DEF ChunksAreKept, ChunksAreApart
  <2> QED
    BY <2>2, <2>3 DEF ChunksAreKept
<1>8. ReaderIsTold(s)
  BY DEF ReaderIsTold, Sound, Locked, ClosedPromise, Ended
<1>9. f \/ Unsized(s)
  <2>1. f \/ Unsized(r)
    BY DEF Sound
  <2>2. ByTurn(r) => ByTurn(s)
    BY <1>1, <1>2, <1>4 DEF ByTurn
  <2>3. ReadsInTurn(r) => ReadsInTurn(s)
    BY <1>1, <1>2, <1>5 DEF ReadsInTurn
  <2> QED
    BY <2>1, <2>2, <2>3 DEF Unsized, Ended
<1> QED
  BY <1>1, <1>2, <1>6, <1>7, <1>8, <1>9 DEF Sound

\* The sequence `all' is `s' with e at its end.
Grown(all, s, e) ==
    /\ DOMAIN all = DOMAIN s \union {Len(s) + 1}
    /\ \A i \in DOMAIN s : all[i] = s[i] /\ i < Len(s) + 1
    /\ all[Len(s) + 1] = e

\* The sequence `rest' is `s' without its first element.
Shifted(rest, s) ==
    /\ \A i \in DOMAIN rest : i \in Nat /\ i + 1 \in DOMAIN s /\ rest[i] = s[i + 1] /\ i >= 1
    /\ \A i \in DOMAIN s : i = 1 \/ (i - 1 \in DOMAIN rest /\ rest[i - 1] = s[i])
    /\ 1 \in DOMAIN s /\ Head(s) = s[1]

\* The sequence `front' is `s' without its last element.
Cut(front, s) ==
    /\ Len(s) \in DOMAIN s
    /\ DOMAIN front = DOMAIN s \ {Len(s)}
    /\ \A i \in DOMAIN front : front[i] = s[i]

\* The ends of a sequence.
LEMMA SequenceSteps ==
    ASSUME NEW S, NEW s \in Seq(S)
    PROVE  /\ \A e \in S : Append(s, e) \in Seq(S) /\ Grown(Append(s, e), s, e) /\ Append(s, e) # <<>>
           /\ s # <<>> => /\ Tail(s) \in Seq(S) /\ Shifted(Tail(s), s) /\ Head(s) \in S
                          /\ Front(s) \in Seq(S) /\ Cut(Front(s), s) /\ Last(s) \in S
           /\ \A e \in S : Front(Append(s, e)) = s /\ Last(Append(s, e)) = e
           /\ s = <<>> <=> DOMAIN s = {}
<1>1. \A e \in S : Append(s, e) \in Seq(S) /\ Grown(Append(s, e), s, e) /\ Append(s, e) # <<>>
  BY DEF Grown
<1>2. ASSUME s # <<>>
      PROVE  Tail(s) \in Seq(S) /\ Shifted(Tail(s), s) /\ Head(s) \in S
  <2>1. Tail(s) \in Seq(S) /\ Len(Tail(s)) = Len(s) - 1 /\ Len(s) \in Nat /\ Len(s) >= 1
    BY <1>2
  <2>2. \A i \in 1..Len(Tail(s)) : Tail(s)[i] = s[i + 1]
    BY <1>2
  <2> QED
    BY <2>1, <2>2, <1>2 DEF Shifted
<1>3. ASSUME s # <<>>
      PROVE  Front(s) \in Seq(S) /\ Cut(Front(s), s) /\ Last(s) \in S
  BY <1>3 DEF Cut, Front, Last
<1>4. ASSUME NEW e \in S PROVE Front(Append(s, e)) = s /\ Last(Append(s, e)) = e
  <2>1. Append(s, e) \in Seq(S) /\ Len(Append(s, e)) = Len(s) + 1
    OBVIOUS
  <2>2. Len(Front(Append(s, e))) = Len(s) /\ Front(Append(s, e)) \in Seq(S)
    BY <2>1 DEF Front
  <2>3. \A i \in 1..Len(s) : Front(Append(s, e))[i] = s[i]
    BY <2>1 DEF Front
  <2> QED
    BY <2>1, <2>2, <2>3 DEF Last
<1> QED
  BY <1>1, <1>2, <1>3, <1>4

\* A chunk not seen yet, handed to the first read that waits.
LEMMA FulfillIsSound ==
    ASSUME NEW r \in Streams, NEW m \in Nat, NEW n \in Nat, NEW f \in BOOLEAN,
           Sound(r, m, n, f), r.requests # <<>>, m + 1 \in Chunks
    PROVE  LET s == FulfillReadRequest(r, m + 1)
           IN  /\ s \in Streams /\ Sound(s, m + 1, n, f)
               /\ f \/ (AllKept(r, m) => AllKept(s, m + 1))
               /\ s.state = r.state /\ s.pulling = r.pulling /\ s.pullAgain = r.pullAgain
               /\ s.started = r.started /\ s.closeRequested = r.closeRequested
<1> DEFINE new == [to |-> Head(r.requests), what |-> Chunk(m + 1)]
           s == FulfillReadRequest(r, m + 1)
<1>1. r.requests \in Seq(Reads) /\ r.answers \in Seq(Answers)
  BY DEF Streams
<1>2. Shifted(Tail(r.requests), r.requests) /\ Tail(r.requests) \in Seq(Reads) /\ Head(r.requests) \in Reads
  BY <1>1, SequenceSteps
<1>3. new \in Answers /\ new.to = r.requests[1] /\ new.what.kind = "chunk" /\ new.what.chunk = m + 1
  BY <1>2 DEF Answers, Whats, Chunk, Shifted
<1>4. Append(r.answers, new) \in Seq(Answers) /\ Grown(Append(r.answers, new), r.answers, new)
  BY <1>1, <1>3, SequenceSteps
<1>5. s = [r EXCEPT !.answers = Append(r.answers, new), !.requests = Tail(r.requests)]
  BY DEF FulfillReadRequest
<1>6. /\ s \in Streams
      /\ s.state = r.state /\ s.pulling = r.pulling /\ s.pullAgain = r.pullAgain
      /\ s.started = r.started /\ s.closeRequested = r.closeRequested
      /\ s.queue = r.queue /\ s.sizing = r.sizing /\ s.reader = r.reader /\ s.closed = r.closed
      /\ s.algorithms = r.algorithms
  BY <1>2, <1>4, <1>5 DEF Streams
<1>7. Grown(s.answers, r.answers, new) /\ Shifted(s.requests, r.requests)
  BY <1>2, <1>4, <1>5 DEF Streams
<1> HIDE DEF new, s
<1>8. /\ Got(s) = Got(r) \union {Len(r.answers) + 1}
      /\ \A i \in Got(r) : s.answers[i] = r.answers[i] /\ i < Len(r.answers) + 1
      /\ s.answers[Len(r.answers) + 1].what.chunk = m + 1
  BY <1>3, <1>7 DEF Got, Grown
<1>9. ReadsAreKept(s, n)
  <2>1. ReadsAreKept(r, n)
    BY DEF Sound
  <2>2. /\ \A i \in DOMAIN s.requests : s.requests[i] <= n
        /\ \A i \in DOMAIN s.answers : s.answers[i].to <= n
    BY <1>3, <1>7, <2>1 DEF ReadsAreKept, Grown, Shifted
  <2>3. \A i, j \in DOMAIN s.requests : s.requests[i] = s.requests[j] => i = j
    BY <1>3, <1>7, <2>1 DEF ReadsAreKept, Shifted
  <2>4. \A i, j \in DOMAIN s.answers : s.answers[i].to = s.answers[j].to => i = j
    BY <1>3, <1>7, <2>1 DEF ReadsAreKept, Grown, Shifted
  <2>5. \A i \in DOMAIN s.requests, j \in DOMAIN s.answers : s.requests[i] # s.answers[j].to
    BY <1>3, <1>7, <2>1 DEF ReadsAreKept, Grown, Shifted
  <2> QED
    BY <2>2, <2>3, <2>4, <2>5 DEF ReadsAreKept
<1>10. ChunksAreKept(s, m + 1)
  <2>1. ChunksAreKnown(r, m) /\ ChunksAreOnce(r) /\ ChunksAreApart(r)
    BY DEF Sound, ChunksAreKept
  <2>2. ChunksAreKnown(s, m + 1)
    BY <1>6, <1>8, ChunksAreNumbers, <2>1 DEF ChunksAreKnown
  <2>3. ChunksAreOnce(s)
    <3>1. \A i \in Got(r) : s.answers[i].what.chunk # m + 1
      BY <1>8, ChunksAreNumbers, <2>1 DEF ChunksAreKnown
    <3> QED
      BY <1>6, <1>8, <2>1, <3>1 DEF ChunksAreOnce
  <2>4. ChunksAreApart(s)
    <3>1. /\ \A i \in DOMAIN r.queue : r.queue[i].chunk # m + 1
          /\ \A i \in DOMAIN r.sizing : r.sizing[i].chunk # m + 1
      BY ChunksAreNumbers, <2>1 DEF ChunksAreKnown
    <3> QED
      BY <1>6, <1>8, <2>1, <3>1 DEF ChunksAreApart
  <2> QED
    BY <2>2, <2>3, <2>4 DEF ChunksAreKept
<1>11. ReaderIsTold(s)
  <2>1. ReaderIsTold(r)
    BY DEF Sound
  <2>2. Locked(r) /\ r.state = "readable"
    BY <2>1 DEF ReaderIsTold
  <2> QED
    BY <1>6, <2>1, <2>2 DEF ReaderIsTold, Locked
<1>12. f \/ Unsized(s)
  <2> SUFFICES ASSUME ~f PROVE Unsized(s)
    OBVIOUS
  <2>1. Unsized(r) /\ r.queue = <<>> /\ DOMAIN r.queue = {}
    BY DEF Sound, Unsized
  <2>2. ByTurn(s)
    <3>1. \A i \in Got(r) : r.answers[i].what.chunk <= m /\ r.answers[i].what.chunk \in Nat
      BY ChunksAreNumbers DEF Sound, ChunksAreKept, ChunksAreKnown
    <3>2. ByTurn(r)
      BY <2>1 DEF Unsized
    <3>3. ASSUME NEW i \in Got(s), NEW j \in Got(s), i < j
          PROVE  s.answers[i].what.chunk < s.answers[j].what.chunk
      <4>1. i \in Got(r)
        BY <1>8, <3>3, <1>1 DEF Got
      <4> QED
        BY <1>8, <3>1, <3>2, <3>3, <4>1, SMTT(30) DEF ByTurn
    <3> QED
      BY <1>6, <2>1, <3>3 DEF ByTurn
  <2>3. ReadsInTurn(s)
    <3>1. ReadsInTurn(r)
      BY <2>1 DEF Unsized
    <3>2. ASSUME NEW i \in Got(s), NEW j \in Got(s), i < j
          PROVE  s.answers[i].to < s.answers[j].to
      <4>1. i \in Got(r)
        BY <1>8, <3>2, <1>1 DEF Got
      <4>2. CASE j \in Got(r)
        BY <1>8, <3>1, <3>2, <4>1, <4>2 DEF ReadsInTurn
      <4>3. CASE j = Len(r.answers) + 1
        BY <1>3, <1>7, <1>8, <3>1, <4>1, <4>3 DEF ReadsInTurn, Grown, Shifted
      <4> QED
        BY <1>8, <4>2, <4>3
    <3>3. ASSUME NEW i \in DOMAIN s.requests, NEW j \in DOMAIN s.requests, i < j
          PROVE  s.requests[i] < s.requests[j]
      BY <1>7, <3>1, <3>3 DEF ReadsInTurn, Shifted
    <3>4. ASSUME NEW i \in Got(s), NEW j \in DOMAIN s.requests
          PROVE  s.answers[i].to < s.requests[j]
      <4>1. CASE i \in Got(r)
        BY <1>7, <1>8, <3>1, <4>1 DEF ReadsInTurn, Shifted
      <4>2. CASE i = Len(r.answers) + 1
        <5>1. j \in Nat /\ j >= 1 /\ 1 < j + 1 /\ j + 1 \in DOMAIN r.requests /\ 1 \in DOMAIN r.requests
          BY <1>7 DEF Shifted
        <5>2. r.requests[1] < r.requests[j + 1]
          BY <3>1, <5>1 DEF ReadsInTurn
        <5> QED
          BY <1>3, <1>7, <4>2, <5>2 DEF Grown, Shifted
      <4> QED
        BY <1>8, <4>1, <4>2
    <3> QED
      BY <3>2, <3>3, <3>4 DEF ReadsInTurn
  <2> QED
    BY <1>6, <2>1, <2>2, <2>3 DEF Unsized
<1>13. f \/ (AllKept(r, m) => AllKept(s, m + 1))
  <2> SUFFICES ASSUME AllKept(r, m), s.state = "readable", NEW c \in 1..(m + 1)
               PROVE  IsKept(s, c)
    BY DEF AllKept
  <2>1. CASE c = m + 1
    BY <1>8, <2>1 DEF IsKept
  <2>2. CASE c \in 1..m
    BY <1>6, <1>8, <2>2 DEF AllKept, IsKept
  <2> QED
    BY <2>1, <2>2
<1> QED
  BY <1>6, <1>9, <1>10, <1>11, <1>12, <1>13 DEF Sound, s

\* A chunk up to the m-th that is nowhere in the stream, and in order may go next, where
\* no read waits for it.
Fresh(r, c, m, f) ==
    /\ c \in Nat /\ c <= m
    /\ \A i \in Got(r) : r.answers[i].what.chunk # c
    /\ \A i \in DOMAIN r.queue : r.queue[i].chunk # c
    /\ \A i \in DOMAIN r.sizing : r.sizing[i].chunk # c
    /\ f \/ /\ r.requests = <<>>
            /\ \A i \in Got(r) : r.answers[i].what.chunk < c
            /\ \A i \in DOMAIN r.queue : c < r.queue[i].chunk

WithAnswer(r, read, what) == [r EXCEPT !.answers = Append(@, [to |-> read, what |-> what])]

\* A read that is answered at once.
LEMMA AnswerIsSound ==
    ASSUME NEW r \in Streams, NEW m \in Nat, NEW n \in Nat, NEW f \in BOOLEAN,
           Sound(r, m, n, f), n + 1 \in Reads, NEW what \in Whats,
           what.kind = "chunk" => Fresh(r, what.chunk, m, f)
    PROVE  LET s == WithAnswer(r, n + 1, what)
           IN  /\ s \in Streams /\ Sound(s, m, n + 1, f)
               /\ \A c : IsKept(r, c) => IsKept(s, c)
               /\ what.kind = "chunk" => IsKept(s, what.chunk)
               /\ s.state = r.state /\ s.pulling = r.pulling /\ s.pullAgain = r.pullAgain
               /\ s.started = r.started /\ s.closeRequested = r.closeRequested
               /\ s.requests = r.requests /\ s.sizing = r.sizing /\ s.hwm = r.hwm /\ s.queue = r.queue
<1> DEFINE new == [to |-> n + 1, what |-> what]
           s == [r EXCEPT !.answers = Append(@, [to |-> n + 1, what |-> what])]
<1>1. r.answers \in Seq(Answers) /\ new \in Answers /\ new.to = n + 1 /\ new.what = what
  BY DEF Streams, Answers
<1>2. Append(r.answers, new) \in Seq(Answers) /\ Grown(Append(r.answers, new), r.answers, new)
  BY <1>1, SequenceSteps
<1>3. /\ s \in Streams
      /\ s.state = r.state /\ s.pulling = r.pulling /\ s.pullAgain = r.pullAgain
      /\ s.started = r.started /\ s.closeRequested = r.closeRequested
      /\ s.queue = r.queue /\ s.sizing = r.sizing /\ s.reader = r.reader /\ s.closed = r.closed
      /\ s.algorithms = r.algorithms /\ s.requests = r.requests /\ s.hwm = r.hwm
  BY <1>2 DEF Streams
<1>4. Grown(s.answers, r.answers, new)
  BY <1>2 DEF Streams
<1> HIDE DEF new, s
<1>5. /\ Got(s) = IF what.kind = "chunk" THEN Got(r) \union {Len(r.answers) + 1} ELSE Got(r)
      /\ \A i \in Got(r) : s.answers[i] = r.answers[i] /\ i < Len(r.answers) + 1
      /\ s.answers[Len(r.answers) + 1].what = what
  BY <1>1, <1>4 DEF Got, Grown
<1>6. ReadsAreKept(s, n + 1)
  <2>1. ReadsAreKept(r, n)
    BY DEF Sound
  <2>2. /\ \A i \in DOMAIN r.requests : r.requests[i] \in Nat
        /\ \A i \in DOMAIN r.answers : r.answers[i].to \in Nat
    <3>1. Reads \subseteq Nat
      BY BoundsAssumption DEF Reads
    <3>2. r.requests \in Seq(Reads)
      BY DEF Streams
    <3>3. \A i \in DOMAIN r.requests : r.requests[i] \in Reads
      BY <3>2
    <3>4. \A i \in DOMAIN r.answers : r.answers[i] \in Answers
      BY <1>1
    <3> QED
      BY <3>1, <3>3, <3>4 DEF Answers
  <2>3. /\ \A i \in DOMAIN r.requests : r.requests[i] <= n /\ r.requests[i] # n + 1
        /\ \A i \in DOMAIN r.answers : r.answers[i].to <= n /\ r.answers[i].to # n + 1
    BY <2>1, <2>2 DEF ReadsAreKept
  <2>4. /\ \A i \in DOMAIN s.requests : s.requests[i] <= n + 1
        /\ \A i \in DOMAIN s.answers : s.answers[i].to <= n + 1
    BY <1>1, <1>3, <1>4, <2>2, <2>3 DEF Grown
  <2>5. \A i, j \in DOMAIN s.answers : s.answers[i].to = s.answers[j].to => i = j
    BY <1>1, <1>4, <2>1, <2>3 DEF ReadsAreKept, Grown
  <2>6. \A i \in DOMAIN s.requests, j \in DOMAIN s.answers : s.requests[i] # s.answers[j].to
    BY <1>1, <1>3, <1>4, <2>1, <2>3 DEF ReadsAreKept, Grown
  <2> QED
    BY <1>3, <2>1, <2>4, <2>5, <2>6 DEF ReadsAreKept
<1>7. ChunksAreKept(s, m)
  <2>1. ChunksAreKnown(r, m) /\ ChunksAreOnce(r) /\ ChunksAreApart(r)
    BY DEF Sound, ChunksAreKept
  <2>2. ChunksAreKnown(s, m)
    BY <1>3, <1>5, <2>1 DEF ChunksAreKnown, Fresh
  <2>3. ChunksAreOnce(s)
    <3>1. CASE what.kind = "chunk"
      <4>1. \A i \in Got(r) : r.answers[i].what.chunk # what.chunk
        BY <3>1 DEF Fresh
      <4> QED
        BY <1>3, <1>5, <2>1, <3>1, <4>1, SMTT(30) DEF ChunksAreOnce
    <3>2. CASE what.kind # "chunk"
      BY <1>3, <1>5, <2>1, <3>2 DEF ChunksAreOnce
    <3> QED
      BY <3>1, <3>2
  <2>4. ChunksAreApart(s)
    BY <1>3, <1>5, <2>1 DEF ChunksAreApart, Fresh
  <2> QED
    BY <2>2, <2>3, <2>4 DEF ChunksAreKept
<1>8. ReaderIsTold(s)
  BY <1>3 DEF Sound, ReaderIsTold, Locked
<1>9. f \/ Unsized(s)
  <2> SUFFICES ASSUME ~f PROVE Unsized(s)
    OBVIOUS
  <2>1. Unsized(r) /\ ByTurn(r)
    BY DEF Sound, Unsized
  <2>2. ASSUME NEW i \in Got(s), NEW j \in Got(s), i < j
        PROVE  s.answers[i].what.chunk < s.answers[j].what.chunk
    <3>1. i \in Got(r)
      BY <1>1, <1>5, <2>2 DEF Got
    <3> QED
      BY <1>5, <2>1, <2>2, <3>1 DEF ByTurn, Fresh
  <2>3. ByTurn(s)
    BY <1>3, <1>5, <2>1, <2>2 DEF ByTurn, Fresh
  <2>4. ReadsInTurn(s)
    <3>1. ReadsInTurn(r) /\ DOMAIN <<>> = {}
      BY <2>1 DEF Unsized
    <3>2. \A i \in Got(r) : r.answers[i].to \in Nat /\ r.answers[i].to < n + 1
      <4>1. \A i \in DOMAIN r.answers : r.answers[i] \in Answers
        BY <1>1
      <4>2. Reads \subseteq Nat
        BY BoundsAssumption DEF Reads
      <4>3. \A i \in DOMAIN r.answers : r.answers[i].to \in Nat /\ r.answers[i].to <= n
        BY <4>1, <4>2 DEF Sound, ReadsAreKept, Answers
      <4> QED
        BY <4>3 DEF Got
    <3>3. CASE what.kind # "chunk"
      BY <1>3, <1>5, <3>1, <3>3 DEF ReadsInTurn
    <3>4. CASE what.kind = "chunk"
      <4>1. s.requests = <<>>
        BY <1>3, <3>4 DEF Fresh
      <4>2. ASSUME NEW i \in Got(s), NEW j \in Got(s), i < j
            PROVE  s.answers[i].to < s.answers[j].to
        <5>1. i \in Got(r)
          BY <1>1, <1>5, <4>2 DEF Got
        <5>2. CASE j \in Got(r)
          BY <1>5, <3>1, <4>2, <5>1, <5>2 DEF ReadsInTurn
        <5>3. CASE j = Len(r.answers) + 1
          BY <1>1, <1>4, <1>5, <3>2, <5>1, <5>3 DEF Grown
        <5> QED
          BY <1>5, <3>4, <5>2, <5>3
      <4> QED
        BY <3>1, <4>1, <4>2 DEF ReadsInTurn
    <3> QED
      BY <3>3, <3>4
  <2> QED
    BY <1>3, <2>1, <2>3, <2>4 DEF Unsized
<1>10. \A c : IsKept(r, c) => IsKept(s, c)
  BY <1>3, <1>5 DEF IsKept
<1>11. what.kind = "chunk" => IsKept(s, what.chunk)
  BY <1>5 DEF IsKept
<1> QED
  BY <1>3, <1>6, <1>7, <1>8, <1>9, <1>10, <1>11 DEF Sound, s, WithAnswer

WithRequest(r, read) == [r EXCEPT !.requests = Append(@, read)]

\* A read that waits.
LEMMA WaitIsSound ==
    ASSUME NEW r \in Streams, NEW m \in Nat, NEW n \in Nat, NEW f \in BOOLEAN,
           Sound(r, m, n, f), n + 1 \in Reads, r.queue = <<>>, Locked(r), r.state = "readable"
    PROVE  LET s == WithRequest(r, n + 1)
           IN  /\ s \in Streams /\ Sound(s, m, n + 1, f)
               /\ AllKept(r, m) => AllKept(s, m)
               /\ s.state = r.state /\ s.pulling = r.pulling /\ s.pullAgain = r.pullAgain
               /\ s.requests # <<>> /\ s.started = r.started /\ s.closeRequested = r.closeRequested
<1> DEFINE s == [r EXCEPT !.requests = Append(@, n + 1)]
<1>1. r.requests \in Seq(Reads) /\ r.answers \in Seq(Answers)
  BY DEF Streams
<1>2. Append(r.requests, n + 1) \in Seq(Reads) /\ Grown(Append(r.requests, n + 1), r.requests, n + 1)
      /\ Append(r.requests, n + 1) # <<>>
  BY <1>1, SequenceSteps, ZenonT(30)
<1>3. /\ s \in Streams
      /\ s.state = r.state /\ s.pulling = r.pulling /\ s.pullAgain = r.pullAgain
      /\ s.queue = r.queue /\ s.sizing = r.sizing /\ s.reader = r.reader /\ s.closed = r.closed
      /\ s.started = r.started /\ s.closeRequested = r.closeRequested
      /\ s.algorithms = r.algorithms /\ s.answers = r.answers /\ s.requests # <<>>
  BY <1>2 DEF Streams
<1>4. Grown(s.requests, r.requests, n + 1)
  BY <1>2 DEF Streams
<1> HIDE DEF s
<1>5. Got(s) = Got(r)
  BY <1>3 DEF Got
<1>6. ReadsAreKept(s, n + 1)
  <2>1. ReadsAreKept(r, n)
    BY DEF Sound
  <2>2. /\ \A i \in DOMAIN r.requests : r.requests[i] \in Nat
        /\ \A i \in DOMAIN r.answers : r.answers[i].to \in Nat
    <3>1. Reads \subseteq Nat
      BY BoundsAssumption DEF Reads
    <3>2. \A i \in DOMAIN r.requests : r.requests[i] \in Reads
      BY <1>1
    <3>3. \A i \in DOMAIN r.answers : r.answers[i] \in Answers
      BY <1>1
    <3> QED
      BY <3>1, <3>2, <3>3 DEF Answers
  <2>3. /\ \A i \in DOMAIN r.requests : r.requests[i] <= n /\ r.requests[i] # n + 1
        /\ \A i \in DOMAIN r.answers : r.answers[i].to <= n /\ r.answers[i].to # n + 1
    BY <2>1, <2>2 DEF ReadsAreKept
  <2>4. /\ \A i \in DOMAIN s.requests : s.requests[i] <= n + 1
        /\ \A i \in DOMAIN s.answers : s.answers[i].to <= n + 1
    BY <1>3, <1>4, <2>2, <2>3 DEF Grown
  <2>5. \A i, j \in DOMAIN s.requests : s.requests[i] = s.requests[j] => i = j
    BY <1>4, <2>1, <2>3 DEF ReadsAreKept, Grown
  <2>6. \A i \in DOMAIN s.requests, j \in DOMAIN s.answers : s.requests[i] # s.answers[j].to
    BY <1>3, <1>4, <2>1, <2>3 DEF ReadsAreKept, Grown
  <2> QED
    BY <1>3, <2>1, <2>4, <2>5, <2>6 DEF ReadsAreKept
<1>7. ChunksAreKept(s, m)
  BY <1>3, <1>5 DEF Sound, ChunksAreKept, ChunksAreKnown, ChunksAreOnce, ChunksAreApart
<1>8. ReaderIsTold(s)
  BY <1>3 DEF Sound, ReaderIsTold, Locked
<1>9. f \/ Unsized(s)
  <2> SUFFICES ASSUME ~f PROVE Unsized(s)
    OBVIOUS
  <2>1. Unsized(r) /\ ReadsInTurn(r)
    BY DEF Sound, Unsized
  <2>2. /\ \A i \in DOMAIN r.requests : r.requests[i] < n + 1
        /\ \A i \in DOMAIN r.answers : r.answers[i].to < n + 1
    <3>1. Reads \subseteq Nat
      BY BoundsAssumption DEF Reads
    <3>2. \A i \in DOMAIN r.requests : r.requests[i] \in Reads
      BY <1>1
    <3>3. \A i \in DOMAIN r.answers : r.answers[i] \in Answers
      BY <1>1
    <3>4. \A i \in DOMAIN r.answers : r.answers[i].to \in Nat
      BY <3>1, <3>3 DEF Answers
    <3>5. \A i \in DOMAIN r.requests : r.requests[i] \in Nat
      BY <3>1, <3>2
    <3>6. ReadsAreKept(r, n)
      BY DEF Sound
    <3> QED
      BY <3>4, <3>5, <3>6 DEF ReadsAreKept
  <2>3. ASSUME NEW i \in DOMAIN s.requests, NEW j \in DOMAIN s.requests, i < j
        PROVE  s.requests[i] < s.requests[j]
    <3>1. i \in DOMAIN r.requests
      BY <1>1, <1>4, <2>3 DEF Grown
    <3> QED
      BY <1>4, <2>1, <2>2, <2>3, <3>1 DEF ReadsInTurn, Grown
  <2>4. \A i \in Got(s), j \in DOMAIN s.requests : s.answers[i].to < s.requests[j]
    BY <1>3, <1>4, <1>5, <2>1, <2>2 DEF ReadsInTurn, Grown, Got
  <2>5. ReadsInTurn(s)
    BY <1>3, <1>5, <2>1, <2>3, <2>4 DEF ReadsInTurn
  <2>6. ByTurn(s)
    BY <1>3, <1>5, <2>1 DEF Unsized, ByTurn
  <2> QED
    BY <1>3, <2>1, <2>5, <2>6 DEF Unsized
<1>10. AllKept(r, m) => AllKept(s, m)
  BY <1>3, <1>5 DEF AllKept, IsKept
<1> QED
  BY <1>3, <1>6, <1>7, <1>8, <1>9, <1>10 DEF Sound, s, WithRequest

WithoutHead(r) == [r EXCEPT !.queue = Tail(@)]

\* The queue without its first chunk, and that chunk in the hand of the operation.
LEMMA TakeIsSound ==
    ASSUME NEW r \in Streams, NEW m \in Nat, NEW n \in Nat, NEW f \in BOOLEAN,
           Sound(r, m, n, f), r.queue # <<>>
    PROVE  LET s == WithoutHead(r)
               c == Head(r.queue).chunk
           IN  /\ s \in Streams /\ Sound(s, m, n, f)
               /\ c \in Chunks /\ Fresh(s, c, m, f)
               /\ \A d : IsKept(r, d) => d = c \/ IsKept(s, d)
               /\ s.state = r.state /\ s.pulling = r.pulling /\ s.pullAgain = r.pullAgain
               /\ s.started = r.started /\ s.closeRequested = r.closeRequested
               /\ s.requests = r.requests /\ s.answers = r.answers
<1> DEFINE s == [r EXCEPT !.queue = Tail(@)]
           c == Head(r.queue).chunk
<1>1. r.queue \in Seq(Entries)
  BY DEF Streams
<1>2. Tail(r.queue) \in Seq(Entries) /\ Shifted(Tail(r.queue), r.queue) /\ Head(r.queue) \in Entries
  BY <1>1, SequenceSteps
<1>3. /\ s \in Streams
      /\ s.state = r.state /\ s.pulling = r.pulling /\ s.pullAgain = r.pullAgain
      /\ s.sizing = r.sizing /\ s.reader = r.reader /\ s.closed = r.closed
      /\ s.started = r.started /\ s.closeRequested = r.closeRequested
      /\ s.algorithms = r.algorithms /\ s.answers = r.answers /\ s.requests = r.requests
  BY <1>2 DEF Streams
<1>4. Shifted(s.queue, r.queue) /\ c \in Chunks /\ c = r.queue[1].chunk
  BY <1>2 DEF Streams, Entries, Shifted
<1> HIDE DEF s, c
<1>5. Got(s) = Got(r)
  BY <1>3 DEF Got
<1>6. ReadsAreKept(s, n) /\ ReaderIsTold(s)
  BY <1>3 DEF Sound, ReadsAreKept, ReaderIsTold, Locked
<1>7. ChunksAreKnown(r, m) /\ ChunksAreOnce(r) /\ ChunksAreApart(r)
  BY DEF Sound, ChunksAreKept
<1>8. ChunksAreKept(s, m)
  <2>1. ChunksAreKnown(s, m)
    BY <1>3, <1>4, <1>5, <1>7 DEF ChunksAreKnown, Shifted
  <2>2. ChunksAreOnce(s)
    <3>1. ASSUME NEW i \in DOMAIN s.queue, NEW j \in DOMAIN s.queue, s.queue[i].chunk = s.queue[j].chunk
          PROVE  i = j
      <4>1. i \in Nat /\ j \in Nat /\ i + 1 = j + 1
        BY <1>4, <1>7, <3>1 DEF ChunksAreOnce, Shifted
      <4> QED
        BY <4>1
    <3> QED
      BY <1>3, <1>5, <1>7, <3>1 DEF ChunksAreOnce
  <2>3. ChunksAreApart(s)
    BY <1>3, <1>4, <1>5, <1>7 DEF ChunksAreApart, Shifted
  <2> QED
    BY <2>1, <2>2, <2>3 DEF ChunksAreKept
<1>9. f \/ ByTurn(s)
  <2> SUFFICES ASSUME ~f PROVE ByTurn(s)
    OBVIOUS
  <2>1. ByTurn(r)
    BY DEF Sound, Unsized
  <2>2. ASSUME NEW i \in DOMAIN s.queue, NEW j \in DOMAIN s.queue, i < j
        PROVE  s.queue[i].chunk < s.queue[j].chunk
    BY <1>4, <2>1, <2>2 DEF ByTurn, Shifted
  <2>3. \A i \in Got(s), j \in DOMAIN s.queue : s.answers[i].what.chunk < s.queue[j].chunk
    BY <1>3, <1>4, <1>5, <2>1 DEF ByTurn, Shifted
  <2> QED
    BY <1>3, <1>5, <2>1, <2>2, <2>3 DEF ByTurn
<1>10. f \/ Unsized(s)
  BY <1>3, <1>5, <1>9 DEF Sound, Unsized, ReadsInTurn
<1>11. Fresh(s, c, m, f)
  <2>1. c \in Nat /\ c <= m
    BY <1>4, <1>7, ChunksAreNumbers DEF ChunksAreKnown, Shifted
  <2>2. \A i \in Got(s) : s.answers[i].what.chunk # c
    BY <1>3, <1>4, <1>5, <1>7 DEF ChunksAreApart, Shifted
  <2>3. \A i \in DOMAIN s.sizing : s.sizing[i].chunk # c
    BY <1>3, <1>4, <1>7 DEF ChunksAreApart, Shifted
  <2>4. \A i \in DOMAIN s.queue : s.queue[i].chunk # c
    <3> SUFFICES ASSUME NEW i \in DOMAIN s.queue, s.queue[i].chunk = c PROVE FALSE
      OBVIOUS
    <3>1. i \in Nat /\ i >= 1 /\ i + 1 = 1
      BY <1>4, <1>7 DEF ChunksAreOnce, Shifted
    <3> QED
      BY <3>1
  <2>5. ASSUME ~f
        PROVE  /\ s.requests = <<>>
               /\ \A i \in Got(s) : s.answers[i].what.chunk < c
               /\ \A i \in DOMAIN s.queue : c < s.queue[i].chunk
    <3>1. ByTurn(r) /\ s.requests = <<>>
      BY <1>3, <2>5 DEF Sound, Unsized
    <3>2. \A i \in Got(s) : s.answers[i].what.chunk < c
      BY <1>3, <1>4, <1>5, <3>1 DEF ByTurn, Shifted
    <3>3. \A i \in DOMAIN s.queue : c < s.queue[i].chunk
      BY <1>4, <3>1 DEF ByTurn, Shifted
    <3> QED
      BY <3>1, <3>2, <3>3
  <2> QED
    BY <2>1, <2>2, <2>3, <2>4, <2>5 DEF Fresh
<1>12. ASSUME NEW d, IsKept(r, d), d # c
       PROVE  IsKept(s, d)
  <2>1. CASE \E i \in Got(r) : r.answers[i].what.chunk = d
    BY <1>3, <1>5, <2>1 DEF IsKept
  <2>2. CASE \E i \in DOMAIN r.queue : r.queue[i].chunk = d
    BY <1>4, <1>12, <2>2 DEF IsKept, Shifted
  <2> QED
    BY <1>12, <2>1, <2>2 DEF IsKept
<1> QED
  BY <1>3, <1>4, <1>6, <1>8, <1>10, <1>11, <1>12 DEF Sound, s, c, WithoutHead

\* ReadableStreamDefaultControllerError.
LEMMA ErrorIsSound ==
    ASSUME NEW r \in Streams, NEW m, NEW n, NEW f \in BOOLEAN, Sound(r, m, n, f)
    PROVE  LET s == ControllerError(r)
           IN  /\ s \in Streams /\ Sound(s, m, n, f)
               /\ s.state # "readable" /\ s.pulling = r.pulling
<1> DEFINE s == ControllerError(r)
<1>1. CASE r.state # "readable"
  BY <1>1 DEF ControllerError
<1>2. CASE r.state = "readable"
  <2>1. r.answers \in Seq(Answers) /\ r.requests \in Seq(Reads)
    BY DEF Streams
  <2>2. Extended(r.answers \o Told(r.requests, Failed), r.answers, r.requests)
    BY <2>1, ToldExtends
  <2>3. r.answers \o Told(r.requests, Failed) \in Seq(Answers)
    BY <2>2 DEF Extended
  <2> DEFINE answers == r.answers \o Told(r.requests, Failed)
             closed == IF r.closed = "pending" THEN "rejected" ELSE r.closed
  <2>4. s = [r EXCEPT !.queue = <<>>, !.algorithms = FALSE, !.state = "errored",
                      !.closed = closed, !.answers = answers, !.requests = <<>>]
    BY <1>2 DEF ControllerError, StreamError, Settle, ClearAlgorithms, Streams
  <2>5. <<>> \in Seq(Entries) /\ <<>> \in Seq(Reads) /\ "errored" \in States /\ closed \in Promises
    BY DEF States, Promises, Streams
  <2> HIDE DEF answers, closed
  <2>6. s \in Streams
    BY <2>3, <2>4, <2>5 DEF Streams, answers
  <2>7. /\ s.state = "errored" /\ s.closed = closed /\ s.answers = answers /\ s.requests = <<>>
        /\ s.queue = <<>> /\ s.reader = r.reader /\ s.sizing = r.sizing /\ s.pulling = r.pulling
    BY <2>4 DEF Streams
  <2> HIDE DEF s
  <2>8. Ended(r, s)
    BY <1>2, <2>2, <2>7 DEF Ended, answers, closed
  <2> QED
    BY <2>6, <2>7, <2>8, EndIsSound DEF s
<1> QED
  BY <1>1, <1>2

\* ReadableStreamClose of a readable stream, whatever became of its algorithms.
LEMMA StreamCloseIsSound ==
    ASSUME NEW r \in Streams, NEW m, NEW n, NEW f \in BOOLEAN, Sound(r, m, n, f), r.state = "readable",
           NEW q, q = r \/ q = ClearAlgorithms(r)
    PROVE  LET s == StreamClose(q)
           IN  /\ s \in Streams /\ Sound(s, m, n, f)
               /\ s.state = "closed" /\ s.pulling = r.pulling /\ s.queue = r.queue
               /\ s.sizing = r.sizing
               /\ Got(s) = Got(r) /\ \A i \in Got(r) : s.answers[i] = r.answers[i]
<1> DEFINE s == StreamClose(q)
           answers == r.answers \o Told(r.requests, Done)
           closed == IF r.closed = "pending" THEN "fulfilled" ELSE r.closed
<1>1. r.answers \in Seq(Answers) /\ r.requests \in Seq(Reads)
  BY DEF Streams
<1>2. Extended(answers, r.answers, r.requests)
  BY <1>1, ToldExtends
<1>3. answers \in Seq(Answers)
  BY <1>2 DEF Extended
<1>4. s = [r EXCEPT !.state = "closed", !.closed = closed, !.answers = answers, !.requests = <<>>,
                    !.algorithms = q.algorithms]
  <2>1. q \in Streams /\ q = [r EXCEPT !.algorithms = q.algorithms]
    BY DEF ClearAlgorithms, Streams
  <2>2. q.answers = r.answers /\ q.requests = r.requests /\ q.closed = r.closed
    BY DEF ClearAlgorithms, Streams
  <2> HIDE DEF answers
  <2>3. s = [q EXCEPT !.state = "closed", !.closed = closed, !.answers = answers, !.requests = <<>>]
    BY <2>1, <2>2 DEF StreamClose, Settle, Streams, answers
  <2> QED
    BY <2>1, <2>3 DEF Streams
<1>5. <<>> \in Seq(Reads) /\ "closed" \in States /\ closed \in Promises /\ q.algorithms \in BOOLEAN
  <2>1. q.algorithms \in BOOLEAN
    BY DEF ClearAlgorithms, Streams
  <2>2. closed \in Promises
    BY DEF Promises, Streams, closed
  <2> QED
    BY <2>1, <2>2 DEF States
<1> HIDE DEF answers, closed
<1>6. s \in Streams
  BY <1>3, <1>4, <1>5 DEF Streams
<1>7. /\ s.state = "closed" /\ s.closed = closed /\ s.answers = answers /\ s.requests = <<>>
      /\ s.queue = r.queue /\ s.reader = r.reader /\ s.sizing = r.sizing /\ s.pulling = r.pulling
  BY <1>4 DEF Streams
<1> HIDE DEF s
<1>8. Ended(r, s)
  BY <1>2, <1>7 DEF Ended, closed
<1> QED
  BY <1>6, <1>7, <1>8, EndIsSound DEF s

\* What an operation may do to flags that no invariant of a stream that ended is about.
LEMMA EndedFlagsAreFree ==
    ASSUME NEW r \in Streams, NEW s \in Streams, NEW m, NEW n, NEW f \in BOOLEAN, Sound(r, m, n, f),
           s.state = r.state, s.reader = r.reader, s.closed = r.closed,
           s.requests = r.requests, s.answers = r.answers, s.sizing = r.sizing,
           s.queue = r.queue \/ s.queue = <<>>,
           s.algorithms = r.algorithms \/ r.state # "readable"
    PROVE  Sound(s, m, n, f)
<1>1. Got(s) = Got(r)
  BY DEF Got
<1>2. DOMAIN <<>> = {}
  OBVIOUS
<1>3. DOMAIN s.queue \subseteq DOMAIN r.queue /\ \A i \in DOMAIN s.queue : s.queue[i] = r.queue[i]
  BY <1>2
<1>4. ReadsAreKept(s, n) /\ ReaderIsTold(s)
  BY DEF Sound, ReadsAreKept, ReaderIsTold, Locked
<1>5. ChunksAreKept(s, m)
  <2>1. ChunksAreKnown(s, m) /\ ChunksAreOnce(s)
    BY <1>1, <1>3 DEF Sound, ChunksAreKept, ChunksAreKnown, ChunksAreOnce
  <2>2. ChunksAreApart(s)
    BY <1>1, <1>3 DEF Sound, ChunksAreKept, ChunksAreApart
  <2> QED
    BY <2>1, <2>2 DEF ChunksAreKept
<1>6. f \/ Unsized(s)
  BY <1>1, <1>3 DEF Sound, Unsized, ByTurn, ReadsInTurn
<1> QED
  BY <1>4, <1>5, <1>6 DEF Sound

\* ReadableStreamDefaultControllerClose: at once, or after the queue.
LEMMA CloseIsSound ==
    ASSUME NEW r \in Streams, NEW m, NEW n, NEW f \in BOOLEAN, Sound(r, m, n, f), CanCloseOrEnqueue(r)
    PROVE  LET s == ControllerClose(r)
           IN  /\ s \in Streams /\ Sound(s, m, n, f)
               /\ AllKept(r, m) => AllKept(s, m)
               /\ ~CanCloseOrEnqueue(s) /\ s.pulling = r.pulling
<1> DEFINE wanting == [r EXCEPT !.closeRequested = TRUE]
           s == ControllerClose(r)
<1>1. /\ wanting \in Streams /\ wanting.queue = r.queue /\ wanting.state = r.state /\ wanting.closeRequested
      /\ wanting.pulling = r.pulling /\ wanting.reader = r.reader /\ wanting.closed = r.closed
      /\ wanting.requests = r.requests /\ wanting.answers = r.answers /\ wanting.sizing = r.sizing
      /\ wanting.algorithms = r.algorithms
  BY DEF Streams
<1> HIDE DEF wanting
<1>2. Sound(wanting, m, n, f)
  BY <1>1, EndedFlagsAreFree
<1>3. AllKept(r, m) => AllKept(wanting, m)
  BY <1>1 DEF AllKept, IsKept, Got
<1>4. CASE r.queue # <<>>
  <2>1. s = wanting
    BY <1>4 DEF ControllerClose, wanting
  <2> QED
    BY <1>1, <1>2, <1>3, <2>1 DEF CanCloseOrEnqueue
<1>5. CASE r.queue = <<>>
  <2>1. s = StreamClose(ClearAlgorithms(wanting))
    BY <1>5 DEF ControllerClose, wanting
  <2>2. wanting.state = "readable"
    BY <1>1 DEF CanCloseOrEnqueue
  <2> HIDE DEF s
  <2>3. s \in Streams /\ Sound(s, m, n, f) /\ s.state = "closed" /\ s.pulling = wanting.pulling
    BY <1>1, <1>2, <2>1, <2>2, StreamCloseIsSound
  <2> QED
    BY <1>1, <2>3 DEF AllKept, CanCloseOrEnqueue, s
<1> QED
  BY <1>4, <1>5

\* ReadableStreamCancel: the stream closes first.
LEMMA CancelIsSound ==
    ASSUME NEW r \in Streams, NEW m, NEW n, NEW f \in BOOLEAN, Sound(r, m, n, f)
    PROVE  LET s == Cancel(r)
           IN  /\ s \in Streams /\ Sound(s, m, n, f)
               /\ s.state # "readable" /\ s.pulling = r.pulling
<1> DEFINE seen == [r EXCEPT !.disturbed = TRUE]
           s == Cancel(r)
<1>1. /\ seen \in Streams /\ seen.queue = r.queue /\ seen.state = r.state
      /\ seen.pulling = r.pulling /\ seen.reader = r.reader /\ seen.closed = r.closed
      /\ seen.requests = r.requests /\ seen.answers = r.answers /\ seen.sizing = r.sizing
      /\ seen.algorithms = r.algorithms
  BY DEF Streams
<1> HIDE DEF seen
<1>2. Sound(seen, m, n, f)
  BY <1>1, EndedFlagsAreFree
<1>3. CASE r.state # "readable"
  <2>1. s = seen
    BY <1>3 DEF Cancel, seen
  <2> QED
    BY <1>1, <1>2, <1>3, <2>1
<1>4. CASE r.state = "readable"
  <2> DEFINE closed == StreamClose(seen)
  <2>1. closed \in Streams /\ Sound(closed, m, n, f) /\ closed.state = "closed"
        /\ closed.pulling = seen.pulling
    BY <1>1, <1>2, <1>4, StreamCloseIsSound
  <2> HIDE DEF closed
  <2>2. s = [closed EXCEPT !.queue = <<>>, !.algorithms = FALSE]
    BY <1>4, <2>1 DEF Cancel, ClearAlgorithms, seen, closed, Streams
  <2>3. <<>> \in Seq(Entries)
    OBVIOUS
  <2> DEFINE cancelled == [closed EXCEPT !.queue = <<>>, !.algorithms = FALSE]
  <2>4. /\ cancelled \in Streams
        /\ cancelled.state = closed.state /\ cancelled.reader = closed.reader
        /\ cancelled.closed = closed.closed /\ cancelled.requests = closed.requests
        /\ cancelled.answers = closed.answers /\ cancelled.sizing = closed.sizing
        /\ cancelled.queue = <<>> /\ cancelled.pulling = closed.pulling
    BY <2>1, <2>3 DEF Streams
  <2> HIDE DEF cancelled
  <2>5. Sound(cancelled, m, n, f)
    BY <2>1, <2>4, EndedFlagsAreFree
  <2> QED
    BY <1>1, <2>1, <2>2, <2>4, <2>5 DEF cancelled
<1> QED
  BY <1>3, <1>4

\* The drain of a stream that has all its data.
LEMMA DrainIsSound ==
    ASSUME NEW r \in Streams, NEW m, NEW n, NEW f \in BOOLEAN, Sound(r, m, n, f), CanSyncDrain(r)
    PROVE  LET s == SyncDrain(r)
           IN  /\ s \in Streams /\ Sound(s, m, n, f)
               /\ s.state # "readable" /\ s.pulling = r.pulling
<1> DEFINE s == SyncDrain(r)
           emptied == [r EXCEPT !.queue = <<>>]
<1>1. <<>> \in Seq(Entries) /\ "closed" \in States
  BY DEF States
<1>2. /\ s \in Streams /\ s.state = "closed" /\ s.reader = r.reader /\ s.closed = r.closed
      /\ s.requests = r.requests /\ s.answers = r.answers /\ s.sizing = r.sizing
      /\ s.queue = <<>> /\ s.pulling = r.pulling
  BY <1>1 DEF SyncDrain, Streams
<1>3. /\ emptied \in Streams /\ emptied.state = r.state /\ emptied.reader = r.reader
      /\ emptied.closed = r.closed /\ emptied.requests = r.requests /\ emptied.answers = r.answers
      /\ emptied.sizing = r.sizing /\ emptied.queue = <<>> /\ emptied.algorithms = r.algorithms
  BY <1>1 DEF Streams
<1> HIDE DEF s, emptied
<1>4. Sound(emptied, m, n, f)
  BY <1>3, EndedFlagsAreFree
<1>5. Got(s) = Got(emptied)
  BY <1>2, <1>3 DEF Got
<1>6. ReadsAreKept(s, n)
  BY <1>2, <1>3, <1>4 DEF Sound, ReadsAreKept
<1>7. ChunksAreKept(s, m)
  BY <1>2, <1>3, <1>4, <1>5 DEF Sound, ChunksAreKept, ChunksAreKnown, ChunksAreOnce, ChunksAreApart
<1>8. ReaderIsTold(s)
  BY <1>2 DEF Sound, ReaderIsTold, Locked, CanSyncDrain
<1>9. f \/ Unsized(s)
  BY <1>2, <1>3, <1>4, <1>5 DEF Sound, Unsized, ByTurn, ReadsInTurn
<1> QED
  BY <1>2, <1>6, <1>7, <1>8, <1>9 DEF Sound, s

\* ReadableStreamDefaultReaderRelease: reads that wait are forgotten.
LEMMA ReleaseIsSound ==
    ASSUME NEW r \in Streams, NEW m, NEW n, NEW f \in BOOLEAN, Sound(r, m, n, f)
    PROVE  LET s == ReleaseReader(r)
           IN  /\ s \in Streams /\ Sound(s, m, n, f)
               /\ AllKept(r, m) => AllKept(s, m)
               /\ s.pulling = r.pulling /\ s.pullAgain = r.pullAgain
               /\ CanCloseOrEnqueue(s) <=> CanCloseOrEnqueue(r)
               /\ s.started = r.started /\ (WantsMore(s) => WantsMore(r))
<1> DEFINE s == ReleaseReader(r)
<1>1. <<>> \in Seq(Reads) /\ "none" \in Promises /\ DOMAIN <<>> = {}
  BY DEF Promises
<1>2. /\ s \in Streams /\ s.requests = <<>> /\ s.reader = NoReader /\ s.closed = "none"
      /\ s.state = r.state /\ s.answers = r.answers /\ s.sizing = r.sizing /\ s.queue = r.queue
      /\ s.algorithms = r.algorithms /\ s.closeRequested = r.closeRequested /\ s.started = r.started
      /\ s.pulling = r.pulling /\ s.pullAgain = r.pullAgain /\ s.hwm = r.hwm
  BY <1>1 DEF ReleaseReader, Streams
<1> HIDE DEF s
<1>3. Got(s) = Got(r)
  BY <1>2 DEF Got
<1>4. ReadsAreKept(s, n)
  BY <1>1, <1>2 DEF Sound, ReadsAreKept
<1>5. ChunksAreKept(s, m)
  BY <1>2, <1>3 DEF Sound, ChunksAreKept, ChunksAreKnown, ChunksAreOnce, ChunksAreApart
<1>6. ReaderIsTold(s)
  BY <1>2 DEF Sound, ReaderIsTold, Locked
<1>7. f \/ Unsized(s)
  BY <1>2, <1>3 DEF Sound, Unsized, ByTurn, ReadsInTurn
<1>8. AllKept(r, m) => AllKept(s, m)
  BY <1>2, <1>3 DEF AllKept, IsKept
<1>9. WantsMore(s) => WantsMore(r)
  BY <1>2 DEF WantsMore, DesiredSize
<1> QED
  BY <1>2, <1>4, <1>5, <1>6, <1>7, <1>8, <1>9 DEF Sound, CanCloseOrEnqueue, s

\* AcquireReadableStreamDefaultReader, of a stream in any state.
LEMMA AcquireIsSound ==
    ASSUME NEW r \in Streams, NEW m, NEW n, NEW f \in BOOLEAN, Sound(r, m, n, f),
           ~Locked(r), NEW reader \in Readers
    PROVE  LET s == AcquireReader(r, reader)
           IN  /\ s \in Streams /\ Sound(s, m, n, f)
               /\ AllKept(r, m) => AllKept(s, m)
               /\ s.pulling = r.pulling /\ s.pullAgain = r.pullAgain
               /\ CanCloseOrEnqueue(s) <=> CanCloseOrEnqueue(r)
               /\ s.started = r.started /\ (WantsMore(s) <=> WantsMore(r))
<1> DEFINE s == AcquireReader(r, reader)
<1>1. ClosedPromise(r.state) \in Promises
  BY DEF ClosedPromise, Promises, Streams, States
<1>2. /\ s \in Streams /\ s.requests = r.requests /\ s.reader = reader
      /\ s.closed = ClosedPromise(r.state)
      /\ s.state = r.state /\ s.answers = r.answers /\ s.sizing = r.sizing /\ s.queue = r.queue
      /\ s.algorithms = r.algorithms /\ s.closeRequested = r.closeRequested /\ s.started = r.started
      /\ s.pulling = r.pulling /\ s.pullAgain = r.pullAgain /\ s.hwm = r.hwm
  BY <1>1 DEF AcquireReader, Streams
<1> HIDE DEF s
<1>3. Got(s) = Got(r)
  BY <1>2 DEF Got
<1>4. ReadsAreKept(s, n)
  BY <1>2 DEF Sound, ReadsAreKept
<1>5. ChunksAreKept(s, m)
  BY <1>2, <1>3 DEF Sound, ChunksAreKept, ChunksAreKnown, ChunksAreOnce, ChunksAreApart
<1>6. ReaderIsTold(s)
  <2>1. reader # NoReader
    BY BoundsAssumption DEF Readers, NoReader
  <2> QED
    BY <1>2, <2>1 DEF Sound, ReaderIsTold, Locked
<1>7. f \/ Unsized(s)
  BY <1>2, <1>3 DEF Sound, Unsized, ByTurn, ReadsInTurn
<1>8. AllKept(r, m) => AllKept(s, m)
  BY <1>2, <1>3 DEF AllKept, IsKept
<1>9. WantsMore(s) <=> WantsMore(r)
  BY <1>2 DEF WantsMore, DesiredSize
<1> QED
  BY <1>2, <1>4, <1>5, <1>6, <1>7, <1>8, <1>9 DEF Sound, CanCloseOrEnqueue, s

\* Chunk c is nowhere in the stream.
IsAbsent(r, c) ==
    /\ \A i \in Got(r) : r.answers[i].what.chunk # c
    /\ \A i \in DOMAIN r.queue : r.queue[i].chunk # c
    /\ \A i \in DOMAIN r.sizing : r.sizing[i].chunk # c

\* A chunk may be made.
LEMMA SoundIsMonotone ==
    ASSUME NEW r \in Streams, NEW m \in Nat, NEW n, NEW f \in BOOLEAN, Sound(r, m, n, f)
    PROVE  Sound(r, m + 1, n, f)
<1>1. ChunksAreKnown(r, m + 1)
  BY ChunksAreNumbers DEF Sound, ChunksAreKept, ChunksAreKnown
<1> QED
  BY <1>1 DEF Sound, ChunksAreKept

WithEntry(r, entry) == [r EXCEPT !.queue = Append(@, entry)]

\* The chunk comes after all that were handed out or queued.
IsNext(r, c) ==
    /\ \A i \in Got(r) : r.answers[i].what.chunk < c
    /\ \A i \in DOMAIN r.queue : r.queue[i].chunk < c

\* A chunk that is nowhere in the stream goes to the end of the queue.
LEMMA QueueIsSound ==
    ASSUME NEW r \in Streams, NEW m \in Nat, NEW n, NEW f \in BOOLEAN, Sound(r, m, n, f),
           NEW entry \in Entries, entry.chunk <= m, IsAbsent(r, entry.chunk),
           f \/ (IsNext(r, entry.chunk) /\ r.requests = <<>>)
    PROVE  LET s == WithEntry(r, entry)
           IN  /\ s \in Streams /\ Sound(s, m, n, f)
               /\ \A d : d = entry.chunk \/ IsKept(r, d) => IsKept(s, d)
               /\ s.state = r.state /\ s.pulling = r.pulling /\ s.pullAgain = r.pullAgain
               /\ s.started = r.started /\ s.closeRequested = r.closeRequested
               /\ s.requests = r.requests /\ s.sizing = r.sizing /\ s.reader = r.reader
<1> DEFINE c == entry.chunk
           s == WithEntry(r, entry)
<1>1. r.queue \in Seq(Entries) /\ c \in Chunks
  BY DEF Streams, Entries
<1>2. Append(r.queue, entry) \in Seq(Entries) /\ Grown(Append(r.queue, entry), r.queue, entry)
  BY <1>1, SequenceSteps
<1>3. /\ s \in Streams
      /\ s.state = r.state /\ s.pulling = r.pulling /\ s.pullAgain = r.pullAgain
      /\ s.sizing = r.sizing /\ s.reader = r.reader /\ s.closed = r.closed
      /\ s.started = r.started /\ s.closeRequested = r.closeRequested
      /\ s.algorithms = r.algorithms /\ s.answers = r.answers /\ s.requests = r.requests
  BY <1>2 DEF Streams, WithEntry
<1>4. Grown(s.queue, r.queue, entry)
  BY <1>2 DEF Streams, WithEntry
<1> HIDE DEF s
<1>5. Got(s) = Got(r)
  BY <1>3 DEF Got
<1>6. ReadsAreKept(s, n) /\ ReaderIsTold(s)
  BY <1>3 DEF Sound, ReadsAreKept, ReaderIsTold, Locked
<1>7. /\ DOMAIN s.queue = DOMAIN r.queue \union {Len(r.queue) + 1}
      /\ \A i \in DOMAIN r.queue : s.queue[i] = r.queue[i] /\ i < Len(r.queue) + 1
      /\ s.queue[Len(r.queue) + 1].chunk = c
  BY <1>1, <1>4 DEF Grown
<1>8. ChunksAreKept(s, m)
  <2>1. ChunksAreKnown(r, m) /\ ChunksAreOnce(r) /\ ChunksAreApart(r)
    BY DEF Sound, ChunksAreKept
  <2>2. ChunksAreKnown(s, m)
    BY <1>3, <1>5, <1>7, <2>1, ChunksAreNumbers DEF ChunksAreKnown
  <2>3. ChunksAreOnce(s)
    BY <1>3, <1>5, <1>7, <2>1 DEF ChunksAreOnce, IsAbsent
  <2>4. ChunksAreApart(s)
    BY <1>3, <1>5, <1>7, <2>1 DEF ChunksAreApart, IsAbsent
  <2> QED
    BY <2>2, <2>3, <2>4 DEF ChunksAreKept
<1>9. f \/ Unsized(s)
  <2> SUFFICES ASSUME ~f PROVE Unsized(s)
    OBVIOUS
  <2>1. ByTurn(r) /\ r.sizing = <<>>
    BY DEF Sound, Unsized
  <2>2. /\ \A i \in Got(s) : s.answers[i].what.chunk < c
        /\ \A i \in DOMAIN r.queue : r.queue[i].chunk < c
    BY <1>3, <1>5, <2>1 DEF IsNext
  <2>3. ASSUME NEW i \in DOMAIN s.queue, NEW j \in DOMAIN s.queue, i < j
        PROVE  s.queue[i].chunk < s.queue[j].chunk
    <3>1. i \in DOMAIN r.queue
      <4>1. Len(r.queue) \in Nat /\ DOMAIN r.queue = 1..Len(r.queue)
        BY <1>1
      <4> QED
        BY <1>7, <2>3, <4>1
    <3> QED
      BY <1>7, <2>1, <2>2, <2>3, <3>1 DEF ByTurn
  <2>4. \A i \in Got(s), j \in DOMAIN s.queue : s.answers[i].what.chunk < s.queue[j].chunk
    BY <1>3, <1>5, <1>7, <2>1, <2>2 DEF ByTurn
  <2>5. ByTurn(s)
    BY <1>3, <1>5, <2>1, <2>3, <2>4 DEF ByTurn
  <2>6. ReadsInTurn(s)
    BY <1>3, <1>5 DEF Sound, Unsized, ReadsInTurn
  <2> QED
    BY <1>3, <2>1, <2>5, <2>6 DEF Unsized
<1>10. \A d : d = c \/ IsKept(r, d) => IsKept(s, d)
  BY <1>3, <1>5, <1>7 DEF IsKept
<1> QED
  BY <1>3, <1>6, <1>8, <1>9, <1>10 DEF Sound, s

WithFrame(r, c) == [r EXCEPT !.sizing = Append(@, [chunk |-> c, reader |-> r.reader])]

\* A chunk whose size() was called, and the frame that keeps it meanwhile.
LEMMA SizingIsSound ==
    ASSUME NEW r \in Streams, NEW m \in Nat, NEW n, Sound(r, m, n, TRUE), m + 1 \in Chunks
    PROVE  LET s == WithFrame(r, m + 1)
           IN  /\ s \in Streams /\ Sound(s, m + 1, n, TRUE)
               /\ s.state = r.state /\ s.pulling = r.pulling /\ s.pullAgain = r.pullAgain
               /\ s.requests = r.requests /\ s.sizing # <<>>
<1> DEFINE new == [chunk |-> m + 1, reader |-> r.reader]
           s == [r EXCEPT !.sizing = Append(@, new)]
<1>1. r.sizing \in Seq(Frames) /\ new \in Frames /\ new.chunk = m + 1
  BY DEF Streams, Frames
<1> HIDE DEF new
<1>2. Append(r.sizing, new) \in Seq(Frames) /\ Grown(Append(r.sizing, new), r.sizing, new)
      /\ Append(r.sizing, new) # <<>>
  BY <1>1, SequenceSteps
<1>3. /\ s \in Streams
      /\ s.state = r.state /\ s.pulling = r.pulling /\ s.pullAgain = r.pullAgain
      /\ s.queue = r.queue /\ s.reader = r.reader /\ s.closed = r.closed /\ s.sizing # <<>>
      /\ s.algorithms = r.algorithms /\ s.answers = r.answers /\ s.requests = r.requests
  BY <1>2 DEF Streams
<1>4. Grown(s.sizing, r.sizing, new)
  BY <1>2 DEF Streams
<1> HIDE DEF s
<1>5. Got(s) = Got(r)
  BY <1>3 DEF Got
<1>6. ReadsAreKept(s, n) /\ ReaderIsTold(s)
  BY <1>3 DEF Sound, ReadsAreKept, ReaderIsTold, Locked
<1>7. /\ DOMAIN s.sizing = DOMAIN r.sizing \union {Len(r.sizing) + 1}
      /\ \A i \in DOMAIN r.sizing : s.sizing[i] = r.sizing[i]
      /\ s.sizing[Len(r.sizing) + 1].chunk = m + 1
  BY <1>1, <1>4 DEF Grown
<1>8. ChunksAreKept(s, m + 1)
  <2>1. ChunksAreKnown(r, m) /\ ChunksAreOnce(r) /\ ChunksAreApart(r)
    BY DEF Sound, ChunksAreKept
  <2>2. ChunksAreKnown(s, m + 1)
    BY <1>3, <1>5, <1>7, <2>1, ChunksAreNumbers DEF ChunksAreKnown
  <2>3. /\ \A i \in Got(r) : r.answers[i].what.chunk # m + 1
        /\ \A i \in DOMAIN r.queue : r.queue[i].chunk # m + 1
        /\ \A i \in DOMAIN r.sizing : r.sizing[i].chunk # m + 1
    BY <2>1, ChunksAreNumbers DEF ChunksAreKnown
  <2>4. ChunksAreOnce(s)
    BY <1>3, <1>5, <1>7, <2>1, <2>3 DEF ChunksAreOnce
  <2>5. ChunksAreApart(s)
    BY <1>3, <1>5, <1>7, <2>1, <2>3 DEF ChunksAreApart
  <2> QED
    BY <2>2, <2>4, <2>5 DEF ChunksAreKept
<1> QED
  BY <1>3, <1>6, <1>8 DEF Sound, s, new, WithFrame

WithoutFrame(r) == [r EXCEPT !.sizing = Front(@)]

\* A frame that is popped, and its chunk in the hand of the operation.
LEMMA PopIsSound ==
    ASSUME NEW r \in Streams, NEW m \in Nat, NEW n, Sound(r, m, n, TRUE), r.sizing # <<>>
    PROVE  LET s == WithoutFrame(r)
               c == Last(r.sizing).chunk
           IN  /\ s \in Streams /\ Sound(s, m, n, TRUE)
               /\ c \in Chunks /\ c <= m
               /\ IsAbsent(s, c)
               /\ s.state = r.state /\ s.pulling = r.pulling /\ s.pullAgain = r.pullAgain
               /\ s.started = r.started /\ s.closeRequested = r.closeRequested
               /\ s.requests = r.requests /\ s.reader = r.reader
<1> DEFINE s == [r EXCEPT !.sizing = Front(@)]
           c == Last(r.sizing).chunk
<1>1. r.sizing \in Seq(Frames)
  BY DEF Streams
<1>2. Front(r.sizing) \in Seq(Frames) /\ Cut(Front(r.sizing), r.sizing) /\ Last(r.sizing) \in Frames
  BY <1>1, SequenceSteps
<1>3. /\ s \in Streams
      /\ s.state = r.state /\ s.pulling = r.pulling /\ s.pullAgain = r.pullAgain
      /\ s.queue = r.queue /\ s.reader = r.reader /\ s.closed = r.closed
      /\ s.started = r.started /\ s.closeRequested = r.closeRequested
      /\ s.algorithms = r.algorithms /\ s.answers = r.answers /\ s.requests = r.requests
  BY <1>2 DEF Streams
<1>4. Cut(s.sizing, r.sizing)
  BY <1>2 DEF Streams
<1>5. c \in Chunks /\ c = r.sizing[Len(r.sizing)].chunk
  BY <1>2 DEF Frames, Last
<1> HIDE DEF s, c
<1>6. Got(s) = Got(r)
  BY <1>3 DEF Got
<1>7. ReadsAreKept(s, n) /\ ReaderIsTold(s)
  BY <1>3 DEF Sound, ReadsAreKept, ReaderIsTold, Locked
<1>8. ChunksAreKnown(r, m) /\ ChunksAreOnce(r) /\ ChunksAreApart(r)
  BY DEF Sound, ChunksAreKept
<1>9. ChunksAreKnown(s, m) /\ ChunksAreOnce(s)
  BY <1>3, <1>4, <1>6, <1>8 DEF ChunksAreKnown, ChunksAreOnce, Cut
<1>10. ChunksAreApart(s)
  BY <1>3, <1>4, <1>6, <1>8 DEF ChunksAreApart, Cut
<1>11. c <= m
  BY <1>4, <1>5, <1>8 DEF ChunksAreKnown, Cut
<1>12. /\ \A i \in Got(s) : s.answers[i].what.chunk # c
       /\ \A i \in DOMAIN s.queue : s.queue[i].chunk # c
  BY <1>3, <1>4, <1>5, <1>6, <1>8 DEF ChunksAreApart, Cut
<1>13. \A i \in DOMAIN s.sizing : s.sizing[i].chunk # c
  BY <1>4, <1>5, <1>8 DEF ChunksAreOnce, Cut
<1> QED
  BY <1>3, <1>5, <1>7, <1>9, <1>10, <1>11, <1>12, <1>13 DEF Sound, ChunksAreKept, IsAbsent, s, c, WithoutFrame

\* An operation ends no pull, and
PullIsKept(r, s) ==
    /\ r.pulling => s.pulling
    /\ s.state = "readable" => r.state = "readable"
    /\ Demand(s) /\ r.pullAgain => s.pullAgain

\* sees to another where more is wanted.
PullIsMade(r, s) == Demand(s) => IF r.pulling THEN s.pullAgain ELSE s.pulling

\* ReadableStreamDefaultControllerCallPullIfNeeded does both.
LEMMA CallPullIfNeeded_Pulls ==
    ASSUME NEW r \in Streams
    PROVE  LET s == CallPullIfNeeded(r)
           IN  s \in Streams /\ SameData(r, s) /\ PullIsKept(r, s) /\ PullIsMade(r, s)
<1> DEFINE s == CallPullIfNeeded(r)
<1>1. /\ s \in Streams /\ SameData(r, s)
      /\ s.pulling <=> r.pulling \/ ShouldCallPull(r, r.requests)
      /\ s.pullAgain <=> r.pullAgain \/ (r.pulling /\ ShouldCallPull(r, r.requests))
  BY CallPullWith_Pulls DEF CallPullIfNeeded
<1> HIDE DEF s
<1>2. s.state = r.state /\ s.started = r.started /\ s.closeRequested = r.closeRequested
      /\ s.requests = r.requests /\ s.queue = r.queue /\ s.hwm = r.hwm
  BY <1>1 DEF SameData
<1>3. Demand(s) => ShouldCallPull(r, r.requests)
  BY <1>2 DEF Demand, WantsMore, ShouldCallPull, CanCloseOrEnqueue, DesiredSize
<1>4. PullIsKept(r, s) /\ PullIsMade(r, s)
  BY <1>1, <1>2, <1>3 DEF PullIsKept, PullIsMade
<1> QED
  BY <1>1, <1>4 DEF s

\* The read is answered from the queue, told the end, or waits.
LEMMA ReadIsSound ==
    ASSUME NEW r \in Streams, NEW m \in Nat, NEW n \in Nat, NEW f \in BOOLEAN,
           Sound(r, m, n, f), n + 1 \in Reads, Locked(r)
    PROVE  LET s == Read(r, n + 1)
           IN  /\ s \in Streams /\ Sound(s, m, n + 1, f)
               /\ AllKept(r, m) => AllKept(s, m)
               /\ PullIsKept(r, s) /\ PullIsMade(r, s)
<1> DEFINE seen == [r EXCEPT !.disturbed = TRUE]
           s == Read(r, n + 1)
<1>1. seen \in Streams /\ SameData(r, seen) /\ seen.pulling = r.pulling /\ seen.pullAgain = r.pullAgain
  BY DEF Streams, SameData
<1>2. Sound(seen, m, n, f) /\ (AllKept(r, m) => AllKept(seen, m))
  BY <1>1, SameDataIsSound
<1>3. seen.state = r.state /\ seen.queue = r.queue /\ seen.reader = r.reader
      /\ seen.closeRequested = r.closeRequested /\ seen.answers = r.answers
      /\ seen.requests = r.requests /\ seen.sizing = r.sizing
  BY <1>1 DEF SameData
<1> HIDE DEF seen
<1>4. ASSUME r.state # "readable"
      PROVE  \E what \in {Done, Failed} :
                 s = WithAnswer(seen, n + 1, what)
  <2>1. r.state = "closed" \/ r.state = "errored"
    BY <1>4 DEF Streams, States
  <2>2. \A what : Told(<<n + 1>>, what) = <<[to |-> n + 1, what |-> what]>>
    BY DEF Told
  <2>3. \A what : seen.answers \o Told(<<n + 1>>, what) = Append(seen.answers, [to |-> n + 1, what |-> what])
    <3>1. seen.answers \in Seq(Answers)
      BY <1>1 DEF Streams
    <3> TAKE what
    <3> DEFINE e == [to |-> n + 1, what |-> what]
    <3> HIDE DEF e
    <3>2. seen.answers \o <<e>> = Append(seen.answers, e)
      BY <3>1
    <3> QED
      BY <2>2, <3>2 DEF e
  <2>4. CASE r.state = "closed"
    BY <2>3, <2>4 DEF Read, seen, WithAnswer
  <2>5. CASE r.state = "errored"
    BY <2>3, <2>5 DEF Read, seen, WithAnswer
  <2> QED
    BY <2>1, <2>4, <2>5
<1>5. CASE r.state # "readable"
  <2>1. PICK what \in {Done, Failed} :
            s = WithAnswer(seen, n + 1, what)
    BY <1>4, <1>5
  <2>2. what \in Whats /\ what.kind # "chunk"
    BY DEF Whats, Done, Failed
  <2> HIDE DEF s
  <2>3. /\ s \in Streams /\ Sound(s, m, n + 1, f)
        /\ s.state = seen.state /\ s.pulling = seen.pulling /\ s.pullAgain = seen.pullAgain
    BY <1>1, <1>2, <2>1, <2>2, AnswerIsSound
  <2> QED
    BY <1>1, <1>3, <1>5, <2>3
    DEF AllKept, PullIsKept, PullIsMade, Demand, CanCloseOrEnqueue, s
<1>6. CASE r.state = "readable" /\ r.queue = <<>>
  <2> DEFINE waits == WithRequest(seen, n + 1)
  <2>1. Locked(seen)
    BY <1>3 DEF Locked
  <2>2. /\ waits \in Streams /\ Sound(waits, m, n + 1, f)
        /\ AllKept(seen, m) => AllKept(waits, m)
        /\ waits.state = seen.state /\ waits.pulling = seen.pulling /\ waits.pullAgain = seen.pullAgain
    <3>1. waits \in Streams /\ Sound(waits, m, n + 1, f)
      BY <1>1, <1>2, <1>3, <1>6, <2>1, WaitIsSound
    <3>2. AllKept(seen, m) => AllKept(waits, m)
      BY <1>1, <1>2, <1>3, <1>6, <2>1, WaitIsSound
    <3>3. /\ waits.state = seen.state /\ waits.pulling = seen.pulling
          /\ waits.pullAgain = seen.pullAgain
      BY <1>1 DEF WithRequest, Streams
    <3> QED
      BY <3>1, <3>2, <3>3
  <2>3. s = CallPullIfNeeded(waits)
    <3>1. s = PullSteps(seen, n + 1)
      BY <1>6 DEF Read, seen
    <3> QED
      BY <1>3, <1>6, <3>1 DEF PullSteps, WithRequest
  <2> HIDE DEF waits, s
  <2>4. s \in Streams /\ SameData(waits, s) /\ PullIsKept(waits, s) /\ PullIsMade(waits, s)
    BY <2>2, <2>3, CallPullIfNeeded_Pulls
  <2>5. Sound(s, m, n + 1, f) /\ (AllKept(waits, m) => AllKept(s, m))
    BY <2>2, <2>4, SameDataIsSound
  <2> QED
    BY <1>1, <1>2, <1>3, <2>2, <2>4, <2>5 DEF PullIsKept, PullIsMade, s
<1>7. CASE r.state = "readable" /\ r.queue # <<>>
  <2> DEFINE c == Head(seen.queue).chunk
             taken == WithoutHead(seen)
             next == IF seen.closeRequested /\ taken.queue = <<>>
                     THEN StreamClose(ClearAlgorithms(taken))
                     ELSE CallPullIfNeeded(taken)
  <2>1. /\ taken \in Streams /\ Sound(taken, m, n, f)
        /\ c \in Chunks /\ Fresh(taken, c, m, f)
        /\ \A d : IsKept(seen, d) => d = c \/ IsKept(taken, d)
        /\ taken.state = seen.state /\ taken.pulling = seen.pulling /\ taken.pullAgain = seen.pullAgain
        /\ taken.started = seen.started /\ taken.closeRequested = seen.closeRequested
    BY <1>1, <1>2, <1>3, <1>7, TakeIsSound
  <2>2. s = WithAnswer(next, n + 1, Chunk(c))
    <3>1. s = PullSteps(seen, n + 1)
      BY <1>7 DEF Read, seen
    <3> QED
      BY <1>3, <1>7, <3>1 DEF PullSteps, WithAnswer, WithoutHead
  <2> HIDE DEF s, taken, c
  <2>3. /\ next \in Streams /\ Sound(next, m, n, f) /\ Fresh(next, c, m, f)
        /\ next.state = "readable" => \A d : IsKept(taken, d) => IsKept(next, d)
        /\ PullIsKept(taken, next) /\ PullIsMade(taken, next)
    <3>1. CASE seen.closeRequested /\ taken.queue = <<>>
      <4>1. /\ next \in Streams /\ Sound(next, m, n, f)
            /\ next.state = "closed" /\ next.queue = taken.queue
            /\ next.sizing = taken.sizing
            /\ Got(next) = Got(taken) /\ \A i \in Got(taken) : next.answers[i] = taken.answers[i]
        BY <1>3, <1>7, <2>1, <3>1, StreamCloseIsSound
      <4>2. next.pulling = taken.pulling /\ next.pullAgain = taken.pullAgain /\ next.requests = <<>>
        <5>1. next = StreamClose(ClearAlgorithms(taken))
          BY <3>1
        <5> QED
          BY <2>1, <5>1 DEF StreamClose, Settle, ClearAlgorithms, Streams
      <4> HIDE DEF next
      <4>3. Fresh(next, c, m, f)
        BY <2>1, <4>1, <4>2 DEF Fresh
      <4>4. PullIsKept(taken, next) /\ PullIsMade(taken, next)
        BY <4>1, <4>2 DEF PullIsKept, PullIsMade, Demand, CanCloseOrEnqueue
      <4> QED
        BY <4>1, <4>3, <4>4
    <3>2. CASE ~(seen.closeRequested /\ taken.queue = <<>>)
      <4>1. next = CallPullIfNeeded(taken)
        BY <3>2
      <4> HIDE DEF next
      <4>2. next \in Streams /\ SameData(taken, next) /\ PullIsKept(taken, next) /\ PullIsMade(taken, next)
        BY <2>1, <4>1, CallPullIfNeeded_Pulls
      <4>3. Sound(next, m, n, f)
        BY <2>1, <4>2, SameDataIsSound
      <4>4. Got(next) = Got(taken)
        BY <4>2 DEF SameData, Got
      <4>5. Fresh(next, c, m, f)
        BY <2>1, <4>2, <4>4 DEF Fresh, SameData
      <4>6. \A d : IsKept(taken, d) => IsKept(next, d)
        BY <4>2, <4>4 DEF IsKept, SameData
      <4> QED
        BY <4>2, <4>3, <4>5, <4>6
    <3> QED
      BY <3>1, <3>2
  <2> HIDE DEF next
  <2>4. Chunk(c).kind = "chunk" /\ Chunk(c).chunk = c /\ Chunk(c) \in Whats
    BY <2>1 DEF Chunk, Whats
  <2>5. /\ s \in Streams /\ Sound(s, m, n + 1, f)
        /\ \A d : IsKept(next, d) => IsKept(s, d)
        /\ IsKept(s, c)
        /\ s.state = next.state /\ s.pulling = next.pulling /\ s.pullAgain = next.pullAgain
        /\ s.started = next.started /\ s.closeRequested = next.closeRequested
        /\ s.requests = next.requests /\ s.sizing = next.sizing /\ s.hwm = next.hwm /\ s.queue = next.queue
    BY <2>2, <2>3, <2>4, AnswerIsSound
  <2>6. AllKept(r, m) => AllKept(s, m)
    BY <1>2, <1>3, <1>7, <2>1, <2>3, <2>5 DEF AllKept
  <2>7. Demand(s) => Demand(next)
    BY <2>5 DEF Demand, WantsMore, CanCloseOrEnqueue, DesiredSize
  <2> QED
    BY <1>1, <1>3, <2>1, <2>3, <2>5, <2>6, <2>7 DEF PullIsKept, PullIsMade, s
<1> QED
  BY <1>5, <1>6, <1>7

\* An enqueue that a read waits for.
LEMMA HandOverIsSound ==
    ASSUME NEW r \in Streams, NEW m \in Nat, NEW n \in Nat, NEW f \in BOOLEAN,
           Sound(r, m, n, f), m + 1 \in Chunks, CanCloseOrEnqueue(r), r.requests # <<>>
    PROVE  LET s == EnqueueStart(r, m + 1)
           IN  /\ s \in Streams /\ Sound(s, m + 1, n, f) /\ s.sizing = r.sizing
               /\ f \/ (AllKept(r, m) => AllKept(s, m + 1))
               /\ PullIsKept(r, s) /\ PullIsMade(r, s)
<1> DEFINE given == FulfillReadRequest(r, m + 1)
           s == EnqueueStart(r, m + 1)
<1>1. s = CallPullIfNeeded(given)
  BY DEF EnqueueStart
<1>2. given.sizing = r.sizing
  BY DEF FulfillReadRequest, Streams
<1> HIDE DEF given, s
<1>3. /\ given \in Streams /\ Sound(given, m + 1, n, f)
      /\ f \/ (AllKept(r, m) => AllKept(given, m + 1))
      /\ given.state = r.state /\ given.pulling = r.pulling /\ given.pullAgain = r.pullAgain
  BY FulfillIsSound DEF given
<1>4. s \in Streams /\ SameData(given, s) /\ PullIsKept(given, s) /\ PullIsMade(given, s)
  BY <1>1, <1>3, CallPullIfNeeded_Pulls
<1>5. Sound(s, m + 1, n, f) /\ (AllKept(given, m + 1) => AllKept(s, m + 1))
  BY <1>3, <1>4, SameDataIsSound
<1> QED
  BY <1>2, <1>3, <1>4, <1>5 DEF PullIsKept, PullIsMade, SameData, s

\* An enqueue that first calls size().
LEMMA EnqueueStartIsSound ==
    ASSUME NEW r \in Streams, NEW m \in Nat, NEW n \in Nat,
           Sound(r, m, n, TRUE), m + 1 \in Chunks, CanCloseOrEnqueue(r)
    PROVE  LET s == EnqueueStart(r, m + 1)
           IN  /\ s \in Streams /\ Sound(s, m + 1, n, TRUE)
               /\ PullIsKept(r, s) /\ PullIsMade(r, s)
<1>1. CASE r.requests # <<>>
  BY <1>1, HandOverIsSound
<1>2. CASE r.requests = <<>>
  <2> DEFINE s == WithFrame(r, m + 1)
  <2>1. EnqueueStart(r, m + 1) = s
    BY <1>2 DEF EnqueueStart, WithFrame
  <2> HIDE DEF s
  <2>2. /\ s \in Streams /\ Sound(s, m + 1, n, TRUE)
        /\ s.state = r.state /\ s.pulling = r.pulling /\ s.pullAgain = r.pullAgain
        /\ s.requests = r.requests /\ s.sizing # <<>>
    BY SizingIsSound DEF s
  <2>3. PullIsKept(r, s) /\ PullIsMade(r, s)
    BY <1>2, <2>2 DEF PullIsKept, PullIsMade, Demand, WantsMore
  <2> QED
    BY <2>1, <2>2, <2>3
<1> QED
  BY <1>1, <1>2

\* An enqueue whose strategy has no size().
LEMMA EnqueueIsSound ==
    ASSUME NEW r \in Streams, NEW m \in Nat, NEW n \in Nat,
           Sound(r, m, n, FALSE), m + 1 \in Chunks, CanCloseOrEnqueue(r)
    PROVE  LET s == Enqueue(r, m + 1)
           IN  /\ s \in Streams /\ Sound(s, m + 1, n, FALSE)
               /\ AllKept(r, m) => AllKept(s, m + 1)
               /\ PullIsKept(r, s) /\ PullIsMade(r, s)
<1> DEFINE s == Enqueue(r, m + 1)
           begun == EnqueueStart(r, m + 1)
<1>1. CASE r.requests # <<>>
  <2>1. /\ begun \in Streams /\ Sound(begun, m + 1, n, FALSE) /\ begun.sizing = r.sizing
        /\ AllKept(r, m) => AllKept(begun, m + 1)
        /\ PullIsKept(r, begun) /\ PullIsMade(r, begun)
    BY <1>1, HandOverIsSound
  <2> HIDE DEF begun
  <2>2. s = begun
    BY <2>1 DEF Enqueue, begun
  <2> QED
    BY <2>1, <2>2
<1>2. CASE r.requests = <<>>
  <2> DEFINE frame == [chunk |-> m + 1, reader |-> r.reader]
             entry == [chunk |-> m + 1, size |-> 1]
             queued == WithEntry(r, entry)
  <2>1. r.sizing \in Seq(Frames) /\ frame \in Frames /\ Len(r.sizing) \in Nat
    BY DEF Streams, Frames
  <2>2. begun = [r EXCEPT !.sizing = Append(r.sizing, frame)]
    BY <1>2 DEF EnqueueStart
  <2>3. Len(Append(r.sizing, frame)) = Len(r.sizing) + 1
    BY <2>1
  <2>4. Front(Append(r.sizing, frame)) = r.sizing /\ Last(Append(r.sizing, frame)) = frame
    BY <2>1, SequenceSteps
  <2>5. frame.chunk = m + 1 /\ frame.reader = r.reader
    OBVIOUS
  <2> DEFINE framed == Append(r.sizing, frame)
  <2> HIDE DEF frame, framed
  <2>6. begun.sizing = framed /\ Len(framed) # Len(r.sizing)
    BY <2>1, <2>2, <2>3 DEF Streams, framed
  <2>7. s = SizeReturned(begun, 1)
    BY <2>6 DEF Enqueue
  <2>8. [begun EXCEPT !.sizing = r.sizing] = r
    BY <2>2 DEF Streams, framed
  <2>9. begun.reader = r.reader /\ begun.requests = r.requests
    BY <2>2 DEF Streams
  <2> HIDE DEF begun
  <2>10. /\ Last(begun.sizing) = frame
         /\ [begun EXCEPT !.sizing = Front(@)] = r
    BY <2>4, <2>6, <2>8 DEF framed
  <2>11. s = CallPullWith(queued, r.requests)
    BY <2>5, <2>7, <2>9, <2>10 DEF SizeReturned, WithEntry
  <2>12. IsAbsent(r, m + 1)
    BY ChunksAreNumbers DEF IsAbsent, Sound, ChunksAreKept, ChunksAreKnown
  <2>13. IsNext(r, m + 1)
    BY ChunksAreNumbers DEF IsNext, Sound, ChunksAreKept, ChunksAreKnown
  <2>14. entry \in Entries /\ entry.chunk = m + 1 /\ entry.chunk <= m + 1 /\ m + 1 \in Nat
    BY DEF Entries
  <2>15. Sound(r, m + 1, n, FALSE)
    BY SoundIsMonotone
  <2> HIDE DEF s, queued, entry
  <2>16. queued \in Streams /\ Sound(queued, m + 1, n, FALSE)
    BY <1>2, <2>12, <2>13, <2>14, <2>15, QueueIsSound, ZenonT(30) DEF queued
  <2>17. \A d : d = entry.chunk \/ IsKept(r, d) => IsKept(queued, d)
    BY <1>2, <2>12, <2>13, <2>14, <2>15, QueueIsSound, ZenonT(30) DEF queued
  <2>18. /\ queued.state = r.state /\ queued.pulling = r.pulling /\ queued.pullAgain = r.pullAgain
         /\ queued.requests = r.requests
    BY DEF queued, WithEntry, Streams
  <2>19. AllKept(r, m) => AllKept(queued, m + 1)
    <3> SUFFICES ASSUME AllKept(r, m), queued.state = "readable", NEW c \in 1..(m + 1)
                 PROVE  IsKept(queued, c)
      BY DEF AllKept
    <3>1. c = m + 1 \/ c \in 1..m
      OBVIOUS
    <3> QED
      BY <2>14, <2>18, <2>17, <3>1 DEF AllKept
  <2>20. s \in Streams /\ SameData(queued, s) /\ PullIsKept(queued, s) /\ PullIsMade(queued, s)
    BY <2>11, <2>16, <2>18, CallPullIfNeeded_Pulls DEF CallPullIfNeeded
  <2>21. Sound(s, m + 1, n, FALSE) /\ (AllKept(queued, m + 1) => AllKept(s, m + 1))
    BY <2>16, <2>20, SameDataIsSound
  <2> QED
    BY <2>16, <2>19, <2>20, <2>21, <2>18 DEF PullIsKept, PullIsMade, s
<1> QED
  BY <1>1, <1>2

\* size() has returned: the chunk goes to the queue, and pull() is called as
\* the reads of the reader the enqueue began with ask for it.
LEMMA SizeReturnedIsSound ==
    ASSUME NEW r \in Streams, NEW m \in Nat, NEW n,
           Sound(r, m, n, TRUE), r.sizing # <<>>, NEW size \in Sizes
    PROVE  LET s == SizeReturned(r, size)
           IN  /\ s \in Streams /\ Sound(s, m, n, TRUE)
               /\ PullIsKept(r, s) /\ (Demand(r) \/ PullIsMade(r, s))
<1> DEFINE s == SizeReturned(r, size)
           c == Last(r.sizing).chunk
           popped == WithoutFrame(r)
           entry == [chunk |-> c, size |-> size]
           queued == WithEntry(popped, entry)
           requests == IF Last(r.sizing).reader = r.reader THEN r.requests ELSE <<>>
<1>1. s = CallPullWith(queued, requests)
  BY DEF SizeReturned, WithoutFrame, WithEntry
<1> HIDE DEF s
<1>2. /\ popped \in Streams /\ Sound(popped, m, n, TRUE)
      /\ c \in Chunks /\ c <= m
      /\ IsAbsent(popped, c)
      /\ popped.state = r.state /\ popped.pulling = r.pulling /\ popped.pullAgain = r.pullAgain
      /\ popped.started = r.started /\ popped.closeRequested = r.closeRequested
      /\ popped.requests = r.requests
  BY PopIsSound
<1> HIDE DEF popped, c
<1>3. /\ queued \in Streams /\ Sound(queued, m, n, TRUE)
      /\ queued.state = r.state /\ queued.pulling = r.pulling /\ queued.pullAgain = r.pullAgain
      /\ queued.started = r.started /\ queued.closeRequested = r.closeRequested
      /\ queued.requests = r.requests
  <2>1. entry \in Entries /\ entry.chunk = c
    BY <1>2 DEF Entries
  <2> HIDE DEF entry
  <2>2. queued \in Streams /\ Sound(queued, m, n, TRUE)
    BY <1>2, <2>1, QueueIsSound
  <2>3. /\ queued.state = popped.state /\ queued.pulling = popped.pulling
        /\ queued.pullAgain = popped.pullAgain
        /\ queued.started = popped.started /\ queued.closeRequested = popped.closeRequested
        /\ queued.requests = popped.requests
    BY <1>2 DEF WithEntry, Streams
  <2> QED
    BY <1>2, <2>2, <2>3
<1> HIDE DEF queued
<1>4. /\ s \in Streams /\ SameData(queued, s)
      /\ s.pulling <=> queued.pulling \/ ShouldCallPull(queued, requests)
      /\ s.pullAgain <=> queued.pullAgain \/ (queued.pulling /\ ShouldCallPull(queued, requests))
  BY <1>1, <1>3, CallPullWith_Pulls
<1>5. Sound(s, m, n, TRUE)
  BY <1>3, <1>4, SameDataIsSound
<1>6. s.state = r.state /\ s.started = r.started /\ s.closeRequested = r.closeRequested
      /\ s.requests = r.requests
  BY <1>3, <1>4 DEF SameData
<1>7. ASSUME Demand(s), ~Demand(r) PROVE ShouldCallPull(queued, requests)
  <2>1. CanCloseOrEnqueue(queued) /\ queued.started /\ s.requests = <<>>
    BY <1>3, <1>6, <1>7 DEF Demand, CanCloseOrEnqueue, WantsMore
  <2>2. DesiredSize(queued) > 0
    BY <1>4, <1>7, <2>1 DEF Demand, WantsMore, DesiredSize, SameData
  <2> QED
    BY <2>1, <2>2 DEF ShouldCallPull
<1>8. PullIsKept(r, s) /\ (Demand(r) \/ PullIsMade(r, s))
  BY <1>3, <1>4, <1>6, <1>7 DEF PullIsKept, PullIsMade
<1> QED
  BY <1>4, <1>5, <1>8 DEF s

\* size() threw: the frame is dropped and the stream errs.
LEMMA SizeFailedIsSound ==
    ASSUME NEW r \in Streams, NEW m \in Nat, NEW n, Sound(r, m, n, TRUE), r.sizing # <<>>
    PROVE  LET s == SizeFailed(r)
           IN  s \in Streams /\ Sound(s, m, n, TRUE) /\ s.state # "readable" /\ s.pulling = r.pulling
<1> DEFINE popped == WithoutFrame(r)
<1>1. popped \in Streams /\ Sound(popped, m, n, TRUE) /\ popped.pulling = r.pulling
  BY PopIsSound
<1>2. SizeFailed(r) = ControllerError(popped)
  BY DEF SizeFailed, WithoutFrame
<1> HIDE DEF popped
<1> QED
  BY <1>1, <1>2, ErrorIsSound

\* start() is done: pulling may begin.
LEMMA StartFulfilledIsSound ==
    ASSUME NEW r \in Streams, NEW m, NEW n, NEW f \in BOOLEAN, Sound(r, m, n, f)
    PROVE  LET s == StartFulfilled(r)
           IN  /\ s \in Streams /\ Sound(s, m, n, f)
               /\ AllKept(r, m) => AllKept(s, m)
               /\ PullIsKept(r, s) /\ PullIsMade(r, s)
<1> DEFINE begun == [r EXCEPT !.started = TRUE]
           s == StartFulfilled(r)
<1>1. /\ begun \in Streams
      /\ begun.state = r.state /\ begun.reader = r.reader /\ begun.closed = r.closed
      /\ begun.requests = r.requests /\ begun.answers = r.answers /\ begun.sizing = r.sizing
      /\ begun.queue = r.queue /\ begun.algorithms = r.algorithms
      /\ begun.pulling = r.pulling /\ begun.pullAgain = r.pullAgain
  BY DEF Streams
<1>2. s = CallPullIfNeeded(begun)
  BY DEF StartFulfilled
<1> HIDE DEF begun, s
<1>3. Sound(begun, m, n, f)
  BY <1>1, EndedFlagsAreFree
<1>4. AllKept(r, m) => AllKept(begun, m)
  BY <1>1 DEF AllKept, IsKept, Got
<1>5. s \in Streams /\ SameData(begun, s) /\ PullIsKept(begun, s) /\ PullIsMade(begun, s)
  BY <1>1, <1>2, CallPullIfNeeded_Pulls
<1>6. Sound(s, m, n, f) /\ (AllKept(begun, m) => AllKept(s, m))
  BY <1>3, <1>5, SameDataIsSound
<1> QED
  BY <1>1, <1>4, <1>5, <1>6 DEF PullIsKept, PullIsMade, s

\* A pull is done: another follows if one was asked for meanwhile.
LEMMA PullFulfilledIsSound ==
    ASSUME NEW r \in Streams, NEW m, NEW n, NEW f \in BOOLEAN, Sound(r, m, n, f)
    PROVE  LET s == PullFulfilled(r)
           IN  /\ s \in Streams /\ Sound(s, m, n, f)
               /\ AllKept(r, m) => AllKept(s, m)
               /\ Demand(s) => Demand(r) /\ (r.pullAgain => s.pulling)
<1> DEFINE rest == [r EXCEPT !.pulling = FALSE, !.pullAgain = FALSE]
           s == PullFulfilled(r)
<1>1. rest \in Streams /\ SameData(r, rest) /\ ~rest.pulling
  BY DEF Streams, SameData
<1>2. s = IF r.pullAgain THEN CallPullIfNeeded(rest) ELSE rest
  BY DEF PullFulfilled
<1> HIDE DEF rest, s
<1>3. /\ Sound(rest, m, n, f) /\ (AllKept(r, m) => AllKept(rest, m))
      /\ CanCloseOrEnqueue(rest) <=> CanCloseOrEnqueue(r)
      /\ WantsMore(rest) <=> WantsMore(r)
  BY <1>1, SameDataIsSound
<1>4. Demand(rest) => Demand(r)
  BY <1>1, <1>3 DEF Demand, SameData
<1>5. CASE ~r.pullAgain
  BY <1>1, <1>2, <1>3, <1>4, <1>5 DEF s
<1>6. CASE r.pullAgain
  <2>1. s \in Streams /\ SameData(rest, s) /\ PullIsKept(rest, s) /\ PullIsMade(rest, s)
    BY <1>1, <1>2, <1>6, CallPullIfNeeded_Pulls
  <2>2. /\ Sound(s, m, n, f) /\ (AllKept(rest, m) => AllKept(s, m))
        /\ CanCloseOrEnqueue(s) <=> CanCloseOrEnqueue(rest)
        /\ WantsMore(s) <=> WantsMore(rest)
    BY <1>3, <2>1, SameDataIsSound
  <2>3. Demand(s) => Demand(rest)
    BY <2>1, <2>2 DEF Demand, SameData
  <2> QED
    BY <1>1, <1>3, <1>4, <2>1, <2>2, <2>3 DEF PullIsMade, s
<1> QED
  BY <1>5, <1>6

\* What an operation leaves of a pull that is known, when the source did nothing for it,
LEMMA PullStaysKnown ==
    ASSUME PullIsKnown, PullIsKept(rs, rs'), Demand(rs) \/ PullIsMade(rs, rs'),
           pull' = IF rs'.pulling /\ ~rs.pulling THEN "idle" ELSE pull,
           diligent' = diligent
    PROVE  PullIsKnown'
<1>1. pull' # "none" => rs'.pulling
  BY DEF PullIsKnown, PullIsKept
<1>2. rs'.pulling /\ rs'.state = "readable" => pull' # "none"
  BY DEF PullIsKnown, PullIsKept
<1>3. ASSUME Demand(rs') PROVE (pull' = "fed" => rs'.pullAgain) /\ (diligent => pull' # "none")
  <2>1. rs'.state = "readable" /\ rs.state = "readable"
    BY <1>3 DEF Demand, CanCloseOrEnqueue, PullIsKept
  <2>2. CASE Demand(rs)
    BY <1>3, <2>2 DEF PullIsKnown, PullIsKept
  <2>3. CASE PullIsMade(rs, rs')
    BY <1>3, <2>1, <2>3 DEF PullIsKnown, PullIsMade
  <2> QED
    BY <2>2, <2>3
<1> QED
  BY <1>1, <1>2, <1>3 DEF PullIsKnown

\* and when it did.
LEMMA PullIsFed ==
    ASSUME PullIsKnown, PullIsKept(rs, rs'), PullIsMade(rs, rs'),
           pull' = CASE rs'.pulling /\ ~rs.pulling -> "idle"
                     [] pull = "idle" -> "fed"
                     [] OTHER -> pull,
           diligent' = diligent
    PROVE  PullIsKnown'
<1>1. CASE rs'.pulling /\ ~rs.pulling
  <2>1. pull' = "idle"
    BY <1>1 DEF PullIsKnown
  <2> QED
    BY <1>1, <2>1 DEF PullIsKnown
<1>2. CASE ~(rs'.pulling /\ ~rs.pulling)
  <2>1. pull' = IF pull = "idle" THEN "fed" ELSE pull
    BY <1>2
  <2>2. rs'.pulling <=> rs.pulling
    BY <1>2 DEF PullIsKept
  <2>3. ASSUME Demand(rs') PROVE (pull' = "fed" => rs'.pullAgain) /\ (diligent => pull' # "none")
    <3>1. rs'.state = "readable" /\ rs.state = "readable"
      BY <2>3 DEF Demand, CanCloseOrEnqueue, PullIsKept
    <3> QED
      BY <2>1, <2>2, <2>3, <3>1 DEF PullIsKnown, PullIsMade
  <2>4. rs'.state = "readable" => rs.state = "readable"
    BY DEF PullIsKept
  <2> QED
    BY <2>1, <2>2, <2>3, <2>4 DEF PullIsKnown
<1> QED
  BY <1>1, <1>2

\* Once no chunk may be enqueued nothing is wanted.
LEMMA NothingIsWanted ==
    ASSUME NEW r, NEW s, ~CanCloseOrEnqueue(s), s.pulling = r.pulling,
           s.state = "readable" => r.state = "readable"
    PROVE  PullIsKept(r, s) /\ PullIsMade(r, s)
BY DEF PullIsKept, PullIsMade, Demand

\* A new stream.
LEMMA InitIsSound == Init => IInv
<1> SUFFICES ASSUME Init PROVE IInv
  OBVIOUS
<1>1. PICK hwm \in HighWaterMarks : rs = NewReadable(hwm)
  BY DEF Init
<1>2. /\ <<>> \in Seq(Reads) /\ <<>> \in Seq(Answers) /\ <<>> \in Seq(Entries) /\ <<>> \in Seq(Frames)
      /\ DOMAIN <<>> = {} /\ hwm \in Nat
  BY BoundsAssumption
<1>3. rs \in Streams
  BY <1>1, <1>2 DEF NewReadable, Streams, States, Promises
<1>4. /\ rs.state = "readable" /\ rs.reader = NoReader /\ rs.closed = "none" /\ rs.algorithms
      /\ rs.requests = <<>> /\ rs.answers = <<>> /\ rs.queue = <<>> /\ rs.sizing = <<>>
      /\ ~rs.started /\ ~rs.pulling
  BY <1>1 DEF NewReadable
<1>5. Got(rs) = {}
  BY <1>2, <1>4 DEF Got
<1>6. made = 0 /\ issued = 0 /\ readers = 0 /\ pull = "none" /\ start = "running" /\ lost = {}
      /\ settling = [read |-> 0, depth |-> 0]
      /\ sizeFn \in BOOLEAN /\ diligent \in BOOLEAN
  BY DEF Init, NoRead
<1>7. Typed
  BY <1>3, <1>6, BoundsAssumption DEF Typed
<1>8. ReadsAreKept(rs, issued)
  BY <1>2, <1>4 DEF ReadsAreKept
<1>9. ChunksAreKept(rs, made)
  BY <1>2, <1>4, <1>5 DEF ChunksAreKept, ChunksAreKnown, ChunksAreOnce, ChunksAreApart
<1>10. ReaderIsTold(rs) /\ Unsized(rs)
  BY <1>2, <1>4, <1>5 DEF ReaderIsTold, Locked, Unsized, ByTurn, ReadsInTurn
<1>11. AllKept(rs, made)
  BY <1>6 DEF AllKept
<1>12. PullIsKnown
  BY <1>4, <1>6 DEF PullIsKnown, Demand
<1> QED
  BY <1>7, <1>8, <1>9, <1>10, <1>11, <1>12 DEF IInv, Sound

\* Every action.
LEMMA NextKeepsSound == IInv /\ [Next]_vars => IInv'
<1> SUFFICES ASSUME IInv, [Next]_vars PROVE IInv'
  OBVIOUS
<1>1. /\ rs \in Streams /\ sizeFn \in BOOLEAN /\ PullIsKnown
      /\ Sound(rs, made, issued, sizeFn) /\ (sizeFn \/ AllKept(rs, made))
  BY DEF IInv, Typed
<1>2. MaxChunks \in Nat /\ MaxReads \in Nat /\ MaxReaders \in Nat
  BY BoundsAssumption
<1>3. made \in Nat /\ issued \in Nat /\ readers \in Nat
  BY <1>2 DEF IInv, Typed
<1>4. rs.sizing # <<>> => sizeFn = TRUE
  BY <1>1 DEF Sound, Unsized
<1>5. Typed
  BY DEF IInv
<1>6. CASE StartFulfils
  <2>1. rs' = StartFulfilled(rs) /\ UNCHANGED <<made, issued, readers, lost, settling, sizeFn, diligent>>
        /\ start' = "done" /\ pull' = IF rs'.pulling /\ ~rs.pulling THEN "idle" ELSE pull
    BY <1>6 DEF StartFulfils, Becomes
  <2>2. /\ rs' \in Streams /\ Sound(rs', made, issued, sizeFn)
        /\ AllKept(rs, made) => AllKept(rs', made)
        /\ PullIsKept(rs, rs') /\ PullIsMade(rs, rs')
    BY <1>1, <2>1, StartFulfilledIsSound
  <2>3. PullIsKnown'
    BY <1>1, <2>1, <2>2, PullStaysKnown
  <2>4. Typed'
    BY <1>5, <2>1, <2>2 DEF Typed
  <2> QED
    BY <1>1, <2>1, <2>2, <2>3, <2>4 DEF IInv
<1>7. CASE StartRejects
  <2>1. rs' = ControllerError(rs) /\ UNCHANGED <<made, issued, readers, lost, settling, sizeFn, diligent>>
        /\ start' = "done" /\ pull' = IF rs'.pulling /\ ~rs.pulling THEN "idle" ELSE pull
    BY <1>7 DEF StartRejects, Becomes
  <2>2. /\ rs' \in Streams /\ Sound(rs', made, issued, sizeFn)
        /\ rs'.state # "readable" /\ rs'.pulling = rs.pulling
    BY <1>1, <2>1, ErrorIsSound
  <2>3. PullIsKnown'
    BY <1>1, <2>1, <2>2, NothingIsWanted, PullStaysKnown DEF CanCloseOrEnqueue
  <2>4. Typed' /\ AllKept(rs', made)
    BY <1>5, <2>1, <2>2 DEF Typed, AllKept
  <2> QED
    BY <1>1, <2>1, <2>2, <2>3, <2>4 DEF IInv
<1>8. CASE EnqueueCall
  <2>1. /\ made < MaxChunks /\ CanCloseOrEnqueue(rs) /\ made' = made + 1
        /\ rs' = IF sizeFn THEN EnqueueStart(rs, made + 1) ELSE Enqueue(rs, made + 1)
        /\ UNCHANGED <<start, issued, readers, lost, settling, sizeFn, diligent>>
        /\ pull' = CASE rs'.pulling /\ ~rs.pulling -> "idle"
                     [] pull = "idle" -> "fed"
                     [] OTHER -> pull
    BY <1>8 DEF EnqueueCall, Feeds
  <2>2. made + 1 \in Chunks /\ made + 1 \in 0..MaxChunks
    BY <1>2, <1>3, <2>1 DEF Chunks
  <2>3. /\ rs' \in Streams /\ Sound(rs', made + 1, issued, sizeFn)
        /\ sizeFn \/ AllKept(rs', made + 1)
        /\ PullIsKept(rs, rs') /\ PullIsMade(rs, rs')
    <3>1. CASE sizeFn
      <4>1. sizeFn = TRUE /\ rs' = EnqueueStart(rs, made + 1)
        BY <1>1, <2>1, <3>1
      <4>2. Sound(rs, made, issued, TRUE)
        BY <1>1, <4>1
      <4>3. /\ rs' \in Streams /\ Sound(rs', made + 1, issued, TRUE)
            /\ PullIsKept(rs, rs') /\ PullIsMade(rs, rs')
        BY <1>1, <1>3, <2>1, <2>2, <4>1, <4>2, EnqueueStartIsSound
      <4> QED
        BY <4>1, <4>3
    <3>2. CASE ~sizeFn
      <4>1. sizeFn = FALSE /\ rs' = Enqueue(rs, made + 1)
        BY <1>1, <2>1, <3>2
      <4>2. Sound(rs, made, issued, FALSE) /\ AllKept(rs, made)
        BY <1>1, <4>1
      <4>3. /\ rs' \in Streams /\ Sound(rs', made + 1, issued, FALSE) /\ AllKept(rs', made + 1)
            /\ PullIsKept(rs, rs') /\ PullIsMade(rs, rs')
        BY <1>1, <1>3, <2>1, <2>2, <4>1, <4>2, EnqueueIsSound
      <4> QED
        BY <4>1, <4>3
    <3> QED
      BY <3>1, <3>2
  <2>4. PullIsKnown'
    BY <1>1, <2>1, <2>3, PullIsFed
  <2>5. Typed'
    <3>1. pull' \in {"none", "idle", "fed"}
      BY <1>5, <2>1 DEF Typed
    <3> QED
      BY <1>5, <2>1, <2>2, <2>3, <3>1 DEF Typed
  <2> QED
    BY <2>1, <2>3, <2>4, <2>5 DEF IInv
<1>9. CASE SizeReturns
  <2>1. /\ rs.sizing # <<>> /\ (\/ \E size \in Sizes : rs' = SizeReturned(rs, size)
                                \/ rs' = SizeFailed(rs))
        /\ UNCHANGED <<start, made, issued, readers, lost, settling, sizeFn, diligent>>
        /\ pull' = IF rs'.pulling /\ ~rs.pulling THEN "idle" ELSE pull
    BY <1>9 DEF SizeReturns, Becomes
  <2>2. sizeFn = TRUE /\ Sound(rs, made, issued, TRUE)
    BY <1>1, <1>4, <2>1
  <2>3. /\ rs' \in Streams /\ Sound(rs', made, issued, TRUE)
        /\ PullIsKept(rs, rs') /\ (Demand(rs) \/ PullIsMade(rs, rs'))
    <3>1. ASSUME NEW size \in Sizes, rs' = SizeReturned(rs, size)
          PROVE  /\ rs' \in Streams /\ Sound(rs', made, issued, TRUE)
                 /\ PullIsKept(rs, rs') /\ (Demand(rs) \/ PullIsMade(rs, rs'))
      BY <1>1, <1>3, <2>1, <2>2, <3>1, SizeReturnedIsSound
    <3>2. ASSUME rs' = SizeFailed(rs)
          PROVE  /\ rs' \in Streams /\ Sound(rs', made, issued, TRUE)
                 /\ PullIsKept(rs, rs') /\ (Demand(rs) \/ PullIsMade(rs, rs'))
      <4>1. /\ rs' \in Streams /\ Sound(rs', made, issued, TRUE)
            /\ rs'.state # "readable" /\ rs'.pulling = rs.pulling
        BY <1>1, <1>3, <2>1, <2>2, <3>2, SizeFailedIsSound
      <4> QED
        BY <4>1, NothingIsWanted DEF CanCloseOrEnqueue
    <3> QED
      BY <2>1, <3>1, <3>2
  <2>4. PullIsKnown'
    BY <1>1, <2>1, <2>3, PullStaysKnown
  <2>5. Typed'
    BY <1>5, <2>1, <2>3 DEF Typed
  <2> QED
    BY <2>1, <2>2, <2>3, <2>4, <2>5 DEF IInv
<1>10. CASE CloseCall
  <2>1. /\ CanCloseOrEnqueue(rs) /\ rs' = ControllerClose(rs)
        /\ UNCHANGED <<start, made, issued, readers, lost, settling, sizeFn, diligent>>
        /\ pull' = CASE rs'.pulling /\ ~rs.pulling -> "idle"
                     [] pull = "idle" -> "fed"
                     [] OTHER -> pull
    BY <1>10 DEF CloseCall, Feeds
  <2>2. /\ rs' \in Streams /\ Sound(rs', made, issued, sizeFn)
        /\ AllKept(rs, made) => AllKept(rs', made)
        /\ ~CanCloseOrEnqueue(rs') /\ rs'.pulling = rs.pulling
    BY <1>1, <2>1, CloseIsSound
  <2>3. PullIsKept(rs, rs') /\ PullIsMade(rs, rs')
    BY <2>1, <2>2, NothingIsWanted DEF CanCloseOrEnqueue
  <2>4. PullIsKnown'
    BY <1>1, <2>1, <2>3, PullIsFed
  <2>5. Typed'
    BY <1>5, <2>1, <2>2 DEF Typed
  <2> QED
    BY <1>1, <2>1, <2>2, <2>4, <2>5 DEF IInv
<1>11. CASE ErrorCall
  <2>1. /\ rs' = ControllerError(rs)
        /\ UNCHANGED <<start, made, issued, readers, lost, settling, sizeFn, diligent>>
        /\ pull' = CASE rs'.pulling /\ ~rs.pulling -> "idle"
                     [] pull = "idle" -> "fed"
                     [] OTHER -> pull
    BY <1>11 DEF ErrorCall, Feeds
  <2>2. /\ rs' \in Streams /\ Sound(rs', made, issued, sizeFn)
        /\ rs'.state # "readable" /\ rs'.pulling = rs.pulling
    BY <1>1, <2>1, ErrorIsSound
  <2>3. PullIsKept(rs, rs') /\ PullIsMade(rs, rs')
    BY <2>2, NothingIsWanted DEF CanCloseOrEnqueue
  <2>4. PullIsKnown'
    BY <1>1, <2>1, <2>3, PullIsFed
  <2>5. Typed' /\ AllKept(rs', made)
    BY <1>5, <2>1, <2>2 DEF Typed, AllKept
  <2> QED
    BY <1>1, <2>1, <2>2, <2>4, <2>5 DEF IInv
<1>12. CASE PullFulfils
  <2>1. /\ diligent => pull = "fed" \/ ~CanCloseOrEnqueue(rs)
        /\ rs' = PullFulfilled(rs) /\ pull' = IF rs'.pulling THEN "idle" ELSE "none"
        /\ UNCHANGED <<start, made, issued, readers, lost, settling, sizeFn, diligent>>
    BY <1>12 DEF PullFulfils
  <2>2. /\ rs' \in Streams /\ Sound(rs', made, issued, sizeFn)
        /\ AllKept(rs, made) => AllKept(rs', made)
        /\ Demand(rs') => Demand(rs) /\ (rs.pullAgain => rs'.pulling)
    BY <1>1, <2>1, PullFulfilledIsSound
  <2>3. Demand(rs') /\ diligent => rs'.pulling
    BY <1>1, <2>1, <2>2 DEF PullIsKnown, Demand
  <2>4. PullIsKnown'
    BY <2>1, <2>3 DEF PullIsKnown
  <2>5. Typed'
    BY <1>5, <2>1, <2>2 DEF Typed
  <2> QED
    BY <1>1, <2>1, <2>2, <2>4, <2>5 DEF IInv
<1>13. CASE PullRejects
  <2>1. /\ rs' = ControllerError(rs) /\ pull' = "none"
        /\ UNCHANGED <<start, made, issued, readers, lost, settling, sizeFn, diligent>>
    BY <1>13 DEF PullRejects
  <2>2. rs' \in Streams /\ Sound(rs', made, issued, sizeFn) /\ rs'.state # "readable"
    BY <1>1, <2>1, ErrorIsSound
  <2>3. PullIsKnown'
    BY <2>1, <2>2 DEF PullIsKnown, Demand, CanCloseOrEnqueue
  <2>4. Typed' /\ AllKept(rs', made)
    BY <1>5, <2>1, <2>2 DEF Typed, AllKept
  <2> QED
    BY <1>1, <2>1, <2>2, <2>3, <2>4 DEF IInv
<1>14. CASE GetReader
  <2>1. /\ ~Locked(rs) /\ readers < MaxReaders /\ readers' = readers + 1
        /\ rs' = AcquireReader(rs, readers + 1)
        /\ UNCHANGED <<start, made, issued, lost, settling, sizeFn, diligent>>
        /\ pull' = IF rs'.pulling /\ ~rs.pulling THEN "idle" ELSE pull
    BY <1>14 DEF GetReader, Becomes
  <2>2. readers + 1 \in Readers /\ readers + 1 \in 0..MaxReaders
    BY <1>2, <1>3, <2>1 DEF Readers
  <2>3. /\ rs' \in Streams /\ Sound(rs', made, issued, sizeFn)
        /\ AllKept(rs, made) => AllKept(rs', made)
        /\ rs'.pulling = rs.pulling /\ rs'.pullAgain = rs.pullAgain
        /\ CanCloseOrEnqueue(rs') <=> CanCloseOrEnqueue(rs)
        /\ rs'.started = rs.started /\ (WantsMore(rs') <=> WantsMore(rs))
    BY <1>1, <2>1, <2>2, AcquireIsSound
  <2>4. rs'.state = rs.state
    BY <1>1, <2>1 DEF AcquireReader, Streams
  <2>5. PullIsKept(rs, rs') /\ (Demand(rs) \/ PullIsMade(rs, rs'))
    BY <2>3, <2>4 DEF PullIsKept, PullIsMade, Demand
  <2>6. PullIsKnown'
    BY <1>1, <2>1, <2>5, PullStaysKnown
  <2>7. Typed'
    BY <1>5, <2>1, <2>2, <2>3 DEF Typed
  <2> QED
    BY <1>1, <2>1, <2>3, <2>6, <2>7 DEF IInv
<1>15. CASE ReadCall
  <2>1. /\ Locked(rs) /\ issued < MaxReads /\ issued' = issued + 1
        /\ rs' = Read(rs, issued + 1)
        /\ settling' \in {settling, [read |-> issued + 1, depth |-> Len(rs.sizing)]}
        /\ UNCHANGED <<start, made, readers, lost, sizeFn, diligent>>
        /\ pull' = IF rs'.pulling /\ ~rs.pulling THEN "idle" ELSE pull
    BY <1>15 DEF ReadCall, Becomes
  <2>2. issued + 1 \in Reads /\ issued + 1 \in 0..MaxReads
    BY <1>2, <1>3, <2>1 DEF Reads
  <2>3. /\ rs' \in Streams /\ Sound(rs', made, issued + 1, sizeFn)
        /\ AllKept(rs, made) => AllKept(rs', made)
        /\ PullIsKept(rs, rs') /\ PullIsMade(rs, rs')
    BY <1>1, <1>3, <2>1, <2>2, ReadIsSound
  <2>4. PullIsKnown'
    BY <1>1, <2>1, <2>3, PullStaysKnown
  <2>5. Len(rs.sizing) \in Nat
    BY <1>1 DEF Streams
  <2>6. Typed'
    BY <1>5, <2>1, <2>2, <2>3, <2>5 DEF Typed
  <2> QED
    BY <1>1, <2>1, <2>3, <2>4, <2>6 DEF IInv
<1>16. CASE ReleaseLock
  <2>1. /\ lost' = lost \union {rs.requests[i] : i \in DOMAIN rs.requests}
        /\ rs' = ReleaseReader(rs)
        /\ UNCHANGED <<start, made, issued, readers, settling, sizeFn, diligent>>
        /\ pull' = IF rs'.pulling /\ ~rs.pulling THEN "idle" ELSE pull
    BY <1>16 DEF ReleaseLock, Becomes
  <2>2. \A i \in DOMAIN rs.requests : rs.requests[i] \in Reads
    <3>1. rs.requests \in Seq(Reads)
      BY <1>1 DEF Streams
    <3> QED
      BY <3>1
  <2>3. /\ rs' \in Streams /\ Sound(rs', made, issued, sizeFn)
        /\ AllKept(rs, made) => AllKept(rs', made)
        /\ rs'.pulling = rs.pulling /\ rs'.pullAgain = rs.pullAgain
        /\ CanCloseOrEnqueue(rs') <=> CanCloseOrEnqueue(rs)
        /\ rs'.started = rs.started /\ (WantsMore(rs') => WantsMore(rs))
    BY <1>1, <2>1, ReleaseIsSound
  <2>4. rs'.state = rs.state
    BY <1>1, <2>1 DEF ReleaseReader, Streams
  <2>5. PullIsKept(rs, rs') /\ (Demand(rs) \/ PullIsMade(rs, rs'))
    BY <2>3, <2>4 DEF PullIsKept, PullIsMade, Demand
  <2>6. PullIsKnown'
    BY <1>1, <2>1, <2>5, PullStaysKnown
  <2>7. Typed'
    BY <1>5, <2>1, <2>2, <2>3 DEF Typed
  <2> QED
    BY <1>1, <2>1, <2>3, <2>6, <2>7 DEF IInv
<1>17. CASE CancelCall
  <2>1. /\ rs' = Cancel(rs)
        /\ UNCHANGED <<start, made, issued, readers, lost, settling, sizeFn, diligent>>
        /\ pull' = IF rs'.pulling /\ ~rs.pulling THEN "idle" ELSE pull
    BY <1>17 DEF CancelCall, Becomes
  <2>2. /\ rs' \in Streams /\ Sound(rs', made, issued, sizeFn)
        /\ rs'.state # "readable" /\ rs'.pulling = rs.pulling
    BY <1>1, <2>1, CancelIsSound
  <2>3. PullIsKnown'
    BY <1>1, <2>1, <2>2, NothingIsWanted, PullStaysKnown DEF CanCloseOrEnqueue
  <2>4. Typed' /\ AllKept(rs', made)
    BY <1>5, <2>1, <2>2 DEF Typed, AllKept
  <2> QED
    BY <1>1, <2>1, <2>2, <2>3, <2>4 DEF IInv
<1>18. CASE SyncDrainCall
  <2>1. /\ CanSyncDrain(rs) /\ rs' = SyncDrain(rs)
        /\ UNCHANGED <<start, made, issued, readers, lost, settling, sizeFn, diligent>>
        /\ pull' = IF rs'.pulling /\ ~rs.pulling THEN "idle" ELSE pull
    BY <1>18 DEF SyncDrainCall, Becomes
  <2>2. /\ rs' \in Streams /\ Sound(rs', made, issued, sizeFn)
        /\ rs'.state # "readable" /\ rs'.pulling = rs.pulling
    BY <1>1, <2>1, DrainIsSound
  <2>3. PullIsKnown'
    BY <1>1, <2>1, <2>2, NothingIsWanted, PullStaysKnown DEF CanCloseOrEnqueue
  <2>4. Typed' /\ AllKept(rs', made)
    BY <1>5, <2>1, <2>2 DEF Typed, AllKept
  <2> QED
    BY <1>1, <2>1, <2>2, <2>3, <2>4 DEF IInv
<1>19. CASE PullReturns \/ UNCHANGED vars
  <2>1. /\ UNCHANGED <<rs, start, pull, made, issued, readers, lost, sizeFn, diligent>>
        /\ settling' \in {settling, [read |-> 0, depth |-> 0]}
    BY <1>19 DEF PullReturns, vars, NoRead
  <2>2. Typed' /\ PullIsKnown'
    BY <1>1, <1>5, <2>1 DEF Typed, PullIsKnown
  <2> QED
    BY <1>1, <2>1, <2>2 DEF IInv
<1> QED
  BY <1>6, <1>7, <1>8, <1>9, <1>10, <1>11, <1>12, <1>13, <1>14, <1>15, <1>16, <1>17, <1>18, <1>19
  DEF Next

\* What the invariant says of the reads,
LEMMA SoundStreamsServe == IInv => ReadersAreServed
<1> SUFFICES ASSUME IInv PROVE ReadersAreServed
  OBVIOUS
<1>1. Typed /\ rs \in Streams /\ Sound(rs, made, issued, sizeFn)
  BY DEF IInv, Typed
<1>2. ReadableTypeOK(rs, Chunks, Sizes \union {1}, Readers, Reads)
  <2>1. /\ rs.requests \in Seq(Reads) /\ rs.answers \in Seq(Answers) /\ rs.queue \in Seq(Entries)
    BY <1>1 DEF Streams
  <2>2. \A i \in DOMAIN rs.requests : rs.requests[i] \in Reads
    BY <2>1
  <2>3. \A i \in DOMAIN rs.answers : rs.answers[i] \in Answers
    BY <2>1
  <2>4. \A i \in DOMAIN rs.queue : rs.queue[i] \in Entries
    BY <2>1
  <2>5. \A i \in DOMAIN rs.answers :
           /\ rs.answers[i].to \in Reads
           /\ rs.answers[i].what \in {Done, Failed} \union {Chunk(c) : c \in Chunks}
    BY <2>3 DEF Answers, Whats
  <2>6. \A i \in DOMAIN rs.queue : rs.queue[i].chunk \in Chunks /\ rs.queue[i].size \in Sizes \union {1}
    BY <2>4 DEF Entries
  <2>7. /\ rs.state \in {"readable", "closed", "errored"}
        /\ rs.closed \in {"none", "pending", "fulfilled", "rejected"}
        /\ rs.reader \in Readers \union {NoReader} /\ rs.hwm \in Nat
    BY <1>1 DEF Streams, States, Promises
  <2>8. {rs.disturbed, rs.started, rs.closeRequested, rs.pulling, rs.pullAgain, rs.algorithms}
             \subseteq BOOLEAN
    BY <1>1 DEF Streams
  <2> QED
    BY <2>2, <2>5, <2>6, <2>7, <2>8 DEF ReadableTypeOK
<1>3. TypeOK
  BY <1>1, <1>2 DEF TypeOK, Typed
<1>4. AlgorithmsAreThere
  BY <1>1 DEF AlgorithmsAreThere, Sound, ReaderIsTold
<1>5. ChunksInOrder
  <2> SUFFICES ASSUME ~sizeFn PROVE InOrder(rs) /\ (rs.state = "readable" => \A c \in 1..made : IsKept(rs, c))
    BY DEF ChunksInOrder
  <2>1. ByTurn(rs) /\ ReadsInTurn(rs) /\ AllKept(rs, made)
    BY <1>1 DEF IInv, Sound, Unsized
  <2>2. \A i \in Got(rs) : i \in Nat /\ rs.answers[i].to \in Nat
    <3>1. rs.answers \in Seq(Answers) /\ Reads \subseteq Nat
      BY <1>1, BoundsAssumption DEF Streams, Reads
    <3>2. \A i \in DOMAIN rs.answers : i \in Nat /\ rs.answers[i] \in Answers
      BY <3>1
    <3> QED
      BY <3>1, <3>2 DEF Got, Answers
  <2>3. ASSUME NEW i \in Got(rs), NEW j \in Got(rs), rs.answers[i].to < rs.answers[j].to
        PROVE  rs.answers[i].what.chunk < rs.answers[j].what.chunk
    <3>1. ~(j < i) /\ j # i
      BY <2>1, <2>2, <2>3 DEF ReadsInTurn
    <3>2. i < j
      BY <2>2, <3>1
    <3> QED
      BY <2>1, <3>2 DEF ByTurn
  <2> QED
    BY <2>1, <2>3 DEF InOrder, ByTurn, AllKept
<1>6. NoChunkTwice
  BY <1>1 DEF NoChunkTwice, Sound, ChunksAreKept, ChunksAreOnce, ChunksAreApart
<1> QED
  BY <1>3, <1>4, <1>5, <1>6 DEF ReadersAreServed

\* and of the readers and the source.
LEMMA SoundStreamsTell == IInv => ReadersAreTold
<1> SUFFICES ASSUME IInv PROVE ReadersAreTold
  OBVIOUS
<1>1. Sound(rs, made, issued, sizeFn) /\ PullIsKnown
  BY DEF IInv
<1>2. EndedAnswersEverything
  BY <1>1 DEF EndedAnswersEverything, Sound, ReaderIsTold, ReadsAreKept
<1>3. ClosedTellsTheState
  BY <1>1 DEF ClosedTellsTheState, Sound, ReaderIsTold
<1>4. DemandIsPulled
  BY <1>1 DEF DemandIsPulled, PullIsKnown, Demand, WantsMore, ShouldCallPull
<1> QED
  BY <1>2, <1>3, <1>4 DEF ReadersAreTold

\* Reads get every chunk once, in order, and no cleared callback is called,
\* for every source, every strategy and every interleaving of their calls
\* (pull_steps, enqueue).
THEOREM ReadersGetTheirChunks == Spec => []ReadersAreServed
<1>1. Spec => []IInv
  BY InitIsSound, NextKeepsSound, PTL DEF Spec
<1> QED
  BY <1>1, SoundStreamsServe, PTL

\* A stream that ends answers each read it holds and tells its reader, and a
\* demand that came while a pull ran is pulled for (readable_stream_close,
\* call_pull_if_needed).
THEOREM ReadersHear == Spec => []ReadersAreTold
<1>1. Spec => []IInv
  BY InitIsSound, NextKeepsSound, PTL DEF Spec
<1> QED
  BY <1>1, SoundStreamsTell, PTL

-----------------------------------------------------------------------------
(* The writable stream *)

\* Whatever else a behaviour is about, its writable stream is one of WritableStream.
LEMMA WritableIsOne == MCSpec => W!Init /\ [][W!Next]_(W!vars)
<1>1. MCInit => W!Init
  BY DEF MCInit
<1>2. [MCNext]_allVars => [W!Next]_(W!vars)
  BY DEF MCNext, ReadableStep, WritableStep, TeeStep, IteratorStep, Others, allVars, writableVars,
    W!vars
<1> QED
  BY <1>1, <1>2, PTL DEF MCSpec

\* The sink is called with one thing at a time, in the order of the writes unless a
\* callback wrote; each promise settles once, and no assertion fails
\* (advance_queue_if_needed, finish_erroring).
THEOREM SinkGetsItsCalls == W!ConstantsOK => (MCSpec => []SinkIsServed)
<1> SUFFICES ASSUME W!ConstantsOK PROVE MCSpec => []SinkIsServed
  OBVIOUS
<1>1. W!Init => W!IInv
  BY W!InitIsSound
<1>2. W!IInv /\ [W!Next]_(W!vars) => W!IInv'
  BY W!NextKeepsIInv
<1>3. W!IInv => SinkIsServed
  BY W!IInvServes DEF SinkIsServed
<1> QED
  BY <1>1, <1>2, <1>3, WritableIsOne, PTL

\* A writer learns of backpressure and of the stream's end, and the queue is what was
\* asked of the stream (update_backpressure, writable_stream_start_erroring).
THEOREM WritersHear == W!ConstantsOK => (MCSpec => []WritersAreTold)
<1> SUFFICES ASSUME W!ConstantsOK PROVE MCSpec => []WritersAreTold
  OBVIOUS
<1>1. W!Init => W!IInv
  BY W!InitIsSound
<1>2. W!IInv /\ [W!Next]_(W!vars) => W!IInv'
  BY W!NextKeepsIInv
<1>3. W!IInv => WritersAreTold
  BY W!IInvTells DEF WritersAreTold
<1> QED
  BY <1>1, <1>2, <1>3, WritableIsOne, PTL
=============================================================================
