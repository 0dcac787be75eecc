----------------------- MODULE WritableStream_proofs -----------------------
(***************************************************************************)
(* Proofs about WritableStream, for any number of chunks, of writers and   *)
(* of nested callbacks, any high water marks and any sizes.                *)
(*                                                                         *)
(* The invariant is IInv: between operations the stream is sound.  An      *)
(* operation is several of Writable's operators in a row, and between two  *)
(* of them the stream is not sound yet, but Kept, and Erroring, Ending or  *)
(* Steady; each operator has a lemma that says what it makes of such a     *)
(* stream, and each action of the model follows from the lemmas of the     *)
(* operators it applies.                                                   *)
(***************************************************************************)
EXTENDS WritableStream, TLAPS

-----------------------------------------------------------------------------
(* The invariant.  Kept holds of a stream in the midst of an operation too: *)
(* which flags go with which state, that what the sink was called with      *)
(* settled before the next call, that each call is in one place, and that   *)
(* the writer knows the state, unless it came late.  A stream is Sound      *)
(* between operations: while it takes writes, queue, requests and           *)
(* backpressure agree; an error waits for nothing but what is under way.    *)

Live == {"writable", "erroring"}
Promises == {"none", "pending", "fulfilled", "rejected"}
Ops == WriteIds \union {CloseOp, AbortOp}
Answered == [to : Ops, what : {"ok", "failed"}]

Streams ==
    [state : {"writable", "erroring", "errored", "closed"},
     writer : Writers \union {NoWriter}, ready : Promises, closed : Promises,
     writeRequests : Seq(WriteIds), inFlightWrite : WriteIds \union {NoWrite},
     closeRequest : BOOLEAN, inFlightClose : BOOLEAN, closeTells : Writers \union {NoWriter},
     pendingAbort : {"none", "fresh", "late"}, aborting : BOOLEAN, signalled : BOOLEAN,
     backpressure : BOOLEAN, started : BOOLEAN, algorithms : BOOLEAN,
     queue : Seq([chunk : WriteIds \union {CloseOp}, size : WriteSizes \union {0}]), hwm : Nat,
     frames : Seq([in : {"size", "signal"}, writer : Writers \union {NoWriter}, chunk : Ops]),
     answers : Seq(Answered), calls : Seq(Ops), panicked : BOOLEAN]

\* What settled, what succeeded, and what the sink is at.
Out(s) == {s.answers[i].to : i \in DOMAIN s.answers}
Did(s) == {s.answers[i].to : i \in {j \in DOMAIN s.answers : s.answers[j].what = "ok"}}
Called(s) == {s.calls[i] : i \in DOMAIN s.calls}
AtIt(s, op) ==
    \/ op = s.inFlightWrite /\ s.inFlightWrite # NoWrite
    \/ op = CloseOp /\ s.inFlightClose
    \/ op = AbortOp /\ s.aborting

FlagsFit(s) ==
    /\ ~s.panicked
    /\ s.inFlightWrite # NoWrite =>
           s.started /\ s.state \in Live /\ ~s.inFlightClose /\ s.queue # <<>>
    /\ s.inFlightClose =>
           s.started /\ s.state \in Live /\ ~s.closeRequest /\ s.writeRequests = <<>>
    /\ s.started \/ s.state \in Live
    /\ s.pendingAbort # "none" => s.state \in Live
    /\ s.pendingAbort = "fresh" => s.algorithms \/ s.inFlightClose
    /\ s.aborting => s.state = "errored"
    /\ Ended(s) => s.writeRequests = <<>>
    /\ s.closeRequest => s.state \in Live \/ s.aborting

InTurn(s) ==
    /\ \A i \in DOMAIN s.calls : i < Len(s.calls) => s.calls[i] \in WriteIds /\ s.calls[i] \in Out(s)
    /\ s.calls # <<>> => Last(s.calls) \in Out(s) \/ AtIt(s, Last(s.calls))
    /\ s.inFlightWrite # NoWrite => s.calls # <<>> /\ Last(s.calls) = s.inFlightWrite
    /\ \A op \in Did(s) : op \in WriteIds => op \in Called(s)
    /\ s.pendingAbort # "none" /\ ~s.inFlightClose => Called(s) \subseteq WriteIds

Sizing(s) == {i \in DOMAIN s.frames : s.frames[i].in = "size"}

Once(s, n) ==
    /\ \A i, j \in DOMAIN s.answers : s.answers[i].to = s.answers[j].to => i = j
    /\ \A i, j \in DOMAIN s.writeRequests : s.writeRequests[i] = s.writeRequests[j] => i = j
    /\ \A i, j \in Sizing(s) : s.frames[i].chunk = s.frames[j].chunk => i = j
    /\ s.inFlightWrite \notin Out(s) \/ s.inFlightWrite = NoWrite
    /\ \A i \in DOMAIN s.writeRequests :
           s.writeRequests[i] \notin Out(s) \union {s.inFlightWrite}
    /\ \A i \in Sizing(s) :
           /\ s.frames[i].chunk \in 1..n
           /\ s.frames[i].chunk \notin Out(s) \union {s.inFlightWrite}
           /\ \A j \in DOMAIN s.writeRequests : s.writeRequests[j] # s.frames[i].chunk
    /\ \A op \in Out(s) : op <= n
    /\ s.inFlightWrite <= n
    /\ \A i \in DOMAIN s.writeRequests : s.writeRequests[i] <= n
    /\ \A i \in DOMAIN s.calls : s.calls[i] <= n
    /\ CloseOp \in Out(s) => ~s.closeRequest /\ ~s.inFlightClose
    /\ AbortOp \in Out(s) => ~s.aborting /\ s.pendingAbort = "none"

\* Without a write from the size() of another.
InOrder(s) ==
    /\ \A i, j \in DOMAIN s.calls : i < j /\ s.calls[j] \in WriteIds => s.calls[i] < s.calls[j]
    /\ \A i \in DOMAIN s.calls, j \in DOMAIN s.writeRequests : s.calls[i] < s.writeRequests[j]
    /\ \A i, j \in DOMAIN s.writeRequests : i < j => s.writeRequests[i] < s.writeRequests[j]
    /\ \A i, j \in Sizing(s) : i = j
    /\ \A i \in Sizing(s) :
           /\ \A j \in DOMAIN s.calls : s.calls[j] < s.frames[i].chunk
           /\ \A j \in DOMAIN s.writeRequests : s.writeRequests[j] < s.frames[i].chunk

\* Who was the writer when an operation began is so still, or a late one came.
Tells(s, w, away) == w = s.writer \/ s.writer \in away \union {NoWriter}

Knows(s) ==
    /\ s.state \in {"erroring", "errored"} => s.ready = "rejected"
    /\ s.state \in Live => s.closed = "pending"
    /\ s.state = "closed" => s.closed = "fulfilled"
    /\ s.state = "errored" => s.closed = "rejected" \/ (s.aborting /\ s.closed = "pending")

WriterKnows(s, away) ==
    /\ IsLocked(s) /\ s.writer \notin away => Knows(s)
    /\ \A i \in DOMAIN s.frames : Tells(s, s.frames[i].writer, away)
    /\ s.inFlightClose => Tells(s, s.closeTells, away)

Kept(s, n, away, f) ==
    FlagsFit(s) /\ InTurn(s) /\ Once(s, n) /\ (f \/ InOrder(s)) /\ WriterKnows(s, away)

ReadyFits(s, away) ==
    IsLocked(s) /\ s.writer \notin away =>
        s.ready = IF s.backpressure /\ ~CloseQueuedOrInFlight(s) THEN "pending" ELSE "fulfilled"

BackpressureFits(s) ==
    ~CloseQueuedOrInFlight(s) => s.backpressure = (WriterDesiredSize(s) <= 0)

TakesWrites(s, away) ==
    /\ QueueIsTheRequests(s)
    /\ s.algorithms \/ s.inFlightClose
    /\ s.pendingAbort = "none"
    /\ ReadyFits(s, away)

\* Only what ended has its close or abort behind it.
EndIsAhead(s) ==
    /\ CloseOp \in Out(s) \/ AbortOp \in Out(s) => Ended(s)
    /\ s.state \in Live /\ ~s.inFlightClose => Called(s) \subseteq WriteIds

Sound(s, n, away, f) ==
    /\ Kept(s, n, away, f)
    /\ s.state = "writable" => TakesWrites(s, away) /\ BackpressureFits(s)
    /\ s.state = "erroring" => ~s.started \/ OperationInFlight(s)
    /\ EndIsAhead(s)

IInv ==
    /\ ws \in Streams
    /\ wrote \in 0..MaxWrites /\ writers \in 0..MaxWriters
    /\ asked \subseteq {CloseOp, AbortOp}
    /\ late \subseteq 1..writers /\ ws.writer <= writers
    /\ starting \in BOOLEAN /\ nested \in BOOLEAN
    /\ starting = ~ws.started
    /\ Sound(ws, wrote, late, nested)

-----------------------------------------------------------------------------
\* What was settled by a sequence of promises.
ToldOf(ops) == {ops[i] : i \in DOMAIN ops}

\* The fields of a stream but its answers.
SameBut(s, t) ==
    /\ t.state = s.state /\ t.writer = s.writer /\ t.ready = s.ready /\ t.closed = s.closed
    /\ t.writeRequests = s.writeRequests /\ t.inFlightWrite = s.inFlightWrite
    /\ t.closeRequest = s.closeRequest /\ t.inFlightClose = s.inFlightClose
    /\ t.closeTells = s.closeTells /\ t.pendingAbort = s.pendingAbort /\ t.aborting = s.aborting
    /\ t.signalled = s.signalled /\ t.backpressure = s.backpressure /\ t.started = s.started
    /\ t.algorithms = s.algorithms /\ t.queue = s.queue /\ t.hwm = s.hwm /\ t.frames = s.frames
    /\ t.calls = s.calls /\ t.panicked = s.panicked

\* What promises settle with is added to what has settled.
LEMMA AnswersAdd ==
    ASSUME NEW s \in Streams, NEW ops \in Seq(Ops), NEW what \in {"ok", "failed"}
    PROVE  LET t == Answers(s, ops, what)
           IN  /\ t \in Streams /\ SameBut(s, t)
               /\ Out(t) = Out(s) \union ToldOf(ops)
               /\ Did(t) = IF what = "ok" THEN Did(s) \union ToldOf(ops) ELSE Did(s)
               /\ /\ \A i, j \in DOMAIN s.answers : s.answers[i].to = s.answers[j].to => i = j
                  /\ \A i, j \in DOMAIN ops : ops[i] = ops[j] => i = j
                  /\ \A i \in DOMAIN ops : ops[i] \notin Out(s)
                  => \A i, j \in DOMAIN t.answers : t.answers[i].to = t.answers[j].to => i = j
<1> DEFINE more == [i \in DOMAIN ops |-> [to |-> ops[i], what |-> what]]
           all == s.answers \o more
           t == Answers(s, ops, what)
<1>1. s.answers \in Seq(Answered)
  BY DEF Streams
<1>2. more \in Seq(Answered) /\ Len(more) = Len(ops) /\ DOMAIN more = 1..Len(ops) /\ DOMAIN ops = 1..Len(ops)
  <2>1. \A i \in DOMAIN ops : [to |-> ops[i], what |-> what] \in Answered
    BY DEF Answered
  <2> QED
    BY <2>1
<1>3. \A i \in DOMAIN ops : more[i].to = ops[i] /\ more[i].what = what
  OBVIOUS
<1> HIDE DEF more
<1>4. /\ all \in Seq(Answered) /\ Len(all) = Len(s.answers) + Len(more)
      /\ DOMAIN all = 1..Len(all) /\ DOMAIN s.answers = 1..Len(s.answers)
      /\ Len(s.answers) \in Nat /\ Len(ops) \in Nat
  BY <1>1, <1>2
<1>5. \A i \in DOMAIN s.answers : i \in DOMAIN all /\ all[i] = s.answers[i]
  BY <1>1, <1>2, <1>4
<1>6. \A i \in DOMAIN ops : Len(s.answers) + i \in DOMAIN all /\ all[Len(s.answers) + i] = more[i]
  BY <1>1, <1>2, <1>4
<1> HIDE DEF all
<1>7. t.answers = all /\ t \in Streams /\ SameBut(s, t)
  BY <1>4 DEF Answers, Streams, SameBut, all, more
<1> HIDE DEF t
<1>8. ASSUME NEW i \in DOMAIN all
      PROVE  i \in DOMAIN s.answers \/ \E j \in DOMAIN ops : i = Len(s.answers) + j
  <2>1. CASE i <= Len(s.answers)
    BY <1>4, <2>1
  <2>2. CASE i > Len(s.answers)
    <3>1. i - Len(s.answers) \in DOMAIN ops /\ i = Len(s.answers) + (i - Len(s.answers))
      BY <1>2, <1>4, <2>2
    <3> QED
      BY <3>1
  <2> QED
    BY <1>4, <2>1, <2>2
<1>9. Out(t) = Out(s) \union ToldOf(ops)
  BY <1>3, <1>5, <1>6, <1>7, <1>8 DEF Out, ToldOf
<1>10. Did(t) = IF what = "ok" THEN Did(s) \union ToldOf(ops) ELSE Did(s)
  BY <1>3, <1>5, <1>6, <1>7, <1>8 DEF Did, ToldOf
<1>11. ASSUME \A i, j \in DOMAIN s.answers : s.answers[i].to = s.answers[j].to => i = j,
              \A i, j \in DOMAIN ops : ops[i] = ops[j] => i = j,
              \A i \in DOMAIN ops : ops[i] \notin Out(s),
              NEW i \in DOMAIN all, NEW j \in DOMAIN all, all[i].to = all[j].to
       PROVE  i = j
  <2>1. CASE i \in DOMAIN s.answers /\ j \in DOMAIN s.answers
    BY <1>5, <1>11, <2>1
  <2>2. ASSUME NEW k \in DOMAIN all, NEW l \in DOMAIN ops, k \in DOMAIN s.answers
        PROVE  all[k].to # all[Len(s.answers) + l].to
    BY <1>3, <1>5, <1>6, <1>11, <2>2 DEF Out
  <2>3. ASSUME NEW k \in DOMAIN ops, NEW l \in DOMAIN ops,
               i = Len(s.answers) + k, j = Len(s.answers) + l
        PROVE  i = j
    BY <1>3, <1>6, <1>11, <2>3
  <2> QED
    BY <1>8, <1>11, <2>1, <2>2, <2>3
<1> QED
  BY <1>7, <1>9, <1>10, <1>11 DEF t

\* One promise settles that had not.
LEMMA AnswersOne ==
    ASSUME NEW s \in Streams, NEW op \in Ops, NEW what \in {"ok", "failed"}, op \notin Out(s),
           \A i, j \in DOMAIN s.answers : s.answers[i].to = s.answers[j].to => i = j
    PROVE  LET t == Answers(s, <<op>>, what)
           IN  /\ t \in Streams /\ SameBut(s, t)
               /\ Out(t) = Out(s) \union {op}
               /\ Did(t) = IF what = "ok" THEN Did(s) \union {op} ELSE Did(s)
               /\ \A i, j \in DOMAIN t.answers : t.answers[i].to = t.answers[j].to => i = j
<1> DEFINE ops == <<op>>
           t == Answers(s, ops, what)
<1>1. ops \in Seq(Ops) /\ DOMAIN ops = {1} /\ ops[1] = op
  OBVIOUS
<1>2. ToldOf(ops) = {op}
  BY <1>1 DEF ToldOf
<1> HIDE DEF ops
<1>3. /\ t \in Streams /\ SameBut(s, t)
      /\ Out(t) = Out(s) \union {op}
      /\ Did(t) = IF what = "ok" THEN Did(s) \union {op} ELSE Did(s)
  BY <1>1, <1>2, AnswersAdd
<1>4. /\ \A i, j \in DOMAIN ops : ops[i] = ops[j] => i = j
      /\ \A i \in DOMAIN ops : ops[i] \notin Out(s)
  BY <1>1
<1>5. \A i, j \in DOMAIN t.answers : t.answers[i].to = t.answers[j].to => i = j
  BY <1>1, <1>4, AnswersAdd
<1> QED
  BY <1>3, <1>5 DEF ops

\* A stream that has errored, before its close and its writer are told.
Ending(s, n, away, f, w) ==
    /\ s.state = "errored" /\ s.started /\ ~s.panicked /\ ~s.aborting
    /\ s.inFlightWrite = NoWrite /\ ~s.inFlightClose
    /\ s.writeRequests = <<>> /\ s.pendingAbort = "none"
    /\ InTurn(s) /\ Once(s, n) /\ (f \/ InOrder(s))
    /\ Tells(s, w, away) /\ \A i \in DOMAIN s.frames : Tells(s, s.frames[i].writer, away)
    /\ IsLocked(s) /\ s.writer \notin away => s.ready = "rejected" /\ s.closed \in {"pending", "rejected"}

\* The empty sequence has no place.
LEMMA NothingIn == DOMAIN <<>> = {}
OBVIOUS

\* A close that was asked for settles when the stream ends with an error.
LEMMA TellsOfTheClose ==
    ASSUME NEW s \in Streams, NEW n \in Nat, NEW away, NEW f, NEW w,
           Ending(s, n, away, f, w)
    PROVE  LET t == IF s.closeRequest
                    THEN Answers([s EXCEPT !.closeRequest = FALSE], <<CloseOp>>, "failed")
                    ELSE s
           IN  /\ t \in Streams /\ Ending(t, n, away, f, w) /\ ~t.closeRequest
               /\ t.writer = s.writer /\ t.started = s.started
<1>1. CASE ~s.closeRequest
  BY <1>1
<1>2. CASE s.closeRequest
  <2> DEFINE u == [s EXCEPT !.closeRequest = FALSE]
             t == Answers(u, <<CloseOp>>, "failed")
  <2>1. u \in Streams /\ SameBut([s EXCEPT !.closeRequest = FALSE], u) /\ u.answers = s.answers
    BY DEF Streams, SameBut
  <2>2. /\ u.state = s.state /\ u.writer = s.writer /\ u.ready = s.ready /\ u.closed = s.closed
        /\ u.writeRequests = s.writeRequests /\ u.inFlightWrite = s.inFlightWrite
        /\ ~u.closeRequest /\ u.inFlightClose = s.inFlightClose
        /\ u.pendingAbort = s.pendingAbort /\ u.aborting = s.aborting
        /\ u.started = s.started /\ u.frames = s.frames
        /\ u.calls = s.calls /\ u.panicked = s.panicked
    BY DEF Streams
  <2>3. Out(u) = Out(s) /\ Did(u) = Did(s)
    BY <2>1 DEF Out, Did
  <2> HIDE DEF u
  <2>4. CloseOp \in Ops
    BY DEF Ops
  <2>5. CloseOp \notin Out(s)
    BY <1>2 DEF Ending, Once
  <2>6. /\ t \in Streams /\ SameBut(u, t) /\ Out(t) = Out(s) \union {CloseOp} /\ Did(t) = Did(s)
        /\ \A i, j \in DOMAIN t.answers : t.answers[i].to = t.answers[j].to => i = j
    <3>1. \A i, j \in DOMAIN u.answers : u.answers[i].to = u.answers[j].to => i = j
      BY <2>1 DEF Ending, Once
    <3> QED
      BY <2>1, <2>3, <2>4, <2>5, <3>1, AnswersOne
  <2> HIDE DEF t
  <2>7. InTurn(t)
    BY <2>2, <2>6 DEF Ending, InTurn, AtIt, SameBut, Called
  <2>8. Once(t, n)
    BY <2>2, <2>6, NothingIn DEF Ending, Once, SameBut, Sizing, CloseOp, AbortOp, NoWrite
  <2>9. f \/ InOrder(t)
    BY <2>2, <2>6 DEF Ending, InOrder, SameBut, Sizing
  <2>10. Ending(t, n, away, f, w)
    BY <2>2, <2>6, <2>7, <2>8, <2>9 DEF Ending, SameBut, Tells, IsLocked
  <2> QED
    BY <1>2, <2>2, <2>6, <2>10 DEF SameBut, t, u
<1> QED
  BY <1>1, <1>2

\* The end of a stream that errored (reject_close_and_closed_promise_if_needed).
LEMMA EndIsSound ==
    ASSUME NEW s \in Streams, NEW n \in Nat, NEW away, NEW f, NEW w,
           Ending(s, n, away, f, w)
    PROVE  LET t == RejectCloseAndClosed(s, w)
           IN  /\ t \in Streams /\ Sound(t, n, away, f)
               /\ t.writer = s.writer /\ t.started = s.started
<1> DEFINE told == IF s.closeRequest
                   THEN Answers([s EXCEPT !.closeRequest = FALSE], <<CloseOp>>, "failed")
                   ELSE s
           t == RejectCloseAndClosed(s, w)
<1>1. /\ told \in Streams /\ Ending(told, n, away, f, w) /\ ~told.closeRequest
      /\ told.writer = s.writer /\ told.started = s.started
  BY TellsOfTheClose
<1>2. t = SettleClosed(told, w, "rejected")
  BY DEF RejectCloseAndClosed
<1> HIDE DEF told, t
<1>3. /\ t \in Streams /\ t.state = told.state /\ t.writer = told.writer /\ t.ready = told.ready
      /\ t.closed = IF HasWriter(told, w) /\ told.closed = "pending" THEN "rejected" ELSE told.closed
      /\ t.writeRequests = told.writeRequests /\ t.inFlightWrite = told.inFlightWrite
      /\ t.closeRequest = told.closeRequest /\ t.inFlightClose = told.inFlightClose
      /\ t.pendingAbort = told.pendingAbort /\ t.aborting = told.aborting
      /\ t.started = told.started /\ t.frames = told.frames /\ t.answers = told.answers
      /\ t.calls = told.calls /\ t.panicked = told.panicked
  <2>1. CASE HasWriter(told, w) /\ told.closed = "pending"
    <3>1. t = [told EXCEPT !.closed = "rejected"] /\ "rejected" \in Promises
      BY <1>2, <2>1 DEF SettleClosed, Promises
    <3> QED
      BY <1>1, <2>1, <3>1 DEF Streams
  <2>2. CASE ~(HasWriter(told, w) /\ told.closed = "pending")
    BY <1>1, <1>2, <2>2 DEF SettleClosed
  <2> QED
    BY <2>1, <2>2
<1>4. Out(t) = Out(told) /\ Did(t) = Did(told)
  BY <1>3 DEF Out, Did
<1>5. FlagsFit(t)
  BY <1>1, <1>3 DEF Ending, FlagsFit, Live
<1>6. InTurn(t) /\ Once(t, n) /\ (f \/ InOrder(t))
  BY <1>1, <1>3, <1>4 DEF Ending, InTurn, Once, InOrder, AtIt, Called, Sizing
<1>7. WriterKnows(t, away)
  BY <1>1, <1>3 DEF Ending, WriterKnows, Knows, Tells, IsLocked, HasWriter, Live
<1> QED
  BY <1>1, <1>3, <1>5, <1>6, <1>7 DEF Ending, Sound, Kept, EndIsAhead, Ended, Live, t

\* Whatever the state was, the writes that wait fail when the stream errors.
Erroring(s, n, away, f, w) ==
    /\ s.state = "erroring" /\ s.started /\ ~OperationInFlight(s)
    /\ Kept(s, n, away, f) /\ Tells(s, w, away)

ErroredStream(s) ==
    [Answers(s, s.writeRequests, "failed")
        EXCEPT !.state = "errored", !.queue = <<>>, !.writeRequests = <<>>, !.pendingAbort = "none"]

\* A stream that becomes errored drops its queue, and its write requests fail
\* (WritableStreamFinishErroring).
LEMMA ErroredIsEnding ==
    ASSUME NEW s \in Streams, NEW n \in Nat, NEW away, NEW f, NEW w,
           Erroring(s, n, away, f, w)
    PROVE  LET t == ErroredStream(s)
           IN  /\ t \in Streams /\ Ending(t, n, away, f, w)
               /\ t.writer = s.writer /\ t.calls = s.calls /\ t.algorithms = s.algorithms
               /\ AbortOp \in Out(t) => AbortOp \in Out(s)
<1> DEFINE ops == s.writeRequests
           told == Answers(s, ops, "failed")
           t == ErroredStream(s)
<1>1. ops \in Seq(Ops) /\ ops \in Seq(WriteIds) /\ AbortOp \notin ToldOf(ops) /\ CloseOp \notin ToldOf(ops)
  <2>1. ops \in Seq(WriteIds)
    BY DEF Streams
  <2>2. \A i \in DOMAIN ops : ops[i] \in WriteIds
    BY <2>1
  <2>3. WriteIds \subseteq Ops /\ AbortOp \notin WriteIds /\ CloseOp \notin WriteIds
    BY DEF Ops, WriteIds, AbortOp, CloseOp
  <2> HIDE DEF ops
  <2>4. ops \in Seq(Ops)
    BY <2>1, <2>2, <2>3
  <2> QED
    BY <2>1, <2>2, <2>3, <2>4 DEF ToldOf
<1>2. told \in Streams /\ SameBut(s, told) /\ Out(told) = Out(s) \union ToldOf(ops) /\ Did(told) = Did(s)
  BY <1>1, AnswersAdd
<1>3. \A i, j \in DOMAIN told.answers : told.answers[i].to = told.answers[j].to => i = j
  <2>1. /\ \A i, j \in DOMAIN s.answers : s.answers[i].to = s.answers[j].to => i = j
        /\ \A i, j \in DOMAIN ops : ops[i] = ops[j] => i = j
        /\ \A i \in DOMAIN ops : ops[i] \notin Out(s)
    BY DEF Erroring, Kept, Once
  <2> HIDE DEF ops
  <2> QED
    BY <1>1, <2>1, AnswersAdd
<1>4. <<>> \in Seq(WriteIds) /\ \A S : <<>> \in Seq(S)
  OBVIOUS
<1> HIDE DEF told
<1>5. t = [told EXCEPT !.state = "errored", !.queue = <<>>, !.writeRequests = <<>>, !.pendingAbort = "none"]
  BY DEF ErroredStream, told
<1> HIDE DEF t
<1>6. /\ t \in Streams /\ t.state = "errored" /\ t.writer = s.writer /\ t.ready = s.ready
      /\ t.closed = s.closed /\ t.writeRequests = <<>> /\ t.inFlightWrite = s.inFlightWrite
      /\ t.closeRequest = s.closeRequest /\ t.inFlightClose = s.inFlightClose
      /\ t.pendingAbort = "none" /\ t.aborting = s.aborting
      /\ t.started = s.started /\ t.frames = s.frames /\ t.answers = told.answers
      /\ t.calls = s.calls /\ t.panicked = s.panicked /\ t.algorithms = s.algorithms
  BY <1>2, <1>4, <1>5 DEF Streams, SameBut
<1>7. Out(t) = Out(s) \union ToldOf(ops) /\ Did(t) = Did(s) /\ Called(t) = Called(s)
  <2>1. Out(t) = Out(told) /\ Did(t) = Did(told)
    BY <1>6 DEF Out, Did
  <2> QED
    BY <1>2, <1>6, <2>1 DEF Called
<1>8. /\ FlagsFit(s) /\ InTurn(s) /\ Once(s, n) /\ (f \/ InOrder(s)) /\ WriterKnows(s, away)
      /\ s.inFlightWrite = NoWrite /\ ~s.inFlightClose /\ ~s.aborting
  BY DEF Erroring, Kept, OperationInFlight, FlagsFit
<1>9. InTurn(t)
  BY <1>6, <1>7, <1>8 DEF InTurn, AtIt
<1>10. Once(t, n)
  <2>1. \A op \in ToldOf(ops) : op <= n
    BY <1>8 DEF Once, ToldOf
  <2>2. \A i \in Sizing(s) : s.frames[i].chunk \notin ToldOf(ops)
    BY <1>8 DEF Once, ToldOf
  <2>3. Sizing(t) = Sizing(s)
    BY <1>6 DEF Sizing
  <2>4. DOMAIN t.writeRequests = {}
    BY <1>6
  <2> QED
    BY <1>1, <1>3, <1>6, <1>7, <1>8, <2>1, <2>2, <2>3, <2>4 DEF Once
<1>11. f \/ InOrder(t)
  BY <1>6, <1>8, NothingIn DEF InOrder, Sizing
<1>12. Ending(t, n, away, f, w)
  BY <1>6, <1>8, <1>9, <1>10, <1>11 DEF Ending, Erroring, FlagsFit, WriterKnows, Knows, Tells, IsLocked, Live
<1> QED
  BY <1>1, <1>6, <1>7, <1>12 DEF t

\* WritableStreamFinishErroring.
LEMMA FinishErroringIsSound ==
    ASSUME NEW s \in Streams, NEW n \in Nat, NEW away, NEW f, NEW w,
           Erroring(s, n, away, f, w)
    PROVE  LET t == FinishErroring(s, w)
           IN  /\ t \in Streams /\ Sound(t, n, away, f)
               /\ t.writer = s.writer /\ t.started = s.started
<1> DEFINE e == ErroredStream(s)
           t == FinishErroring(s, w)
<1>1. /\ e \in Streams /\ Ending(e, n, away, f, w)
      /\ e.writer = s.writer /\ e.calls = s.calls /\ e.algorithms = s.algorithms
      /\ AbortOp \in Out(e) => AbortOp \in Out(s)
  BY ErroredIsEnding
<1>2. s.pendingAbort \in {"none", "fresh", "late"} /\ s.started = TRUE /\ e.started = TRUE
  BY <1>1 DEF Streams, Erroring, Ending
<1>3. /\ s.pendingAbort # "none" => AbortOp \notin Out(s) /\ Called(s) \subseteq WriteIds
      /\ s.pendingAbort = "fresh" => s.algorithms
  BY DEF Erroring, Kept, Once, InTurn, FlagsFit, OperationInFlight
<1>4. CASE s.pendingAbort = "none"
  <2>1. t = RejectCloseAndClosed(e, w)
    BY <1>4 DEF FinishErroring, ErroredStream
  <2> HIDE DEF e, t
  <2>2. /\ RejectCloseAndClosed(e, w) \in Streams /\ Sound(RejectCloseAndClosed(e, w), n, away, f)
        /\ RejectCloseAndClosed(e, w).writer = e.writer /\ RejectCloseAndClosed(e, w).started = e.started
    BY <1>1, EndIsSound
  <2> QED
    BY <1>1, <1>2, <2>1, <2>2 DEF t
<1>5. CASE s.pendingAbort = "late"
  <2> DEFINE u == Answers(e, <<AbortOp>>, "failed")
  <2>1. t = RejectCloseAndClosed(u, w)
    BY <1>5 DEF FinishErroring, ErroredStream
  <2> HIDE DEF e
  <2>2. AbortOp \in Ops /\ AbortOp \notin WriteIds /\ AbortOp # CloseOp
    BY DEF Ops, AbortOp, CloseOp, WriteIds
  <2>3. /\ u \in Streams /\ SameBut(e, u) /\ Out(u) = Out(e) \union {AbortOp} /\ Did(u) = Did(e)
        /\ \A i, j \in DOMAIN u.answers : u.answers[i].to = u.answers[j].to => i = j
    <3>1. AbortOp \notin Out(e) /\ \A i, j \in DOMAIN e.answers : e.answers[i].to = e.answers[j].to => i = j
      BY <1>1, <1>3, <1>5 DEF Ending, Once
    <3> QED
      BY <1>1, <2>2, <3>1, AnswersOne
  <2> HIDE DEF u
  <2>4. InTurn(u)
    BY <1>1, <2>3 DEF Ending, InTurn, AtIt, SameBut, Called
  <2>5. Once(u, n)
    BY <1>1, <2>3, NothingIn DEF Ending, Once, SameBut, Sizing, CloseOp, AbortOp, NoWrite
  <2>6. Ending(u, n, away, f, w)
    BY <1>1, <2>3, <2>4, <2>5 DEF Ending, SameBut, Tells, IsLocked, InOrder, Sizing
  <2>7. /\ RejectCloseAndClosed(u, w) \in Streams /\ Sound(RejectCloseAndClosed(u, w), n, away, f)
        /\ RejectCloseAndClosed(u, w).writer = u.writer /\ RejectCloseAndClosed(u, w).started = u.started
    BY <2>3, <2>6, EndIsSound
  <2>8. u.writer = e.writer /\ u.started = e.started
    BY <2>3 DEF SameBut
  <2> HIDE DEF t
  <2> QED
    BY <1>1, <1>2, <2>1, <2>7, <2>8 DEF t
<1>6. CASE s.pendingAbort = "fresh"
  <2>1. t = [e EXCEPT !.aborting = TRUE, !.algorithms = FALSE, !.calls = Append(@, AbortOp)]
    BY <1>3, <1>6 DEF FinishErroring, ErroredStream
  <2> HIDE DEF e
  <2>2. AbortOp \in Ops /\ AbortOp \notin WriteIds /\ AbortOp # CloseOp /\ e.calls \in Seq(Ops)
    BY <1>1 DEF Ops, AbortOp, CloseOp, WriteIds, Streams
  <2> DEFINE calls == Append(e.calls, AbortOp)
  <2>3. /\ calls \in Seq(Ops) /\ Len(calls) = Len(e.calls) + 1 /\ calls[Len(calls)] = AbortOp
        /\ \A i \in DOMAIN e.calls : calls[i] = e.calls[i]
        /\ DOMAIN e.calls = 1..Len(e.calls) /\ DOMAIN calls = 1..Len(calls) /\ Len(e.calls) \in Nat
    BY <2>2
  <2> HIDE DEF calls
  <2>4. /\ t \in Streams /\ t.state = "errored" /\ t.writer = e.writer /\ t.ready = e.ready
        /\ t.closed = e.closed /\ t.writeRequests = <<>> /\ t.inFlightWrite = NoWrite
        /\ t.closeRequest = e.closeRequest /\ ~t.inFlightClose
        /\ t.pendingAbort = "none" /\ t.aborting
        /\ t.started /\ t.frames = e.frames /\ t.answers = e.answers
        /\ t.calls = calls /\ ~t.panicked
    <3>1. t = [e EXCEPT !.aborting = TRUE, !.algorithms = FALSE, !.calls = calls]
      BY <2>1 DEF calls
    <3>2. t \in Streams
      BY <1>1, <2>3, <3>1 DEF Streams
    <3>3. /\ t.state = e.state /\ t.writer = e.writer /\ t.ready = e.ready /\ t.closed = e.closed
          /\ t.writeRequests = e.writeRequests /\ t.inFlightWrite = e.inFlightWrite
          /\ t.closeRequest = e.closeRequest /\ t.inFlightClose = e.inFlightClose
          /\ t.pendingAbort = e.pendingAbort /\ t.aborting = TRUE
          /\ t.started = e.started /\ t.frames = e.frames /\ t.answers = e.answers
          /\ t.calls = calls /\ t.panicked = e.panicked
      BY <1>1, <3>1 DEF Streams
    <3> QED
      BY <1>1, <3>2, <3>3 DEF Ending
  <2> HIDE DEF t
  <2>5. Out(t) = Out(e) /\ Did(t) = Did(e)
    BY <2>4 DEF Out, Did
  <2>6. FlagsFit(t)
    BY <2>4 DEF FlagsFit, Live
  <2>7. InTurn(t)
    <3>1. \A i \in DOMAIN e.calls : e.calls[i] \in WriteIds /\ e.calls[i] \in Out(e)
      BY <1>1, <1>3, <1>6, <2>2, <2>3 DEF Ending, InTurn, Called, AtIt, Last
    <3>2. Called(e) \subseteq Called(t)
      BY <2>3, <2>4 DEF Called
    <3>3. t.calls # <<>> /\ Last(t.calls) = AbortOp
      BY <2>3, <2>4 DEF Last
    <3> QED
      BY <1>1, <2>3, <2>4, <2>5, <3>1, <3>2, <3>3 DEF Ending, InTurn, AtIt
  <2>8. Once(t, n)
    <3>1. AbortOp \notin Out(t) /\ AbortOp <= n
      BY <1>1, <1>3, <1>6, <2>5 DEF AbortOp
    <3>2. Sizing(t) = Sizing(e) /\ e.writeRequests = <<>>
      BY <1>1, <2>4 DEF Sizing, Ending
    <3>3. \A i \in DOMAIN t.calls : t.calls[i] <= n
      BY <1>1, <2>3, <2>4, <3>1 DEF Ending, Once
    <3> QED
      BY <1>1, <2>4, <2>5, <3>1, <3>2, <3>3 DEF Ending, Once
  <2>9. f \/ InOrder(t)
    <3>1. Sizing(t) = Sizing(e) /\ e.writeRequests = <<>>
      BY <1>1, <2>4 DEF Sizing, Ending
    <3>2. ASSUME InOrder(e) PROVE InOrder(t)
      <4>1. ASSUME NEW i \in Sizing(t), NEW j \in DOMAIN t.calls PROVE t.calls[j] < t.frames[i].chunk
        <5>1. CASE j \in DOMAIN e.calls
          BY <2>3, <2>4, <3>1, <3>2, <4>1, <5>1 DEF InOrder
        <5>2. CASE j = Len(calls)
          BY <1>1, <2>3, <2>4, <3>1, <4>1, <5>2 DEF Ending, Once, AbortOp
        <5> QED
          BY <2>3, <2>4, <4>1, <5>1, <5>2
      <4> QED
        BY <2>2, <2>3, <2>4, <3>1, <3>2, <4>1, NothingIn DEF InOrder
    <3> QED
      BY <1>1, <3>2 DEF Ending
  <2>10. WriterKnows(t, away)
    BY <1>1, <2>4 DEF Ending, WriterKnows, Knows, Tells, IsLocked, Live
  <2> QED
    BY <1>1, <1>2, <2>4, <2>6, <2>7, <2>8, <2>9, <2>10 DEF Sound, Kept, EndIsAhead, Ended, Live, t
<1> QED
  BY <1>2, <1>4, <1>5, <1>6

\* WritableStreamStartErroring: at once, or when what is under way is over.
LEMMA StartErroringIsSound ==
    ASSUME NEW s \in Streams, NEW n \in Nat, NEW away, NEW f, NEW w,
           s.state = "writable", Kept(s, n, away, f), Tells(s, w, away),
           (s.started /\ ~OperationInFlight(s)) \/ EndIsAhead(s)
    PROVE  LET t == StartErroring(s, w)
           IN  /\ t \in Streams /\ Sound(t, n, away, f)
               /\ t.writer = s.writer /\ t.started = s.started
<1> DEFINE e == RejectReady([s EXCEPT !.state = "erroring"], w)
           t == StartErroring(s, w)
<1>1. /\ e \in Streams /\ e.state = "erroring" /\ e.writer = s.writer
      /\ e.ready = IF HasWriter(s, w) THEN "rejected" ELSE s.ready
      /\ e.closed = s.closed /\ e.writeRequests = s.writeRequests
      /\ e.inFlightWrite = s.inFlightWrite /\ e.queue = s.queue
      /\ e.closeRequest = s.closeRequest /\ e.inFlightClose = s.inFlightClose
      /\ e.closeTells = s.closeTells /\ e.algorithms = s.algorithms
      /\ e.pendingAbort = s.pendingAbort /\ e.aborting = s.aborting
      /\ e.started = s.started /\ e.frames = s.frames /\ e.answers = s.answers
      /\ e.calls = s.calls /\ e.panicked = s.panicked
  <2> DEFINE u == [s EXCEPT !.state = "erroring"]
  <2>1. /\ u \in Streams /\ u.state = "erroring" /\ u.writer = s.writer
        /\ u.ready = s.ready
        /\ u.closed = s.closed /\ u.writeRequests = s.writeRequests
        /\ u.inFlightWrite = s.inFlightWrite /\ u.queue = s.queue
        /\ u.closeRequest = s.closeRequest /\ u.inFlightClose = s.inFlightClose
        /\ u.closeTells = s.closeTells /\ u.algorithms = s.algorithms
        /\ u.pendingAbort = s.pendingAbort /\ u.aborting = s.aborting
        /\ u.started = s.started /\ u.frames = s.frames /\ u.answers = s.answers
        /\ u.calls = s.calls /\ u.panicked = s.panicked
    BY DEF Streams
  <2> HIDE DEF u
  <2>2. HasWriter(u, w) <=> HasWriter(s, w)
    BY <2>1 DEF HasWriter
  <2>3. CASE ~HasWriter(s, w)
    BY <2>1, <2>2, <2>3 DEF RejectReady, u
  <2>4. CASE HasWriter(s, w)
    <3>1. e = [u EXCEPT !.ready = "rejected"] /\ "rejected" \in Promises
      BY <2>2, <2>4 DEF RejectReady, Promises, u
    <3> HIDE DEF e
    <3> QED
      BY <2>1, <2>4, <3>1 DEF Streams
  <2> QED
    BY <2>3, <2>4
<1> HIDE DEF e
<1>2. Out(e) = Out(s) /\ Did(e) = Did(s) /\ Called(e) = Called(s) /\ Sizing(e) = Sizing(s)
  BY <1>1 DEF Out, Did, Called, Sizing
<1>3. Kept(e, n, away, f)
  <2>1. FlagsFit(e)
    BY <1>1 DEF Kept, FlagsFit, Live, Ended
  <2>2. InTurn(e) /\ Once(e, n) /\ (f \/ InOrder(e))
    BY <1>1, <1>2 DEF Kept, InTurn, Once, InOrder, AtIt
  <2>3. WriterKnows(e, away)
    BY <1>1 DEF Kept, WriterKnows, Knows, Tells, IsLocked, HasWriter, Live
  <2> QED
    BY <2>1, <2>2, <2>3 DEF Kept
<1>4. CASE s.started /\ ~OperationInFlight(s)
  <2>1. t = FinishErroring(e, w)
    BY <1>4 DEF StartErroring, e
  <2>2. Erroring(e, n, away, f, w)
    BY <1>1, <1>3, <1>4 DEF Erroring, OperationInFlight, Tells
  <2> HIDE DEF t
  <2>3. /\ FinishErroring(e, w) \in Streams /\ Sound(FinishErroring(e, w), n, away, f)
        /\ FinishErroring(e, w).writer = e.writer /\ FinishErroring(e, w).started = e.started
    BY <1>1, <2>2, FinishErroringIsSound
  <2> QED
    BY <1>1, <2>1, <2>3 DEF t
<1>5. CASE ~(s.started /\ ~OperationInFlight(s))
  <2>1. t = e
    BY <1>5 DEF StartErroring, e
  <2>2. EndIsAhead(e)
    BY <1>1, <1>2, <1>5 DEF EndIsAhead, Live, Ended
  <2>3. Sound(e, n, away, f)
    BY <1>1, <1>3, <1>5, <2>2 DEF Sound, OperationInFlight
  <2> HIDE DEF t
  <2> QED
    BY <1>1, <2>1, <2>3 DEF t
<1> QED
  BY <1>4, <1>5

\* WritableStreamDealWithRejection never meets another state.
LEMMA RejectionIsSound ==
    ASSUME NEW s \in Streams, NEW n \in Nat, NEW away, NEW f, NEW w,
           s.state \in Live, s.started, ~OperationInFlight(s),
           Kept(s, n, away, f), Tells(s, w, away)
    PROVE  LET t == DealWithRejection(s, w)
           IN  /\ t \in Streams /\ Sound(t, n, away, f)
               /\ t.writer = s.writer /\ t.started = s.started
<1>1. CASE s.state = "writable"
  <2>1. DealWithRejection(s, w) = StartErroring(s, w)
    BY <1>1 DEF DealWithRejection
  <2>2. LET t == StartErroring(s, w)
        IN  /\ t \in Streams /\ Sound(t, n, away, f)
            /\ t.writer = s.writer /\ t.started = s.started
    BY <1>1, StartErroringIsSound
  <2> QED
    BY <2>1, <2>2
<1>2. CASE s.state = "erroring"
  <2>1. DealWithRejection(s, w) = FinishErroring(s, w)
    BY <1>2 DEF DealWithRejection
  <2>2. Erroring(s, n, away, f, w)
    BY <1>2 DEF Erroring
  <2>3. LET t == FinishErroring(s, w)
        IN  /\ t \in Streams /\ Sound(t, n, away, f)
            /\ t.writer = s.writer /\ t.started = s.started
    BY <2>2, FinishErroringIsSound
  <2> QED
    BY <2>1, <2>3
<1> QED
  BY <1>1, <1>2 DEF Live

\* WritableStreamDefaultControllerError, of a stream that takes writes.
LEMMA ControllerErrorIsSound ==
    ASSUME NEW s \in Streams, NEW n \in Nat, NEW away, NEW f, NEW w,
           s.state = "writable", s.pendingAbort = "none",
           Kept(s, n, away, f), Tells(s, w, away), EndIsAhead(s)
    PROVE  LET t == ControllerErrors(s, w)
           IN  /\ t \in Streams /\ Sound(t, n, away, f)
               /\ t.writer = s.writer /\ t.started = s.started
<1> DEFINE e == [s EXCEPT !.algorithms = FALSE]
<1>1. /\ e \in Streams /\ e.state = s.state /\ e.writer = s.writer /\ e.ready = s.ready
      /\ e.closed = s.closed /\ e.writeRequests = s.writeRequests
      /\ e.inFlightWrite = s.inFlightWrite /\ e.queue = s.queue
      /\ e.closeRequest = s.closeRequest /\ e.inFlightClose = s.inFlightClose
      /\ e.closeTells = s.closeTells
      /\ e.pendingAbort = s.pendingAbort /\ e.aborting = s.aborting
      /\ e.started = s.started /\ e.frames = s.frames /\ e.answers = s.answers
      /\ e.calls = s.calls /\ e.panicked = s.panicked
  BY DEF Streams
<1>2. ControllerErrors(s, w) = StartErroring(e, w)
  BY DEF ControllerErrors
<1> HIDE DEF e
<1>3. Out(e) = Out(s) /\ Did(e) = Did(s) /\ Called(e) = Called(s) /\ Sizing(e) = Sizing(s)
  BY <1>1 DEF Out, Did, Called, Sizing
<1>4. Kept(e, n, away, f)
  <2>1. FlagsFit(e)
    BY <1>1 DEF Kept, FlagsFit, Live, Ended
  <2>2. InTurn(e) /\ Once(e, n) /\ (f \/ InOrder(e))
    BY <1>1, <1>3 DEF Kept, InTurn, Once, InOrder, AtIt
  <2>3. WriterKnows(e, away)
    BY <1>1 DEF Kept, WriterKnows, Knows, Tells, IsLocked, Live
  <2> QED
    BY <2>1, <2>2, <2>3 DEF Kept
<1>5. EndIsAhead(e) /\ Tells(e, w, away)
  BY <1>1, <1>3 DEF EndIsAhead, Tells, Ended
<1>6. LET t == StartErroring(e, w)
      IN  /\ t \in Streams /\ Sound(t, n, away, f)
          /\ t.writer = e.writer /\ t.started = e.started
  BY <1>1, <1>4, <1>5, StartErroringIsSound
<1> QED
  BY <1>1, <1>2, <1>6

\* What Append, Head and Tail make of a sequence.
LEMMA TailSteps ==
    ASSUME NEW S, NEW q \in Seq(S), q # <<>>
    PROVE  /\ Head(q) = q[1] /\ 1 \in DOMAIN q /\ Tail(q) \in Seq(S) /\ Len(Tail(q)) = Len(q) - 1
           /\ Len(q) \in Nat \ {0} /\ DOMAIN q = 1..Len(q) /\ DOMAIN Tail(q) = 1..(Len(q) - 1)
           /\ \A i \in DOMAIN Tail(q) : i + 1 \in DOMAIN q /\ Tail(q)[i] = q[i + 1]
OBVIOUS

\* What Append adds to a sequence.
LEMMA AppendSteps ==
    ASSUME NEW S, NEW q \in Seq(S), NEW e \in S
    PROVE  /\ Append(q, e) \in Seq(S) /\ Append(q, e) # <<>> /\ Len(Append(q, e)) = Len(q) + 1
           /\ Len(q) \in Nat /\ DOMAIN q = 1..Len(q) /\ DOMAIN Append(q, e) = 1..(Len(q) + 1)
           /\ Append(q, e)[Len(q) + 1] = e /\ Last(Append(q, e)) = e
           /\ \A i \in DOMAIN q : Append(q, e)[i] = q[i]
BY DEF Last

\* Of a stream that takes writes, has started, and has nothing under way.
Idle(s, n, away, f) ==
    /\ s.state = "writable" /\ s.started /\ s.inFlightWrite = NoWrite /\ ~s.inFlightClose
    /\ Sound(s, n, away, f) /\ s.queue # <<>>

\* The calls that were made of an idle stream settled.
LEMMA IdleCallsSettled ==
    ASSUME NEW s \in Streams, NEW n \in Nat, NEW away, NEW f, Idle(s, n, away, f)
    PROVE  /\ ~s.aborting
           /\ \A i \in DOMAIN s.calls : s.calls[i] \in WriteIds /\ s.calls[i] \in Out(s)
<1>1. ~s.aborting /\ Called(s) \subseteq WriteIds
  BY DEF Idle, Sound, Kept, FlagsFit, EndIsAhead, Live
<1>2. s.calls \in Seq(Ops)
  BY DEF Streams
<1>3. \A op : ~AtIt(s, op)
  BY <1>1 DEF Idle, AtIt
<1>4. ASSUME NEW i \in DOMAIN s.calls PROVE s.calls[i] \in Out(s)
  <2>1. s.calls # <<>> /\ i \in 1..Len(s.calls) /\ Len(s.calls) \in Nat
    BY <1>2, <1>4
  <2>2. Last(s.calls) \in Out(s) /\ Last(s.calls) = s.calls[Len(s.calls)]
    BY <1>3, <2>1 DEF Idle, Sound, Kept, InTurn, Last
  <2> QED
    BY <2>1, <2>2 DEF Idle, Sound, Kept, InTurn
<1> QED
  BY <1>1, <1>4 DEF Called

\* WritableStreamDefaultControllerProcessWrite.
LEMMA ProcessWriteIsSound ==
    ASSUME NEW s \in Streams, NEW n \in Nat, NEW away, NEW f,
           Idle(s, n, away, f), Head(s.queue).chunk # CloseOp
    PROVE  LET t == ProcessWrite(s)
           IN  /\ t \in Streams /\ Sound(t, n, away, f)
               /\ t.writer = s.writer /\ t.started = s.started
<1> DEFINE t == ProcessWrite(s)
           wr == s.writeRequests
           op == wr[1]
           calls == Append(s.calls, op)
<1>1. /\ s.queue \in Seq([chunk : WriteIds \union {CloseOp}, size : WriteSizes \union {0}])
      /\ wr \in Seq(WriteIds) /\ s.calls \in Seq(Ops)
      /\ s.closeRequest \in BOOLEAN /\ s.started \in BOOLEAN
  BY DEF Streams
<1>2. QueueIsTheRequests(s) /\ (s.algorithms \/ s.inFlightClose) /\ s.pendingAbort = "none" /\ ReadyFits(s, away)
      /\ BackpressureFits(s) /\ Kept(s, n, away, f) /\ EndIsAhead(s)
  BY DEF Idle, Sound, TakesWrites
<1>3. wr # <<>> /\ Head(s.queue).chunk = op
  <2>1. Head(s.queue) = s.queue[1] /\ Len(s.queue) \in Nat \ {0}
    BY <1>1, TailSteps DEF Idle
  <2>2. s.inFlightWrite = NoWrite
    BY DEF Idle
  <2>3. wr # <<>>
    <3>1. CASE wr = <<>>
      <4>1. s.closeRequest /\ Len(s.queue) = 1
        BY <1>1, <1>2, <2>1, <2>2, <3>1 DEF QueueIsTheRequests
      <4> QED
        BY <1>2, <2>1, <4>1 DEF QueueIsTheRequests, Idle
    <3> QED
      BY <3>1
  <2>4. 1 \in DOMAIN wr
    BY <1>1, <2>3, TailSteps
  <2> QED
    BY <1>2, <2>1, <2>2, <2>3, <2>4 DEF QueueIsTheRequests
<1>4. /\ Head(wr) = op /\ 1 \in DOMAIN wr /\ Tail(wr) \in Seq(WriteIds) /\ Len(Tail(wr)) = Len(wr) - 1
      /\ Len(wr) \in Nat \ {0} /\ DOMAIN wr = 1..Len(wr) /\ DOMAIN Tail(wr) = 1..(Len(wr) - 1)
      /\ \A i \in DOMAIN Tail(wr) : i + 1 \in DOMAIN wr /\ Tail(wr)[i] = wr[i + 1]
  BY <1>1, <1>3, TailSteps
<1>5. op \in WriteIds /\ op \in Ops /\ op # NoWrite /\ op \in Nat
  <2>1. op \in WriteIds
    BY <1>1, <1>4
  <2> HIDE DEF op
  <2> QED
    BY <2>1 DEF Ops, WriteIds, NoWrite
<1>6. /\ calls \in Seq(Ops) /\ calls # <<>> /\ Len(calls) = Len(s.calls) + 1
      /\ Len(s.calls) \in Nat /\ DOMAIN s.calls = 1..Len(s.calls) /\ DOMAIN calls = 1..(Len(s.calls) + 1)
      /\ calls[Len(s.calls) + 1] = op /\ Last(calls) = op
      /\ \A i \in DOMAIN s.calls : calls[i] = s.calls[i]
  BY <1>1, <1>5, AppendSteps
<1>7. t = [s EXCEPT !.inFlightWrite = op, !.writeRequests = Tail(wr), !.calls = calls]
  BY <1>2, <1>3, <1>4 DEF ProcessWrite, Idle
<1> HIDE DEF t, calls, op
<1>8. /\ t \in Streams /\ t.state = s.state /\ t.writer = s.writer /\ t.ready = s.ready
      /\ t.closed = s.closed /\ t.writeRequests = Tail(wr) /\ t.inFlightWrite = op
      /\ t.closeRequest = s.closeRequest /\ t.inFlightClose = s.inFlightClose
      /\ t.closeTells = s.closeTells /\ t.algorithms = s.algorithms /\ t.hwm = s.hwm
      /\ t.pendingAbort = s.pendingAbort /\ t.aborting = s.aborting /\ t.backpressure = s.backpressure
      /\ t.started = s.started /\ t.frames = s.frames /\ t.answers = s.answers
      /\ t.calls = calls /\ t.panicked = s.panicked /\ t.queue = s.queue
  BY <1>4, <1>5, <1>6, <1>7 DEF Streams
<1>9. Out(t) = Out(s) /\ Did(t) = Did(s) /\ Sizing(t) = Sizing(s)
  BY <1>8 DEF Out, Did, Sizing
<1>10. ~s.aborting /\ \A i \in DOMAIN s.calls : s.calls[i] \in WriteIds /\ s.calls[i] \in Out(s)
  BY IdleCallsSettled
<1>11. FlagsFit(t)
  BY <1>2, <1>8 DEF Kept, FlagsFit, Idle, Live, Ended
<1>12. Called(s) \subseteq Called(t) /\ Called(t) \subseteq WriteIds
  <2>1. \A i \in DOMAIN calls : calls[i] \in WriteIds
    BY <1>5, <1>6, <1>10
  <2> QED
    BY <1>6, <1>8, <2>1 DEF Called
<1>13. InTurn(t)
  BY <1>2, <1>5, <1>6, <1>8, <1>9, <1>10, <1>12 DEF Kept, InTurn, AtIt
<1>14. Once(t, n)
  <2>1. \A i \in DOMAIN wr : wr[i] \notin Out(s) /\ wr[i] <= n
    BY <1>2 DEF Kept, Once
  <2>2. \A i, j \in DOMAIN wr : wr[i] = wr[j] => i = j
    BY <1>2 DEF Kept, Once
  <2>3. /\ op \notin Out(t) /\ t.inFlightWrite <= n
        /\ \A i \in DOMAIN t.writeRequests :
              t.writeRequests[i] \notin Out(t) \union {op} /\ t.writeRequests[i] <= n
        /\ \A i, j \in DOMAIN t.writeRequests : t.writeRequests[i] = t.writeRequests[j] => i = j
    <3>1. op \notin Out(t) /\ t.inFlightWrite <= n
      BY <1>4, <1>8, <1>9, <2>1 DEF op
    <3>2. ASSUME NEW i \in DOMAIN Tail(wr)
          PROVE  Tail(wr)[i] \notin Out(t) \union {op} /\ Tail(wr)[i] <= n
      <4>1. i + 1 \in DOMAIN wr /\ i + 1 # 1 /\ Tail(wr)[i] = wr[i + 1]
        BY <1>4, <3>2
      <4> QED
        BY <1>4, <1>9, <2>1, <2>2, <4>1 DEF op
    <3>3. ASSUME NEW i \in DOMAIN Tail(wr), NEW j \in DOMAIN Tail(wr), Tail(wr)[i] = Tail(wr)[j]
          PROVE  i = j
      <4>1. i + 1 \in DOMAIN wr /\ j + 1 \in DOMAIN wr /\ wr[i + 1] = wr[j + 1] /\ i \in Int /\ j \in Int
        BY <1>4, <3>3
      <4>2. i + 1 = j + 1
        BY <2>2, <4>1
      <4> QED
        BY <4>1, <4>2
    <3> QED
      BY <1>8, <3>1, <3>2, <3>3
  <2>4. \A i \in Sizing(s), j \in DOMAIN wr : wr[j] # s.frames[i].chunk
    BY <1>2 DEF Kept, Once
  <2>5. \A i \in DOMAIN t.calls : t.calls[i] <= n
    BY <1>2, <1>4, <1>6, <1>8, <2>1 DEF Kept, Once, op
  <2> QED
    BY <1>2, <1>4, <1>8, <1>9, <2>3, <2>4, <2>5 DEF Kept, Once, op
<1>15. f \/ InOrder(t)
  <2>1. ASSUME InOrder(s) PROVE InOrder(t)
    <3>1. \A i \in DOMAIN s.calls : s.calls[i] < op
      BY <1>4, <2>1 DEF InOrder, op
    <3>2. \A i \in DOMAIN t.writeRequests : op < t.writeRequests[i]
      BY <1>4, <1>8, <2>1 DEF InOrder, op
    <3>3. \A i, j \in DOMAIN t.calls : i < j /\ t.calls[j] \in WriteIds => t.calls[i] < t.calls[j]
      BY <1>6, <1>8, <2>1, <3>1 DEF InOrder
    <3>4. \A i \in DOMAIN t.calls, j \in DOMAIN t.writeRequests : t.calls[i] < t.writeRequests[j]
      BY <1>4, <1>6, <1>8, <2>1, <3>2 DEF InOrder
    <3>5. \A i, j \in DOMAIN t.writeRequests : i < j => t.writeRequests[i] < t.writeRequests[j]
      <4>1. ASSUME NEW i \in DOMAIN Tail(wr), NEW j \in DOMAIN Tail(wr), i < j
            PROVE  Tail(wr)[i] < Tail(wr)[j]
        <5>1. /\ i + 1 \in DOMAIN wr /\ j + 1 \in DOMAIN wr /\ i + 1 < j + 1
              /\ Tail(wr)[i] = wr[i + 1] /\ Tail(wr)[j] = wr[j + 1]
          BY <1>4, <4>1
        <5> QED
          BY <2>1, <5>1 DEF InOrder
      <4> QED
        BY <1>8, <4>1
    <3>6. \A i \in Sizing(t) :
             /\ \A j \in DOMAIN t.calls : t.calls[j] < t.frames[i].chunk
             /\ \A j \in DOMAIN t.writeRequests : t.writeRequests[j] < t.frames[i].chunk
      <4>1. ASSUME NEW i \in Sizing(s)
            PROVE  /\ \A j \in DOMAIN s.calls : s.calls[j] < s.frames[i].chunk
                   /\ \A j \in DOMAIN wr : wr[j] < s.frames[i].chunk
        BY <2>1 DEF InOrder
      <4>2. ASSUME NEW i \in Sizing(s)
            PROVE  /\ \A j \in DOMAIN calls : calls[j] < s.frames[i].chunk
                   /\ \A j \in DOMAIN Tail(wr) : Tail(wr)[j] < s.frames[i].chunk
        <5>1. \A j \in DOMAIN calls : calls[j] < s.frames[i].chunk
          <6>1. op < s.frames[i].chunk
            BY <1>4, <4>1 DEF op
          <6> QED
            BY <1>6, <4>1, <6>1
        <5>2. \A j \in DOMAIN Tail(wr) : Tail(wr)[j] < s.frames[i].chunk
          BY <1>4, <4>1
        <5> QED
          BY <5>1, <5>2
      <4> QED
        BY <1>8, <1>9, <4>2
    <3> QED
      BY <1>9, <2>1, <3>3, <3>4, <3>5, <3>6 DEF InOrder
  <2> QED
    BY <1>2, <2>1 DEF Kept
<1>16. WriterKnows(t, away)
  BY <1>2, <1>8 DEF Kept, WriterKnows, Knows, Tells, IsLocked
<1>17. QueueIsTheRequests(t)
  <2>1. Len(s.queue) = Len(wr) + (IF s.closeRequest THEN 1 ELSE 0)
        /\ \A i \in DOMAIN wr : s.queue[i].chunk = wr[i]
    BY <1>1, <1>2, <1>4 DEF QueueIsTheRequests, Idle
  <2>2. s.queue[1].chunk = op /\ \A i \in DOMAIN Tail(wr) : s.queue[1 + i].chunk = Tail(wr)[i]
    BY <1>4, <2>1 DEF op
  <2>3. /\ Len(t.queue) = 1 + Len(t.writeRequests) + (IF t.closeRequest THEN 1 ELSE 0)
        /\ t.queue[1].chunk = t.inFlightWrite
        /\ \A i \in DOMAIN t.writeRequests : t.queue[1 + i].chunk = t.writeRequests[i]
    <3>1. t.queue[1].chunk = t.inFlightWrite
      BY <1>8, <2>2
    <3>2. \A i \in DOMAIN t.writeRequests : t.queue[1 + i].chunk = t.writeRequests[i]
      BY <1>8, <2>2
    <3>3. Len(t.queue) = Len(wr) + (IF t.closeRequest THEN 1 ELSE 0) /\ Len(t.writeRequests) = Len(wr) - 1
      BY <1>4, <1>8, <2>1
    <3> QED
      BY <1>4, <3>1, <3>2, <3>3
  <2>4. t.closeRequest => t.queue[Len(t.queue)].chunk = CloseOp
    BY <1>2, <1>8 DEF QueueIsTheRequests
  <2> QED
    BY <1>5, <1>8, <2>3, <2>4 DEF QueueIsTheRequests
<1>18. TakesWrites(t, away) /\ BackpressureFits(t) /\ EndIsAhead(t)
  BY <1>2, <1>8, <1>9, <1>12, <1>17 DEF TakesWrites, ReadyFits, BackpressureFits, EndIsAhead, Ended, Live,
    CloseQueuedOrInFlight, WriterDesiredSize, ContainerSize, IsLocked
<1> QED
  BY <1>8, <1>11, <1>13, <1>14, <1>15, <1>16, <1>18 DEF Sound, Kept, Idle, t

\* WritableStreamDefaultControllerProcessClose: the close is the last in the queue.
LEMMA ProcessCloseIsSound ==
    ASSUME NEW s \in Streams, NEW n \in Nat, NEW away, NEW f, NEW w \in Writers \union {NoWriter},
           Idle(s, n, away, f), Head(s.queue).chunk = CloseOp, Tells(s, w, away)
    PROVE  LET t == ProcessClose(s, w)
           IN  /\ t \in Streams /\ Sound(t, n, away, f)
               /\ t.writer = s.writer /\ t.started = s.started
<1> DEFINE t == ProcessClose(s, w)
           Entry == [chunk : WriteIds \union {CloseOp}, size : WriteSizes \union {0}]
           queue == Tail(s.queue)
           calls == Append(s.calls, CloseOp)
<1>1. /\ s.queue \in Seq(Entry)
      /\ s.writeRequests \in Seq(WriteIds) /\ s.calls \in Seq(Ops)
      /\ s.closeRequest \in BOOLEAN /\ s.started \in BOOLEAN
  BY DEF Streams
<1>2. QueueIsTheRequests(s) /\ (s.algorithms \/ s.inFlightClose) /\ s.pendingAbort = "none" /\ ReadyFits(s, away)
      /\ BackpressureFits(s) /\ Kept(s, n, away, f) /\ EndIsAhead(s)
  BY DEF Idle, Sound, TakesWrites
<1>3. CloseOp \in Ops /\ CloseOp \notin WriteIds /\ CloseOp # AbortOp /\ CloseOp <= n
  BY DEF Ops, CloseOp, AbortOp, WriteIds
<1>4. s.writeRequests = <<>> /\ s.closeRequest /\ queue = <<>>
  <2>1. /\ Head(s.queue) = s.queue[1] /\ Len(s.queue) \in Nat \ {0}
        /\ queue \in Seq(Entry) /\ Len(queue) = Len(s.queue) - 1
    BY <1>1, TailSteps DEF Idle
  <2>2. s.writeRequests = <<>>
    <3>1. CASE s.writeRequests # <<>>
      <4>1. 1 \in DOMAIN s.writeRequests /\ s.writeRequests[1] \in WriteIds
        BY <1>1, <3>1, TailSteps
      <4>2. s.queue[1].chunk = s.writeRequests[1]
        BY <1>2, <4>1 DEF QueueIsTheRequests, Idle
      <4> QED
        BY <1>3, <2>1, <4>1, <4>2
    <3> QED
      BY <3>1
  <2>3. Len(s.queue) = IF s.closeRequest THEN 1 ELSE 0
    BY <1>2, <2>2 DEF QueueIsTheRequests, Idle
  <2> QED
    BY <2>1, <2>2, <2>3
<1>5. /\ calls \in Seq(Ops) /\ calls # <<>> /\ Len(calls) = Len(s.calls) + 1
      /\ Len(s.calls) \in Nat /\ DOMAIN s.calls = 1..Len(s.calls) /\ DOMAIN calls = 1..(Len(s.calls) + 1)
      /\ calls[Len(s.calls) + 1] = CloseOp /\ Last(calls) = CloseOp
      /\ \A i \in DOMAIN s.calls : calls[i] = s.calls[i]
  BY <1>1, <1>3, AppendSteps
<1>6. t = [s EXCEPT !.closeRequest = FALSE, !.inFlightClose = TRUE, !.closeTells = w,
                    !.queue = <<>>, !.algorithms = FALSE, !.calls = calls]
  BY <1>2, <1>4 DEF ProcessClose, Idle
<1>7. <<>> \in Seq(Entry)
  OBVIOUS
<1> HIDE DEF t, calls, queue
<1>8. /\ t \in Streams /\ t.state = s.state /\ t.writer = s.writer /\ t.ready = s.ready
      /\ t.closed = s.closed /\ t.writeRequests = s.writeRequests /\ t.inFlightWrite = s.inFlightWrite
      /\ ~t.closeRequest /\ t.inFlightClose
      /\ t.closeTells = w /\ t.hwm = s.hwm
      /\ t.pendingAbort = s.pendingAbort /\ t.aborting = s.aborting /\ t.backpressure = s.backpressure
      /\ t.started = s.started /\ t.frames = s.frames /\ t.answers = s.answers
      /\ t.calls = calls /\ t.panicked = s.panicked /\ t.queue = <<>>
  BY <1>5, <1>6, <1>7 DEF Streams
<1>9. Out(t) = Out(s) /\ Did(t) = Did(s) /\ Sizing(t) = Sizing(s)
  BY <1>8 DEF Out, Did, Sizing
<1>10. ~s.aborting /\ \A i \in DOMAIN s.calls : s.calls[i] \in WriteIds /\ s.calls[i] \in Out(s)
  BY IdleCallsSettled
<1>11. FlagsFit(t)
  BY <1>2, <1>4, <1>8 DEF Kept, FlagsFit, Idle, Live, Ended
<1>12. Called(s) \subseteq Called(t)
  BY <1>5, <1>8 DEF Called
<1>13. InTurn(t)
  BY <1>2, <1>3, <1>5, <1>8, <1>9, <1>10, <1>12 DEF Kept, InTurn, AtIt, Idle
<1>14. Once(t, n)
  <2>1. CloseOp \notin Out(s)
    BY <1>2, <1>4 DEF Kept, Once
  <2>2. \A i \in DOMAIN t.calls : t.calls[i] <= n
    BY <1>2, <1>3, <1>5, <1>8 DEF Kept, Once
  <2> QED
    BY <1>2, <1>8, <1>9, <2>1, <2>2 DEF Kept, Once
<1>15. f \/ InOrder(t)
  <2>1. ASSUME InOrder(s) PROVE InOrder(t)
    <3>1. \A i, j \in DOMAIN t.calls : i < j /\ t.calls[j] \in WriteIds => t.calls[i] < t.calls[j]
      BY <1>3, <1>5, <1>8, <2>1 DEF InOrder
    <3>2. ASSUME NEW i \in Sizing(t), NEW j \in DOMAIN t.calls
          PROVE  t.calls[j] < t.frames[i].chunk
      <4>1. CASE j \in DOMAIN s.calls
        BY <1>5, <1>8, <1>9, <2>1, <3>2, <4>1 DEF InOrder
      <4>2. CASE t.calls[j] = CloseOp
        BY <1>2, <1>8, <1>9, <3>2, <4>2 DEF Kept, Once, CloseOp
      <4> QED
        BY <1>5, <1>8, <3>2, <4>1, <4>2
    <3> QED
      BY <1>4, <1>8, <1>9, <2>1, <3>1, <3>2, NothingIn DEF InOrder
  <2> QED
    BY <1>2, <2>1 DEF Kept
<1>16. WriterKnows(t, away)
  BY <1>2, <1>8 DEF Kept, WriterKnows, Knows, Tells, IsLocked
<1>17. QueueIsTheRequests(t)
  BY <1>4, <1>8, NothingIn DEF QueueIsTheRequests, Idle
<1>18. TakesWrites(t, away) /\ BackpressureFits(t) /\ EndIsAhead(t)
  BY <1>2, <1>4, <1>8, <1>9, <1>17 DEF TakesWrites, ReadyFits, BackpressureFits, EndIsAhead, Ended, Live,
    CloseQueuedOrInFlight, IsLocked
<1> QED
  BY <1>8, <1>11, <1>13, <1>14, <1>15, <1>16, <1>18 DEF Sound, Kept, Idle, t

\* What a stream is when its queue is about to move on.
Steady(s, n, away, f) ==
    /\ Kept(s, n, away, f)
    /\ s.state = "writable" => TakesWrites(s, away) /\ BackpressureFits(s)
    /\ EndIsAhead(s)

\* WritableStreamDefaultControllerAdvanceQueueIfNeeded.
LEMMA AdvanceIsSound ==
    ASSUME NEW s \in Streams, NEW n \in Nat, NEW away, NEW f, NEW w \in Writers \union {NoWriter},
           Steady(s, n, away, f), s.state \in Live, ~s.inFlightClose, Tells(s, w, away)
    PROVE  LET t == AdvanceQueueIfNeeded(s, w)
           IN  /\ t \in Streams /\ Sound(t, n, away, f)
               /\ t.writer = s.writer /\ t.started = s.started
<1> DEFINE t == AdvanceQueueIfNeeded(s, w)
<1>1. CASE ~(s.started /\ s.inFlightWrite = NoWrite)
  <2>1. t = s
    BY <1>1 DEF AdvanceQueueIfNeeded
  <2>2. Sound(s, n, away, f)
    BY <1>1 DEF Sound, Steady, OperationInFlight
  <2> QED
    BY <2>1, <2>2
<1>2. CASE s.started /\ s.inFlightWrite = NoWrite /\ s.state = "erroring"
  <2>1. t = FinishErroring(s, w)
    BY <1>2 DEF AdvanceQueueIfNeeded
  <2>2. Erroring(s, n, away, f, w)
    BY <1>2 DEF Erroring, Steady, OperationInFlight
  <2>3. LET u == FinishErroring(s, w)
        IN  /\ u \in Streams /\ Sound(u, n, away, f)
            /\ u.writer = s.writer /\ u.started = s.started
    BY <2>2, FinishErroringIsSound
  <2> HIDE DEF t
  <2> QED
    BY <2>1, <2>3 DEF t
<1>3. CASE s.started /\ s.inFlightWrite = NoWrite /\ s.state = "writable" /\ s.queue = <<>>
  <2>1. t = s
    BY <1>3 DEF AdvanceQueueIfNeeded
  <2>2. Sound(s, n, away, f)
    BY <1>3 DEF Sound, Steady
  <2> QED
    BY <2>1, <2>2
<1>4. CASE s.started /\ s.inFlightWrite = NoWrite /\ s.state = "writable" /\ s.queue # <<>>
  <2>1. Idle(s, n, away, f)
    BY <1>4 DEF Idle, Sound, Steady
  <2>2. CASE Head(s.queue).chunk = CloseOp
    <3>1. t = ProcessClose(s, w)
      BY <1>4, <2>2 DEF AdvanceQueueIfNeeded
    <3>2. LET u == ProcessClose(s, w)
          IN  /\ u \in Streams /\ Sound(u, n, away, f)
              /\ u.writer = s.writer /\ u.started = s.started
      BY <2>1, <2>2, ProcessCloseIsSound
    <3> HIDE DEF t
    <3> QED
      BY <3>1, <3>2 DEF t
  <2>3. CASE Head(s.queue).chunk # CloseOp
    <3>1. t = ProcessWrite(s)
      BY <1>4, <2>3 DEF AdvanceQueueIfNeeded
    <3>2. LET u == ProcessWrite(s)
          IN  /\ u \in Streams /\ Sound(u, n, away, f)
              /\ u.writer = s.writer /\ u.started = s.started
      BY <2>1, <2>3, ProcessWriteIsSound
    <3> HIDE DEF t
    <3> QED
      BY <3>1, <3>2 DEF t
  <2> QED
    BY <2>2, <2>3
<1> QED
  BY <1>1, <1>2, <1>3, <1>4 DEF Live

\* WritableStreamUpdateBackpressure, while no close is asked for.
LEMMA UpdateIsSteady ==
    ASSUME NEW s \in Streams, NEW n \in Nat, NEW away, NEW f,
           Kept(s, n, away, f), EndIsAhead(s), s.state = "writable" => TakesWrites(s, away)
    PROVE  LET t == UpdateWhileOpen(s, s.writer)
           IN  /\ t \in Streams /\ Steady(t, n, away, f)
               /\ t.writer = s.writer /\ t.started = s.started /\ t.state = s.state
               /\ t.inFlightClose = s.inFlightClose
<1> DEFINE t == UpdateWhileOpen(s, s.writer)
           fits == WriterDesiredSize(s) <= 0
           ready == IF fits = s.backpressure \/ s.writer = NoWriter THEN s.ready
                    ELSE IF fits THEN "pending"
                    ELSE IF s.ready = "pending" THEN "fulfilled" ELSE s.ready
<1>1. CASE ~(s.state = "writable" /\ ~CloseQueuedOrInFlight(s))
  <2>1. t = s
    BY <1>1 DEF UpdateWhileOpen
  <2>2. Steady(s, n, away, f)
    BY <1>1 DEF Steady, BackpressureFits
  <2> QED
    BY <2>1, <2>2
<1>2. CASE s.state = "writable" /\ ~CloseQueuedOrInFlight(s)
  <2>1. t = UpdateBackpressure(s, s.writer)
    BY <1>2 DEF UpdateWhileOpen
  <2>2. fits \in BOOLEAN /\ s.backpressure \in BOOLEAN /\ s.ready \in Promises
    BY DEF Streams
  <2> HIDE DEF t, fits
  <2>3. ready \in Promises
    BY <2>2 DEF Promises
  <2>4. t = [s EXCEPT !.ready = ready, !.backpressure = fits]
    <3>1. CASE fits = s.backpressure \/ s.writer = NoWriter
      <4>1. t = [s EXCEPT !.backpressure = fits]
        BY <2>1, <2>2, <3>1 DEF UpdateBackpressure, HasWriter, fits
      <4> QED
        BY <3>1, <4>1 DEF Streams
    <3>2. CASE ~(fits = s.backpressure \/ s.writer = NoWriter)
      <4>1. CASE fits
        <5>1. t = [[s EXCEPT !.ready = "pending"] EXCEPT !.backpressure = fits]
          BY <2>1, <2>2, <3>2, <4>1 DEF UpdateBackpressure, HasWriter, fits
        <5> QED
          BY <3>2, <4>1, <5>1 DEF Streams
      <4>2. CASE ~fits
        <5>1. t = [ResolveReady(s, s.writer) EXCEPT !.backpressure = fits]
          BY <2>1, <2>2, <3>2, <4>2 DEF UpdateBackpressure, HasWriter, fits
        <5>2. ResolveReady(s, s.writer) = IF s.ready = "pending" THEN [s EXCEPT !.ready = "fulfilled"] ELSE s
          BY <3>2 DEF ResolveReady, HasWriter
        <5> QED
          BY <3>2, <4>2, <5>1, <5>2 DEF Streams
      <4> QED
        BY <4>1, <4>2
    <3> QED
      BY <3>1, <3>2
  <2> HIDE DEF ready
  <2>5. /\ t \in Streams /\ t.state = s.state /\ t.writer = s.writer /\ t.ready = ready
        /\ t.closed = s.closed /\ t.writeRequests = s.writeRequests /\ t.inFlightWrite = s.inFlightWrite
        /\ t.closeRequest = s.closeRequest /\ t.inFlightClose = s.inFlightClose
        /\ t.closeTells = s.closeTells /\ t.algorithms = s.algorithms /\ t.hwm = s.hwm
        /\ t.pendingAbort = s.pendingAbort /\ t.aborting = s.aborting /\ t.backpressure = fits
        /\ t.started = s.started /\ t.frames = s.frames /\ t.answers = s.answers
        /\ t.calls = s.calls /\ t.panicked = s.panicked /\ t.queue = s.queue
    BY <2>2, <2>3, <2>4 DEF Streams
  <2>6. Out(t) = Out(s) /\ Did(t) = Did(s) /\ Called(t) = Called(s) /\ Sizing(t) = Sizing(s)
    BY <2>5 DEF Out, Did, Called, Sizing
  <2>7. FlagsFit(t) /\ InTurn(t) /\ Once(t, n) /\ (f \/ InOrder(t)) /\ EndIsAhead(t)
    BY <2>5, <2>6 DEF Kept, FlagsFit, InTurn, Once, InOrder, AtIt, EndIsAhead, Ended
  <2>8. WriterKnows(t, away)
    BY <1>2, <2>5 DEF Kept, WriterKnows, Knows, Tells, IsLocked, Live
  <2>9. QueueIsTheRequests(t)
    <3>1. QueueIsTheRequests(s)
      BY <1>2 DEF TakesWrites
    <3> QED
      BY <2>5, <3>1 DEF QueueIsTheRequests
  <2>10. BackpressureFits(t)
    <3>1. WriterDesiredSize(t) = WriterDesiredSize(s)
      BY <2>5 DEF WriterDesiredSize, ContainerSize
    <3> QED
      BY <2>5, <3>1 DEF BackpressureFits, fits
  <2>11. ReadyFits(t, away)
    BY <1>2, <2>2, <2>5 DEF TakesWrites, ReadyFits, IsLocked, CloseQueuedOrInFlight, ready
  <2> QED
    BY <1>2, <2>5, <2>7, <2>8, <2>9, <2>10, <2>11 DEF Steady, Kept, TakesWrites, t
<1> QED
  BY <1>1, <1>2

-----------------------------------------------------------------------------
(* The promises of the sink settle. *)

\* A stream whose sink has started, one way or the other.
LEMMA StartedIsSteady ==
    ASSUME NEW s \in Streams, NEW n \in Nat, NEW away, NEW f,
           Sound(s, n, away, f), ~s.started
    PROVE  LET t == [s EXCEPT !.started = TRUE]
           IN  /\ t \in Streams /\ Steady(t, n, away, f) /\ t.state \in Live
               /\ ~OperationInFlight(t) /\ t.started = TRUE /\ t.writer = s.writer
<1> DEFINE t == [s EXCEPT !.started = TRUE]
<1>1. /\ t \in Streams /\ t.state = s.state /\ t.writer = s.writer /\ t.ready = s.ready
      /\ t.closed = s.closed /\ t.writeRequests = s.writeRequests /\ t.inFlightWrite = s.inFlightWrite
      /\ t.closeRequest = s.closeRequest /\ t.inFlightClose = s.inFlightClose
      /\ t.closeTells = s.closeTells /\ t.algorithms = s.algorithms /\ t.hwm = s.hwm
      /\ t.pendingAbort = s.pendingAbort /\ t.aborting = s.aborting /\ t.backpressure = s.backpressure
      /\ t.started = TRUE /\ t.frames = s.frames /\ t.answers = s.answers
      /\ t.calls = s.calls /\ t.panicked = s.panicked /\ t.queue = s.queue
  BY DEF Streams
<1> HIDE DEF t
<1>2. Out(t) = Out(s) /\ Did(t) = Did(s) /\ Called(t) = Called(s) /\ Sizing(t) = Sizing(s)
  BY <1>1 DEF Out, Did, Called, Sizing
<1>3. /\ FlagsFit(s) /\ InTurn(s) /\ Once(s, n) /\ (f \/ InOrder(s)) /\ WriterKnows(s, away)
      /\ EndIsAhead(s)
      /\ s.state = "writable" => TakesWrites(s, away) /\ BackpressureFits(s)
  BY DEF Sound, Kept
<1>4. t.state \in Live /\ ~OperationInFlight(t)
  BY <1>1, <1>3 DEF FlagsFit, OperationInFlight
<1>5. FlagsFit(t) /\ InTurn(t) /\ Once(t, n) /\ (f \/ InOrder(t)) /\ EndIsAhead(t)
  BY <1>1, <1>2, <1>3 DEF FlagsFit, InTurn, Once, InOrder, AtIt, EndIsAhead, Ended
<1>6. WriterKnows(t, away)
  BY <1>1, <1>3 DEF WriterKnows, Knows, Tells, IsLocked
<1>7. QueueIsTheRequests(s) => QueueIsTheRequests(t)
  BY <1>1 DEF QueueIsTheRequests
<1>8. t.state = "writable" => TakesWrites(t, away) /\ BackpressureFits(t)
  BY <1>1, <1>3, <1>7 DEF TakesWrites, ReadyFits, BackpressureFits, CloseQueuedOrInFlight, WriterDesiredSize, ContainerSize, IsLocked
<1> QED
  BY <1>1, <1>4, <1>5, <1>6, <1>8 DEF Steady, Kept, t

\* The sink's start() fulfils or rejects.
LEMMA StartIsSound ==
    ASSUME NEW s \in Streams, NEW n \in Nat, NEW away, NEW f,
           Sound(s, n, away, f), ~s.started, NEW t \in {SinkStarted(s), SinkFailedToStart(s)}
    PROVE  t \in Streams /\ Sound(t, n, away, f) /\ t.writer = s.writer /\ t.started
<1> DEFINE u == [s EXCEPT !.started = TRUE]
<1>1. /\ u \in Streams /\ Steady(u, n, away, f) /\ u.state \in Live
      /\ ~OperationInFlight(u) /\ u.started = TRUE /\ u.writer = s.writer
  BY StartedIsSteady
<1>2. s.writer \in Writers \union {NoWriter}
  BY DEF Streams
<1> HIDE DEF u
<1>3. Kept(u, n, away, f) /\ Tells(u, s.writer, away) /\ ~u.inFlightClose
  BY <1>1 DEF Steady, Tells, OperationInFlight
<1>4. CASE t = SinkStarted(s)
  <2>1. t = AdvanceQueueIfNeeded(u, s.writer)
    BY <1>4 DEF SinkStarted, u
  <2>2. LET v == AdvanceQueueIfNeeded(u, s.writer)
        IN  /\ v \in Streams /\ Sound(v, n, away, f)
            /\ v.writer = u.writer /\ v.started = u.started
    BY <1>1, <1>2, <1>3, AdvanceIsSound
  <2> QED
    BY <1>1, <2>1, <2>2
<1>5. CASE t = SinkFailedToStart(s)
  <2>1. t = DealWithRejection(u, s.writer)
    BY <1>5 DEF SinkFailedToStart, u
  <2>2. LET v == DealWithRejection(u, s.writer)
        IN  /\ v \in Streams /\ Sound(v, n, away, f)
            /\ v.writer = u.writer /\ v.started = u.started
    BY <1>1, <1>3, RejectionIsSound
  <2> QED
    BY <1>1, <2>1, <2>2
<1> QED
  BY <1>4, <1>5

\* The write in flight settles.  In what follows nothing is in flight.
Landed(s, t) ==
    /\ t.state = s.state /\ t.writer = s.writer /\ t.ready = s.ready
    /\ t.closed = s.closed /\ t.writeRequests = s.writeRequests /\ t.inFlightWrite = NoWrite
    /\ t.closeRequest = s.closeRequest /\ t.inFlightClose = s.inFlightClose
    /\ t.closeTells = s.closeTells /\ t.hwm = s.hwm
    /\ t.pendingAbort = s.pendingAbort /\ t.aborting = s.aborting /\ t.backpressure = s.backpressure
    /\ t.started = s.started /\ t.frames = s.frames
    /\ t.calls = s.calls /\ t.panicked = s.panicked
    /\ t.algorithms = s.algorithms \/ s.state = "writable"

\* A write in flight that is over, either way, keeps what holds of a stream in the
\* midst of an operation (writableStreamFinishInFlightWrite).
LEMMA LandedIsKept ==
    ASSUME NEW s \in Streams, NEW n \in Nat, NEW away, NEW f, Sound(s, n, away, f),
           s.inFlightWrite # NoWrite, NEW t \in Streams, Landed(s, t),
           Out(t) = Out(s) \union {s.inFlightWrite}, Did(t) \subseteq Did(s) \union {s.inFlightWrite},
           \A i, j \in DOMAIN t.answers : t.answers[i].to = t.answers[j].to => i = j
    PROVE  /\ Kept(t, n, away, f) /\ EndIsAhead(t) /\ t.state \in Live /\ t.started
           /\ ~OperationInFlight(t) /\ Tells(t, s.writer, away)
<1>1. /\ FlagsFit(s) /\ InTurn(s) /\ Once(s, n) /\ (f \/ InOrder(s)) /\ WriterKnows(s, away)
      /\ EndIsAhead(s)
      /\ s.state = "writable" => s.pendingAbort = "none"
  BY DEF Sound, Kept, TakesWrites
<1>2. s.inFlightWrite \in WriteIds /\ s.inFlightWrite # CloseOp /\ s.inFlightWrite # AbortOp
  BY DEF Streams, WriteIds, NoWrite, CloseOp, AbortOp
<1>3. Called(t) = Called(s) /\ Sizing(t) = Sizing(s)
  BY DEF Landed, Called, Sizing
<1>4. s.started /\ s.state \in Live /\ ~s.inFlightClose /\ ~s.aborting
  BY <1>1 DEF FlagsFit, Live
<1>5. FlagsFit(t)
  BY <1>1, <1>4 DEF Landed, FlagsFit, Live, Ended
<1>6. InTurn(t)
  <2>1. s.calls # <<>> /\ Last(s.calls) = s.inFlightWrite /\ s.calls \in Seq(Ops)
    BY <1>1 DEF InTurn, Streams
  <2>2. s.inFlightWrite \in Called(s)
    BY <2>1 DEF Called, Last
  <2> QED
    BY <1>1, <1>3, <2>1, <2>2 DEF Landed, InTurn, AtIt
<1>7. Once(t, n)
  <2>1. \A i \in DOMAIN s.writeRequests : s.writeRequests[i] # NoWrite
    <3>1. s.writeRequests \in Seq(WriteIds)
      BY DEF Streams
    <3>2. \A i \in DOMAIN s.writeRequests : s.writeRequests[i] \in WriteIds
      BY <3>1
    <3> QED
      BY <3>2 DEF WriteIds, NoWrite
  <2>2. CloseOp \in Out(t) => CloseOp \in Out(s)
    BY <1>2
  <2>3. AbortOp \in Out(t) => AbortOp \in Out(s)
    BY <1>2
  <2>4. \A i \in Sizing(s) : s.frames[i].chunk \notin Out(t) \union {NoWrite}
    BY <1>1 DEF Once, NoWrite
  <2>5. \A i \in DOMAIN s.writeRequests : s.writeRequests[i] \notin Out(t) \union {NoWrite}
    BY <1>1, <2>1 DEF Once
  <2> QED
    BY <1>1, <1>3, <2>2, <2>3, <2>4, <2>5 DEF Landed, Once, NoWrite
<1>8. f \/ InOrder(t)
  BY <1>1, <1>3 DEF Landed, InOrder
<1>9. WriterKnows(t, away)
  BY <1>1 DEF Landed, WriterKnows, Knows, Tells, IsLocked
<1>10. EndIsAhead(t)
  BY <1>1, <1>2, <1>3 DEF Landed, EndIsAhead, Ended
<1> QED
  BY <1>4, <1>5, <1>6, <1>7, <1>8, <1>9, <1>10 DEF Landed, Kept, OperationInFlight, Tells

\* WritableStreamFinishInFlightWrite.
LEMMA WriteFulfilledIsSound ==
    ASSUME NEW s \in Streams, NEW n \in Nat, NEW away, NEW f, Sound(s, n, away, f),
           s.inFlightWrite # NoWrite
    PROVE  LET t == WriteFulfilled(s)
           IN  t \in Streams /\ Sound(t, n, away, f) /\ t.writer = s.writer /\ t.started = s.started
<1> DEFINE Entry == [chunk : WriteIds \union {CloseOp}, size : WriteSizes \union {0}]
           queue == Tail(s.queue)
           u == [s EXCEPT !.inFlightWrite = NoWrite, !.queue = queue]
           done == Answers(u, <<s.inFlightWrite>>, "ok")
           full == UpdateWhileOpen(done, done.writer)
           t == WriteFulfilled(s)
<1>1. /\ FlagsFit(s) /\ Once(s, n) /\ s.queue # <<>> /\ s.queue \in Seq(Entry)
      /\ s.state = "writable" => TakesWrites(s, away) /\ BackpressureFits(s)
  BY DEF Sound, Kept, FlagsFit, Streams
<1>2. /\ Head(s.queue) = s.queue[1] /\ queue \in Seq(Entry) /\ Len(queue) = Len(s.queue) - 1
      /\ Len(s.queue) \in Nat \ {0} /\ DOMAIN queue = 1..(Len(s.queue) - 1)
      /\ \A i \in DOMAIN queue : queue[i] = s.queue[i + 1]
  BY <1>1, TailSteps
<1> HIDE DEF queue
<1>3. /\ u \in Streams /\ Landed(s, u) /\ u.queue = queue /\ u.answers = s.answers
      /\ u.algorithms = s.algorithms
  <2>1. u \in Streams
    BY <1>2 DEF Streams
  <2> QED
    BY <2>1 DEF Landed, Streams
<1>4. Out(u) = Out(s) /\ Did(u) = Did(s)
  BY <1>3 DEF Out, Did
<1>5. s.inFlightWrite \in Ops /\ s.inFlightWrite \notin Out(u)
  BY <1>1, <1>4 DEF Once, Streams, Ops, NoWrite
<1> HIDE DEF u
<1>6. /\ done \in Streams /\ SameBut(u, done) /\ Out(done) = Out(s) \union {s.inFlightWrite}
      /\ Did(done) = Did(s) \union {s.inFlightWrite}
      /\ \A i, j \in DOMAIN done.answers : done.answers[i].to = done.answers[j].to => i = j
  <2> DEFINE op == s.inFlightWrite
             v == Answers(u, <<op>>, "ok")
  <2>1. \A i, j \in DOMAIN u.answers : u.answers[i].to = u.answers[j].to => i = j
    BY <1>1, <1>3 DEF Once
  <2>2. op \in Ops /\ op \notin Out(u) /\ u \in Streams /\ "ok" \in {"ok", "failed"}
    BY <1>3, <1>5
  <2> HIDE DEF op
  <2>3. /\ v \in Streams /\ SameBut(u, v) /\ Out(v) = Out(u) \union {op}
        /\ Did(v) = Did(u) \union {op}
        /\ \A i, j \in DOMAIN v.answers : v.answers[i].to = v.answers[j].to => i = j
    BY <2>1, <2>2, AnswersOne
  <2> QED
    BY <1>4, <2>3 DEF op
<1> HIDE DEF done
<1>7. Landed(s, done) /\ done.queue = queue /\ done.algorithms = s.algorithms
  BY <1>3, <1>6 DEF Landed, SameBut
<1>8. /\ Kept(done, n, away, f) /\ EndIsAhead(done) /\ done.state \in Live /\ done.started
      /\ ~OperationInFlight(done) /\ Tells(done, s.writer, away)
  BY <1>6, <1>7, LandedIsKept
<1>9. done.state = "writable" => TakesWrites(done, away)
  <2>1. SUFFICES ASSUME s.state = "writable" PROVE TakesWrites(done, away)
    BY <1>7 DEF Landed
  <2>2. QueueIsTheRequests(done)
    <3> DEFINE close == IF s.closeRequest THEN 1 ELSE 0
    <3>0. close \in Nat /\ (s.closeRequest => close = 1)
      OBVIOUS
    <3>1. /\ Len(s.queue) = 1 + Len(s.writeRequests) + close
          /\ \A i \in DOMAIN s.writeRequests : s.queue[1 + i].chunk = s.writeRequests[i]
          /\ s.closeRequest => s.queue[Len(s.queue)].chunk = CloseOp
      BY <1>1, <2>1 DEF TakesWrites, QueueIsTheRequests
    <3> HIDE DEF close
    <3>2. /\ done.queue = queue /\ done.writeRequests = s.writeRequests
          /\ done.closeRequest = s.closeRequest /\ done.inFlightWrite = NoWrite
      BY <1>7 DEF Landed
    <3>3. s.writeRequests \in Seq(WriteIds)
      BY DEF Streams
    <3>4. /\ Len(s.writeRequests) \in Nat /\ DOMAIN s.writeRequests = 1..Len(s.writeRequests)
          /\ Len(queue) = Len(s.writeRequests) + close
      BY <1>2, <3>0, <3>1, <3>3
    <3>5. ASSUME NEW i \in DOMAIN s.writeRequests PROVE queue[i].chunk = s.writeRequests[i]
      <4>1. i \in DOMAIN queue /\ i + 1 = 1 + i
        BY <1>2, <3>0, <3>4, <3>5
      <4> QED
        BY <1>2, <3>1, <3>5, <4>1
    <3>6. s.closeRequest => queue[Len(queue)].chunk = CloseOp
      <4>1. SUFFICES ASSUME s.closeRequest PROVE queue[Len(queue)].chunk = CloseOp
        OBVIOUS
      <4>2. Len(queue) \in DOMAIN queue /\ Len(queue) + 1 = Len(s.queue)
        BY <1>2, <3>0, <3>4, <4>1
      <4> QED
        BY <1>2, <3>1, <4>1, <4>2
    <3>7. /\ Len(queue) = 0 + Len(s.writeRequests) + close
          /\ \A i \in DOMAIN s.writeRequests : queue[0 + i].chunk = s.writeRequests[i]
      BY <3>0, <3>4, <3>5
    <3> QED
      BY <3>2, <3>6, <3>7 DEF QueueIsTheRequests, close
  <2> QED
    BY <1>1, <1>7, <2>1, <2>2 DEF Landed, TakesWrites, ReadyFits, IsLocked, CloseQueuedOrInFlight
<1>10. /\ full \in Streams /\ Steady(full, n, away, f)
       /\ full.writer = done.writer /\ full.started = done.started /\ full.state = done.state
       /\ full.inFlightClose = done.inFlightClose
  BY <1>6, <1>8, <1>9, UpdateIsSteady
<1>11. t = AdvanceQueueIfNeeded(full, full.writer) /\ done.writer = s.writer /\ done.started = s.started
  <2>1. done.writer = s.writer /\ done.started = s.started
    BY <1>7 DEF Landed
  <2>2. t = AdvanceQueueIfNeeded(UpdateWhileOpen(done, s.writer), s.writer)
    BY <1>1 DEF WriteFulfilled, done, u, queue
  <2> HIDE DEF t
  <2> QED
    BY <1>10, <2>1, <2>2
<1> HIDE DEF full, t
<1>12. /\ full.writer \in Writers \union {NoWriter} /\ Tells(full, full.writer, away)
       /\ full.state \in Live /\ ~full.inFlightClose
  BY <1>8, <1>10 DEF Streams, Tells, OperationInFlight
<1>13. LET v == AdvanceQueueIfNeeded(full, full.writer)
       IN  /\ v \in Streams /\ Sound(v, n, away, f)
           /\ v.writer = full.writer /\ v.started = full.started
  BY <1>10, <1>12, AdvanceIsSound
<1> QED
  BY <1>10, <1>11, <1>13 DEF t

\* WritableStreamFinishInFlightWriteWithError.
LEMMA WriteRejectedIsSound ==
    ASSUME NEW s \in Streams, NEW n \in Nat, NEW away, NEW f, Sound(s, n, away, f),
           s.inFlightWrite # NoWrite
    PROVE  LET t == WriteRejected(s)
           IN  t \in Streams /\ Sound(t, n, away, f) /\ t.writer = s.writer /\ t.started = s.started
<1> DEFINE keeps == s.algorithms /\ s.state # "writable"
           u == [s EXCEPT !.inFlightWrite = NoWrite, !.algorithms = keeps]
           done == Answers(u, <<s.inFlightWrite>>, "failed")
           t == WriteRejected(s)
<1>1. Once(s, n)
  BY DEF Sound, Kept
<1>2. u \in Streams /\ Landed(s, u) /\ u.answers = s.answers
  <2>1. keeps \in BOOLEAN /\ (keeps = s.algorithms \/ s.state = "writable")
    BY DEF Streams
  <2> HIDE DEF keeps
  <2>2. u \in Streams
    BY <2>1 DEF Streams, NoWrite
  <2> QED
    BY <2>1, <2>2 DEF Landed, Streams
<1>3. Out(u) = Out(s) /\ Did(u) = Did(s)
  BY <1>2 DEF Out, Did
<1>4. s.inFlightWrite \in Ops /\ s.inFlightWrite \notin Out(u)
  BY <1>1, <1>3 DEF Once, Streams, Ops, NoWrite
<1> HIDE DEF u
<1>5. /\ done \in Streams /\ SameBut(u, done) /\ Out(done) = Out(s) \union {s.inFlightWrite}
      /\ Did(done) = Did(s)
      /\ \A i, j \in DOMAIN done.answers : done.answers[i].to = done.answers[j].to => i = j
  <2>1. \A i, j \in DOMAIN u.answers : u.answers[i].to = u.answers[j].to => i = j
    BY <1>1, <1>2 DEF Once
  <2> QED
    BY <1>2, <1>3, <1>4, <2>1, AnswersOne
<1>6. t = DealWithRejection(done, s.writer)
  BY DEF WriteRejected, done, u, keeps
<1> HIDE DEF done, t
<1>7. Landed(s, done)
  BY <1>2, <1>5 DEF Landed, SameBut
<1>8. /\ Kept(done, n, away, f) /\ EndIsAhead(done) /\ done.state \in Live /\ done.started
      /\ ~OperationInFlight(done) /\ Tells(done, s.writer, away)
  BY <1>5, <1>7, LandedIsKept
<1>9. LET v == DealWithRejection(done, s.writer)
      IN  /\ v \in Streams /\ Sound(v, n, away, f)
          /\ v.writer = done.writer /\ v.started = done.started
  BY <1>5, <1>8, RejectionIsSound
<1> QED
  BY <1>6, <1>7, <1>9 DEF Landed, t

\* A promise that had not settled settles, with whatever it does.
LEMMA AnswersAny ==
    ASSUME NEW s \in Streams, NEW op \in Ops, NEW what, what \in {"ok", "failed"}, op \notin Out(s),
           \A i, j \in DOMAIN s.answers : s.answers[i].to = s.answers[j].to => i = j
    PROVE  LET t == Answers(s, <<op>>, what)
           IN  /\ t \in Streams /\ SameBut(s, t)
               /\ Out(t) = Out(s) \union {op}
               /\ Did(t) \subseteq Did(s) \union {op}
               /\ \A i, j \in DOMAIN t.answers : t.answers[i].to = t.answers[j].to => i = j
<1> DEFINE t == Answers(s, <<op>>, what)
<1>1. /\ t \in Streams /\ SameBut(s, t)
      /\ Out(t) = Out(s) \union {op}
      /\ Did(t) = IF what = "ok" THEN Did(s) \union {op} ELSE Did(s)
      /\ \A i, j \in DOMAIN t.answers : t.answers[i].to = t.answers[j].to => i = j
  BY AnswersOne
<1> HIDE DEF t
<1> QED
  BY <1>1 DEF t

\* The close in flight settles, and with it an abort that waits for it.
CloseOver(s, t) ==
    /\ t.state \in {s.state, "closed"} /\ t.writer = s.writer /\ t.ready = s.ready
    /\ t.closed = s.closed /\ t.writeRequests = s.writeRequests /\ t.inFlightWrite = s.inFlightWrite
    /\ t.closeRequest = s.closeRequest /\ ~t.inFlightClose
    /\ t.aborting = s.aborting /\ t.started = s.started /\ t.frames = s.frames
    /\ t.calls = s.calls /\ t.panicked = s.panicked

\* The promise of the close has settled, and that of an abort that waited.
CloseLands(s, t) ==
    /\ CloseOver(s, t) /\ t.pendingAbort = "none"
    /\ CloseOp \in Out(t) /\ Out(s) \subseteq Out(t) /\ Out(t) \subseteq Out(s) \union {CloseOp, AbortOp}
    /\ Did(t) \subseteq Did(s) \union {CloseOp, AbortOp}
    /\ \A i, j \in DOMAIN t.answers : t.answers[i].to = t.answers[j].to => i = j

\* A close in flight that is over settles its promise and that of an abort that
\* waited for it (WritableStreamFinishInFlightClose).
LEMMA CloseAnswers ==
    ASSUME NEW s \in Streams, NEW n \in Nat, NEW away, NEW f, Sound(s, n, away, f),
           s.inFlightClose, NEW u \in Streams, CloseOver(s, u), u.pendingAbort = s.pendingAbort,
           u.answers = s.answers, NEW what, what \in {"ok", "failed"}
    PROVE  /\ s.pendingAbort = "none" =>
                  LET t == Answers(u, <<CloseOp>>, what)
                  IN  t \in Streams /\ CloseLands(s, t) /\ t.state = u.state
           /\ s.pendingAbort # "none" =>
                  LET t == Answers([Answers(u, <<CloseOp>>, what) EXCEPT !.pendingAbort = "none"],
                                   <<AbortOp>>, what)
                  IN  t \in Streams /\ CloseLands(s, t) /\ t.state = u.state
<1> DEFINE done == Answers(u, <<CloseOp>>, what)
           rest == [done EXCEPT !.pendingAbort = "none"]
           both == Answers(rest, <<AbortOp>>, what)
<1>1. Once(s, n)
  BY DEF Sound, Kept
<1>2. CloseOp \in Ops /\ AbortOp \in Ops /\ CloseOp # AbortOp
  BY DEF Ops, CloseOp, AbortOp, WriteIds
<1>3. Out(u) = Out(s) /\ Did(u) = Did(s)
  BY DEF Out, Did
<1>4. CloseOp \notin Out(u) /\ (s.pendingAbort # "none" => AbortOp \notin Out(s))
  BY <1>1, <1>3 DEF Once
<1>5. \A i, j \in DOMAIN u.answers : u.answers[i].to = u.answers[j].to => i = j
  BY <1>1 DEF Once
<1>6. /\ done \in Streams /\ SameBut(u, done) /\ Out(done) = Out(u) \union {CloseOp}
      /\ Did(done) \subseteq Did(u) \union {CloseOp}
      /\ \A i, j \in DOMAIN done.answers : done.answers[i].to = done.answers[j].to => i = j
  BY <1>2, <1>4, <1>5, AnswersAny
<1> HIDE DEF done
<1>7. CloseOver(s, done) /\ done.state = u.state /\ done.pendingAbort = u.pendingAbort
  BY <1>6 DEF CloseOver, SameBut
<1>8. /\ rest \in Streams /\ CloseOver(s, rest) /\ rest.state = u.state /\ rest.pendingAbort = "none"
      /\ rest.answers = done.answers
  BY <1>6, <1>7 DEF CloseOver, Streams
<1> HIDE DEF rest
<1>9. /\ Out(rest) = Out(done) /\ Did(rest) = Did(done)
      /\ \A i, j \in DOMAIN rest.answers : rest.answers[i].to = rest.answers[j].to => i = j
  BY <1>6, <1>8 DEF Out, Did
<1>10. s.pendingAbort = "none" => CloseLands(s, done)
  BY <1>3, <1>6, <1>7 DEF CloseLands
<1>11. s.pendingAbort # "none" => both \in Streams /\ CloseLands(s, both) /\ both.state = u.state
  <2>1. SUFFICES ASSUME s.pendingAbort # "none"
                 PROVE  both \in Streams /\ CloseLands(s, both) /\ both.state = u.state
    OBVIOUS
  <2>2. AbortOp \notin Out(rest)
    BY <1>2, <1>3, <1>4, <1>6, <1>9, <2>1
  <2>3. /\ both \in Streams /\ SameBut(rest, both) /\ Out(both) = Out(rest) \union {AbortOp}
        /\ Did(both) \subseteq Did(rest) \union {AbortOp}
        /\ \A i, j \in DOMAIN both.answers : both.answers[i].to = both.answers[j].to => i = j
    BY <1>2, <1>8, <1>9, <2>2, AnswersAny
  <2> HIDE DEF both
  <2>4. CloseOver(s, both) /\ both.state = u.state /\ both.pendingAbort = "none"
    BY <1>8, <2>3 DEF CloseOver, SameBut
  <2> QED
    BY <1>3, <1>6, <1>9, <2>3, <2>4 DEF CloseLands
<1> QED
  BY <1>6, <1>7, <1>10, <1>11 DEF done, rest

\* A close in flight that is over keeps what holds of a stream in the midst of an
\* operation.
LEMMA CloseIsKept ==
    ASSUME NEW s \in Streams, NEW n \in Nat, NEW away, NEW f, Sound(s, n, away, f),
           s.inFlightClose, NEW t \in Streams, CloseLands(s, t)
    PROVE  /\ FlagsFit(t) /\ InTurn(t) /\ Once(t, n) /\ (f \/ InOrder(t))
           /\ ~OperationInFlight(t) /\ t.started /\ t.writer = s.writer /\ t.started = s.started
           /\ Tells(t, s.closeTells, away)
           /\ \A i \in DOMAIN t.frames : Tells(t, t.frames[i].writer, away)
           /\ IsLocked(t) /\ t.writer \notin away =>
                  /\ t.closed = "pending"
                  /\ t.state = "erroring" => t.ready = "rejected"
<1>1. /\ FlagsFit(s) /\ InTurn(s) /\ Once(s, n) /\ (f \/ InOrder(s)) /\ WriterKnows(s, away)
  BY DEF Sound, Kept
<1>2. /\ CloseOp # AbortOp /\ CloseOp <= n /\ AbortOp <= n
      /\ CloseOp \notin WriteIds /\ AbortOp \notin WriteIds
  BY DEF CloseOp, AbortOp, WriteIds
<1>3. /\ s.started /\ s.state \in Live /\ ~s.closeRequest /\ s.writeRequests = <<>> /\ ~s.aborting
      /\ s.inFlightWrite = NoWrite
  BY <1>1 DEF FlagsFit, Live
<1>4. /\ CloseOver(s, t) /\ t.pendingAbort = "none"
      /\ CloseOp \in Out(t) /\ Out(s) \subseteq Out(t) /\ Out(t) \subseteq Out(s) \union {CloseOp, AbortOp}
      /\ Did(t) \subseteq Did(s) \union {CloseOp, AbortOp}
      /\ \A i, j \in DOMAIN t.answers : t.answers[i].to = t.answers[j].to => i = j
  BY DEF CloseLands
<1>5. Called(t) = Called(s) /\ Sizing(t) = Sizing(s)
  BY <1>4 DEF CloseOver, Called, Sizing
<1>6. FlagsFit(t)
  BY <1>1, <1>3, <1>4 DEF CloseOver, FlagsFit, Live, Ended
<1>7. InTurn(t)
  BY <1>1, <1>2, <1>3, <1>4, <1>5 DEF CloseOver, InTurn, AtIt
<1>8. Once(t, n)
  <2>1. \A i \in Sizing(s) : s.frames[i].chunk \notin Out(t)
    BY <1>1, <1>4 DEF Once, CloseOp, AbortOp
  <2> QED
    BY <1>1, <1>2, <1>3, <1>4, <1>5, <2>1, NothingIn DEF CloseOver, Once
<1>9. f \/ InOrder(t)
  BY <1>1, <1>4, <1>5 DEF CloseOver, InOrder
<1>10. /\ ~OperationInFlight(t) /\ t.started /\ Tells(t, s.closeTells, away)
       /\ \A i \in DOMAIN t.frames : Tells(t, t.frames[i].writer, away)
  BY <1>1, <1>3, <1>4 DEF CloseOver, OperationInFlight, WriterKnows, Tells
<1>11. IsLocked(t) /\ t.writer \notin away =>
           t.closed = "pending" /\ (t.state = "erroring" => t.ready = "rejected")
  BY <1>1, <1>3, <1>4 DEF CloseOver, WriterKnows, Knows, IsLocked, Live
<1>12. t.writer = s.writer /\ t.started = s.started
  BY <1>4 DEF CloseOver
<1> QED
  BY <1>6, <1>7, <1>8, <1>9, <1>10, <1>11, <1>12

\* WritableStreamFinishInFlightClose.
LEMMA CloseFulfilledIsSound ==
    ASSUME NEW s \in Streams, NEW n \in Nat, NEW away, NEW f, Sound(s, n, away, f), s.inFlightClose
    PROVE  LET t == CloseFulfilled(s)
           IN  t \in Streams /\ Sound(t, n, away, f) /\ t.writer = s.writer /\ t.started = s.started
<1> DEFINE u == [s EXCEPT !.inFlightClose = FALSE, !.state = "closed"]
           done == Answers(u, <<CloseOp>>, "ok")
           told == IF s.pendingAbort # "none"
                   THEN Answers([done EXCEPT !.pendingAbort = "none"], <<AbortOp>>, "ok")
                   ELSE done
           t == CloseFulfilled(s)
<1>1. /\ u \in Streams /\ CloseOver(s, u) /\ u.state = "closed" /\ u.pendingAbort = s.pendingAbort
      /\ u.answers = s.answers
  BY DEF Streams, CloseOver
<1> HIDE DEF u
<1>0. told \in Streams /\ CloseLands(s, told) /\ told.state = "closed"
  <2>1. CASE s.pendingAbort = "none"
    <3>1. LET v == Answers(u, <<CloseOp>>, "ok")
          IN  v \in Streams /\ CloseLands(s, v) /\ v.state = u.state
      BY <1>1, <2>1, CloseAnswers
    <3> QED
      BY <1>1, <2>1, <3>1
  <2>2. CASE s.pendingAbort # "none"
    <3>1. LET v == Answers([Answers(u, <<CloseOp>>, "ok") EXCEPT !.pendingAbort = "none"], <<AbortOp>>, "ok")
          IN  v \in Streams /\ CloseLands(s, v) /\ v.state = u.state
      BY <1>1, <2>2, CloseAnswers
    <3> QED
      BY <1>1, <2>2, <3>1
  <2> QED
    BY <2>1, <2>2
<1>2. /\ told \in Streams /\ told.state = "closed" /\ told.pendingAbort = "none"
      /\ told.writer = s.writer /\ told.started = s.started
      /\ FlagsFit(told) /\ InTurn(told) /\ Once(told, n) /\ (f \/ InOrder(told))
      /\ ~OperationInFlight(told) /\ told.started
      /\ Tells(told, s.closeTells, away)
      /\ \A i \in DOMAIN told.frames : Tells(told, told.frames[i].writer, away)
      /\ IsLocked(told) /\ told.writer \notin away => told.closed = "pending"
  <2> HIDE DEF told
  <2> QED
    BY <1>0, CloseIsKept DEF CloseLands
<1>3. t = SettleClosed(told, s.closeTells, "fulfilled")
  <2>1. s.state = "erroring" /\ s.pendingAbort # "none" <=> s.pendingAbort # "none"
    BY DEF Sound, Kept, FlagsFit, TakesWrites, Live
  <2> QED
    BY <2>1 DEF CloseFulfilled, u
<1> HIDE DEF told, t, done
<1>4. /\ t \in Streams /\ t.state = told.state /\ t.writer = told.writer /\ t.ready = told.ready
      /\ t.closed = IF HasWriter(told, s.closeTells) /\ told.closed = "pending" THEN "fulfilled" ELSE told.closed
      /\ t.writeRequests = told.writeRequests /\ t.inFlightWrite = told.inFlightWrite /\ t.queue = told.queue
      /\ t.closeRequest = told.closeRequest /\ t.inFlightClose = told.inFlightClose
      /\ t.pendingAbort = told.pendingAbort /\ t.aborting = told.aborting /\ t.algorithms = told.algorithms
      /\ t.started = told.started /\ t.frames = told.frames /\ t.answers = told.answers
      /\ t.calls = told.calls /\ t.panicked = told.panicked
  <2>1. CASE HasWriter(told, s.closeTells) /\ told.closed = "pending"
    <3>1. t = [told EXCEPT !.closed = "fulfilled"] /\ "fulfilled" \in Promises
      BY <1>3, <2>1 DEF SettleClosed, Promises
    <3> QED
      BY <1>2, <2>1, <3>1 DEF Streams
  <2>2. CASE ~(HasWriter(told, s.closeTells) /\ told.closed = "pending")
    BY <1>2, <1>3, <2>2 DEF SettleClosed
  <2> QED
    BY <2>1, <2>2
<1>5. Out(t) = Out(told) /\ Did(t) = Did(told) /\ Called(t) = Called(told) /\ Sizing(t) = Sizing(told)
  BY <1>4 DEF Out, Did, Called, Sizing
<1>6. FlagsFit(t)
  BY <1>2, <1>4 DEF FlagsFit, Ended
<1>7. InTurn(t) /\ Once(t, n) /\ (f \/ InOrder(t))
  BY <1>2, <1>4, <1>5 DEF InTurn, Once, InOrder, AtIt
<1>8. WriterKnows(t, away)
  BY <1>2, <1>4 DEF WriterKnows, Knows, Tells, IsLocked, HasWriter, Live, OperationInFlight
<1>9. t.writer = s.writer /\ t.started = s.started
  BY <1>2, <1>4
<1> QED
  BY <1>2, <1>4, <1>6, <1>7, <1>8, <1>9 DEF Sound, Kept, EndIsAhead, Ended, Live, t

\* WritableStreamFinishInFlightCloseWithError.
LEMMA CloseRejectedIsSound ==
    ASSUME NEW s \in Streams, NEW n \in Nat, NEW away, NEW f, Sound(s, n, away, f), s.inFlightClose
    PROVE  LET t == CloseRejected(s)
           IN  t \in Streams /\ Sound(t, n, away, f) /\ t.writer = s.writer /\ t.started = s.started
<1> DEFINE u == [s EXCEPT !.inFlightClose = FALSE]
           done == Answers(u, <<CloseOp>>, "failed")
           told == IF s.pendingAbort # "none"
                   THEN Answers([done EXCEPT !.pendingAbort = "none"], <<AbortOp>>, "failed")
                   ELSE done
           t == CloseRejected(s)
<1>1. /\ u \in Streams /\ CloseOver(s, u) /\ u.state = s.state /\ u.pendingAbort = s.pendingAbort
      /\ u.answers = s.answers
  BY DEF Streams, CloseOver
<1> HIDE DEF u
<1>0. told \in Streams /\ CloseLands(s, told) /\ told.state = s.state
  <2>1. CASE s.pendingAbort = "none"
    <3>1. LET v == Answers(u, <<CloseOp>>, "failed")
          IN  v \in Streams /\ CloseLands(s, v) /\ v.state = u.state
      BY <1>1, <2>1, CloseAnswers
    <3> QED
      BY <1>1, <2>1, <3>1
  <2>2. CASE s.pendingAbort # "none"
    <3>1. LET v == Answers([Answers(u, <<CloseOp>>, "failed") EXCEPT !.pendingAbort = "none"], <<AbortOp>>, "failed")
          IN  v \in Streams /\ CloseLands(s, v) /\ v.state = u.state
      BY <1>1, <2>2, CloseAnswers
    <3> QED
      BY <1>1, <2>2, <3>1
  <2> QED
    BY <2>1, <2>2
<1>2. /\ told \in Streams /\ told.state = s.state
      /\ told.writer = s.writer /\ told.started = s.started
      /\ FlagsFit(told) /\ InTurn(told) /\ Once(told, n) /\ (f \/ InOrder(told))
      /\ ~OperationInFlight(told) /\ told.started
      /\ Tells(told, s.closeTells, away)
      /\ \A i \in DOMAIN told.frames : Tells(told, told.frames[i].writer, away)
      /\ IsLocked(told) /\ told.writer \notin away =>
             told.closed = "pending" /\ (told.state = "erroring" => told.ready = "rejected")
  <2> HIDE DEF told
  <2> QED
    BY <1>0, CloseIsKept
<1>3. t = DealWithRejection(told, s.closeTells)
  BY DEF CloseRejected, u
<1> HIDE DEF told, t, done
<1>4. told.state \in Live
  BY <1>2 DEF Sound, Kept, FlagsFit
<1>5. WriterKnows(told, away)
  BY <1>2, <1>4 DEF WriterKnows, Knows, Live, OperationInFlight
<1>6. LET v == DealWithRejection(told, s.closeTells)
      IN  /\ v \in Streams /\ Sound(v, n, away, f)
          /\ v.writer = told.writer /\ v.started = told.started
  <2>1. Kept(told, n, away, f)
    BY <1>2, <1>5 DEF Kept
  <2> QED
    BY <1>2, <1>4, <2>1, RejectionIsSound
<1> QED
  BY <1>2, <1>3, <1>6 DEF t

\* The abort's promise settles (the reactions of WritableStreamFinishErroring).
LEMMA AbortSettledIsSound ==
    ASSUME NEW s \in Streams, NEW n \in Nat, NEW away, NEW f, Sound(s, n, away, f), s.aborting,
           NEW what, what \in {"ok", "failed"}
    PROVE  LET t == AbortSettled(s, what)
           IN  t \in Streams /\ Sound(t, n, away, f) /\ t.writer = s.writer /\ t.started = s.started
<1> DEFINE u == [s EXCEPT !.aborting = FALSE]
           done == Answers(u, <<AbortOp>>, what)
           t == AbortSettled(s, what)
<1>1. /\ u \in Streams /\ u.state = s.state /\ u.writer = s.writer /\ u.ready = s.ready
      /\ u.closed = s.closed /\ u.writeRequests = s.writeRequests /\ u.inFlightWrite = s.inFlightWrite
      /\ u.closeRequest = s.closeRequest /\ u.inFlightClose = s.inFlightClose
      /\ u.pendingAbort = s.pendingAbort /\ ~u.aborting
      /\ u.started = s.started /\ u.frames = s.frames /\ u.answers = s.answers
      /\ u.calls = s.calls /\ u.panicked = s.panicked
  BY DEF Streams
<1> HIDE DEF u
<1>2. /\ FlagsFit(s) /\ InTurn(s) /\ Once(s, n) /\ (f \/ InOrder(s)) /\ WriterKnows(s, away)
  BY DEF Sound, Kept
<1>3. /\ AbortOp \in Ops /\ AbortOp # CloseOp /\ AbortOp <= n /\ AbortOp \notin WriteIds
      /\ AbortOp # NoWrite
  BY DEF Ops, CloseOp, AbortOp, WriteIds, NoWrite
<1>4. /\ s.state = "errored" /\ s.started /\ ~s.inFlightClose /\ s.writeRequests = <<>>
      /\ s.inFlightWrite = NoWrite /\ s.pendingAbort = "none" /\ ~s.panicked
  BY <1>2 DEF FlagsFit, Live, Ended
<1>5. Out(u) = Out(s) /\ Did(u) = Did(s) /\ AbortOp \notin Out(s)
  BY <1>1, <1>2 DEF Out, Did, Once
<1>6. /\ done \in Streams /\ SameBut(u, done) /\ Out(done) = Out(s) \union {AbortOp}
      /\ Did(done) \subseteq Did(s) \union {AbortOp}
      /\ \A i, j \in DOMAIN done.answers : done.answers[i].to = done.answers[j].to => i = j
  <2>1. \A i, j \in DOMAIN u.answers : u.answers[i].to = u.answers[j].to => i = j
    BY <1>1, <1>2 DEF Once
  <2>2. AbortOp \notin Out(u)
    BY <1>5
  <2> DEFINE v == Answers(u, <<AbortOp>>, what)
  <2>3. /\ v \in Streams /\ SameBut(u, v) /\ Out(v) = Out(u) \union {AbortOp}
        /\ Did(v) \subseteq Did(u) \union {AbortOp}
        /\ \A i, j \in DOMAIN v.answers : v.answers[i].to = v.answers[j].to => i = j
    BY <1>1, <1>3, <2>1, <2>2, AnswersAny
  <2> HIDE DEF v
  <2> QED
    BY <1>5, <2>3 DEF v
<1>7. t = RejectCloseAndClosed(done, s.writer)
  BY DEF AbortSettled, done, u
<1> HIDE DEF done, t
<1>8. Called(done) = Called(s) /\ Sizing(done) = Sizing(s)
  BY <1>1, <1>6 DEF SameBut, Called, Sizing
<1>9. InTurn(done)
  BY <1>1, <1>2, <1>3, <1>4, <1>6, <1>8 DEF SameBut, InTurn, AtIt
<1>10. Once(done, n)
  <2>1. \A i \in Sizing(s) : s.frames[i].chunk \notin Out(done)
    BY <1>2, <1>6 DEF Once, AbortOp
  <2> QED
    BY <1>1, <1>2, <1>3, <1>4, <1>6, <1>8, <2>1, NothingIn DEF SameBut, Once
<1>11. f \/ InOrder(done)
  BY <1>1, <1>2, <1>6, <1>8 DEF SameBut, InOrder
<1>12. Ending(done, n, away, f, s.writer)
  BY <1>1, <1>2, <1>4, <1>6, <1>9, <1>10, <1>11 DEF SameBut, Ending, WriterKnows, Knows, Tells, IsLocked
<1>13. LET v == RejectCloseAndClosed(done, s.writer)
       IN  /\ v \in Streams /\ Sound(v, n, away, f)
           /\ v.writer = done.writer /\ v.started = done.started
  BY <1>6, <1>12, EndIsSound
<1> QED
  BY <1>1, <1>6, <1>7, <1>13 DEF SameBut, t

-----------------------------------------------------------------------------
(* Writers, and what they call. *)

\* A writer is acquired; late, when a callback runs or the sink closes.
LEMMA AcquireIsSound ==
    ASSUME NEW s \in Streams, NEW n \in Nat, NEW away, NEW f, Sound(s, n, away, f), ~IsLocked(s),
           NEW w \in Writers, NEW more, s.inFlightClose \/ s.frames # <<>> => w \in more
    PROVE  LET t == AcquireWriter(s, w)
           IN  t \in Streams /\ Sound(t, n, away \union more, f) /\ t.writer = w /\ t.started = s.started
<1> DEFINE ready == ReadyOfNewWriter(s)
           closed == ClosedOfNewWriter(s)
           t == AcquireWriter(s, w)
           gone == away \union more
<1>1. w \in Writers \union {NoWriter} /\ w # NoWriter
  BY DEF Writers, NoWriter
<1>2. ready \in Promises /\ closed \in Promises
  BY DEF ReadyOfNewWriter, ClosedOfNewWriter, Promises, Streams
<1>3. t = [s EXCEPT !.writer = w, !.ready = ready, !.closed = closed]
  BY DEF AcquireWriter
<1>4. /\ s.state \in {"erroring", "errored"} => ready = "rejected"
      /\ s.state = "writable" =>
             ready = IF s.backpressure /\ ~CloseQueuedOrInFlight(s) THEN "pending" ELSE "fulfilled"
      /\ s.state \in Live => closed = "pending"
      /\ s.state = "closed" => closed = "fulfilled"
      /\ s.state = "errored" => closed = "rejected"
  BY DEF ReadyOfNewWriter, ClosedOfNewWriter, Live, Streams
<1> HIDE DEF t, ready, closed
<1>5. /\ t \in Streams /\ t.state = s.state /\ t.writer = w /\ t.ready = ready
      /\ t.closed = closed /\ t.writeRequests = s.writeRequests /\ t.inFlightWrite = s.inFlightWrite
      /\ t.closeRequest = s.closeRequest /\ t.inFlightClose = s.inFlightClose
      /\ t.closeTells = s.closeTells /\ t.algorithms = s.algorithms /\ t.hwm = s.hwm
      /\ t.pendingAbort = s.pendingAbort /\ t.aborting = s.aborting /\ t.backpressure = s.backpressure
      /\ t.started = s.started /\ t.frames = s.frames /\ t.answers = s.answers
      /\ t.calls = s.calls /\ t.panicked = s.panicked /\ t.queue = s.queue
  BY <1>1, <1>2, <1>3 DEF Streams
<1>6. Out(t) = Out(s) /\ Did(t) = Did(s) /\ Called(t) = Called(s) /\ Sizing(t) = Sizing(s)
  BY <1>5 DEF Out, Did, Called, Sizing
<1>7. /\ FlagsFit(s) /\ InTurn(s) /\ Once(s, n) /\ (f \/ InOrder(s)) /\ WriterKnows(s, away)
      /\ EndIsAhead(s)
      /\ s.state = "writable" => TakesWrites(s, away) /\ BackpressureFits(s)
      /\ s.state = "erroring" => ~s.started \/ OperationInFlight(s)
  BY DEF Sound, Kept
<1>8. FlagsFit(t) /\ InTurn(t) /\ Once(t, n) /\ (f \/ InOrder(t)) /\ EndIsAhead(t)
  BY <1>5, <1>6, <1>7 DEF FlagsFit, InTurn, Once, InOrder, AtIt, EndIsAhead, Ended
<1>9. WriterKnows(t, gone)
  <2>1. \A i \in DOMAIN t.frames : Tells(t, t.frames[i].writer, gone)
    <3>1. CASE s.frames = <<>>
      BY <1>5, <3>1, NothingIn
    <3>2. CASE s.frames # <<>>
      BY <1>5, <3>2 DEF Tells
    <3> QED
      BY <3>1, <3>2
  <2>2. t.inFlightClose => Tells(t, t.closeTells, gone)
    BY <1>5 DEF Tells
  <2>3. Knows(t)
    BY <1>4, <1>5 DEF Knows, Live
  <2> QED
    BY <2>1, <2>2, <2>3 DEF WriterKnows
<1>10. QueueIsTheRequests(s) => QueueIsTheRequests(t)
  BY <1>5 DEF QueueIsTheRequests
<1>11. t.state = "writable" => TakesWrites(t, gone) /\ BackpressureFits(t)
  BY <1>4, <1>5, <1>7, <1>10 DEF TakesWrites, ReadyFits, BackpressureFits, CloseQueuedOrInFlight, WriterDesiredSize, ContainerSize, IsLocked
<1> QED
  BY <1>5, <1>7, <1>8, <1>9, <1>11 DEF Sound, Kept, OperationInFlight, t

\* The writer is released, and told of nothing more.
LEMMA ReleaseIsSound ==
    ASSUME NEW s \in Streams, NEW n \in Nat, NEW away, NEW f, Sound(s, n, away, f)
    PROVE  LET t == ReleaseWriter(s)
           IN  t \in Streams /\ Sound(t, n, away, f) /\ t.writer = NoWriter /\ t.started = s.started
<1> DEFINE t == ReleaseWriter(s)
<1>1. "none" \in Promises /\ t = [s EXCEPT !.writer = NoWriter, !.ready = "none", !.closed = "none"]
  BY DEF ReleaseWriter, Promises
<1> HIDE DEF t
<1>2. /\ t \in Streams /\ t.state = s.state /\ t.writer = NoWriter
      /\ t.writeRequests = s.writeRequests /\ t.inFlightWrite = s.inFlightWrite
      /\ t.closeRequest = s.closeRequest /\ t.inFlightClose = s.inFlightClose
      /\ t.closeTells = s.closeTells /\ t.algorithms = s.algorithms /\ t.hwm = s.hwm
      /\ t.pendingAbort = s.pendingAbort /\ t.aborting = s.aborting /\ t.backpressure = s.backpressure
      /\ t.started = s.started /\ t.frames = s.frames /\ t.answers = s.answers
      /\ t.calls = s.calls /\ t.panicked = s.panicked /\ t.queue = s.queue
  BY <1>1 DEF Streams
<1>3. Out(t) = Out(s) /\ Did(t) = Did(s) /\ Called(t) = Called(s) /\ Sizing(t) = Sizing(s)
  BY <1>2 DEF Out, Did, Called, Sizing
<1>4. /\ FlagsFit(s) /\ InTurn(s) /\ Once(s, n) /\ (f \/ InOrder(s))
      /\ EndIsAhead(s)
      /\ s.state = "writable" => TakesWrites(s, away) /\ BackpressureFits(s)
      /\ s.state = "erroring" => ~s.started \/ OperationInFlight(s)
  BY DEF Sound, Kept
<1>5. FlagsFit(t) /\ InTurn(t) /\ Once(t, n) /\ (f \/ InOrder(t)) /\ EndIsAhead(t)
  BY <1>2, <1>3, <1>4 DEF FlagsFit, InTurn, Once, InOrder, AtIt, EndIsAhead, Ended
<1>6. WriterKnows(t, away)
  BY <1>2 DEF WriterKnows, Tells, IsLocked
<1>7. QueueIsTheRequests(s) => QueueIsTheRequests(t)
  BY <1>2 DEF QueueIsTheRequests
<1>8. t.state = "writable" => TakesWrites(t, away) /\ BackpressureFits(t)
  BY <1>2, <1>4, <1>7 DEF TakesWrites, ReadyFits, BackpressureFits, CloseQueuedOrInFlight, WriterDesiredSize, ContainerSize, IsLocked
<1> QED
  BY <1>2, <1>4, <1>5, <1>6, <1>8 DEF Sound, Kept, OperationInFlight, t

\* The script runs: what is on the stack, and nothing else, has changed.
Framed(s, t) ==
    /\ t.state = s.state /\ t.writer = s.writer /\ t.ready = s.ready
    /\ t.closed = s.closed /\ t.writeRequests = s.writeRequests /\ t.inFlightWrite = s.inFlightWrite
    /\ t.closeRequest = s.closeRequest /\ t.inFlightClose = s.inFlightClose
    /\ t.closeTells = s.closeTells /\ t.algorithms = s.algorithms /\ t.hwm = s.hwm
    /\ t.pendingAbort = s.pendingAbort /\ t.aborting = s.aborting /\ t.backpressure = s.backpressure
    /\ t.started = s.started /\ t.answers = s.answers
    /\ t.calls = s.calls /\ t.panicked = s.panicked /\ t.queue = s.queue

\* A callback that is entered or left changes nothing else of the stream.
LEMMA FramedIsSound ==
    ASSUME NEW s \in Streams, NEW n \in Nat, NEW away, NEW f, Sound(s, n, away, f),
           NEW t \in Streams, Framed(s, t), NEW m \in Nat, NEW g,
           Once(t, m), g \/ InOrder(t), \A i \in DOMAIN t.frames : Tells(t, t.frames[i].writer, away)
    PROVE  Sound(t, m, away, g)
<1>1. /\ FlagsFit(s) /\ InTurn(s) /\ WriterKnows(s, away) /\ EndIsAhead(s)
      /\ s.state = "writable" => TakesWrites(s, away) /\ BackpressureFits(s)
      /\ s.state = "erroring" => ~s.started \/ OperationInFlight(s)
  BY DEF Sound, Kept
<1>2. Out(t) = Out(s) /\ Did(t) = Did(s) /\ Called(t) = Called(s)
  BY DEF Framed, Out, Did, Called
<1>3. FlagsFit(t) /\ InTurn(t) /\ EndIsAhead(t)
  BY <1>1, <1>2 DEF Framed, FlagsFit, InTurn, AtIt, EndIsAhead, Ended
<1>4. WriterKnows(t, away)
  BY <1>1 DEF Framed, WriterKnows, Knows, Tells, IsLocked
<1>5. QueueIsTheRequests(s) => QueueIsTheRequests(t)
  BY DEF Framed, QueueIsTheRequests
<1>6. t.state = "writable" => TakesWrites(t, away) /\ BackpressureFits(t)
  BY <1>1, <1>5 DEF Framed, TakesWrites, ReadyFits, BackpressureFits, CloseQueuedOrInFlight, WriterDesiredSize, ContainerSize, IsLocked
<1>7. t.state = "erroring" => ~t.started \/ OperationInFlight(t)
  BY <1>1 DEF Framed, OperationInFlight
<1> QED
  BY <1>3, <1>4, <1>6, <1>7 DEF Sound, Kept

\* A write is begun: its size() is called.
LEMMA WriteStartIsSound ==
    ASSUME NEW s \in Streams, NEW n \in Nat, NEW away, NEW f, Sound(s, n, away, f),
           n + 1 \in WriteIds, NEW g, g = (f \/ Sizing(s) # {})
    PROVE  LET t == WriteStart(s, s.writer, n + 1)
           IN  t \in Streams /\ Sound(t, n + 1, away, g) /\ t.writer = s.writer /\ t.started = s.started
<1> DEFINE Frame == [in : {"size", "signal"}, writer : Writers \union {NoWriter}, chunk : Ops]
           new == [in |-> "size", writer |-> s.writer, chunk |-> n + 1]
           frames == Append(s.frames, new)
           t == WriteStart(s, s.writer, n + 1)
<1>1. s.frames \in Seq(Frame) /\ new \in Frame
  BY DEF Streams, Ops
<1>2. new.in = "size" /\ new.writer = s.writer /\ new.chunk = n + 1
  OBVIOUS
<1> HIDE DEF Frame, new
<1>3. /\ frames \in Seq(Frame) /\ Len(frames) = Len(s.frames) + 1
      /\ Len(s.frames) \in Nat /\ DOMAIN s.frames = 1..Len(s.frames)
      /\ DOMAIN frames = 1..(Len(s.frames) + 1)
      /\ frames[Len(s.frames) + 1] = new
      /\ \A i \in DOMAIN s.frames : frames[i] = s.frames[i]
  BY <1>1, AppendSteps
<1> HIDE DEF frames
<1>4. t = [s EXCEPT !.frames = frames]
  BY DEF WriteStart, frames, new
<1> HIDE DEF t
<1>5. t \in Streams /\ Framed(s, t) /\ t.frames = frames
  <2>1. frames \in Seq([in : {"size", "signal"}, writer : Writers \union {NoWriter}, chunk : Ops])
    BY <1>3 DEF Frame
  <2> QED
    BY <1>4, <2>1 DEF Streams, Framed
<1>6. Out(t) = Out(s) /\ Sizing(t) = Sizing(s) \union {Len(s.frames) + 1} /\ Len(s.frames) + 1 \notin Sizing(s)
  BY <1>2, <1>3, <1>5 DEF Framed, Out, Sizing
<1>7. Once(s, n) /\ (f \/ InOrder(s)) /\ WriterKnows(s, away)
  BY DEF Sound, Kept
<1>8. /\ \A i \in Sizing(s) : t.frames[i] = s.frames[i]
      /\ t.frames[Len(s.frames) + 1].chunk = n + 1
  BY <1>2, <1>3, <1>5 DEF Sizing
<1>9. s.inFlightWrite \in Nat /\ \A i \in DOMAIN s.writeRequests : s.writeRequests[i] \in Nat
  <2>1. s.writeRequests \in Seq(WriteIds) /\ s.inFlightWrite \in WriteIds \union {NoWrite}
    BY DEF Streams
  <2>2. \A i \in DOMAIN s.writeRequests : s.writeRequests[i] \in WriteIds
    BY <2>1
  <2> QED
    BY <2>1, <2>2 DEF WriteIds, NoWrite
<1>10. \A op \in Out(s) : op \in Int
  <2>1. s.answers \in Seq(Answered)
    BY DEF Streams
  <2>2. \A i \in DOMAIN s.answers : s.answers[i] \in Answered
    BY <2>1
  <2>3. \A i \in DOMAIN s.answers : s.answers[i].to \in Ops
    BY <2>2 DEF Answered
  <2> QED
    BY <2>3 DEF Out, Ops, WriteIds, CloseOp, AbortOp
<1>11. \A i \in DOMAIN s.calls : s.calls[i] \in Int
  <2>1. s.calls \in Seq(Ops)
    BY DEF Streams
  <2>2. \A i \in DOMAIN s.calls : s.calls[i] \in Ops
    BY <2>1
  <2> QED
    BY <2>2 DEF Ops, WriteIds, CloseOp, AbortOp
<1>12. Once(t, n + 1)
  <2>1. \A i, j \in Sizing(t) : t.frames[i].chunk = t.frames[j].chunk => i = j
    <3>1. \A i \in Sizing(s) : t.frames[i].chunk # n + 1
      BY <1>7, <1>8 DEF Once
    <3>2. \A i, j \in Sizing(s) : t.frames[i].chunk = t.frames[j].chunk => i = j
      BY <1>7, <1>8 DEF Once
    <3> QED
      BY <1>6, <1>8, <3>1, <3>2
  <2>2. \A i \in Sizing(t) :
           /\ t.frames[i].chunk \in 1..(n + 1)
           /\ t.frames[i].chunk \notin Out(t) \union {t.inFlightWrite}
           /\ \A j \in DOMAIN t.writeRequests : t.writeRequests[j] # t.frames[i].chunk
    <3>1. ASSUME NEW i \in Sizing(s)
          PROVE  /\ t.frames[i].chunk \in 1..(n + 1)
                 /\ t.frames[i].chunk \notin Out(t) \union {t.inFlightWrite}
                 /\ \A j \in DOMAIN t.writeRequests : t.writeRequests[j] # t.frames[i].chunk
      BY <1>5, <1>6, <1>7, <1>8 DEF Once, Framed
    <3>2. /\ n + 1 \in 1..(n + 1)
          /\ n + 1 \notin Out(t) \union {t.inFlightWrite}
          /\ \A j \in DOMAIN t.writeRequests : t.writeRequests[j] # n + 1
      BY <1>5, <1>6, <1>7, <1>9 DEF Once, Framed
    <3> QED
      BY <1>6, <1>8, <3>1, <3>2
  <2>3. \A op \in Out(t) : op <= n + 1
    BY <1>6, <1>7, <1>10 DEF Once
  <2>4. \A i \in DOMAIN t.calls : t.calls[i] <= n + 1
    BY <1>5, <1>7, <1>11 DEF Once, Framed
  <2>5. t.inFlightWrite <= n + 1 /\ \A i \in DOMAIN t.writeRequests : t.writeRequests[i] <= n + 1
    BY <1>5, <1>7, <1>9 DEF Once, Framed
  <2> QED
    BY <1>5, <1>6, <1>7, <2>1, <2>2, <2>3, <2>4, <2>5 DEF Once, Framed
<1>13. g \/ InOrder(t)
  <2>1. ASSUME ~g PROVE InOrder(t)
    <3>1. Sizing(s) = {} /\ InOrder(s) /\ Sizing(t) = {Len(s.frames) + 1}
      BY <1>6, <1>7, <2>1
    <3>2. \A j \in DOMAIN t.calls : t.calls[j] < n + 1
      BY <1>5, <1>7, <1>11 DEF Once, Framed
    <3>3. \A j \in DOMAIN t.writeRequests : t.writeRequests[j] < n + 1
      BY <1>5, <1>7, <1>9 DEF Once, Framed
    <3> QED
      BY <1>5, <1>8, <3>1, <3>2, <3>3 DEF InOrder, Framed
  <2> QED
    BY <2>1
<1>14. \A i \in DOMAIN t.frames : Tells(t, t.frames[i].writer, away)
  BY <1>2, <1>3, <1>5, <1>7 DEF WriterKnows, Framed, Tells
<1>15. Sound(t, n + 1, away, g)
  BY <1>5, <1>12, <1>13, <1>14, FramedIsSound
<1> QED
  BY <1>5, <1>15 DEF Framed, t

\* A write that is neither requested, nor in flight, nor settled, nor begun again.
Free(s, n, op) ==
    /\ op \in WriteIds /\ op <= n
    /\ op \notin Out(s) \union {s.inFlightWrite}
    /\ \A j \in DOMAIN s.writeRequests : s.writeRequests[j] # op
    /\ \A i \in Sizing(s) : s.frames[i].chunk # op

\* It comes after all that were requested.
IsNewest(s, op) ==
    /\ Sizing(s) = {}
    /\ \A j \in DOMAIN s.calls : s.calls[j] < op
    /\ \A j \in DOMAIN s.writeRequests : s.writeRequests[j] < op

\* What Front leaves of a sequence.
LEMMA FrontSteps ==
    ASSUME NEW S, NEW q \in Seq(S), q # <<>>
    PROVE  /\ Front(q) \in Seq(S) /\ Last(q) = q[Len(q)] /\ Len(q) \in DOMAIN q /\ Last(q) \in S
           /\ Len(q) \in Nat \ {0} /\ DOMAIN q = 1..Len(q) /\ DOMAIN Front(q) = 1..(Len(q) - 1)
           /\ \A i \in DOMAIN Front(q) : i \in DOMAIN q /\ i # Len(q) /\ Front(q)[i] = q[i]
BY DEF Front, Last

\* A callback returns.
LEMMA PopIsSound ==
    ASSUME NEW s \in Streams, NEW n \in Nat, n <= MaxWrites, NEW away, NEW f,
           ConstantsOK, Sound(s, n, away, f), s.frames # <<>>
    PROVE  LET t == [s EXCEPT !.frames = Front(@)]
               top == Last(s.frames)
           IN  /\ t \in Streams /\ Sound(t, n, away, f) /\ Framed(s, t)
               /\ top.writer \in Writers \union {NoWriter} /\ Tells(t, top.writer, away)
               /\ top.in = "size" => Free(t, n, top.chunk) /\ (f \/ IsNewest(t, top.chunk))
<1> DEFINE Frame == [in : {"size", "signal"}, writer : Writers \union {NoWriter}, chunk : Ops]
           frames == Front(s.frames)
           t == [s EXCEPT !.frames = frames]
           top == Last(s.frames)
<1>1. s.frames \in Seq(Frame)
  BY DEF Streams
<1> HIDE DEF Frame
<1>2. /\ frames \in Seq(Frame) /\ top = s.frames[Len(s.frames)] /\ Len(s.frames) \in DOMAIN s.frames
      /\ top \in Frame /\ Len(s.frames) \in Nat \ {0} /\ DOMAIN s.frames = 1..Len(s.frames)
      /\ DOMAIN frames = 1..(Len(s.frames) - 1)
      /\ \A i \in DOMAIN frames : i \in DOMAIN s.frames /\ i # Len(s.frames) /\ frames[i] = s.frames[i]
  BY <1>1, FrontSteps
<1> HIDE DEF frames, top
<1>3. t \in Streams /\ Framed(s, t) /\ t.frames = frames
  <2>1. frames \in Seq([in : {"size", "signal"}, writer : Writers \union {NoWriter}, chunk : Ops])
    BY <1>2 DEF Frame
  <2> QED
    BY <2>1 DEF Streams, Framed
<1> HIDE DEF t
<1>4. Out(t) = Out(s) /\ Sizing(t) \subseteq Sizing(s) /\ Len(s.frames) \notin Sizing(t)
  BY <1>2, <1>3 DEF Framed, Out, Sizing
<1>5. \A i \in Sizing(t) : t.frames[i] = s.frames[i]
  BY <1>2, <1>3 DEF Sizing
<1>6. Once(s, n) /\ (f \/ InOrder(s)) /\ WriterKnows(s, away)
  BY DEF Sound, Kept
<1>7. Once(t, n)
  BY <1>3, <1>4, <1>5, <1>6 DEF Once, Framed
<1>8. f \/ InOrder(t)
  BY <1>3, <1>4, <1>5, <1>6 DEF InOrder, Framed
<1>9. \A i \in DOMAIN t.frames : Tells(t, t.frames[i].writer, away)
  BY <1>2, <1>3, <1>6 DEF WriterKnows, Framed, Tells
<1>10. Sound(t, n, away, f)
  BY <1>3, <1>7, <1>8, <1>9, FramedIsSound
<1>11. top.writer \in Writers \union {NoWriter} /\ Tells(t, top.writer, away)
  BY <1>2, <1>3, <1>6 DEF Frame, WriterKnows, Framed, Tells
<1>12. ASSUME top.in = "size" PROVE Free(t, n, top.chunk) /\ (f \/ IsNewest(t, top.chunk))
  <2>1. Len(s.frames) \in Sizing(s) /\ s.frames[Len(s.frames)].chunk = top.chunk
    BY <1>2, <1>12 DEF Sizing
  <2>2. top.chunk \in 1..n
    BY <1>6, <2>1 DEF Once
  <2>3. top.chunk \in WriteIds /\ top.chunk <= n
    BY <2>2 DEF WriteIds, ConstantsOK
  <2>4. top.chunk \notin Out(t) \union {t.inFlightWrite} /\ \A j \in DOMAIN t.writeRequests : t.writeRequests[j] # top.chunk
    BY <1>3, <1>4, <1>6, <2>1 DEF Once, Framed
  <2>5. \A i \in Sizing(t) : t.frames[i].chunk # top.chunk
    BY <1>4, <1>5, <1>6, <2>1 DEF Once
  <2>6. f \/ IsNewest(t, top.chunk)
    BY <1>3, <1>4, <1>6, <2>1 DEF InOrder, IsNewest, Framed
  <2> QED
    BY <2>3, <2>4, <2>5, <2>6 DEF Free
<1> QED
  BY <1>3, <1>10, <1>11, <1>12 DEF t, frames, top

\* A write that was not requested fails.
LEMMA RefusedIsSound ==
    ASSUME NEW s \in Streams, NEW n \in Nat, NEW away, NEW f, Sound(s, n, away, f),
           NEW op, Free(s, n, op)
    PROVE  LET t == Answers(s, <<op>>, "failed")
           IN  t \in Streams /\ Sound(t, n, away, f) /\ t.writer = s.writer /\ t.started = s.started
<1> DEFINE t == Answers(s, <<op>>, "failed")
<1>1. /\ FlagsFit(s) /\ InTurn(s) /\ Once(s, n) /\ (f \/ InOrder(s)) /\ WriterKnows(s, away)
      /\ EndIsAhead(s)
      /\ s.state = "writable" => TakesWrites(s, away) /\ BackpressureFits(s)
      /\ s.state = "erroring" => ~s.started \/ OperationInFlight(s)
  BY DEF Sound, Kept
<1>2. op \in WriteIds /\ op \in Ops /\ op # CloseOp /\ op # AbortOp /\ op \notin Out(s)
  BY DEF Free, Ops, WriteIds, CloseOp, AbortOp
<1>3. /\ t \in Streams /\ SameBut(s, t) /\ Out(t) = Out(s) \union {op}
      /\ Did(t) = Did(s)
      /\ \A i, j \in DOMAIN t.answers : t.answers[i].to = t.answers[j].to => i = j
  <2>1. \A i, j \in DOMAIN s.answers : s.answers[i].to = s.answers[j].to => i = j
    BY <1>1 DEF Once
  <2> QED
    BY <1>2, <2>1, AnswersOne
<1> HIDE DEF t
<1>4. Called(t) = Called(s) /\ Sizing(t) = Sizing(s)
  BY <1>3 DEF SameBut, Called, Sizing
<1>5. FlagsFit(t)
  BY <1>1, <1>3 DEF SameBut, FlagsFit, Ended
<1>6. InTurn(t)
  BY <1>1, <1>3, <1>4 DEF SameBut, InTurn, AtIt
<1>7. Once(t, n)
  BY <1>1, <1>2, <1>3, <1>4 DEF SameBut, Once, Free
<1>8. f \/ InOrder(t)
  BY <1>1, <1>3, <1>4 DEF SameBut, InOrder
<1>9. WriterKnows(t, away)
  BY <1>1, <1>3 DEF SameBut, WriterKnows, Knows, Tells, IsLocked
<1>10. EndIsAhead(t)
  BY <1>1, <1>2, <1>3, <1>4 DEF SameBut, EndIsAhead, Ended
<1>11. QueueIsTheRequests(s) => QueueIsTheRequests(t)
  BY <1>3 DEF SameBut, QueueIsTheRequests
<1>12. t.state = "writable" => TakesWrites(t, away) /\ BackpressureFits(t)
  BY <1>1, <1>3, <1>11 DEF SameBut, TakesWrites, ReadyFits, BackpressureFits, CloseQueuedOrInFlight, WriterDesiredSize, ContainerSize, IsLocked
<1> QED
  BY <1>1, <1>3, <1>5, <1>6, <1>7, <1>8, <1>9, <1>10, <1>12 DEF SameBut, Sound, Kept, OperationInFlight, t

\* A write becomes a request of a stream that takes it.
Requested(s, t, op) ==
    /\ t.state = s.state /\ t.writer = s.writer /\ t.ready = s.ready
    /\ t.closed = s.closed /\ t.writeRequests = Append(s.writeRequests, op)
    /\ t.inFlightWrite = s.inFlightWrite
    /\ t.closeRequest = s.closeRequest /\ t.inFlightClose = s.inFlightClose
    /\ t.closeTells = s.closeTells /\ t.algorithms = s.algorithms
    /\ t.pendingAbort = s.pendingAbort /\ t.aborting = s.aborting /\ t.backpressure = s.backpressure
    /\ t.started = s.started /\ t.frames = s.frames /\ t.answers = s.answers
    /\ t.calls = s.calls /\ t.panicked = s.panicked
    /\ s.queue # <<>> => t.queue # <<>>

\* A write that is requested comes after every other, or a callback is to blame
\* (WritableStreamAddWriteRequest).
LEMMA RequestedIsKept ==
    ASSUME NEW s \in Streams, NEW n \in Nat, NEW away, NEW f, Sound(s, n, away, f),
           NEW op, Free(s, n, op), f \/ IsNewest(s, op),
           s.state = "writable", ~CloseQueuedOrInFlight(s), NEW t \in Streams, Requested(s, t, op)
    PROVE  Kept(t, n, away, f) /\ EndIsAhead(t) /\ t.pendingAbort = "none"
<1> DEFINE wr == Append(s.writeRequests, op)
<1>1. /\ FlagsFit(s) /\ InTurn(s) /\ Once(s, n) /\ (f \/ InOrder(s)) /\ WriterKnows(s, away)
      /\ EndIsAhead(s) /\ s.pendingAbort = "none" /\ ~s.inFlightClose /\ ~s.closeRequest
  BY DEF Sound, Kept, TakesWrites, CloseQueuedOrInFlight
<1>2. op \in WriteIds /\ s.writeRequests \in Seq(WriteIds)
  BY DEF Free, Streams
<1>3. /\ Len(wr) = Len(s.writeRequests) + 1
      /\ Len(s.writeRequests) \in Nat /\ DOMAIN s.writeRequests = 1..Len(s.writeRequests)
      /\ DOMAIN wr = 1..(Len(s.writeRequests) + 1)
      /\ wr[Len(s.writeRequests) + 1] = op
      /\ \A i \in DOMAIN s.writeRequests : wr[i] = s.writeRequests[i]
  BY <1>2, AppendSteps
<1>4. t.writeRequests = wr
  BY DEF Requested
<1> HIDE DEF wr
<1>5. Out(t) = Out(s) /\ Did(t) = Did(s) /\ Called(t) = Called(s) /\ Sizing(t) = Sizing(s)
  BY DEF Requested, Out, Did, Called, Sizing
<1>6. FlagsFit(t)
  BY <1>1 DEF Requested, FlagsFit, Ended
<1>7. InTurn(t)
  BY <1>1, <1>5 DEF Requested, InTurn, AtIt
<1>8. \A i \in DOMAIN wr : i \in DOMAIN s.writeRequests \/ i = Len(s.writeRequests) + 1
  BY <1>3
<1>9. Once(t, n)
  <2>1. \A i, j \in DOMAIN wr : wr[i] = wr[j] => i = j
    <3>1. \A i \in DOMAIN s.writeRequests : s.writeRequests[i] # op
      BY DEF Free
    <3>2. \A i, j \in DOMAIN s.writeRequests : s.writeRequests[i] = s.writeRequests[j] => i = j
      BY <1>1 DEF Once
    <3> QED
      BY <1>3, <1>8, <3>1, <3>2
  <2>2. \A i \in DOMAIN wr : wr[i] \notin Out(t) \union {t.inFlightWrite} /\ wr[i] <= n
    <3>1. \A i \in DOMAIN s.writeRequests : s.writeRequests[i] \notin Out(s) \union {s.inFlightWrite} /\ s.writeRequests[i] <= n
      BY <1>1 DEF Once
    <3>2. op \notin Out(s) \union {s.inFlightWrite} /\ op <= n
      BY DEF Free
    <3> QED
      BY <1>3, <1>5, <1>8, <3>1, <3>2 DEF Requested
  <2>3. \A i \in Sizing(t) : \A j \in DOMAIN wr : wr[j] # t.frames[i].chunk
    <3>1. \A i \in Sizing(s) : \A j \in DOMAIN s.writeRequests : s.writeRequests[j] # s.frames[i].chunk
      BY <1>1 DEF Once
    <3>2. \A i \in Sizing(s) : s.frames[i].chunk # op
      BY DEF Free
    <3> QED
      BY <1>3, <1>5, <1>8, <3>1, <3>2 DEF Requested
  <2> QED
    BY <1>1, <1>4, <1>5, <2>1, <2>2, <2>3 DEF Requested, Once
<1>10. f \/ InOrder(t)
  <2>1. ASSUME ~f PROVE InOrder(t)
    <3>1. InOrder(s) /\ IsNewest(s, op)
      BY <1>1, <2>1
    <3>2. \A i \in DOMAIN s.calls, j \in DOMAIN wr : s.calls[i] < wr[j]
      BY <1>3, <1>8, <3>1 DEF InOrder, IsNewest
    <3>3. ASSUME NEW i \in DOMAIN wr, NEW j \in DOMAIN wr, i < j PROVE wr[i] < wr[j]
      <4>1. i \in DOMAIN s.writeRequests
        BY <1>3, <3>3
      <4>2. CASE j \in DOMAIN s.writeRequests
        BY <1>3, <3>1, <3>3, <4>1, <4>2 DEF InOrder
      <4>3. CASE j = Len(s.writeRequests) + 1
        BY <1>3, <3>1, <4>1, <4>3 DEF IsNewest
      <4> QED
        BY <1>8, <4>2, <4>3
    <3> QED
      BY <1>4, <1>5, <3>1, <3>2, <3>3 DEF Requested, InOrder, IsNewest
  <2> QED
    BY <2>1
<1>11. WriterKnows(t, away)
  BY <1>1 DEF Requested, WriterKnows, Knows, Tells, IsLocked
<1>12. EndIsAhead(t)
  BY <1>1, <1>5 DEF Requested, EndIsAhead, Ended
<1> QED
  BY <1>1, <1>6, <1>7, <1>9, <1>10, <1>11, <1>12 DEF Kept, Requested

Entries == [chunk : WriteIds \union {CloseOp}, size : WriteSizes \union {0}]

WithRequest(s, op) == [s EXCEPT !.writeRequests = Append(@, op)]

\* WritableStreamDefaultControllerWrite.
LEMMA ControllerWriteIsSound ==
    ASSUME NEW s \in Streams, NEW n \in Nat, NEW away, NEW f, Sound(s, n, away, f),
           NEW op, Free(s, n, op), f \/ IsNewest(s, op), NEW size \in WriteSizes,
           s.state = "writable", ~CloseQueuedOrInFlight(s)
    PROVE  LET t == ControllerWrite(WithRequest(s, op), s.writer, op, size)
           IN  t \in Streams /\ Sound(t, n, away, f) /\ t.writer = s.writer /\ t.started = s.started
<1> DEFINE wr == Append(s.writeRequests, op)
           new == [chunk |-> op, size |-> size]
           queue == Append(s.queue, new)
           r == WithRequest(s, op)
           u == [r EXCEPT !.queue = queue]
           full == UpdateWhileOpen(u, u.writer)
           t == ControllerWrite(r, s.writer, op, size)
<1>1. /\ Kept(s, n, away, f) /\ EndIsAhead(s) /\ TakesWrites(s, away)
      /\ ~s.inFlightClose /\ ~s.closeRequest
  BY DEF Sound, CloseQueuedOrInFlight
<1>2. op \in WriteIds /\ s.writeRequests \in Seq(WriteIds) /\ s.queue \in Seq(Entries) /\ new \in Entries
  BY DEF Free, Streams, Entries
<1>3. new.chunk = op
  OBVIOUS
<1> HIDE DEF new
<1>4. /\ wr \in Seq(WriteIds) /\ Len(wr) = Len(s.writeRequests) + 1
      /\ Len(s.writeRequests) \in Nat /\ DOMAIN s.writeRequests = 1..Len(s.writeRequests)
      /\ DOMAIN wr = 1..(Len(s.writeRequests) + 1)
      /\ wr[Len(s.writeRequests) + 1] = op
      /\ \A i \in DOMAIN s.writeRequests : wr[i] = s.writeRequests[i]
  BY <1>2, AppendSteps
<1>5. /\ queue \in Seq(Entries) /\ queue # <<>> /\ Len(queue) = Len(s.queue) + 1
      /\ Len(s.queue) \in Nat /\ DOMAIN s.queue = 1..Len(s.queue)
      /\ DOMAIN queue = 1..(Len(s.queue) + 1)
      /\ queue[Len(s.queue) + 1] = new
      /\ \A i \in DOMAIN s.queue : queue[i] = s.queue[i]
  BY <1>2, AppendSteps
<1> HIDE DEF queue
<1>6. u \in Streams /\ Requested(s, u, op) /\ u.queue = queue /\ u.hwm = s.hwm
  <2>1. queue \in Seq([chunk : WriteIds \union {CloseOp}, size : WriteSizes \union {0}])
    BY <1>5 DEF Entries
  <2> HIDE DEF wr
  <2>2. r \in Streams /\ Requested(s, r, op) /\ r.hwm = s.hwm
    <3>1. wr = Append(s.writeRequests, op) /\ r = [s EXCEPT !.writeRequests = wr]
      BY DEF wr, WithRequest
    <3> HIDE DEF r
    <3> QED
      BY <1>4, <3>1 DEF Streams, Requested
  <2> HIDE DEF r
  <2> QED
    BY <1>5, <2>1, <2>2 DEF Streams, Requested
<1>7. t = AdvanceQueueIfNeeded(UpdateWhileOpen(u, s.writer), s.writer)
  <2>1. r.queue = s.queue
    BY DEF WithRequest, Streams
  <2> HIDE DEF r
  <2> QED
    BY <2>1 DEF ControllerWrite, u, queue, new
<1> HIDE DEF u, t
<1>8. Kept(u, n, away, f) /\ EndIsAhead(u) /\ u.pendingAbort = "none"
  BY <1>6, RequestedIsKept
<1>9. QueueIsTheRequests(u)
  <2> DEFINE ahead == IF s.inFlightWrite = NoWrite THEN 0 ELSE 1
  <2>1. ahead \in Nat /\ (s.inFlightWrite # NoWrite => ahead = 1)
    OBVIOUS
  <2>2. /\ Len(s.queue) = ahead + Len(s.writeRequests)
        /\ s.inFlightWrite # NoWrite => s.queue[1].chunk = s.inFlightWrite
        /\ \A i \in DOMAIN s.writeRequests : s.queue[ahead + i].chunk = s.writeRequests[i]
    BY <1>1, <1>4, <1>5 DEF TakesWrites, QueueIsTheRequests
  <2>3. u.inFlightWrite = s.inFlightWrite /\ ~u.closeRequest /\ u.writeRequests = wr /\ u.queue = queue
    BY <1>1, <1>6 DEF Requested
  <2> HIDE DEF ahead, wr
  <2>4. Len(queue) = ahead + Len(wr) + 0
    BY <1>4, <1>5, <2>1, <2>2
  <2>5. s.inFlightWrite # NoWrite => queue[1].chunk = s.inFlightWrite
    BY <1>4, <1>5, <2>1, <2>2
  <2>6. ASSUME NEW i \in DOMAIN wr PROVE queue[ahead + i].chunk = wr[i]
    <3>1. CASE i \in DOMAIN s.writeRequests
      <4>1. ahead + i \in DOMAIN s.queue
        BY <1>4, <1>5, <2>1, <2>2, <3>1
      <4> QED
        BY <1>4, <1>5, <2>2, <3>1, <4>1
    <3>2. CASE i = Len(s.writeRequests) + 1
      <4>1. ahead + i = Len(s.queue) + 1
        BY <1>4, <1>5, <2>1, <2>2, <3>2
      <4> QED
        BY <1>3, <1>4, <1>5, <3>2, <4>1
    <3> QED
      BY <1>4, <2>6, <3>1, <3>2
  <2> QED
    BY <2>3, <2>4, <2>5, <2>6 DEF QueueIsTheRequests, ahead
<1>10. TakesWrites(u, away)
  BY <1>1, <1>6, <1>8, <1>9 DEF Requested, TakesWrites, ReadyFits, IsLocked, CloseQueuedOrInFlight
<1>11. /\ full \in Streams /\ Steady(full, n, away, f)
       /\ full.writer = u.writer /\ full.started = u.started /\ full.state = u.state
       /\ full.inFlightClose = u.inFlightClose
  BY <1>6, <1>8, <1>10, UpdateIsSteady
<1>12. u.writer = s.writer /\ u.started = s.started /\ u.state = "writable" /\ ~u.inFlightClose
  BY <1>1, <1>6 DEF Requested
<1>13. t = AdvanceQueueIfNeeded(full, full.writer)
  BY <1>7, <1>11, <1>12
<1> HIDE DEF full
<1>14. full.writer \in Writers \union {NoWriter} /\ Tells(full, full.writer, away)
       /\ full.state \in Live /\ ~full.inFlightClose
  BY <1>11, <1>12 DEF Streams, Tells, Live
<1>15. LET v == AdvanceQueueIfNeeded(full, full.writer)
       IN  /\ v \in Streams /\ Sound(v, n, away, f)
           /\ v.writer = full.writer /\ v.started = full.started
  BY <1>11, <1>14, AdvanceIsSound
<1> QED
  BY <1>11, <1>12, <1>13, <1>15 DEF t

\* size() returns a number.
LEMMA WriteSizedIsSound ==
    ASSUME NEW s \in Streams, NEW n \in Nat, n <= MaxWrites, NEW away, NEW f,
           ConstantsOK, Sound(s, n, away, f), s.frames # <<>>, Last(s.frames).in = "size",
           NEW size \in WriteSizes
    PROVE  LET t == WriteSized(s, size)
           IN  t \in Streams /\ Sound(t, n, away, f) /\ t.writer = s.writer /\ t.started = s.started
<1> DEFINE top == Last(s.frames)
           u == [s EXCEPT !.frames = Front(@)]
           t == WriteSized(s, size)
<1>1. /\ u \in Streams /\ Sound(u, n, away, f) /\ Framed(s, u)
      /\ Free(u, n, top.chunk) /\ (f \/ IsNewest(u, top.chunk))
  BY PopIsSound
<1>2. t = IF Refuses(u, top.writer) THEN Answers(u, <<top.chunk>>, "failed")
          ELSE ControllerWrite([u EXCEPT !.writeRequests = Append(@, top.chunk)],
                               top.writer, top.chunk, size)
  BY DEF WriteSized
<1> HIDE DEF u, t, top
<1>3. u.writer = s.writer /\ u.started = s.started
  BY <1>1 DEF Framed
<1>4. CASE Refuses(u, top.writer)
  <2>1. LET v == Answers(u, <<top.chunk>>, "failed")
        IN  v \in Streams /\ Sound(v, n, away, f) /\ v.writer = u.writer /\ v.started = u.started
    BY <1>1, RefusedIsSound
  <2> QED
    BY <1>2, <1>3, <1>4, <2>1 DEF t
<1>5. CASE ~Refuses(u, top.writer)
  <2>1. top.writer = u.writer /\ u.state = "writable" /\ ~CloseQueuedOrInFlight(u)
    BY <1>5 DEF Refuses, HasWriter
  <2> DEFINE op == top.chunk
  <2>2. Free(u, n, op) /\ (f \/ IsNewest(u, op))
    BY <1>1
  <2> HIDE DEF op
  <2>3. LET v == ControllerWrite(WithRequest(u, op), u.writer, op, size)
        IN  v \in Streams /\ Sound(v, n, away, f) /\ v.writer = u.writer /\ v.started = u.started
    BY <1>1, <2>1, <2>2, ControllerWriteIsSound
  <2>4. t = ControllerWrite(WithRequest(u, op), u.writer, op, size)
    BY <1>2, <1>5, <2>1 DEF WithRequest, op
  <2> QED
    BY <1>3, <2>3, <2>4 DEF t
<1> QED
  BY <1>4, <1>5

\* size() returns no such number: the stream errors, with the write a request of it.
LEMMA WriteBadlySizedIsSound ==
    ASSUME NEW s \in Streams, NEW n \in Nat, n <= MaxWrites, NEW away, NEW f,
           ConstantsOK, Sound(s, n, away, f), s.frames # <<>>, Last(s.frames).in = "size"
    PROVE  LET t == WriteBadlySized(s)
           IN  t \in Streams /\ Sound(t, n, away, f) /\ t.writer = s.writer /\ t.started = s.started
<1> DEFINE top == Last(s.frames)
           u == [s EXCEPT !.frames = Front(@)]
           v == [u EXCEPT !.writeRequests = Append(@, top.chunk)]
           t == WriteBadlySized(s)
<1>1. /\ u \in Streams /\ Sound(u, n, away, f) /\ Framed(s, u) /\ Tells(u, top.writer, away)
      /\ Free(u, n, top.chunk) /\ (f \/ IsNewest(u, top.chunk))
  BY PopIsSound
<1>2. t = IF Refuses(u, top.writer) THEN Answers(u, <<top.chunk>>, "failed")
          ELSE ErrorIfNeeded(v, top.writer)
  BY DEF WriteBadlySized
<1> HIDE DEF u, t, top
<1>3. u.writer = s.writer /\ u.started = s.started
  BY <1>1 DEF Framed
<1>4. CASE Refuses(u, top.writer)
  <2>1. LET x == Answers(u, <<top.chunk>>, "failed")
        IN  x \in Streams /\ Sound(x, n, away, f) /\ x.writer = u.writer /\ x.started = u.started
    BY <1>1, RefusedIsSound
  <2> QED
    BY <1>2, <1>3, <1>4, <2>1 DEF t
<1>5. CASE ~Refuses(u, top.writer)
  <2>1. u.state = "writable" /\ ~CloseQueuedOrInFlight(u)
    BY <1>5 DEF Refuses
  <2>2. v \in Streams /\ Requested(u, v, top.chunk)
    <3>1. Append(u.writeRequests, top.chunk) \in Seq(WriteIds)
      <4>1. top.chunk \in WriteIds /\ u.writeRequests \in Seq(WriteIds)
        BY <1>1 DEF Free, Streams
      <4> QED
        BY <4>1
    <3> DEFINE wr == Append(u.writeRequests, top.chunk)
    <3>2. wr \in Seq(WriteIds) /\ v = [u EXCEPT !.writeRequests = wr] /\ wr = Append(u.writeRequests, top.chunk)
      BY <3>1
    <3> HIDE DEF wr, v
    <3> QED
      BY <1>1, <3>2 DEF Streams, Requested
  <2> HIDE DEF v
  <2>3. Kept(v, n, away, f) /\ EndIsAhead(v) /\ v.pendingAbort = "none"
    BY <1>1, <2>1, <2>2, RequestedIsKept
  <2>4. v.writer = u.writer /\ v.started = u.started /\ v.state = "writable" /\ Tells(v, top.writer, away)
    BY <1>1, <2>1, <2>2 DEF Requested, Tells
  <2>5. LET x == ControllerErrors(v, top.writer)
        IN  /\ x \in Streams /\ Sound(x, n, away, f)
            /\ x.writer = v.writer /\ x.started = v.started
    BY <2>2, <2>3, <2>4, ControllerErrorIsSound
  <2>6. t = ControllerErrors(v, top.writer)
    BY <1>2, <1>5, <2>4 DEF ErrorIfNeeded
  <2> QED
    BY <1>3, <2>4, <2>5, <2>6 DEF t
<1> QED
  BY <1>4, <1>5

\* A stream that errors spares a write that is not its own.
Spares(s, t) ==
    /\ t.frames = s.frames /\ t.inFlightWrite = s.inFlightWrite
    /\ t.writeRequests \in {s.writeRequests, <<>>}
    /\ Out(t) \subseteq Out(s) \union ToldOf(s.writeRequests) \union {CloseOp, AbortOp}

\* The closed promise of the writer that is told settles nothing else.
LEMMA SettleClosedSpares ==
    ASSUME NEW s \in Streams, NEW w
    PROVE  LET t == SettleClosed(s, w, "rejected")
           IN  /\ t.frames = s.frames /\ t.inFlightWrite = s.inFlightWrite
               /\ t.writeRequests = s.writeRequests /\ t.answers = s.answers
BY DEF SettleClosed, Streams

\* The end of a stream that errored spares a write that is not its own.
LEMMA EndSpares ==
    ASSUME NEW s \in Streams, NEW w
    PROVE  LET t == RejectCloseAndClosed(s, w)
           IN  /\ t.frames = s.frames /\ t.inFlightWrite = s.inFlightWrite
               /\ t.writeRequests = s.writeRequests /\ Out(t) \subseteq Out(s) \union {CloseOp}
<1> DEFINE u == [s EXCEPT !.closeRequest = FALSE]
           done == Answers(u, <<CloseOp>>, "failed")
           told == IF s.closeRequest THEN done ELSE s
           t == RejectCloseAndClosed(s, w)
<1>1. /\ u \in Streams /\ u.frames = s.frames /\ u.inFlightWrite = s.inFlightWrite
      /\ u.writeRequests = s.writeRequests /\ u.answers = s.answers
  BY DEF Streams
<1> HIDE DEF u
<1>2. done \in Streams /\ SameBut(u, done) /\ Out(done) = Out(u) \union {CloseOp}
  <2> DEFINE ops == <<CloseOp>>
  <2>1. ops \in Seq(Ops) /\ ToldOf(ops) = {CloseOp}
    <3>1. CloseOp \in Ops
      BY DEF Ops
    <3>2. ops \in Seq(Ops) /\ DOMAIN ops = {1} /\ ops[1] = CloseOp
      BY <3>1
    <3> QED
      BY <3>2 DEF ToldOf
  <2> HIDE DEF ops
  <2>2. /\ Answers(u, ops, "failed") \in Streams /\ SameBut(u, Answers(u, ops, "failed"))
        /\ Out(Answers(u, ops, "failed")) = Out(u) \union ToldOf(ops)
    BY <1>1, <2>1, AnswersAdd
  <2> QED
    BY <2>1, <2>2 DEF ops
<1> HIDE DEF done
<1>3. /\ told \in Streams /\ told.frames = s.frames /\ told.inFlightWrite = s.inFlightWrite
      /\ told.writeRequests = s.writeRequests /\ Out(told) \subseteq Out(s) \union {CloseOp}
  <2>1. Out(u) = Out(s)
    BY <1>1 DEF Out
  <2> QED
    BY <1>1, <1>2, <2>1 DEF SameBut
<1>4. t = SettleClosed(told, w, "rejected")
  BY DEF RejectCloseAndClosed, done, u
<1> HIDE DEF told, t
<1>5. /\ t.frames = told.frames /\ t.inFlightWrite = told.inFlightWrite
      /\ t.writeRequests = told.writeRequests /\ t.answers = told.answers
  BY <1>3, <1>4, SettleClosedSpares
<1> QED
  BY <1>3, <1>5 DEF Out, t

\* WritableStreamFinishErroring, of whatever stream.
LEMMA FinishSpares ==
    ASSUME NEW s \in Streams, NEW w
    PROVE  Spares(s, FinishErroring(s, w))
<1> DEFINE ops == s.writeRequests
           told == Answers(s, ops, "failed")
           e == ErroredStream(s)
           t == FinishErroring(s, w)
<1>1. ops \in Seq(WriteIds) /\ ops \in Seq(Ops) /\ <<>> \in Seq(WriteIds) /\ \A S : <<>> \in Seq(S)
  <2>1. ops \in Seq(WriteIds)
    BY DEF Streams
  <2>2. WriteIds \subseteq Ops
    BY DEF Ops
  <2> HIDE DEF ops
  <2> QED
    BY <2>1, <2>2
<1> HIDE DEF ops
<1>2. told \in Streams /\ SameBut(s, told) /\ Out(told) = Out(s) \union ToldOf(ops)
  BY <1>1, AnswersAdd
<1>3. e = [told EXCEPT !.state = "errored", !.queue = <<>>, !.writeRequests = <<>>, !.pendingAbort = "none"]
  BY DEF ErroredStream, ops
<1> HIDE DEF told, e
<1>4. /\ e \in Streams /\ e.frames = s.frames /\ e.inFlightWrite = s.inFlightWrite
      /\ e.writeRequests = <<>> /\ e.answers = told.answers
  BY <1>1, <1>2, <1>3 DEF Streams, SameBut
<1>5. Out(e) = Out(s) \union ToldOf(ops)
  BY <1>2, <1>4 DEF Out
<1>6. /\ RejectCloseAndClosed(e, w).frames = s.frames
      /\ RejectCloseAndClosed(e, w).inFlightWrite = s.inFlightWrite
      /\ RejectCloseAndClosed(e, w).writeRequests = <<>>
      /\ Out(RejectCloseAndClosed(e, w)) \subseteq Out(e) \union {CloseOp}
  BY <1>4, EndSpares
<1> DEFINE told2 == Answers(e, <<AbortOp>>, "failed")
           aborted == [e EXCEPT !.aborting = TRUE, !.algorithms = FALSE, !.calls = Append(@, AbortOp)]
<1>7. told2 \in Streams /\ SameBut(e, told2) /\ Out(told2) = Out(e) \union {AbortOp}
  <2> DEFINE ab == <<AbortOp>>
  <2>1. ab \in Seq(Ops) /\ ToldOf(ab) = {AbortOp}
    <3>1. AbortOp \in Ops
      BY DEF Ops
    <3>2. ab \in Seq(Ops) /\ DOMAIN ab = {1} /\ ab[1] = AbortOp
      BY <3>1
    <3> QED
      BY <3>2 DEF ToldOf
  <2> HIDE DEF ab
  <2>2. /\ Answers(e, ab, "failed") \in Streams /\ SameBut(e, Answers(e, ab, "failed"))
        /\ Out(Answers(e, ab, "failed")) = Out(e) \union ToldOf(ab)
    BY <1>4, <2>1, AnswersAdd
  <2> QED
    BY <2>1, <2>2 DEF ab
<1> HIDE DEF told2
<1>8. /\ RejectCloseAndClosed(told2, w).frames = s.frames
      /\ RejectCloseAndClosed(told2, w).inFlightWrite = s.inFlightWrite
      /\ RejectCloseAndClosed(told2, w).writeRequests = <<>>
      /\ Out(RejectCloseAndClosed(told2, w)) \subseteq Out(e) \union {CloseOp, AbortOp}
  <2>1. told2.frames = s.frames /\ told2.inFlightWrite = s.inFlightWrite /\ told2.writeRequests = <<>>
    BY <1>4, <1>7 DEF SameBut
  <2> QED
    BY <1>7, <2>1, EndSpares
<1>9. /\ aborted.frames = s.frames /\ aborted.inFlightWrite = s.inFlightWrite
      /\ aborted.writeRequests = <<>> /\ Out(aborted) = Out(e)
  <2>1. /\ aborted.frames = e.frames /\ aborted.inFlightWrite = e.inFlightWrite
        /\ aborted.writeRequests = e.writeRequests /\ aborted.answers = e.answers
    BY <1>4 DEF Streams
  <2> QED
    BY <1>4, <2>1 DEF Out
<1>10. /\ Panic(s).frames = s.frames /\ Panic(s).inFlightWrite = s.inFlightWrite
       /\ Panic(s).writeRequests = s.writeRequests /\ Panic(s).answers = s.answers
  BY DEF Panic, Streams
<1>11. t \in {RejectCloseAndClosed(e, w), RejectCloseAndClosed(told2, w), aborted, Panic(s)}
  <2>1. s.pendingAbort \in {"none", "fresh", "late"}
    BY DEF Streams
  <2> HIDE DEF aborted
  <2>2. CASE s.pendingAbort = "none"
    BY <2>2 DEF FinishErroring, e, ErroredStream
  <2>3. CASE s.pendingAbort = "late"
    BY <2>3 DEF FinishErroring, e, told2, ErroredStream
  <2>4. CASE s.pendingAbort = "fresh" /\ s.algorithms
    BY <2>4 DEF FinishErroring, e, ErroredStream, aborted
  <2>5. CASE s.pendingAbort = "fresh" /\ ~s.algorithms
    BY <2>5 DEF FinishErroring
  <2> QED
    BY <2>1, <2>2, <2>3, <2>4, <2>5
<1> HIDE DEF t, aborted
<1>12. Out(Panic(s)) = Out(s)
  BY <1>10 DEF Out
<1> QED
  BY <1>5, <1>6, <1>8, <1>9, <1>10, <1>11, <1>12 DEF Spares, t, ops

\* So does the stream's error, whatever its state
\* (WritableStreamDefaultControllerErrorIfNeeded).
LEMMA ErrorSpares ==
    ASSUME NEW s \in Streams, NEW w
    PROVE  Spares(s, ErrorIfNeeded(s, w))
<1> DEFINE a == [s EXCEPT !.algorithms = FALSE]
           u == [a EXCEPT !.state = "erroring"]
           e == RejectReady(u, w)
           t == ErrorIfNeeded(s, w)
<1>1. /\ a \in Streams /\ a.frames = s.frames /\ a.inFlightWrite = s.inFlightWrite
      /\ a.writeRequests = s.writeRequests /\ a.answers = s.answers
  BY DEF Streams
<1>2. /\ u \in Streams /\ u.frames = s.frames /\ u.inFlightWrite = s.inFlightWrite
      /\ u.writeRequests = s.writeRequests /\ u.answers = s.answers
  BY DEF Streams
<1>3. t \in {s, e, FinishErroring(e, w)}
  BY DEF ErrorIfNeeded, ControllerErrors, StartErroring
<1> HIDE DEF a, u, t
<1>4. /\ e \in Streams /\ e.frames = s.frames /\ e.inFlightWrite = s.inFlightWrite
      /\ e.writeRequests = s.writeRequests /\ e.answers = s.answers
  <2>1. CASE HasWriter(u, w)
    <3>1. e = [u EXCEPT !.ready = "rejected"] /\ "rejected" \in Promises
      BY <2>1 DEF RejectReady, Promises
    <3> HIDE DEF e
    <3> QED
      BY <1>2, <3>1 DEF Streams
  <2>2. CASE ~HasWriter(u, w)
    BY <1>2, <2>2 DEF RejectReady
  <2> QED
    BY <2>1, <2>2
<1> HIDE DEF e
<1>5. Out(e) = Out(s)
  BY <1>4 DEF Out
<1>6. Spares(e, FinishErroring(e, w))
  BY <1>4, FinishSpares
<1> QED
  BY <1>3, <1>4, <1>5, <1>6 DEF Spares, t

\* size() throws: the stream errors, and then the write fails.
LEMMA WriteSizeThrewIsSound ==
    ASSUME NEW s \in Streams, NEW n \in Nat, n <= MaxWrites, NEW away, NEW f,
           ConstantsOK, Sound(s, n, away, f), s.frames # <<>>, Last(s.frames).in = "size"
    PROVE  LET t == WriteSizeThrew(s)
           IN  t \in Streams /\ Sound(t, n, away, f) /\ t.writer = s.writer /\ t.started = s.started
<1> DEFINE top == Last(s.frames)
           u == [s EXCEPT !.frames = Front(@)]
           v == ErrorIfNeeded(u, top.writer)
           t == WriteSizeThrew(s)
<1>1. /\ u \in Streams /\ Sound(u, n, away, f) /\ Framed(s, u) /\ Tells(u, top.writer, away)
      /\ Free(u, n, top.chunk)
  BY PopIsSound
<1>2. t = Answers(v, <<top.chunk>>, "failed")
  BY DEF WriteSizeThrew
<1> HIDE DEF u, t, top
<1>3. u.writer = s.writer /\ u.started = s.started
  BY <1>1 DEF Framed
<1>4. v \in Streams /\ Sound(v, n, away, f) /\ v.writer = u.writer /\ v.started = u.started
  <2>1. CASE u.state # "writable"
    BY <1>1, <2>1 DEF ErrorIfNeeded
  <2>2. CASE u.state = "writable"
    <3>1. Kept(u, n, away, f) /\ EndIsAhead(u) /\ u.pendingAbort = "none"
      BY <1>1, <2>2 DEF Sound, TakesWrites
    <3>2. LET x == ControllerErrors(u, top.writer)
          IN  x \in Streams /\ Sound(x, n, away, f) /\ x.writer = u.writer /\ x.started = u.started
      BY <1>1, <2>2, <3>1, ControllerErrorIsSound
    <3> QED
      BY <2>2, <3>2 DEF ErrorIfNeeded
  <2> QED
    BY <2>1, <2>2
<1>5. Free(v, n, top.chunk)
  <2>1. Spares(u, v)
    BY <1>1, ErrorSpares
  <2> HIDE DEF v
  <2>2. Sizing(v) = Sizing(u) /\ v.frames = u.frames /\ v.inFlightWrite = u.inFlightWrite
    BY <2>1 DEF Spares, Sizing
  <2>3. top.chunk \notin Out(v)
    <3>1. top.chunk # CloseOp /\ top.chunk # AbortOp
      BY <1>1 DEF Free, WriteIds, CloseOp, AbortOp
    <3>2. top.chunk \notin Out(u) /\ top.chunk \notin ToldOf(u.writeRequests)
      BY <1>1 DEF Free, ToldOf
    <3> QED
      BY <2>1, <3>1, <3>2 DEF Spares
  <2>4. \A j \in DOMAIN v.writeRequests : v.writeRequests[j] # top.chunk
    BY <1>1, <2>1, NothingIn DEF Free, Spares
  <2> QED
    BY <1>1, <2>2, <2>3, <2>4 DEF Free
<1> HIDE DEF v
<1>6. LET x == Answers(v, <<top.chunk>>, "failed")
      IN  x \in Streams /\ Sound(x, n, away, f) /\ x.writer = v.writer /\ x.started = v.started
  BY <1>4, <1>5, RefusedIsSound
<1> QED
  BY <1>2, <1>3, <1>4, <1>6 DEF t

\* WritableStreamClose, of a stream that is not closing.
LEMMA CloseIsSound ==
    ASSUME NEW s \in Streams, NEW n \in Nat, NEW away, NEW f, Sound(s, n, away, f),
           ~Ended(s), ~CloseQueuedOrInFlight(s)
    PROVE  LET t == Close(s, s.writer)
           IN  t \in Streams /\ Sound(t, n, away, f) /\ t.writer = s.writer /\ t.started = s.started
<1> DEFINE new == [chunk |-> CloseOp, size |-> 0]
           queue == Append(s.queue, new)
           ready == IF s.backpressure /\ s.state = "writable" /\ s.writer # NoWriter /\ s.ready = "pending"
                    THEN "fulfilled" ELSE s.ready
           made == [s EXCEPT !.closeRequest = TRUE, !.queue = queue]
           told == IF s.backpressure /\ s.state = "writable" THEN ResolveReady(made, s.writer) ELSE made
           t == Close(s, s.writer)
<1>1. t = AdvanceQueueIfNeeded(told, s.writer)
  BY DEF Close
<1>2. /\ FlagsFit(s) /\ InTurn(s) /\ Once(s, n) /\ (f \/ InOrder(s)) /\ WriterKnows(s, away)
      /\ EndIsAhead(s) /\ s.state \in Live /\ ~s.closeRequest /\ ~s.inFlightClose
      /\ s.state = "writable" => TakesWrites(s, away)
  BY DEF Sound, Kept, Ended, Live, Streams, CloseQueuedOrInFlight
<1>3. s.queue \in Seq(Entries) /\ new \in Entries /\ new.chunk = CloseOp
  BY DEF Streams, Entries
<1> HIDE DEF new
<1>4. /\ queue \in Seq(Entries) /\ queue # <<>> /\ Len(queue) = Len(s.queue) + 1
      /\ Len(s.queue) \in Nat /\ DOMAIN s.queue = 1..Len(s.queue)
      /\ DOMAIN queue = 1..(Len(s.queue) + 1)
      /\ queue[Len(s.queue) + 1] = new
      /\ \A i \in DOMAIN s.queue : queue[i] = s.queue[i]
  BY <1>3, AppendSteps
<1> HIDE DEF queue
<1>5. ready \in Promises
  BY DEF Promises, Streams
<1>6. told = [s EXCEPT !.closeRequest = TRUE, !.queue = queue, !.ready = ready]
  <2>1. made.writer = s.writer /\ made.ready = s.ready
    BY DEF Streams
  <2>2. CASE s.backpressure /\ s.state = "writable" /\ s.writer # NoWriter /\ s.ready = "pending"
    <3>1. told = [made EXCEPT !.ready = "fulfilled"]
      BY <2>1, <2>2 DEF ResolveReady, HasWriter
    <3> QED
      BY <2>2, <3>1
  <2>3. CASE ~(s.backpressure /\ s.state = "writable" /\ s.writer # NoWriter /\ s.ready = "pending")
    <3>1. told = made
      BY <2>1, <2>3 DEF ResolveReady, HasWriter
    <3> QED
      BY <2>3, <3>1 DEF Streams
  <2> QED
    BY <2>2, <2>3
<1>7. /\ s.backpressure /\ s.state = "writable" /\ s.writer # NoWriter /\ s.ready = "pending" => ready = "fulfilled"
      /\ ~(s.backpressure /\ s.state = "writable" /\ s.writer # NoWriter /\ s.ready = "pending") => ready = s.ready
  OBVIOUS
<1> HIDE DEF told, ready, t
<1>8. /\ told \in Streams /\ told.state = s.state /\ told.writer = s.writer /\ told.ready = ready
      /\ told.closed = s.closed /\ told.writeRequests = s.writeRequests /\ told.inFlightWrite = s.inFlightWrite
      /\ told.closeRequest /\ told.inFlightClose = s.inFlightClose
      /\ told.closeTells = s.closeTells /\ told.algorithms = s.algorithms /\ told.hwm = s.hwm
      /\ told.pendingAbort = s.pendingAbort /\ told.aborting = s.aborting /\ told.backpressure = s.backpressure
      /\ told.started = s.started /\ told.frames = s.frames /\ told.answers = s.answers
      /\ told.calls = s.calls /\ told.panicked = s.panicked /\ told.queue = queue
  <2>1. queue \in Seq([chunk : WriteIds \union {CloseOp}, size : WriteSizes \union {0}])
    BY <1>4 DEF Entries
  <2> QED
    BY <1>5, <1>6, <2>1 DEF Streams
<1>9. Out(told) = Out(s) /\ Did(told) = Did(s) /\ Called(told) = Called(s) /\ Sizing(told) = Sizing(s)
  BY <1>8 DEF Out, Did, Called, Sizing
<1>10. FlagsFit(told)
  BY <1>2, <1>4, <1>8 DEF FlagsFit, Ended
<1>11. InTurn(told) /\ (f \/ InOrder(told)) /\ EndIsAhead(told)
  BY <1>2, <1>8, <1>9 DEF InTurn, AtIt, InOrder, EndIsAhead, Ended
<1>12. Once(told, n)
  <2>1. CloseOp \notin Out(s)
    BY <1>2 DEF EndIsAhead, Ended, Live
  <2> QED
    BY <1>2, <1>8, <1>9, <2>1 DEF Once
<1>13. WriterKnows(told, away)
  BY <1>2, <1>7, <1>8 DEF WriterKnows, Knows, Tells, IsLocked, Live
<1>14. ASSUME s.state = "writable" PROVE TakesWrites(told, away)
  <2>1. QueueIsTheRequests(told)
    <3> DEFINE ahead == IF s.inFlightWrite = NoWrite THEN 0 ELSE 1
    <3>1. ahead \in Nat /\ (s.inFlightWrite # NoWrite => ahead = 1)
      OBVIOUS
    <3>2. s.writeRequests \in Seq(WriteIds)
      BY DEF Streams
    <3>3. Len(s.writeRequests) \in Nat /\ DOMAIN s.writeRequests = 1..Len(s.writeRequests)
      BY <3>2
    <3>4. /\ Len(s.queue) = ahead + Len(s.writeRequests)
          /\ s.inFlightWrite # NoWrite => s.queue[1].chunk = s.inFlightWrite
          /\ \A i \in DOMAIN s.writeRequests : s.queue[ahead + i].chunk = s.writeRequests[i]
      <4>1. QueueIsTheRequests(s) /\ ~s.closeRequest
        BY <1>2, <1>14 DEF TakesWrites
      <4> QED
        BY <1>4, <3>3, <4>1 DEF QueueIsTheRequests
    <3> HIDE DEF ahead
    <3>5. Len(queue) = ahead + Len(s.writeRequests) + 1
      BY <1>4, <3>1, <3>3, <3>4
    <3>6. s.inFlightWrite # NoWrite => queue[1].chunk = s.inFlightWrite
      BY <1>4, <3>1, <3>3, <3>4
    <3>7. ASSUME NEW i \in DOMAIN s.writeRequests PROVE queue[ahead + i].chunk = s.writeRequests[i]
      <4>1. ahead + i \in DOMAIN s.queue
        BY <1>4, <3>1, <3>3, <3>4, <3>7
      <4> QED
        BY <1>4, <3>4, <3>7, <4>1
    <3>8. queue[Len(queue)].chunk = CloseOp
      BY <1>3, <1>4
    <3> QED
      BY <1>8, <3>5, <3>6, <3>7, <3>8 DEF QueueIsTheRequests, ahead
  <2> QED
    BY <1>2, <1>7, <1>8, <1>14, <2>1 DEF TakesWrites, ReadyFits, IsLocked, CloseQueuedOrInFlight
<1>15. Steady(told, n, away, f)
  BY <1>8, <1>10, <1>11, <1>12, <1>13, <1>14 DEF Steady, Kept, BackpressureFits, CloseQueuedOrInFlight
<1>16. told.writer \in Writers \union {NoWriter} /\ Tells(told, s.writer, away)
  BY <1>8 DEF Streams, Tells
<1>17. LET v == AdvanceQueueIfNeeded(told, told.writer)
       IN  /\ v \in Streams /\ Sound(v, n, away, f)
           /\ v.writer = told.writer /\ v.started = told.started
  BY <1>2, <1>8, <1>15, <1>16, AdvanceIsSound
<1> QED
  BY <1>1, <1>8, <1>17 DEF t

\* The second half of WritableStreamAbort.
LEMMA AbortAfterSignalIsSound ==
    ASSUME NEW s \in Streams, NEW n \in Nat, NEW away, NEW f, Sound(s, n, away, f),
           NEW w, Tells(s, w, away)
    PROVE  LET t == AbortAfterSignal(s, w)
           IN  t \in Streams /\ Sound(t, n, away, f) /\ t.writer = s.writer /\ t.started = s.started
<1> DEFINE how == IF s.state = "erroring" THEN "late" ELSE "fresh"
           u == [s EXCEPT !.pendingAbort = how]
           t == AbortAfterSignal(s, w)
<1>1. CASE Ended(s) \/ s.pendingAbort # "none"
  <2>1. t = s
    BY <1>1 DEF AbortAfterSignal, Ended
  <2> QED
    BY <2>1
<1>2. CASE ~Ended(s) /\ s.pendingAbort = "none"
  <2>1. s.state \in {"writable", "erroring"} /\ how \in {"none", "fresh", "late"}
    BY <1>2 DEF Streams, Ended
  <2>2. (s.state = "erroring" => how = "late" /\ t = u) /\ (s.state = "writable" => how = "fresh" /\ t = StartErroring(u, w))
    BY <1>2, <2>1 DEF AbortAfterSignal
  <2> HIDE DEF how, t
  <2>3. /\ u \in Streams /\ u.state = s.state /\ u.writer = s.writer /\ u.ready = s.ready
        /\ u.closed = s.closed /\ u.writeRequests = s.writeRequests /\ u.inFlightWrite = s.inFlightWrite
        /\ u.closeRequest = s.closeRequest /\ u.inFlightClose = s.inFlightClose
        /\ u.closeTells = s.closeTells /\ u.algorithms = s.algorithms
        /\ u.pendingAbort = how /\ u.aborting = s.aborting
        /\ u.started = s.started /\ u.frames = s.frames /\ u.answers = s.answers
        /\ u.calls = s.calls /\ u.panicked = s.panicked /\ u.queue = s.queue
    BY <2>1 DEF Streams
  <2> HIDE DEF u
  <2>4. Out(u) = Out(s) /\ Did(u) = Did(s) /\ Called(u) = Called(s) /\ Sizing(u) = Sizing(s)
    BY <2>3 DEF Out, Did, Called, Sizing
  <2>5. /\ FlagsFit(s) /\ InTurn(s) /\ Once(s, n) /\ (f \/ InOrder(s)) /\ WriterKnows(s, away)
        /\ EndIsAhead(s) /\ s.state \in Live
        /\ s.state = "writable" => s.algorithms \/ s.inFlightClose
        /\ s.state = "erroring" => ~s.started \/ OperationInFlight(s)
    BY <2>1 DEF Sound, Kept, TakesWrites, Live
  <2>6. FlagsFit(u)
    BY <2>1, <2>2, <2>3, <2>5 DEF FlagsFit, Ended
  <2>7. InTurn(u)
    BY <2>3, <2>4, <2>5 DEF InTurn, AtIt, EndIsAhead
  <2>8. Once(u, n)
    <3>1. AbortOp \notin Out(s)
      BY <1>2, <2>5 DEF EndIsAhead
    <3> QED
      BY <2>3, <2>4, <2>5, <3>1 DEF Once
  <2>9. (f \/ InOrder(u)) /\ EndIsAhead(u)
    BY <2>3, <2>4, <2>5 DEF InOrder, EndIsAhead, Ended
  <2>10. WriterKnows(u, away)
    BY <2>3, <2>5 DEF WriterKnows, Knows, Tells, IsLocked
  <2>11. Kept(u, n, away, f) /\ Tells(u, w, away)
    BY <2>3, <2>6, <2>7, <2>8, <2>9, <2>10 DEF Kept, Tells
  <2>12. CASE s.state = "erroring"
    <3>1. Sound(u, n, away, f)
      BY <2>3, <2>5, <2>9, <2>11, <2>12 DEF Sound, OperationInFlight
    <3> QED
      BY <2>2, <2>3, <2>12, <3>1 DEF t
  <2>13. CASE s.state = "writable"
    <3>1. LET v == StartErroring(u, w)
          IN  v \in Streams /\ Sound(v, n, away, f) /\ v.writer = u.writer /\ v.started = u.started
      BY <2>3, <2>9, <2>11, <2>13, StartErroringIsSound
    <3> QED
      BY <2>2, <2>3, <2>13, <3>1 DEF t
  <2> QED
    BY <2>1, <2>12, <2>13
<1> QED
  BY <1>1, <1>2

\* WritableStreamAbort, until the signal's listeners have run.
LEMMA AbortStartIsSound ==
    ASSUME NEW s \in Streams, NEW n \in Nat, NEW away, NEW f, Sound(s, n, away, f)
    PROVE  LET t == AbortStart(s, s.writer)
           IN  t \in Streams /\ Sound(t, n, away, f) /\ t.writer = s.writer /\ t.started = s.started
<1> DEFINE Frame == [in : {"size", "signal"}, writer : Writers \union {NoWriter}, chunk : Ops]
           new == [in |-> "signal", writer |-> s.writer, chunk |-> AbortOp]
           frames == Append(s.frames, new)
           t == AbortStart(s, s.writer)
<1>1. CASE Ended(s)
  <2>1. t = s
    BY <1>1 DEF AbortStart
  <2> QED
    BY <2>1
<1>2. CASE ~Ended(s) /\ s.signalled
  <2>1. t = AbortAfterSignal(s, s.writer)
    BY <1>2 DEF AbortStart
  <2>2. Tells(s, s.writer, away)
    BY DEF Tells
  <2> HIDE DEF t
  <2>3. LET v == AbortAfterSignal(s, s.writer)
        IN  v \in Streams /\ Sound(v, n, away, f) /\ v.writer = s.writer /\ v.started = s.started
    BY <2>2, AbortAfterSignalIsSound
  <2> QED
    BY <2>1, <2>3 DEF t
<1>3. CASE ~Ended(s) /\ ~s.signalled
  <2>1. s.frames \in Seq(Frame) /\ new \in Frame /\ new.in = "signal" /\ new.writer = s.writer
    BY DEF Streams, Ops
  <2> HIDE DEF new, Frame
  <2>2. /\ frames \in Seq(Frame) /\ Len(s.frames) \in Nat
        /\ DOMAIN s.frames = 1..Len(s.frames) /\ DOMAIN frames = 1..(Len(s.frames) + 1)
        /\ frames[Len(s.frames) + 1] = new
        /\ \A i \in DOMAIN s.frames : frames[i] = s.frames[i]
    BY <2>1, AppendSteps
  <2> HIDE DEF frames
  <2>3. t = [s EXCEPT !.signalled = TRUE, !.frames = frames]
    BY <1>3 DEF AbortStart, frames, new
  <2> HIDE DEF t
  <2>4. t \in Streams /\ Framed(s, t) /\ t.frames = frames
    <3>1. frames \in Seq([in : {"size", "signal"}, writer : Writers \union {NoWriter}, chunk : Ops])
      BY <2>2 DEF Frame
    <3> QED
      BY <2>3, <3>1 DEF Streams, Framed
  <2>5. Sizing(t) = Sizing(s) /\ Out(t) = Out(s) /\ \A i \in Sizing(s) : t.frames[i] = s.frames[i]
    BY <2>1, <2>2, <2>4 DEF Sizing, Out, Framed
  <2>6. Once(s, n) /\ (f \/ InOrder(s)) /\ WriterKnows(s, away)
    BY DEF Sound, Kept
  <2>7. Once(t, n)
    BY <2>4, <2>5, <2>6 DEF Once, Framed
  <2>8. f \/ InOrder(t)
    BY <2>4, <2>5, <2>6 DEF InOrder, Framed
  <2>9. \A i \in DOMAIN t.frames : Tells(t, t.frames[i].writer, away)
    BY <2>1, <2>2, <2>4, <2>6 DEF WriterKnows, Framed, Tells
  <2>10. Sound(t, n, away, f)
    BY <2>4, <2>7, <2>8, <2>9, FramedIsSound
  <2> QED
    BY <2>4, <2>10 DEF Framed, t
<1> QED
  BY <1>1, <1>2, <1>3

\* The listeners have run.
LEMMA AbortSignalledIsSound ==
    ASSUME NEW s \in Streams, NEW n \in Nat, n <= MaxWrites, NEW away, NEW f,
           ConstantsOK, Sound(s, n, away, f), s.frames # <<>>
    PROVE  LET t == AbortSignalled(s)
           IN  t \in Streams /\ Sound(t, n, away, f) /\ t.writer = s.writer /\ t.started = s.started
<1> DEFINE top == Last(s.frames)
           u == [s EXCEPT !.frames = Front(@)]
           t == AbortSignalled(s)
<1>1. u \in Streams /\ Sound(u, n, away, f) /\ Framed(s, u) /\ Tells(u, top.writer, away)
  BY PopIsSound
<1>2. t = AbortAfterSignal(u, top.writer)
  BY DEF AbortSignalled
<1> HIDE DEF u, t, top
<1>3. LET v == AbortAfterSignal(u, top.writer)
      IN  v \in Streams /\ Sound(v, n, away, f) /\ v.writer = u.writer /\ v.started = u.started
  BY <1>1, AbortAfterSignalIsSound
<1> QED
  BY <1>1, <1>2, <1>3 DEF Framed, t

-----------------------------------------------------------------------------
(* The invariant. *)

\* controller.error()
LEMMA ErrorCallIsSound ==
    ASSUME NEW s \in Streams, NEW n \in Nat, NEW away, NEW f, Sound(s, n, away, f), s.state = "writable"
    PROVE  LET t == ControllerErrors(s, s.writer)
           IN  t \in Streams /\ Sound(t, n, away, f) /\ t.writer = s.writer /\ t.started = s.started
<1>1. Kept(s, n, away, f) /\ EndIsAhead(s) /\ s.pendingAbort = "none" /\ Tells(s, s.writer, away)
  BY DEF Sound, TakesWrites, Tells
<1> QED
  BY <1>1, ControllerErrorIsSound

\* A step of the stream that leaves its writer and the producer's counts alone.
LEMMA StepKeeps ==
    ASSUME IInv, ws' \in Streams, Sound(ws', wrote, late, nested), ws'.writer = ws.writer,
           ws'.started = ws.started, asked' \subseteq {CloseOp, AbortOp},
           UNCHANGED <<starting, wrote, writers, late, nested>>
    PROVE  IInv'
BY DEF IInv

\* Every step keeps the stream sound: a call of the script, at whatever depth its
\* callbacks nest, a promise of the sink that settles, a writer that comes or goes.
LEMMA NextKeepsIInv ==
    ASSUME ConstantsOK, IInv, [Next]_vars
    PROVE  IInv'
<1>1. /\ ws \in Streams
      /\ wrote \in 0..MaxWrites /\ writers \in 0..MaxWriters
      /\ asked \subseteq {CloseOp, AbortOp}
      /\ late \subseteq 1..writers /\ ws.writer <= writers
      /\ starting \in BOOLEAN /\ nested \in BOOLEAN
      /\ starting = ~ws.started
      /\ Sound(ws, wrote, late, nested)
      /\ wrote \in Nat /\ wrote <= MaxWrites
  BY DEF IInv
<1>2. CASE StartSettles
  <2>1. ws' \in Streams /\ Sound(ws', wrote, late, nested) /\ ws'.writer = ws.writer /\ ws'.started
    <3>1. ws' \in {SinkStarted(ws), SinkFailedToStart(ws)} /\ ~ws.started
      BY <1>1, <1>2 DEF StartSettles
    <3> QED
      BY <1>1, <3>1, StartIsSound
  <2> QED
    BY <1>1, <1>2, <2>1 DEF StartSettles, IInv
<1>3. CASE WriteSettles
  <2>1. ws.inFlightWrite # NoWrite /\ ws' \in {WriteFulfilled(ws), WriteRejected(ws)}
    BY <1>3 DEF WriteSettles
  <2>2. LET t == WriteFulfilled(ws)
        IN  t \in Streams /\ Sound(t, wrote, late, nested) /\ t.writer = ws.writer /\ t.started = ws.started
    BY <1>1, <2>1, WriteFulfilledIsSound
  <2>3. LET t == WriteRejected(ws)
        IN  t \in Streams /\ Sound(t, wrote, late, nested) /\ t.writer = ws.writer /\ t.started = ws.started
    BY <1>1, <2>1, WriteRejectedIsSound
  <2>4. ws' \in Streams /\ Sound(ws', wrote, late, nested) /\ ws'.writer = ws.writer /\ ws'.started = ws.started
    BY <2>1, <2>2, <2>3
  <2> QED
    BY <1>1, <1>3, <2>4, StepKeeps DEF WriteSettles
<1>4. CASE CloseSettles
  <2>1. ws.inFlightClose /\ ws' \in {CloseFulfilled(ws), CloseRejected(ws)}
    BY <1>4 DEF CloseSettles
  <2>2. LET t == CloseFulfilled(ws)
        IN  t \in Streams /\ Sound(t, wrote, late, nested) /\ t.writer = ws.writer /\ t.started = ws.started
    BY <1>1, <2>1, CloseFulfilledIsSound
  <2>3. LET t == CloseRejected(ws)
        IN  t \in Streams /\ Sound(t, wrote, late, nested) /\ t.writer = ws.writer /\ t.started = ws.started
    BY <1>1, <2>1, CloseRejectedIsSound
  <2>4. ws' \in Streams /\ Sound(ws', wrote, late, nested) /\ ws'.writer = ws.writer /\ ws'.started = ws.started
    BY <2>1, <2>2, <2>3
  <2> QED
    BY <1>1, <1>4, <2>4, StepKeeps DEF CloseSettles
<1>5. CASE AbortSettles
  <2>1. ws.aborting
    BY <1>5 DEF AbortSettles
  <2>2. PICK what \in {"ok", "failed"} : ws' = AbortSettled(ws, what)
    BY <1>5 DEF AbortSettles
  <2>3. LET t == AbortSettled(ws, what)
        IN  t \in Streams /\ Sound(t, wrote, late, nested) /\ t.writer = ws.writer /\ t.started = ws.started
    BY <1>1, <2>1, AbortSettledIsSound
  <2> QED
    BY <1>1, <1>5, <2>2, <2>3, StepKeeps DEF AbortSettles
<1>6. CASE ErrorCall
  <2>1. ws.state = "writable" /\ ws' = ControllerErrors(ws, ws.writer)
    BY <1>6 DEF ErrorCall
  <2>2. LET t == ControllerErrors(ws, ws.writer)
        IN  t \in Streams /\ Sound(t, wrote, late, nested) /\ t.writer = ws.writer /\ t.started = ws.started
    BY <1>1, <2>1, ErrorCallIsSound
  <2> QED
    BY <1>1, <1>6, <2>1, <2>2, StepKeeps DEF ErrorCall
<1>7. CASE GetWriter
  <2> DEFINE more == IF ws.inFlightClose \/ ~NoFrames THEN {writers + 1} ELSE {}
             w == writers + 1
  <2>1. /\ ~IsLocked(ws) /\ writers < MaxWriters /\ late' = late \union more /\ writers' = w
        /\ ws' = AcquireWriter(ws, w) /\ UNCHANGED <<starting, wrote, asked, nested>>
    BY <1>7 DEF GetWriter
  <2>2. w \in Writers /\ (ws.inFlightClose \/ ws.frames # <<>> => w \in more) /\ w \in 1..MaxWriters
        /\ more \subseteq {w}
    BY <1>1, <2>1 DEF ConstantsOK, Writers, NoFrames
  <2> HIDE DEF more
  <2>3. LET t == AcquireWriter(ws, w)
        IN  t \in Streams /\ Sound(t, wrote, late \union more, nested) /\ t.writer = w /\ t.started = ws.started
    BY <1>1, <2>1, <2>2, AcquireIsSound
  <2>4. late' \subseteq 1..writers' /\ writers' \in 0..MaxWriters /\ ws'.writer <= writers'
    BY <1>1, <2>1, <2>2, <2>3
  <2> QED
    BY <1>1, <2>1, <2>3, <2>4 DEF IInv
<1>8. CASE ReleaseLock
  <2>1. LET t == ReleaseWriter(ws)
        IN  t \in Streams /\ Sound(t, wrote, late, nested) /\ t.writer = NoWriter /\ t.started = ws.started
    BY <1>1, ReleaseIsSound
  <2>2. ws' = ReleaseWriter(ws) /\ UNCHANGED <<starting, wrote, writers, asked, late, nested>>
    BY <1>8 DEF ReleaseLock
  <2>3. ws'.writer <= writers
    BY <1>1, <2>1, <2>2 DEF NoWriter
  <2> QED
    BY <1>1, <2>1, <2>2, <2>3 DEF IInv
<1>9. CASE WriteCall
  <2> DEFINE g == nested \/ Sizing(ws) # {}
  <2>1. /\ ws' = WriteStart(ws, ws.writer, wrote + 1) /\ wrote < MaxWrites /\ wrote' = wrote + 1
        /\ UNCHANGED <<starting, writers, asked, late>>
    BY <1>9 DEF WriteCall
  <2>2. nested' = g /\ g \in BOOLEAN
    BY <1>1, <1>9 DEF WriteCall, Sizing
  <2>3. wrote + 1 \in WriteIds /\ wrote' \in 0..MaxWrites
    BY <1>1, <2>1 DEF WriteIds, ConstantsOK
  <2>4. LET t == WriteStart(ws, ws.writer, wrote + 1)
        IN  t \in Streams /\ Sound(t, wrote + 1, late, g) /\ t.writer = ws.writer /\ t.started = ws.started
    BY <1>1, <2>3, WriteStartIsSound
  <2> HIDE DEF g
  <2> QED
    BY <1>1, <2>1, <2>2, <2>3, <2>4 DEF IInv
<1>10. CASE SizeReturns
  <2>1. /\ ws.frames # <<>> /\ Last(ws.frames).in = "size"
        /\ UNCHANGED <<starting, wrote, writers, asked, late, nested>>
        /\ \/ \E size \in WriteSizes : ws' = WriteSized(ws, size)
           \/ ws' \in {WriteSizeThrew(ws), WriteBadlySized(ws)}
    BY <1>10 DEF SizeReturns, NoFrames
  <2>2. \A size \in WriteSizes :
            LET t == WriteSized(ws, size)
            IN  t \in Streams /\ Sound(t, wrote, late, nested) /\ t.writer = ws.writer /\ t.started = ws.started
    BY <1>1, <2>1, WriteSizedIsSound
  <2>3. LET t == WriteSizeThrew(ws)
        IN  t \in Streams /\ Sound(t, wrote, late, nested) /\ t.writer = ws.writer /\ t.started = ws.started
    BY <1>1, <2>1, WriteSizeThrewIsSound
  <2>4. LET t == WriteBadlySized(ws)
        IN  t \in Streams /\ Sound(t, wrote, late, nested) /\ t.writer = ws.writer /\ t.started = ws.started
    BY <1>1, <2>1, WriteBadlySizedIsSound
  <2>5. ws' \in Streams /\ Sound(ws', wrote, late, nested) /\ ws'.writer = ws.writer /\ ws'.started = ws.started
    BY <2>1, <2>2, <2>3, <2>4
  <2> QED
    BY <1>1, <2>1, <2>5, StepKeeps
<1>11. CASE CloseCall
  <2>1. LET t == Close(ws, ws.writer)
        IN  t \in Streams /\ Sound(t, wrote, late, nested) /\ t.writer = ws.writer /\ t.started = ws.started
    <3>1. ~Ended(ws) /\ ~CloseQueuedOrInFlight(ws)
      BY <1>11 DEF CloseCall
    <3> QED
      BY <1>1, <3>1, CloseIsSound
  <2>2. ws' = Close(ws, ws.writer) /\ asked' \subseteq {CloseOp, AbortOp}
    BY <1>1, <1>11 DEF CloseCall
  <2> QED
    BY <1>1, <1>11, <2>1, <2>2, StepKeeps DEF CloseCall
<1>12. CASE AbortCall
  <2>1. LET t == AbortStart(ws, ws.writer)
        IN  t \in Streams /\ Sound(t, wrote, late, nested) /\ t.writer = ws.writer /\ t.started = ws.started
    BY <1>1, AbortStartIsSound
  <2>2. ws' = AbortStart(ws, ws.writer) /\ asked' \subseteq {CloseOp, AbortOp}
    BY <1>1, <1>12 DEF AbortCall
  <2> QED
    BY <1>1, <1>12, <2>1, <2>2, StepKeeps DEF AbortCall
<1>13. CASE ListenersReturn
  <2>1. LET t == AbortSignalled(ws)
        IN  t \in Streams /\ Sound(t, wrote, late, nested) /\ t.writer = ws.writer /\ t.started = ws.started
    <3>1. ws.frames # <<>>
      BY <1>13 DEF ListenersReturn, NoFrames
    <3> QED
      BY <1>1, <3>1, AbortSignalledIsSound
  <2>2. ws' = AbortSignalled(ws) /\ asked' \subseteq {CloseOp, AbortOp}
    BY <1>1, <1>13 DEF ListenersReturn
  <2> QED
    BY <1>1, <1>13, <2>1, <2>2, StepKeeps DEF ListenersReturn
<1>14. CASE UNCHANGED vars
  BY <1>1, <1>14 DEF vars, IInv
<1> QED
  BY <1>2, <1>3, <1>4, <1>5, <1>6, <1>7, <1>8, <1>9, <1>10, <1>11, <1>12, <1>13, <1>14 DEF Next

\* An empty queue weighs nothing.
LEMMA NothingWeighs ==
    ASSUME NEW s, s.queue = <<>>
    PROVE  ContainerSize(s) = 0
<1> DEFINE iter[d \in SUBSET {}] == IF d = {} THEN 0 ELSE LET x == CHOOSE y \in d : TRUE IN iter[d \ {x}] + <<>>[x].size
<1>1. iter = [d \in SUBSET {} |-> 0]
  OBVIOUS
<1> QED
  BY <1>1, NothingIn DEF ContainerSize, FoldSeq, FoldFunction, FoldFunctionOnSet, MapThenFoldSet

\* A stream is sound once it is constructed (set_up_writable_stream_default_controller).
LEMMA NewIsSound ==
    ASSUME NEW hwm \in Nat
    PROVE  LET t == NewWritable(hwm)
           IN  t \in Streams /\ Sound(t, 0, {}, FALSE) /\ t.writer = NoWriter /\ ~t.started
<1> DEFINE t == NewWritable(hwm)
           low == hwm <= 0
<1>1. \A S : <<>> \in Seq(S)
  OBVIOUS
<1>2. {"none", "pending"} \subseteq Promises /\ low \in BOOLEAN /\ NoWrite \in WriteIds \union {NoWrite}
  BY DEF Promises
<1> HIDE DEF low
<1>3. /\ t.state = "writable" /\ t.writer = NoWriter /\ t.ready = "none"
      /\ t.closed = "none" /\ t.writeRequests = <<>> /\ t.inFlightWrite = NoWrite
      /\ ~t.closeRequest /\ ~t.inFlightClose /\ t.closeTells = NoWriter
      /\ t.pendingAbort = "none" /\ ~t.aborting /\ ~t.signalled /\ t.backpressure = low
      /\ ~t.started /\ t.algorithms /\ t.queue = <<>> /\ t.hwm = hwm /\ t.frames = <<>>
      /\ t.answers = <<>> /\ t.calls = <<>> /\ ~t.panicked
  BY DEF NewWritable, low
<1>4. t \in Streams
  BY <1>1, <1>2 DEF NewWritable, Streams, low
<1> HIDE DEF t
<1>5. Out(t) = {} /\ Did(t) = {} /\ Called(t) = {} /\ Sizing(t) = {}
  BY <1>3, NothingIn DEF Out, Did, Called, Sizing
<1>6. FlagsFit(t)
  BY <1>3 DEF FlagsFit, Live, Ended
<1>7. InTurn(t) /\ InOrder(t)
  BY <1>3, <1>5, NothingIn DEF InTurn, InOrder
<1>8. Once(t, 0)
  BY <1>3, <1>5, NothingIn DEF Once, NoWrite
<1>9. WriterKnows(t, {}) /\ EndIsAhead(t)
  BY <1>3, <1>5, NothingIn DEF WriterKnows, IsLocked, EndIsAhead
<1>10. TakesWrites(t, {})
  BY <1>3, NothingIn DEF TakesWrites, QueueIsTheRequests, ReadyFits, IsLocked
<1>11. BackpressureFits(t)
  <2>1. ContainerSize(t) = 0
    BY <1>3, NothingWeighs
  <2> QED
    BY <1>3, <2>1 DEF BackpressureFits, WriterDesiredSize, low
<1> QED
  BY <1>3, <1>4, <1>6, <1>7, <1>8, <1>9, <1>10, <1>11 DEF Sound, Kept, t

\* It is sound at first.
LEMMA InitIsSound == ConstantsOK /\ Init => IInv
<1> SUFFICES ASSUME ConstantsOK, Init PROVE IInv
  OBVIOUS
<1>1. PICK hwm \in WriteHighWaterMarks : ws = NewWritable(hwm)
  BY DEF Init
<1>2. hwm \in Nat
  BY DEF ConstantsOK
<1>3. ws \in Streams /\ Sound(ws, 0, {}, FALSE) /\ ws.writer = NoWriter /\ ~ws.started
  BY <1>1, <1>2, NewIsSound
<1>4. starting = TRUE /\ wrote = 0 /\ writers = 0 /\ asked = {} /\ late = {} /\ nested = FALSE
  BY DEF Init
<1>5. Sound(ws, wrote, late, nested) /\ ws.writer <= writers /\ late \subseteq 1..writers
  <2>1. Sound(ws, wrote, late, nested)
    BY <1>3, <1>4 DEF Sound, Kept
  <2> QED
    BY <1>3, <1>4, <2>1 DEF NoWriter
<1>6. wrote \in 0..MaxWrites /\ writers \in 0..MaxWriters
  BY <1>4 DEF ConstantsOK
<1>7. starting = ~ws.started
  BY <1>3, <1>4
<1> QED
  BY <1>3, <1>4, <1>5, <1>6, <1>7 DEF IInv

\* The sink of a sound stream is served.
LEMMA IInvServes == ConstantsOK /\ IInv => SinkIsServed
<1> SUFFICES ASSUME ConstantsOK, IInv PROVE SinkIsServed
  OBVIOUS
<1>1. /\ ws \in Streams /\ wrote \in 0..MaxWrites /\ writers \in 0..MaxWriters
      /\ asked \subseteq {CloseOp, AbortOp} /\ late \subseteq 1..writers
      /\ starting \in BOOLEAN /\ nested \in BOOLEAN
      /\ FlagsFit(ws) /\ InTurn(ws) /\ Once(ws, wrote) /\ (nested \/ InOrder(ws))
  BY DEF IInv, Sound, Kept
<1>2. TypeOK
  <2>1. /\ ws.queue \in Seq(Entries) /\ ws.answers \in Seq(Answered)
    BY <1>1 DEF Streams, Entries
  <2>2. \A i \in DOMAIN ws.queue : ws.queue[i] \in Entries
    BY <2>1
  <2>3. \A i \in DOMAIN ws.answers : ws.answers[i] \in Answered
    BY <2>1
  <2>4. \A i \in DOMAIN ws.queue : ws.queue[i].chunk \in WriteIds \union {CloseOp} /\ ws.queue[i].size \in WriteSizes \union {0}
    BY <2>2 DEF Entries
  <2>5. \A i \in DOMAIN ws.answers : ws.answers[i].to \in WriteIds \union {CloseOp, AbortOp} /\ ws.answers[i].what \in {"ok", "failed"}
    BY <2>3 DEF Answered, Ops
  <2>6. /\ ws.state \in {"writable", "erroring", "errored", "closed"}
        /\ ws.ready \in Promises /\ ws.closed \in Promises
        /\ ws.writer \in Writers \union {NoWriter} /\ ws.closeTells \in Writers \union {NoWriter}
        /\ ws.inFlightWrite \in WriteIds \union {NoWrite} /\ ws.writeRequests \in Seq(WriteIds)
        /\ ws.pendingAbort \in {"none", "fresh", "late"}
        /\ ws.closeRequest \in BOOLEAN /\ ws.inFlightClose \in BOOLEAN /\ ws.aborting \in BOOLEAN
        /\ ws.signalled \in BOOLEAN /\ ws.backpressure \in BOOLEAN /\ ws.started \in BOOLEAN
        /\ ws.algorithms \in BOOLEAN /\ ws.panicked \in BOOLEAN /\ ws.hwm \in Nat
    BY <1>1 DEF Streams
  <2>7. WritableTypeOK(ws, WriteIds, WriteSizes, Writers)
    BY <2>4, <2>5, <2>6 DEF WritableTypeOK, Promises
  <2>8. late \subseteq Writers
    BY <1>1 DEF Writers, ConstantsOK
  <2> QED
    BY <1>1, <2>7, <2>8 DEF TypeOK
<1>3. NeverPanics
  BY <1>1 DEF FlagsFit, NeverPanics
<1>4. \A op : op \in Out(ws) => Settled(op)
  BY DEF Out, Settled
<1>5. SinkCalledInTurn
  <2>1. ws.calls \in Seq(Ops)
    BY <1>1 DEF Streams
  <2>2. Len(ws.calls) \in Nat /\ DOMAIN ws.calls = 1..Len(ws.calls)
    BY <2>1
  <2>3. ASSUME NEW i \in DOMAIN ws.calls, NEW j \in DOMAIN ws.calls, i < j
        PROVE  /\ Settled(ws.calls[i]) /\ ws.calls[i] \in WriteIds
               /\ ~nested /\ ws.calls[j] \in WriteIds => ws.calls[i] < ws.calls[j]
    <3>1. i < Len(ws.calls)
      BY <2>2, <2>3
    <3> QED
      BY <1>1, <1>4, <2>3, <3>1 DEF InTurn, InOrder
  <2> QED
    BY <2>3 DEF SinkCalledInTurn
<1>6. SettledOnce
  <2>1. \A i, j \in DOMAIN ws.answers : ws.answers[i].to = ws.answers[j].to => i = j
    BY <1>1 DEF Once
  <2>2. \A i \in DOMAIN ws.answers :
           ws.answers[i].to \in WriteIds /\ ws.answers[i].what = "ok"
               => \E j \in DOMAIN ws.calls : ws.calls[j] = ws.answers[i].to
    BY <1>1 DEF InTurn, Did, Called
  <2> QED
    BY <2>1, <2>2 DEF SettledOnce
<1> QED
  BY <1>2, <1>3, <1>5, <1>6 DEF SinkIsServed

\* The writers of a sound stream are told.
LEMMA IInvTells == IInv => WritersAreTold
<1> SUFFICES ASSUME IInv PROVE WritersAreTold
  OBVIOUS
<1>1. /\ ws \in Streams /\ WriterKnows(ws, late)
      /\ ws.state = "writable" => TakesWrites(ws, late) /\ BackpressureFits(ws)
  BY DEF IInv, Sound, Kept
<1>2. BackpressureIsTheQueues
  BY <1>1 DEF BackpressureIsTheQueues, TakesWrites, BackpressureFits, ReadyFits
<1>3. WriterKnowsTheState
  BY <1>1 DEF WriterKnowsTheState, WriterKnows, Knows, Streams, Live
<1> QED
  BY <1>2, <1>3 DEF WritersAreTold

\* The sink is called with one thing at a time and, unless a callback of the script
\* wrote, in the order of the writes; each promise settles once, a write's only with
\* success when the sink was called with it; and no assertion of the stream's code
\* fails, however many chunks are written, writers come and go and callbacks nest
\* (advance_queue_if_needed, finish_erroring).
THEOREM SinkServed == ConstantsOK => (Spec => []SinkIsServed)
<1> SUFFICES ASSUME ConstantsOK PROVE Spec => []SinkIsServed
  OBVIOUS
<1>1. Init => IInv
  BY InitIsSound
<1>2. IInv /\ [Next]_vars => IInv'
  BY NextKeepsIInv
<1>3. IInv => SinkIsServed
  BY IInvServes
<1> QED
  BY <1>1, <1>2, <1>3, PTL DEF Spec

\* Whatever the sink does with its calls, however writers come and go and callbacks
\* nest: the queue holds just the write in flight, the requests in their order and
\* the close that was asked for; the ready promise is pending exactly while the queue
\* is at its high water mark, and a writer's promises tell the stream's state, but for
\* a writer that came from a callback or while the sink closed (update_backpressure,
\* writable_stream_start_erroring).
THEOREM WritersTold == ConstantsOK => (Spec => []WritersAreTold)
<1> SUFFICES ASSUME ConstantsOK PROVE Spec => []WritersAreTold
  OBVIOUS
<1>1. Init => IInv
  BY InitIsSound
<1>2. IInv /\ [Next]_vars => IInv'
  BY NextKeepsIInv
<1>3. IInv => WritersAreTold
  BY IInvTells
<1> QED
  BY <1>1, <1>2, <1>3, PTL DEF Spec
=============================================================================
