-------------------------------- MODULE MCFetch --------------------------------
(***************************************************************************)
(* What fetch() does, in parts that share no state: the way of a request   *)
(* to its answer, and the bodies that it receives and sends.  `subject' is *)
(* the one a behaviour is about.  The theorems hold for every value of the *)
(* constants; the configuration gives them a small instance.               *)
(***************************************************************************)
EXTENDS Integers, Sequences, TLAPS

CONSTANTS
    BodyChunks, BodyReads, MaxBody,     \* of FetchBody
    SourceMarks,                        \* of RequestBody
    Urls, RawCookies, Answered, Timeout, MaxRetries, MaxRedirects, None     \* of FetchEngine

VARIABLES
    subject,
    net, response, body, task, text, reads, cancel,
    request, src, made, pump, channel, wire,
    req, remaining, first, phase, attempt, now, jar, hop, hops, orig

Response == INSTANCE FetchBody WITH MaxChunks <- BodyChunks, MaxReads <- BodyReads
Request == INSTANCE RequestBody WITH MaxChunks <- BodyChunks, HighWaterMarks <- SourceMarks
Fetch == INSTANCE FetchEngine

responseVars == <<net, response, body, task, text, reads, cancel>>
requestVars == <<request, src, made, pump, channel, wire>>
fetchVars == <<req, remaining, first, phase, attempt, now, jar, hop, hops, orig>>
allVars == <<subject, responseVars, requestVars, fetchVars>>

\* What text() takes is a number of chunks, and high water marks are numbers.
ASSUME BodiesAssumption == MaxBody \in Nat /\ SourceMarks \subseteq Nat

-----------------------------------------------------------------------------
(* A site, its plain twin and a host below it; a secure cookie for the     *)
(* host alone, and one for all below.                                      *)

MCUrls ==
  {[scheme |-> "https", host |-> <<"com", "a">>, path |-> <<"x", "y">>],
   [scheme |-> "http", host |-> <<"com", "a">>, path |-> <<"x">>],
   [scheme |-> "https", host |-> <<"com", "a", "b">>, path |-> <<>>]}

MCRawCookies ==
  {[domain |-> <<>>, path |-> "default", secure |-> TRUE, expired |-> FALSE],
   [domain |-> <<"com", "a">>, path |-> "root", secure |-> FALSE, expired |-> FALSE]}

MCAnswered == {<<"https", <<"com", "a">>>>}

-----------------------------------------------------------------------------
MCInit ==
    /\ subject \in {"response", "request", "fetch"}
    /\ Response!Init /\ Request!Init /\ Fetch!Init
    /\ subject # "request" => ~request.bytes /\ ~request.stream /\ src.hwm = 0
    /\ subject # "fetch" => req = CHOOSE r \in Fetch!Requests : TRUE

ResponseStep ==
    subject = "response" /\ Response!Next /\ UNCHANGED <<subject, requestVars, fetchVars>>
RequestStep ==
    subject = "request" /\ Request!Next /\ UNCHANGED <<subject, responseVars, fetchVars>>
FetchStep ==
    subject = "fetch" /\ Fetch!Next /\ UNCHANGED <<subject, responseVars, requestVars>>

MCNext == ResponseStep \/ RequestStep \/ FetchStep

MCSpec == MCInit /\ [][MCNext]_allVars

\* A body arrives whole or fails, and its socket is not kept (fetch/mod.rs, streams.rs).
BodiesAreWhole == Response!BodyIsWhole /\ Request!BodyIsSentWhole

\* What requests send, to whom, and for how long (send).
RequestsAreGoverned == Fetch!RequestsAreGoverned

-----------------------------------------------------------------------------
(* Streams, by the operators that both bodies have of Readable *)

\* A new stream is in turn.
LEMMA NewIsInTurn == ASSUME NEW h \in Nat PROVE Response!InTurn(Response!NewReadable(h), 0, 0)
BY DEF Response!NewReadable, Response!InTurn, Response!Bodies, Response!NoReader

\* A stream that differs in no chunk, read or answer is in turn where the other is.
LEMMA SameIsInTurn ==
  ASSUME NEW r, NEW s, NEW c, NEW k, Response!InTurn(r, c, k), Response!SameReads(r, s)
  PROVE  Response!InTurn(s, c, k) /\ Response!Outstanding(s) = Response!Outstanding(r)
BY DEF Response!InTurn, Response!SameReads, Response!Outstanding

\* Calling pull() changes no chunk, read or answer, and is of a stream that can take one
\* more (call_pull_if_needed).
LEMMA CallPullIs ==
  ASSUME NEW r \in Response!Bodies, NEW requests
  PROVE  /\ Response!SameReads(r, Response!CallPullWith(r, requests)) 
         /\ r.pulling => Response!CallPullWith(r, requests).pulling
         /\ Response!CallPullWith(r, requests).pulling => r.pulling \/ Response!CanCloseOrEnqueue(r)
<1> DEFINE s == Response!CallPullWith(r, requests)
<1>1. CASE ~Response!ShouldCallPull(r, requests)
  <2>1. s = r
    BY <1>1 DEF Response!CallPullWith
  <2> QED
    BY <2>1 DEF Response!SameReads
<1>2. CASE Response!ShouldCallPull(r, requests) /\ r.pulling
  <2>1. s = [r EXCEPT !.pullAgain = TRUE]
    BY <1>2 DEF Response!CallPullWith
  <2> QED
    BY <1>2, <2>1 DEF Response!SameReads, Response!Bodies
<1>3. CASE Response!ShouldCallPull(r, requests) /\ ~r.pulling
  <2>1. s = [r EXCEPT !.pulling = TRUE]
    BY <1>3 DEF Response!CallPullWith
  <2>2. Response!CanCloseOrEnqueue(r)
    BY <1>3 DEF Response!ShouldCallPull
  <2> QED
    BY <1>3, <2>1, <2>2 DEF Response!SameReads, Response!Bodies
<1> QED
  BY <1>1, <1>2, <1>3

\* So with start() ...
LEMMA StartIs ==
  ASSUME NEW r, NEW c, NEW k, Response!InTurn(r, c, k)
  PROVE  LET s == Response!StartFulfilled(r) IN
         /\ Response!InTurn(s, c, k) /\ Response!SameReads(r, s)
         /\ r.pulling => s.pulling
         /\ s.pulling => r.pulling \/ Response!CanCloseOrEnqueue(r)
<1> DEFINE t == [r EXCEPT !.started = TRUE]
<1>1. t \in Response!Bodies /\ Response!SameReads(r, t) /\ t.pulling = r.pulling
  BY DEF Response!SameReads, Response!InTurn, Response!Bodies
<1>2. Response!CanCloseOrEnqueue(t) <=> Response!CanCloseOrEnqueue(r)
  BY <1>1 DEF Response!CanCloseOrEnqueue, Response!SameReads
<1>3. Response!StartFulfilled(r) = Response!CallPullWith(t, t.requests)
  BY DEF Response!StartFulfilled, Response!CallPullIfNeeded
<1> HIDE DEF t
<1>4. Response!SameReads(r, Response!StartFulfilled(r))
  BY <1>1, <1>3, CallPullIs DEF Response!SameReads
<1> QED
  BY <1>1, <1>2, <1>3, <1>4, CallPullIs, SameIsInTurn

\* ... and with the end of a pull().
LEMMA PullEndIs ==
  ASSUME NEW r, NEW c, NEW k, Response!InTurn(r, c, k)
  PROVE  LET s == Response!PullFulfilled(r) IN
         /\ Response!InTurn(s, c, k) /\ Response!SameReads(r, s)
         /\ s.pulling => Response!CanCloseOrEnqueue(r)
<1> DEFINE t == [r EXCEPT !.pulling = FALSE, !.pullAgain = FALSE]
<1>1. t \in Response!Bodies /\ Response!SameReads(r, t) /\ ~t.pulling
  BY DEF Response!SameReads, Response!InTurn, Response!Bodies
<1>2. Response!CanCloseOrEnqueue(t) <=> Response!CanCloseOrEnqueue(r)
  BY <1>1 DEF Response!CanCloseOrEnqueue, Response!SameReads
<1>3. Response!PullFulfilled(r) = IF r.pullAgain THEN Response!CallPullWith(t, t.requests) ELSE t
  BY DEF Response!PullFulfilled, Response!CallPullIfNeeded
<1> HIDE DEF t
<1>4. Response!SameReads(r, Response!PullFulfilled(r))
  BY <1>1, <1>3, CallPullIs DEF Response!SameReads
<1> QED
  BY <1>1, <1>2, <1>3, <1>4, CallPullIs, SameIsInTurn

\* A reader of a stream that has none finds no read waiting.
LEMMA AcquireIs ==
  ASSUME NEW r, NEW c, NEW k, Response!InTurn(r, c, k), ~Response!Locked(r), NEW x \in {1, 2}
  PROVE  LET s == Response!AcquireReader(r, x) IN
         /\ Response!InTurn(s, c, k) /\ s.reader = x /\ s.answers = r.answers /\ s.requests = <<>>
         /\ s.queue = r.queue /\ s.state = r.state /\ s.closeRequested = r.closeRequested
         /\ s.pulling = r.pulling /\ s.started = r.started
<1> DEFINE s == Response!AcquireReader(r, x)
<1>1. r \in Response!Bodies /\ r.reader = 0 /\ r.requests = <<>> /\ Len(r.answers) = k
  BY DEF Response!InTurn, Response!Locked, Response!NoReader
<1>2. s = [r EXCEPT !.reader = x, !.closed = Response!ClosedPromise(r.state)]
  BY DEF Response!AcquireReader
<1>3. Response!ClosedPromise(r.state) \in {"none", "pending", "fulfilled", "rejected"}
  BY <1>1 DEF Response!ClosedPromise, Response!Bodies
<1>4. /\ s \in Response!Bodies /\ s.reader = x /\ s.answers = r.answers /\ s.requests = <<>>
      /\ s.queue = r.queue /\ s.state = r.state /\ s.closeRequested = r.closeRequested
      /\ s.pulling = r.pulling /\ s.started = r.started
  BY <1>1, <1>2, <1>3 DEF Response!Bodies
<1> HIDE DEF s
<1>5. Response!InTurn(s, c, k)
  BY <1>1, <1>4 DEF Response!InTurn
<1> QED
  BY <1>4, <1>5 DEF s

\* A reader that goes takes the reads that wait with it.
LEMMA ReleaseIs ==
  ASSUME NEW r, NEW c, NEW k, Response!InTurn(r, c, k), r.reader = 1
  PROVE  LET s == Response!ReleaseReader(r) IN
         /\ Response!InTurn(s, c, k) /\ s.reader = 0 /\ s.answers = r.answers /\ s.requests = <<>>
         /\ s.queue = r.queue /\ s.state = r.state /\ s.closeRequested = r.closeRequested
         /\ s.pulling = r.pulling /\ s.started = r.started
<1> DEFINE s == Response!ReleaseReader(r)
<1>1. r \in Response!Bodies /\ Len(r.answers) = k
  BY DEF Response!InTurn
<1>2. s = [r EXCEPT !.requests = <<>>, !.reader = 0, !.closed = "none"]
  BY DEF Response!ReleaseReader, Response!NoReader
<1>4. /\ s \in Response!Bodies /\ s.reader = 0 /\ s.answers = r.answers /\ s.requests = <<>>
      /\ s.queue = r.queue /\ s.state = r.state /\ s.closeRequested = r.closeRequested
      /\ s.pulling = r.pulling /\ s.started = r.started
  <2>1. <<>> \in Seq({1, 2}) /\ 0 \in {0, 1, 2} /\ "none" \in {"none", "pending", "fulfilled", "rejected"}
    OBVIOUS
  <2> QED
    BY <1>1, <1>2, <2>1 DEF Response!Bodies
<1> HIDE DEF s
<1>5. Response!InTurn(s, c, k)
  BY <1>1, <1>4 DEF Response!InTurn
<1> QED
  BY <1>4, <1>5 DEF s

\* Giving a chunk to the first read that waits.
LEMMA FulfillIs ==
  ASSUME NEW r, NEW c, NEW k, Response!InTurn(r, c, k), r.state = "readable", r.requests # <<>>
  PROVE  LET s == Response!FulfillReadRequest(r, c + 1) IN
         /\ Response!InTurn(s, c + 1, IF r.reader = 2 THEN k ELSE Len(s.answers))
            /\ Response!Outstanding(s) = Response!Outstanding(r)
         /\ Len(s.answers) = Len(r.answers) + 1
         /\ \A i \in 1..Len(r.answers) : s.answers[i] = r.answers[i]
         /\ s.reader = r.reader /\ s.state = r.state /\ s.closeRequested = r.closeRequested
         /\ s.pulling = r.pulling /\ s.queue = <<>>
<1> DEFINE s == Response!FulfillReadRequest(r, c + 1)
           new == [to |-> Head(r.requests), what |-> Response!Chunk(c + 1)]
           l == IF r.reader = 2 THEN k ELSE Len(s.answers)
<1>1. /\ r \in Response!Bodies /\ r.requests \in Seq({1, 2})
         /\ r.answers \in Seq([to : {1, 2}, what : Response!Outcomes])
      /\ r.queue = <<>> /\ Len(r.answers) = c /\ c \in Nat /\ Len(r.requests) \in Nat \ {0}
  BY DEF Response!InTurn, Response!Bodies
<1>2. Head(r.requests) = r.reader /\ r.reader \in {1, 2} /\ Tail(r.requests) \in Seq({1, 2})
      /\ Len(Tail(r.requests)) = Len(r.requests) - 1
      /\ \A i \in 1..Len(Tail(r.requests)) : Tail(r.requests)[i] = r.reader
  BY <1>1 DEF Response!InTurn
<1>3. new \in [to : {1, 2}, what : Response!Outcomes] /\ new.to = r.reader
        /\ new.what = Response!Chunk(c + 1)
  BY <1>1, <1>2 DEF Response!Outcomes
<1>4. s = [r EXCEPT !.answers = Append(@, new), !.requests = Tail(@)]
  BY DEF Response!FulfillReadRequest
<1> HIDE DEF new
<1>5. /\ Append(r.answers, new) \in Seq([to : {1, 2}, what : Response!Outcomes])
      /\ Len(Append(r.answers, new)) = c + 1 /\ Append(r.answers, new)[c + 1] = new
      /\ \A i \in 1..c : Append(r.answers, new)[i] = r.answers[i]
  BY <1>1, <1>3
<1>6. /\ s \in Response!Bodies /\ s.reader = r.reader /\ s.answers = Append(r.answers, new)
      /\ s.requests = Tail(r.requests) /\ s.state = r.state /\ s.closeRequested = r.closeRequested
      /\ s.pulling = r.pulling /\ s.queue = <<>>
  BY <1>1, <1>2, <1>4, <1>5 DEF Response!Bodies
<1> HIDE DEF s
<1>7. Response!InTurn(s, c + 1, l)
  <2>1. c + 1 \in 0..Len(s.answers) /\ l \in 0..Len(s.answers) /\ (s.reader # 2 => Len(s.answers) = l)
    BY <1>1, <1>5, <1>6 DEF Response!InTurn
  <2>2. ASSUME NEW i \in 1..Len(s.answers)
        PROVE  s.answers[i].what = Response!Chunk(i) /\ s.answers[i].to = IF i <= l THEN 1 ELSE 2
    BY <1>1, <1>2, <1>3, <1>5, <1>6, <2>2 DEF Response!InTurn
  <2>3. \A i \in 1..Len(s.requests) : s.requests[i] = s.reader
    BY <1>2, <1>6
  <2> HIDE DEF l
  <2> QED
    BY <1>1, <1>2, <1>5, <1>6, <2>1, <2>2, <2>3 DEF Response!InTurn
<1>8. Response!Outstanding(s) = Response!Outstanding(r)
  <2>1. PICK m, n : Len(r.answers) = m /\ Len(r.requests) = n
    OBVIOUS
  <2>2. m \in Nat /\ n \in Nat
    BY <1>1, <2>1
  <2>3. Len(s.answers) = m + 1 /\ Len(s.requests) = n - 1
    BY <1>1, <1>2, <1>5, <1>6, <2>1
  <2>4. Response!Outstanding(r) = m + n /\ Response!Outstanding(s) = (m + 1) + (n - 1)
    BY <2>1, <2>3 DEF Response!Outstanding
  <2> QED
    BY <2>2, <2>4
<1> QED
  BY <1>1, <1>5, <1>6, <1>7, <1>8 DEF s
\* Putting a chunk into the queue.
LEMMA QueueIs ==
  ASSUME NEW r, NEW c, NEW k, Response!InTurn(r, c, k), r.state = "readable", r.requests = <<>>
  PROVE  LET n == c + Len(r.queue) + 1
             s == [r EXCEPT !.queue = Append(@, [chunk |-> n, size |-> 1])] IN
         /\ Response!InTurn(s, c, k) /\ Len(s.queue) = Len(r.queue) + 1
         /\ s.answers = r.answers /\ s.requests = r.requests
         /\ s.reader = r.reader /\ s.state = r.state /\ s.closeRequested = r.closeRequested
         /\ s.pulling = r.pulling
<1> DEFINE n == c + Len(r.queue) + 1
           new == [chunk |-> n, size |-> 1]
           s == [r EXCEPT !.queue = Append(@, new)]
<1>1. r \in Response!Bodies /\ r.queue \in Seq([chunk : Nat, size : {1}]) /\ c \in Nat
        /\ Len(r.queue) \in Nat
  BY DEF Response!InTurn, Response!Bodies
<1>2. new \in [chunk : Nat, size : {1}] /\ new.chunk = c + Len(r.queue) + 1
  BY <1>1
<1> HIDE DEF new
<1>3. /\ Append(r.queue, new) \in Seq([chunk : Nat, size : {1}])
      /\ Len(Append(r.queue, new)) = Len(r.queue) + 1 /\ Append(r.queue, new)[Len(r.queue) + 1] = new
      /\ \A i \in 1..Len(r.queue) : Append(r.queue, new)[i] = r.queue[i]
  BY <1>1, <1>2
<1>4. /\ s \in Response!Bodies /\ s.reader = r.reader /\ s.answers = r.answers
      /\ s.requests = r.requests /\ s.state = r.state /\ s.closeRequested = r.closeRequested
      /\ s.pulling = r.pulling /\ s.queue = Append(r.queue, new)
  BY <1>1, <1>3 DEF Response!Bodies
<1>5. \A j \in 1..Len(s.queue) : s.queue[j].chunk = c + j
  <2> SUFFICES ASSUME NEW j \in 1..Len(s.queue) PROVE s.queue[j].chunk = c + j
    OBVIOUS
  <2>1. CASE j = Len(r.queue) + 1
    <3>1. s.queue[j] = new /\ j = Len(r.queue) + 1
      BY <1>3, <1>4, <2>1
    <3>2. new.chunk = c + j
      BY <1>1, <1>2, <3>1
    <3> QED
      BY <3>1, <3>2
  <2>2. CASE j \in 1..Len(r.queue)
    BY <1>3, <1>4, <2>2 DEF Response!InTurn
  <2> QED
    BY <1>1, <1>3, <1>4, <2>1, <2>2
<1> HIDE DEF s
<1>6. Response!InTurn(s, c, k)
  BY <1>4, <1>5 DEF Response!InTurn
<1> QED
  BY <1>3, <1>4, <1>6 DEF s, new

\* An enqueue gives its chunk to a read that waits, or queues it.
LEMMA EnqueueIs ==
  ASSUME NEW r, NEW c, NEW k, Response!InTurn(r, c, k), Response!CanCloseOrEnqueue(r)
  PROVE  LET s == Response!Enqueue(r, c + Len(r.queue) + 1) IN
         /\ \E d, l : /\ Response!InTurn(s, d, l) /\ d + Len(s.queue) = c + Len(r.queue) + 1
                      /\ r.reader = 2 => l = k
         /\ Response!Outstanding(s) = Response!Outstanding(r) /\ Len(s.answers) >= Len(r.answers)
         /\ \A i \in 1..Len(r.answers) : s.answers[i] = r.answers[i]
         /\ s.reader = r.reader /\ s.state = "readable" /\ s.closeRequested = r.closeRequested
         /\ r.pulling => s.pulling
<1> DEFINE n == c + Len(r.queue) + 1
           s == Response!Enqueue(r, n)
<1>1. /\ r \in Response!Bodies /\ r.state = "readable" /\ ~r.closeRequested /\ r.sizing = <<>>
      /\ Len(r.queue) \in Nat /\ c \in Nat
  BY DEF Response!InTurn, Response!Bodies, Response!CanCloseOrEnqueue
<1>2. CASE r.requests # <<>>
  <2>1. PICK t : t = Response!FulfillReadRequest(r, n)
    OBVIOUS
  <2>2. r.queue = <<>> /\ n = c + 1
    BY <1>2, <1>1 DEF Response!InTurn
  <2>3. /\ Response!InTurn(t, c + 1, IF r.reader = 2 THEN k ELSE Len(t.answers))
           /\ Response!Outstanding(t) = Response!Outstanding(r)
        /\ Len(t.answers) = Len(r.answers) + 1
        /\ \A i \in 1..Len(r.answers) : t.answers[i] = r.answers[i]
    BY <1>1, <1>2, <2>1, <2>2, FulfillIs
  <2>3a. /\ t.reader = r.reader /\ t.state = r.state /\ t.closeRequested = r.closeRequested
         /\ t.pulling = r.pulling /\ t.queue = <<>>
    BY <1>1, <1>2, <2>1, <2>2, FulfillIs
  <2>4. Response!EnqueueStart(r, n) = Response!CallPullWith(t, t.requests)
    BY <1>2, <2>1 DEF Response!EnqueueStart, Response!CallPullIfNeeded
  <2>5. PICK u : u = Response!CallPullWith(t, t.requests)
    OBVIOUS
  <2>6. t \in Response!Bodies
    BY <2>3 DEF Response!InTurn
  <2>7. Response!SameReads(t, u) /\ (t.pulling => u.pulling)
    BY <2>5, <2>6, CallPullIs
  <2>8. u.sizing = <<>>
    BY <2>7 DEF Response!SameReads, Response!Bodies
  <2>9. s = u
    BY <1>1, <2>4, <2>5, <2>8 DEF Response!Enqueue
  <2>10. Response!InTurn(u, c + 1, IF r.reader = 2 THEN k ELSE Len(t.answers))
           /\ Response!Outstanding(u) = Response!Outstanding(t)
    BY <2>3, <2>7, SameIsInTurn
  <2>11. /\ Len(u.answers) = Len(r.answers) + 1 /\ \A i \in 1..Len(r.answers) : u.answers[i] = r.answers[i]
         /\ u.reader = r.reader /\ u.state = "readable" /\ u.closeRequested = r.closeRequested
         /\ (r.pulling => u.pulling) /\ u.queue = <<>>
    <3>1. /\ u.answers = t.answers /\ u.reader = t.reader /\ u.state = t.state
          /\ u.closeRequested = t.closeRequested /\ u.queue = t.queue /\ (t.pulling => u.pulling)
      BY <2>7 DEF Response!SameReads
    <3>2. r.state = "readable"
      BY <1>1
    <3>3. u.queue = <<>> /\ u.state = "readable" /\ (r.pulling => u.pulling) /\ u.reader = r.reader
          /\ u.closeRequested = r.closeRequested
      BY <2>3a, <3>1, <3>2
    <3>4. Len(u.answers) = Len(r.answers) + 1
      <4>1. Len(t.answers) = Len(r.answers) + 1
        BY <2>3
      <4>2. u.answers = t.answers
        BY <2>7 DEF Response!SameReads
      <4> QED
        BY <4>1, <4>2
    <3>5. \A i \in 1..Len(r.answers) : u.answers[i] = r.answers[i]
      BY <2>3, <3>1
    <3> QED
      BY <3>3, <3>4, <3>5
  <2>12. c + 1 + Len(u.queue) = n
    BY <2>2, <2>11, <1>1
  <2> HIDE DEF n
  <2>13. Len(u.answers) >= Len(r.answers)
    <3>1. PICK m : Len(r.answers) = m
      OBVIOUS
    <3>2. m \in Nat /\ Len(u.answers) = m + 1
      BY <1>1, <2>11, <3>1 DEF Response!Bodies
    <3> QED
      BY <3>1, <3>2
  <2>14. PICK l : Response!InTurn(u, c + 1, l) /\ (r.reader = 2 => l = k)
    <3>1. PICK l : l = IF r.reader = 2 THEN k ELSE Len(t.answers)
      OBVIOUS
    <3>2. Response!InTurn(u, c + 1, l) /\ (r.reader = 2 => l = k)
      BY <2>10, <3>1
    <3> QED
      BY <3>2
  <2>15. Response!Outstanding(u) = Response!Outstanding(r)
    BY <2>3, <2>10
  <2> QED
    BY <2>9, <2>11, <2>12, <2>13, <2>14, <2>15 DEF n
<1>3. CASE r.requests = <<>>
  <2>1. PICK t : t = [r EXCEPT !.queue = Append(@, [chunk |-> n, size |-> 1])]
    OBVIOUS
  <2>2. /\ Response!InTurn(t, c, k) /\ Len(t.queue) = Len(r.queue) + 1
        /\ t.answers = r.answers /\ t.requests = r.requests
        /\ t.reader = r.reader /\ t.state = r.state /\ t.closeRequested = r.closeRequested
        /\ t.pulling = r.pulling
    BY <1>1, <1>3, <2>1, QueueIs
  <2>3. PICK frame : frame = [chunk |-> n, reader |-> r.reader]
    OBVIOUS
  <2>4. Response!EnqueueStart(r, n) = [r EXCEPT !.sizing = <<frame>>]
    BY <1>1, <1>3, <2>3 DEF Response!EnqueueStart, Response!CanCloseOrEnqueue
  <2>5. PICK e : e = [r EXCEPT !.sizing = <<frame>>]
    OBVIOUS
  <2>6. e.sizing = <<frame>> /\ Len(e.sizing) = 1 /\ Response!Last(e.sizing) = frame
          /\ Response!Front(e.sizing) = <<>>
    BY <1>1, <2>5 DEF Response!Bodies, Response!Last, Response!Front
  <2>7. s = Response!SizeReturned(e, 1)
    <3>1. Len(e.sizing) # Len(r.sizing)
      BY <1>1, <2>6
    <3> QED
      BY <2>4, <2>5, <3>1 DEF Response!Enqueue
  <2>8. \E q : s = Response!CallPullWith(t, q)
    <3>1. [[e EXCEPT !.sizing = Response!Front(@)] EXCEPT !.queue = Append(@, [chunk |-> frame.chunk, size |-> 1])] = t
      BY <1>1, <2>1, <2>3, <2>5, <2>6 DEF Response!Bodies
    <3> QED
      BY <2>6, <2>7, <3>1 DEF Response!SizeReturned
  <2>9. PICK q : s = Response!CallPullWith(t, q)
    BY <2>8
  <2>10. t \in Response!Bodies
    BY <2>2 DEF Response!InTurn
  <2>11. Response!SameReads(t, s) /\ (t.pulling => s.pulling)
    BY <2>9, <2>10, CallPullIs
  <2> HIDE DEF s
  <2>12. Response!InTurn(s, c, k) /\ Response!Outstanding(s) = Response!Outstanding(t)
    BY <2>2, <2>11, SameIsInTurn
  <2>13. Response!Outstanding(t) = Response!Outstanding(r)
    BY <2>2 DEF Response!Outstanding
  <2>14. s.answers = r.answers /\ s.reader = r.reader /\ s.state = "readable"
         /\ s.closeRequested = r.closeRequested /\ (r.pulling => s.pulling)
         /\ Len(s.queue) = Len(r.queue) + 1
    BY <1>1, <2>2, <2>11 DEF Response!SameReads
  <2>15. c + Len(s.queue) = n
    BY <1>1, <2>14
  <2> QED
    BY <1>1, <2>12, <2>13, <2>14, <2>15 DEF s
<1> QED
  BY <1>2, <1>3

\* A sequence after another.
LEMMA Joined ==
  ASSUME NEW S, NEW p \in Seq(S), NEW q \in Seq(S)
  PROVE  /\ p \o q \in Seq(S) /\ Len(p \o q) = Len(p) + Len(q)
         /\ \A i \in 1..Len(p) : (p \o q)[i] = p[i]
         /\ \A i \in 1..Len(q) : (p \o q)[Len(p) + i] = q[i]
OBVIOUS

\* ReadTo that wait are told the end.
LEMMA TellIs ==
  ASSUME NEW r, NEW s, NEW c, NEW k, Response!InTurn(r, c, k), r.state = "readable", Response!Tells(r, s)
  PROVE  \E l : Response!Ends(r, s, c, l) /\ (r.reader = 2 => l = k)
<1>0. PICK what : what = Response!End(s.state)
  OBVIOUS
<1>1. /\ r \in Response!Bodies /\ r.requests \in Seq({1, 2})
         /\ r.answers \in Seq([to : {1, 2}, what : Response!Outcomes])
      /\ what \in Response!Outcomes
  BY <1>0 DEF Response!InTurn, Response!Bodies, Response!End, Response!Outcomes
<1>2. PICK told : told = Response!Told(r.requests, what)
  OBVIOUS
<1>3. PICK m, n : Len(r.answers) = m /\ Len(r.requests) = n
  OBVIOUS
<1>4. m \in Nat /\ n \in Nat /\ m = c
  BY <1>1, <1>3 DEF Response!InTurn
<1>5. told \in Seq([to : {1, 2}, what : Response!Outcomes]) /\ Len(told) = n
      /\ \A i \in 1..n : told[i].to = r.reader /\ told[i].what = what
  <2>1. \A i \in 1..n : r.requests[i] = r.reader /\ r.requests[i] \in {1, 2}
    BY <1>1, <1>3 DEF Response!InTurn
  <2>2. told = [i \in 1..n |-> [to |-> r.requests[i], what |-> what]]
    BY <1>1, <1>2, <1>3 DEF Response!Told
  <2>3. \A i \in 1..n : [to |-> r.requests[i], what |-> what] \in [to : {1, 2}, what : Response!Outcomes]
    BY <1>1, <2>1
  <2>4. \A i \in 1..n : told[i] = [to |-> r.requests[i], what |-> what]
    BY <2>2
  <2>5. told \in Seq([to : {1, 2}, what : Response!Outcomes]) /\ Len(told) = n
    BY <1>4, <2>2, <2>3
  <2> QED
    BY <2>1, <2>4, <2>5
<1>6. /\ Len(s.answers) = m + n
      /\ \A i \in 1..m : s.answers[i] = r.answers[i]
      /\ \A i \in 1..n : s.answers[m + i] = told[i]
  <2>1. s.answers = r.answers \o told
    BY <1>0, <1>2 DEF Response!Tells
  <2>2. /\ Len(r.answers \o told) = Len(r.answers) + Len(told)
        /\ \A i \in 1..Len(r.answers) : (r.answers \o told)[i] = r.answers[i]
        /\ \A i \in 1..Len(told) : (r.answers \o told)[Len(r.answers) + i] = told[i]
    <3>1. PICK S : S = [to : {1, 2}, what : Response!Outcomes]
      OBVIOUS
    <3>2. r.answers \in Seq(S) /\ told \in Seq(S)
      BY <1>1, <1>5, <3>1
    <3>3. PICK p : p = r.answers
      OBVIOUS
    <3>4. p \in Seq(S)
      BY <3>2, <3>3
    <3>5. /\ Len(p \o told) = Len(p) + Len(told)
          /\ \A i \in 1..Len(p) : (p \o told)[i] = p[i]
          /\ \A i \in 1..Len(told) : (p \o told)[Len(p) + i] = told[i]
      BY <3>2, <3>4, Joined
    <3> QED
      BY <3>3, <3>5
  <2>3. Len(r.answers) = m /\ Len(told) = n
    BY <1>3, <1>5
  <2> QED
    BY <2>1, <2>2, <2>3
<1>7. \A i \in (m + 1)..(m + n) : s.answers[i] = told[i - m]
  <2> SUFFICES ASSUME NEW i \in (m + 1)..(m + n) PROVE s.answers[i] = told[i - m]
    OBVIOUS
  <2>1. PICK j \in 1..n : m + j = i /\ j = i - m
    <3>1. i - m \in 1..n /\ m + (i - m) = i
      BY <1>4
    <3> QED
      BY <3>1
  <2>2. s.answers[m + j] = told[j]
    BY <1>6
  <2> QED
    BY <2>1, <2>2
<1>8. PICK l : l = IF r.reader = 2 THEN k ELSE m + n
  OBVIOUS
<1>9. Response!InTurn(s, c, l)
  <2>0. s.reader = r.reader /\ s \in Response!Bodies /\ s.requests = <<>> /\ s.queue = <<>>
          /\ s.state # "readable"
    BY DEF Response!Tells
  <2>1. c \in 0..Len(s.answers) /\ l \in 0..Len(s.answers) /\ (s.reader # 2 => Len(s.answers) = l)
    <3>1. r.reader = 2 => k \in 0..m
      BY <1>3 DEF Response!InTurn
    <3> QED
      BY <1>4, <1>6, <1>8, <2>0, <3>1
  <2>2. ASSUME NEW i \in 1..Len(s.answers), i <= m
        PROVE  s.answers[i].what = Response!Chunk(i) /\ s.answers[i].to = IF i <= l THEN 1 ELSE 2
    <3>1. s.answers[i] = r.answers[i] /\ i \in 1..m /\ i <= c
      BY <1>4, <1>6, <2>2
    <3>2. r.answers[i].what = Response!Chunk(i) /\ r.answers[i].to = IF i <= k THEN 1 ELSE 2
      BY <1>3, <3>1 DEF Response!InTurn
    <3>3. r.reader # 2 => i <= k /\ i <= l
      <4>1. r.reader # 2 => k = m /\ l = m + n
        BY <1>3, <1>8 DEF Response!InTurn
      <4> QED
        BY <1>4, <3>1, <4>1
    <3>4. r.reader = 2 => l = k
      BY <1>8
    <3> QED
      BY <3>1, <3>2, <3>3, <3>4
  <2>3. ASSUME NEW i \in 1..Len(s.answers), i > m
        PROVE  s.answers[i].what = what /\ s.answers[i].to = IF i <= l THEN 1 ELSE 2
    <3>1. i \in (m + 1)..(m + n) /\ i - m \in 1..n
      BY <1>4, <1>6, <2>3
    <3>2. s.answers[i].what = what /\ s.answers[i].to = r.reader
      BY <1>5, <1>7, <3>1
    <3>5. r.reader \in {1, 2}
      <4>1. r.requests[i - m] = r.reader /\ r.requests[i - m] \in {1, 2}
        BY <1>1, <1>3, <3>1 DEF Response!InTurn
      <4> QED
        BY <4>1
    <3>3. r.reader = 2 => ~(i <= l)
      <4>1. r.reader = 2 => l \in 0..m
        BY <1>3, <1>8 DEF Response!InTurn
      <4> QED
        BY <1>4, <3>1, <4>1
    <3>4. r.reader = 1 => i <= l
      BY <1>8, <3>1, <1>4
    <3> QED
      BY <3>2, <3>3, <3>4, <3>5
  <2>4. DOMAIN <<>> = {} /\ Len(<<>>) = 0 /\ 1..0 = {}
    OBVIOUS
  <2>5. \A i \in 1..Len(s.answers) :
          /\ i <= c => s.answers[i].what = Response!Chunk(i)
          /\ i > c => s.answers[i].what = Response!End(s.state)
          /\ s.answers[i].to = IF i <= l THEN 1 ELSE 2
    <3> SUFFICES ASSUME NEW i \in 1..Len(s.answers)
                 PROVE  /\ i <= c => s.answers[i].what = Response!Chunk(i)
                        /\ i > c => s.answers[i].what = Response!End(s.state)
                        /\ s.answers[i].to = IF i <= l THEN 1 ELSE 2
      OBVIOUS
    <3>1. i \in Nat /\ Len(s.answers) \in Nat
      BY <1>4, <1>6
    <3>2. CASE i <= m
      BY <1>4, <2>2, <3>1, <3>2
    <3>3. CASE i > m
      BY <1>0, <1>4, <2>3, <3>1, <3>3
    <3> QED
      BY <1>4, <3>1, <3>2, <3>3
  <2> QED
    BY <2>0, <2>1, <2>4, <2>5 DEF Response!InTurn
<1>10. Response!Outstanding(s) = Response!Outstanding(r)
  <2>1. s.requests = <<>> /\ Len(<<>>) = 0
    BY DEF Response!Tells
  <2>2. Response!Outstanding(s) = (m + n) + 0 /\ Response!Outstanding(r) = m + n
    BY <1>3, <1>6, <2>1 DEF Response!Outstanding
  <2> QED
    BY <1>4, <2>2
<1>11. Len(s.answers) >= Len(r.answers)
  BY <1>3, <1>4, <1>6
<1>12. \A i \in 1..Len(r.answers) : s.answers[i] = r.answers[i]
  BY <1>3, <1>6
<1>13. s.reader = r.reader /\ s.requests = <<>> /\ s.queue = <<>> /\ s.pulling = r.pulling
  BY DEF Response!Tells
<1>14. r.reader = 2 => l = k
  BY <1>8
<1> QED
  BY <1>9, <1>10, <1>11, <1>12, <1>13, <1>14 DEF Response!Ends

\* ReadTo are told what they may be told.
LEMMA ToldIs ==
  ASSUME NEW r, r \in Response!Bodies, NEW what \in Response!Outcomes
  PROVE  r.answers \o Response!Told(r.requests, what) \in Seq([to : {1, 2}, what : Response!Outcomes])
<1>1. PICK S : S = [to : {1, 2}, what : Response!Outcomes]
  OBVIOUS
<1>2. r.requests \in Seq({1, 2}) /\ r.answers \in Seq(S)
  BY <1>1 DEF Response!Bodies
<1>3. PICK n : n = Len(r.requests)
  OBVIOUS
<1>4. n \in Nat /\ \A i \in 1..n : r.requests[i] \in {1, 2}
  BY <1>2, <1>3
<1>5. Response!Told(r.requests, what) = [i \in 1..n |-> [to |-> r.requests[i], what |-> what]]
  BY <1>2, <1>3 DEF Response!Told
<1>6. \A i \in 1..n : [to |-> r.requests[i], what |-> what] \in S
  BY <1>1, <1>4
<1>7. Response!Told(r.requests, what) \in Seq(S)
  BY <1>4, <1>5, <1>6
<1>8. PICK p : p = r.answers
  OBVIOUS
<1>9. p \in Seq(S)
  BY <1>2, <1>8
<1>10. p \o Response!Told(r.requests, what) \in Seq(S)
  BY <1>7, <1>9, Joined
<1> QED
  BY <1>1, <1>8, <1>10

\* A stream that has ended, or is about to, answers its reads and its closed promise.
LEMMA SettleIs ==
  ASSUME NEW r, r \in Response!Bodies, NEW u, u \in Response!Bodies, u.state \in {"closed", "errored"},
         u.requests = r.requests, u.answers = r.answers, u.queue = <<>>, u.reader = r.reader,
         u.pulling = r.pulling, NEW promise \in {"fulfilled", "rejected"}
  PROVE  LET s == Response!Settle(u, promise, Response!End(u.state)) IN
         Response!Tells(r, s) /\ s.state = u.state /\ s.closeRequested = u.closeRequested
<1>0. PICK what : what = Response!End(u.state)
  OBVIOUS
<1>1. what \in Response!Outcomes
  BY <1>0 DEF Response!End, Response!Outcomes
<1>2. PICK answers : answers = u.answers \o Response!Told(u.requests, what)
  OBVIOUS
<1>3. answers \in Seq([to : {1, 2}, what : Response!Outcomes])
  BY <1>1, <1>2, ToldIs
<1>4. PICK s : s = Response!Settle(u, promise, what)
  OBVIOUS
<1>5. s = [u EXCEPT !.closed = IF @ = "pending" THEN promise ELSE @, !.answers = answers, !.requests = <<>>]
  BY <1>2, <1>4 DEF Response!Settle, Response!Bodies
<1>6. /\ s \in Response!Bodies /\ s.state = u.state /\ s.requests = <<>> /\ s.queue = <<>>
      /\ s.answers = answers /\ s.reader = r.reader /\ s.pulling = r.pulling
      /\ s.closeRequested = u.closeRequested
  <2>1. <<>> \in Seq({1, 2})
    OBVIOUS
  <2>2. PICK closed : closed = IF u.closed = "pending" THEN promise ELSE u.closed
    OBVIOUS
  <2>3. closed \in {"none", "pending", "fulfilled", "rejected"}
    BY <2>2 DEF Response!Bodies
  <2>4. s = [u EXCEPT !.closed = closed, !.answers = answers, !.requests = <<>>]
    BY <1>5, <2>2
  <2> QED
    BY <1>3, <2>1, <2>3, <2>4 DEF Response!Bodies
<1>7. answers = r.answers \o Response!Told(r.requests, Response!End(s.state))
  BY <1>0, <1>2, <1>6
<1> QED
  BY <1>0, <1>4, <1>6, <1>7 DEF Response!Tells

\* The controller closes the stream at once if nothing is queued.
LEMMA CloseIs ==
  ASSUME NEW r, NEW c, NEW k, Response!InTurn(r, c, k)
  PROVE  LET s == Response!ControllerClose(r) IN
         \/ ~Response!CanCloseOrEnqueue(r) /\ s = r
         \/ /\ Response!CanCloseOrEnqueue(r) /\ r.queue # <<>> /\ Response!InTurn(s, c, k)
               /\ s.closeRequested
            /\ s.state = "readable" /\ s.reader = r.reader /\ s.pulling = r.pulling /\ s.queue = r.queue
            /\ s.answers = r.answers /\ s.requests = r.requests
         \/ Response!CanCloseOrEnqueue(r) /\ r.queue = <<>> /\ Response!Tells(r, s) /\ s.state = "closed"
<1>1. CASE ~Response!CanCloseOrEnqueue(r)
  BY <1>1 DEF Response!ControllerClose
<1>2. CASE Response!CanCloseOrEnqueue(r) /\ r.queue # <<>>
  <2>1. PICK s : s = [r EXCEPT !.closeRequested = TRUE]
    OBVIOUS
  <2>2. Response!ControllerClose(r) = s
    BY <1>2, <2>1 DEF Response!ControllerClose
  <2>3. r \in Response!Bodies /\ r.state = "readable"
    BY <1>2 DEF Response!InTurn, Response!CanCloseOrEnqueue
  <2>4. /\ s \in Response!Bodies /\ s.closeRequested
        /\ s.state = "readable" /\ s.reader = r.reader /\ s.pulling = r.pulling /\ s.queue = r.queue
        /\ s.answers = r.answers /\ s.requests = r.requests
    BY <2>1, <2>3 DEF Response!Bodies
  <2>5. Response!InTurn(s, c, k)
    BY <2>3, <2>4 DEF Response!InTurn
  <2> QED
    BY <1>2, <2>2, <2>4, <2>5
<1>3. CASE Response!CanCloseOrEnqueue(r) /\ r.queue = <<>>
  <2>1. r \in Response!Bodies
    BY DEF Response!InTurn
  <2>2. PICK u : u = [[r EXCEPT !.closeRequested = TRUE] EXCEPT !.algorithms = FALSE]
    OBVIOUS
  <2>3. PICK w : w = [u EXCEPT !.state = "closed"]
    OBVIOUS
  <2>4. u \in Response!Bodies /\ u.queue = <<>> /\ u.requests = r.requests /\ u.answers = r.answers
        /\ u.reader = r.reader /\ u.pulling = r.pulling
    BY <1>3, <2>1, <2>2 DEF Response!Bodies
  <2>5. w \in Response!Bodies /\ w.queue = <<>> /\ w.requests = r.requests /\ w.answers = r.answers
        /\ w.reader = r.reader /\ w.pulling = r.pulling /\ w.state = "closed"
    BY <2>3, <2>4 DEF Response!Bodies
  <2>6. Response!ControllerClose(r) = Response!Settle(w, "fulfilled", Response!End(w.state))
    BY <1>3, <2>2, <2>3, <2>5 DEF Response!ControllerClose, Response!StreamClose,
      Response!ClearAlgorithms, Response!End
  <2> QED
    BY <1>3, <2>1, <2>5, <2>6, SettleIs
<1> QED
  BY <1>1, <1>2, <1>3

\* An error tells the reads that wait, and empties the queue.
LEMMA ErrorIs ==
  ASSUME NEW r, NEW c, NEW k, Response!InTurn(r, c, k), r.state = "readable"
  PROVE  LET s == Response!ControllerError(r) IN
         Response!Tells(r, s) /\ s.state = "errored" /\ s.closeRequested = r.closeRequested
<1>1. r \in Response!Bodies
  BY DEF Response!InTurn
<1>2. PICK u : u = [[r EXCEPT !.queue = <<>>] EXCEPT !.algorithms = FALSE]
  OBVIOUS
<1>3. PICK w : w = [u EXCEPT !.state = "errored"]
  OBVIOUS
<1>4. u \in Response!Bodies /\ u.queue = <<>> /\ u.requests = r.requests /\ u.answers = r.answers
      /\ u.reader = r.reader /\ u.pulling = r.pulling /\ u.closeRequested = r.closeRequested
  <2>1. <<>> \in Seq([chunk : Nat, size : {1}])
    OBVIOUS
  <2> QED
    BY <1>1, <1>2, <2>1 DEF Response!Bodies
<1>5. w \in Response!Bodies /\ w.queue = <<>> /\ w.requests = r.requests /\ w.answers = r.answers
      /\ w.reader = r.reader /\ w.pulling = r.pulling /\ w.state = "errored"
      /\ w.closeRequested = r.closeRequested
  BY <1>3, <1>4 DEF Response!Bodies
<1>6. Response!ControllerError(r) = Response!Settle(w, "rejected", Response!End(w.state))
  BY <1>2, <1>3, <1>5 DEF Response!ControllerError, Response!StreamError, Response!ClearAlgorithms,
    Response!End
<1> QED
  BY <1>1, <1>5, <1>6, SettleIs

\* Cancelling closes the stream and empties the queue.
LEMMA CancelIs ==
  ASSUME NEW r, NEW c, NEW k, Response!InTurn(r, c, k), r.state = "readable"
  PROVE  LET s == Response!Cancel(r) IN
         Response!Tells(r, s) /\ s.state = "closed" /\ s.closeRequested = r.closeRequested
<1>1. r \in Response!Bodies
  BY DEF Response!InTurn
<1>2. PICK u : u = [r EXCEPT !.disturbed = TRUE]
  OBVIOUS
<1>3. PICK w : w = [u EXCEPT !.state = "closed"]
  OBVIOUS
<1>4. u \in Response!Bodies /\ u.requests = r.requests /\ u.answers = r.answers
      /\ u.reader = r.reader /\ u.pulling = r.pulling /\ u.closeRequested = r.closeRequested
  BY <1>1, <1>2 DEF Response!Bodies
<1>5. w \in Response!Bodies /\ w.requests = r.requests /\ w.answers = r.answers
      /\ w.reader = r.reader /\ w.pulling = r.pulling /\ w.state = "closed"
      /\ w.closeRequested = r.closeRequested
  BY <1>3, <1>4 DEF Response!Bodies
<1>6. PICK x : x = [w EXCEPT !.queue = <<>>]
  OBVIOUS
<1>7. x \in Response!Bodies /\ x.queue = <<>> /\ x.requests = r.requests /\ x.answers = r.answers
      /\ x.reader = r.reader /\ x.pulling = r.pulling /\ x.state = "closed"
      /\ x.closeRequested = r.closeRequested
  <2>1. <<>> \in Seq([chunk : Nat, size : {1}])
    OBVIOUS
  <2> QED
    BY <1>5, <1>6, <2>1 DEF Response!Bodies
<1>8. PICK y : y = Response!Settle(x, "fulfilled", Response!End(x.state))
  OBVIOUS
<1>9. Response!Tells(r, y) /\ y.state = "closed" /\ y.closeRequested = r.closeRequested
  BY <1>1, <1>7, <1>8, SettleIs
<1>10. Response!Cancel(r) = [y EXCEPT !.algorithms = FALSE]
  <2>1. [Response!Settle(w, "fulfilled", Response!Done) EXCEPT !.queue = <<>>] = y
    BY <1>5, <1>6, <1>7, <1>8 DEF Response!Settle, Response!Bodies, Response!End
  <2> QED
    BY <1>2, <1>3, <2>1 DEF Response!Cancel, Response!StreamClose, Response!ClearAlgorithms
<1> QED
  BY <1>9, <1>10 DEF Response!Tells, Response!Bodies

\* A sequence and one more.
LEMMA Appended ==
  ASSUME NEW S, NEW p \in Seq(S), NEW e \in S
  PROVE  /\ Append(p, e) \in Seq(S) /\ Len(Append(p, e)) = Len(p) + 1
         /\ \A i \in 1..Len(p) : Append(p, e)[i] = p[i]
         /\ Append(p, e)[Len(p) + 1] = e
OBVIOUS

\* A stream with one answer more is in turn.
LEMMA AnswerIs ==
  ASSUME NEW r, NEW c, NEW k, Response!InTurn(r, c, k), r.reader \in {1, 2}, NEW what \in Response!Outcomes,
         NEW s, NEW d, Response!OneMore(r, s, c, d, what)
  PROVE  /\ \E l : Response!InTurn(s, d, l) /\ (r.reader = 2 => l = k)
         /\ Response!Outstanding(s) = Response!Outstanding(r) + 1
         /\ Len(s.answers) = Len(r.answers) + 1
         /\ \A i \in 1..Len(r.answers) : s.answers[i] = r.answers[i]
<1>1. /\ r \in Response!Bodies /\ r.answers \in Seq([to : {1, 2}, what : Response!Outcomes]) /\ c \in Nat
      /\ r.requests \in Seq({1, 2}) /\ r.reader \in {0, 1, 2}
  BY DEF Response!InTurn, Response!Bodies
<1>1a. d \in Nat /\ (d = c \/ d = c + 1)
  BY <1>1 DEF Response!OneMore
<1>2. PICK S : S = [to : {1, 2}, what : Response!Outcomes]
  OBVIOUS
<1>3. PICK e : e = [to |-> r.reader, what |-> what]
  OBVIOUS
<1>4. e \in S /\ e.to = r.reader /\ e.what = what
  BY <1>2, <1>3
<1>5. PICK p, m, n : p = r.answers /\ Len(p) = m /\ Len(r.requests) = n
  OBVIOUS
<1>6. p \in Seq(S) /\ m \in Nat /\ n \in Nat
  BY <1>1, <1>2, <1>5
<1>7. /\ Len(s.answers) = m + 1 /\ s.answers[m + 1] = e
      /\ \A i \in 1..m : s.answers[i] = r.answers[i]
  <2>1. s.answers = Append(p, e)
    BY <1>3, <1>5 DEF Response!OneMore
  <2>2. /\ Len(Append(p, e)) = Len(p) + 1 /\ \A i \in 1..Len(p) : Append(p, e)[i] = p[i]
        /\ Append(p, e)[Len(p) + 1] = e
    BY <1>4, <1>6, Appended
  <2> QED
    BY <1>5, <2>1, <2>2
<1>8. Len(r.answers) = m
  BY <1>5
<1>9. PICK l : l = IF r.reader = 2 THEN k ELSE m + 1
  OBVIOUS
<1>10. Response!InTurn(s, d, l)
  <2>1. l \in 0..(m + 1) /\ (s.reader # 2 => m + 1 = l)
    <3>1. r.reader = 2 => k \in 0..m
      BY <1>8 DEF Response!InTurn
    <3>2. s.reader = r.reader
      BY DEF Response!OneMore
    <3> QED
      BY <1>6, <1>9, <3>1, <3>2
  <2>2. d = c \/ d = c + 1
    BY <1>1a
  <2>3. d = c + 1 => m = c
    <3>1. d = c + 1 => r.state = "readable"
      BY <1>1 DEF Response!OneMore
    <3>2. r.state = "readable" => m = c
      BY <1>8 DEF Response!InTurn
    <3> QED
      BY <3>1, <3>2
  <2>4. c <= m
    BY <1>8 DEF Response!InTurn
  <2>5. ASSUME NEW i \in 1..(m + 1)
        PROVE  /\ i <= d => s.answers[i].what = Response!Chunk(i)
               /\ i > d => s.answers[i].what = Response!End(s.state)
               /\ s.answers[i].to = IF i <= l THEN 1 ELSE 2
    <3>1. CASE i = m + 1
      <4>1. s.answers[i].what = what /\ s.answers[i].to = r.reader
        BY <1>4, <1>7, <3>1
      <4>2. d = c + 1 => i = d
        BY <2>3, <3>1
      <4>3. d = c => i > d
        BY <1>1, <1>6, <2>4, <3>1
      <4>4. /\ i <= d => s.answers[i].what = Response!Chunk(i)
            /\ i > d => s.answers[i].what = Response!End(s.state)
        <5>1. CASE d = c
          <6>1. what = Response!End(s.state) /\ ~(i <= d)
            BY <1>1, <1>1a, <1>6, <4>3, <5>1 DEF Response!OneMore
          <6> QED
            BY <4>1, <6>1
        <5>2. CASE d = c + 1
          <6>1. what = Response!Chunk(i) /\ ~(i > d)
            BY <1>1, <1>1a, <4>2, <5>2 DEF Response!OneMore
          <6> QED
            BY <4>1, <6>1
        <5> QED
          BY <2>2, <5>1, <5>2
      <4>5. r.reader = 2 => ~(i <= l)
        <5>1. r.reader = 2 => l \in 0..m
          BY <1>8, <1>9 DEF Response!InTurn
        <5> QED
          BY <1>6, <3>1, <5>1
      <4>6. r.reader = 1 => i <= l
        BY <1>6, <1>9, <3>1
      <4>7. s.answers[i].to = IF i <= l THEN 1 ELSE 2
        BY <4>1, <4>5, <4>6
      <4> QED
        BY <4>4, <4>7
    <3>2. CASE i \in 1..m
      <4>1. s.answers[i] = r.answers[i]
        BY <1>7, <3>2
      <4>2. /\ i <= c => r.answers[i].what = Response!Chunk(i)
            /\ i > c => r.answers[i].what = Response!End(r.state)
            /\ r.answers[i].to = IF i <= k THEN 1 ELSE 2
        BY <1>8, <3>2 DEF Response!InTurn
      <4>3. r.reader # 2 => i <= k /\ i <= l
        <5>1. r.reader # 2 => k = m
          BY <1>8 DEF Response!InTurn
        <5> QED
          BY <1>6, <1>9, <3>2, <5>1
      <4>4. r.reader = 2 => l = k
        BY <1>9
      <4>5. CASE d = c
        <5>1. s.state = r.state
          BY <1>1, <4>5 DEF Response!OneMore
        <5> QED
          BY <4>1, <4>2, <4>3, <4>4, <4>5, <5>1
      <4>6. CASE d = c + 1
        <5>1. i <= c /\ i <= d /\ ~(i > d)
          <6>1. m = c
            BY <2>3, <4>6
          <6>2. i <= m /\ i \in Nat
            BY <1>6, <3>2
          <6> QED
            BY <1>1, <1>1a, <4>6, <6>1, <6>2
        <5> QED
          BY <1>1, <4>1, <4>2, <4>3, <4>4, <5>1
      <4> QED
        BY <2>2, <4>5, <4>6
    <3>3. i = m + 1 \/ i \in 1..m
      BY <1>6
    <3> QED
      BY <3>1, <3>2, <3>3
  <2>6. s.state = "readable" => Len(s.answers) = d
    <3>1. s.state = "readable" => d = c + 1
      BY DEF Response!OneMore
    <3> QED
      BY <1>7, <2>3, <3>1
  <2>7. /\ s.state # "readable" => s.queue = <<>> /\ s.requests = <<>>
        /\ s.requests # <<>> => s.queue = <<>>
        /\ \A i \in 1..Len(s.requests) : s.requests[i] = s.reader
        /\ s.reader = 0 => s.requests = <<>>
    BY DEF Response!InTurn, Response!OneMore
  <2>8. d \in 0..(m + 1)
    BY <1>1, <1>1a, <1>6, <2>4
  <2>9. s \in Response!Bodies /\ \A j \in 1..Len(s.queue) : s.queue[j].chunk = d + j
    BY DEF Response!OneMore
  <2> QED
    BY <1>7, <2>1, <2>5, <2>6, <2>7, <2>8, <2>9 DEF Response!InTurn
<1>11. Response!Outstanding(s) = Response!Outstanding(r) + 1
  <2>1. Response!Outstanding(s) = (m + 1) + n /\ Response!Outstanding(r) = m + n
    BY <1>5, <1>7 DEF Response!Outstanding, Response!OneMore
  <2> QED
    BY <1>6, <2>1
<1>12. Len(s.answers) = Len(r.answers) + 1
  BY <1>7, <1>8
<1>13. \A i \in 1..Len(r.answers) : s.answers[i] = r.answers[i]
  BY <1>7, <1>8
<1>14. r.reader = 2 => l = k
  BY <1>9
<1> QED
  BY <1>10, <1>11, <1>12, <1>13, <1>14

\* A read is answered at once, with the end or the next chunk, or waits (default_reader.rs).
LEMMA ReadIs ==
  ASSUME NEW r, NEW c, NEW k, Response!InTurn(r, c, k), r.reader \in {1, 2}
  PROVE  Response!ReadTo(r, Response!Read(r, r.reader), c, k)
<1>1. /\ r \in Response!Bodies /\ c \in Nat /\ r.state \in {"readable", "closed", "errored"}
      /\ r.answers \in Seq([to : {1, 2}, what : Response!Outcomes]) /\ r.requests \in Seq({1, 2})
      /\ r.queue \in Seq([chunk : Nat, size : {1}])
  BY DEF Response!InTurn, Response!Bodies
<1>2. PICK seen : seen = [r EXCEPT !.disturbed = TRUE]
  OBVIOUS
<1>3. /\ seen \in Response!Bodies /\ seen.state = r.state /\ seen.requests = r.requests
      /\ seen.answers = r.answers /\ seen.queue = r.queue /\ seen.reader = r.reader
      /\ seen.pulling = r.pulling /\ seen.closeRequested = r.closeRequested
  BY <1>1, <1>2 DEF Response!Bodies
<1>4. PICK s : s = Response!Read(r, r.reader)
  OBVIOUS
<1>5. CASE r.state # "readable"
  <2>1. PICK what : what = Response!End(r.state)
    OBVIOUS
  <2>2. what \in Response!Outcomes
    BY <2>1 DEF Response!End, Response!Outcomes
  <2>3. PICK e : e = [to |-> r.reader, what |-> what]
    OBVIOUS
  <2>4. s = [seen EXCEPT !.answers = @ \o <<e>>]
    <3>1. Response!Told(<<r.reader>>, what) = <<e>>
      BY <2>3 DEF Response!Told
    <3> QED
      BY <1>1, <1>2, <1>4, <1>5, <2>1, <3>1 DEF Response!Read, Response!End
  <2>5. e \in [to : {1, 2}, what : Response!Outcomes]
    BY <2>2, <2>3
  <2>6. Append(r.answers, e) \in Seq([to : {1, 2}, what : Response!Outcomes])
          /\ r.answers \o <<e>> = Append(r.answers, e)
    <3>1. PICK S : S = [to : {1, 2}, what : Response!Outcomes]
      OBVIOUS
    <3>2. PICK p : p = r.answers
      OBVIOUS
    <3>3. p \in Seq(S) /\ e \in S
      BY <1>1, <2>5, <3>1, <3>2
    <3>4. Append(p, e) \in Seq(S) /\ p \o <<e>> = Append(p, e)
      BY <3>3
    <3> QED
      BY <3>1, <3>2, <3>4
  <2>7. s = [seen EXCEPT !.answers = Append(r.answers, e)]
    BY <1>3, <2>4, <2>6 DEF Response!Bodies
  <2>8. /\ s \in Response!Bodies /\ s.answers = Append(r.answers, e) /\ s.requests = r.requests
        /\ s.reader = r.reader /\ s.state = r.state /\ s.queue = r.queue
        /\ s.pulling = r.pulling /\ s.closeRequested = r.closeRequested
    BY <1>3, <2>6, <2>7 DEF Response!Bodies
  <2>9. r.queue = <<>>
    BY <1>5 DEF Response!InTurn
  <2>10. Response!OneMore(r, s, c, c, what)
    BY <1>5, <2>1, <2>3, <2>8, <2>9 DEF Response!OneMore
  <2>11. /\ \E l : Response!InTurn(s, c, l) /\ (r.reader = 2 => l = k)
         /\ Response!Outstanding(s) = Response!Outstanding(r) + 1
         /\ Len(s.answers) = Len(r.answers) + 1
         /\ \A i \in 1..Len(r.answers) : s.answers[i] = r.answers[i]
    BY <2>2, <2>10, AnswerIs
  <2>12. Len(s.answers) >= Len(r.answers)
    <3>1. PICK m : Len(r.answers) = m
      OBVIOUS
    <3>2. m \in Nat /\ Len(s.answers) = m + 1
      BY <1>1, <2>11, <3>1
    <3> QED
      BY <3>1, <3>2
  <2> QED
    BY <1>4, <2>8, <2>11, <2>12 DEF Response!ReadTo
<1>6. CASE r.state = "readable" /\ r.queue = <<>>
  <2>1. PICK t : t = [seen EXCEPT !.requests = Append(@, r.reader)]
    OBVIOUS
  <2>2. s = Response!CallPullWith(t, t.requests)
    BY <1>2, <1>3, <1>4, <1>6, <2>1 DEF Response!Read, Response!PullSteps, Response!CallPullIfNeeded
  <2>3. /\ Append(r.requests, r.reader) \in Seq({1, 2})
        /\ Len(Append(r.requests, r.reader)) = Len(r.requests) + 1
        /\ \A i \in 1..Len(r.requests) : Append(r.requests, r.reader)[i] = r.requests[i]
        /\ Append(r.requests, r.reader)[Len(r.requests) + 1] = r.reader
    BY <1>1, Appended
  <2>4. /\ t \in Response!Bodies /\ t.answers = r.answers /\ t.requests = Append(r.requests, r.reader)
        /\ t.reader = r.reader /\ t.state = r.state /\ t.queue = r.queue
        /\ t.pulling = r.pulling /\ t.closeRequested = r.closeRequested
    BY <1>3, <2>1, <2>3 DEF Response!Bodies
  <2>5. Response!InTurn(t, c, k)
    <3>1. \A i \in 1..Len(t.requests) : t.requests[i] = t.reader
      <4> SUFFICES ASSUME NEW i \in 1..Len(t.requests) PROVE t.requests[i] = r.reader
        BY <2>4
      <4>1. i \in 1..Len(r.requests) \/ i = Len(r.requests) + 1
        BY <1>1, <2>3, <2>4
      <4>2. CASE i \in 1..Len(r.requests)
        BY <2>3, <2>4, <4>2 DEF Response!InTurn
      <4>3. CASE i = Len(r.requests) + 1
        BY <2>3, <2>4, <4>3
      <4> QED
        BY <4>1, <4>2, <4>3
    <3> QED
      BY <1>6, <2>4, <3>1 DEF Response!InTurn
  <2>6. Response!SameReads(t, s) /\ (t.pulling => s.pulling)
          /\ (s.pulling => t.pulling \/ Response!CanCloseOrEnqueue(t))
    BY <2>2, <2>4, CallPullIs
  <2>7. Response!InTurn(s, c, k) /\ Response!Outstanding(s) = Response!Outstanding(t)
    BY <2>5, <2>6, SameIsInTurn
  <2>8. Response!Outstanding(t) = Response!Outstanding(r) + 1
    <3>1. PICK m, n : Len(r.answers) = m /\ Len(r.requests) = n
      OBVIOUS
    <3>2. m \in Nat /\ n \in Nat
      BY <1>1, <3>1
    <3>3. Response!Outstanding(t) = m + (n + 1) /\ Response!Outstanding(r) = m + n
      BY <2>3, <2>4, <3>1 DEF Response!Outstanding
    <3> QED
      BY <3>2, <3>3
  <2>9. /\ s.answers = r.answers /\ s.reader = r.reader /\ s.closeRequested = r.closeRequested
        /\ s.state = r.state /\ s.queue = r.queue
    BY <2>4, <2>6 DEF Response!SameReads
  <2>10. Response!CanCloseOrEnqueue(t) <=> Response!CanCloseOrEnqueue(r)
    BY <2>4 DEF Response!CanCloseOrEnqueue
  <2>11. Len(s.answers) >= Len(r.answers)
    BY <1>1, <2>9
  <2>12. \E d, l : Response!InTurn(s, d, l) /\ (r.reader = 2 => l = k)
           /\ d + Len(s.queue) = c + Len(r.queue)
    BY <2>7, <2>9
  <2> QED
    BY <1>4, <2>4, <2>6, <2>7, <2>8, <2>9, <2>10, <2>11, <2>12 DEF Response!ReadTo
<1>7. CASE r.state = "readable" /\ r.queue # <<>>
  <2>1. PICK taken : taken = [seen EXCEPT !.queue = Tail(@)]
    OBVIOUS
  <2>2. PICK next : next = IF r.closeRequested /\ taken.queue = <<>>
                           THEN Response!StreamClose(Response!ClearAlgorithms(taken)) ELSE Response!CallPullWith(taken, taken.requests)
    OBVIOUS
  <2>3. PICK what : what = Response!Chunk(c + 1)
    OBVIOUS
  <2>4. /\ Head(r.queue).chunk = c + 1 /\ Len(r.queue) \in Nat \ {0}
        /\ Tail(r.queue) \in Seq([chunk : Nat, size : {1}]) /\ Len(Tail(r.queue)) = Len(r.queue) - 1
        /\ \A j \in 1..Len(Tail(r.queue)) : Tail(r.queue)[j] = r.queue[j + 1]
    <3>1. r.queue[1].chunk = c + 1
      BY <1>1, <1>7 DEF Response!InTurn
    <3> QED
      BY <1>1, <1>7, <3>1
  <2>5. s = [next EXCEPT !.answers = Append(@, [to |-> r.reader, what |-> what])]
    <3>1. s = Response!PullSteps(seen, r.reader)
      BY <1>2, <1>4, <1>7 DEF Response!Read
    <3>2. seen.queue # <<>> /\ seen.closeRequested = r.closeRequested /\ Head(seen.queue) = Head(r.queue)
      BY <1>3, <1>7
    <3>3. s = [next EXCEPT !.answers = Append(@, [to |-> r.reader, what |-> Response!Chunk(Head(seen.queue).chunk)])]
      BY <2>1, <2>2, <3>1, <3>2 DEF Response!PullSteps, Response!CallPullIfNeeded
    <3>4. Response!Chunk(Head(seen.queue).chunk) = what
      BY <2>3, <2>4, <3>2
    <3> QED
      BY <3>3, <3>4
  <2>6. /\ taken \in Response!Bodies /\ taken.answers = r.answers /\ taken.requests = r.requests
        /\ taken.reader = r.reader /\ taken.state = r.state /\ taken.queue = Tail(r.queue)
        /\ taken.pulling = r.pulling /\ taken.closeRequested = r.closeRequested
    BY <1>3, <2>1, <2>4 DEF Response!Bodies
  <2>7. r.requests = <<>>
    BY <1>7 DEF Response!InTurn
  <2>8. /\ next \in Response!Bodies /\ next.answers = r.answers /\ next.requests = r.requests
        /\ next.reader = r.reader /\ next.queue = Tail(r.queue)
        /\ next.closeRequested = r.closeRequested
        /\ next.state # "readable" => next.queue = <<>>
        /\ next.state # r.state => r.closeRequested /\ next.state = "closed"
        /\ r.pulling => next.pulling
        /\ next.pulling => r.pulling \/ Response!CanCloseOrEnqueue(r)
    <3>1. CASE r.closeRequested /\ taken.queue = <<>>
      <4>1. PICK u : u = [[taken EXCEPT !.algorithms = FALSE] EXCEPT !.state = "closed"]
        OBVIOUS
      <4>2. /\ u \in Response!Bodies /\ u.queue = <<>> /\ u.requests = r.requests /\ u.answers = r.answers
            /\ u.reader = r.reader /\ u.pulling = r.pulling /\ u.state = "closed"
            /\ u.closeRequested = r.closeRequested
        BY <2>6, <3>1, <4>1 DEF Response!Bodies
      <4>3. next = Response!Settle(u, "fulfilled", Response!End(u.state))
        BY <2>2, <3>1, <4>1, <4>2 DEF Response!StreamClose, Response!ClearAlgorithms, Response!End
      <4>4. Response!Tells(r, next) /\ next.state = "closed" /\ next.closeRequested = r.closeRequested
        BY <1>1, <4>2, <4>3, SettleIs
      <4>5. next.answers = r.answers
        <5>1. Response!Told(r.requests, Response!Done) = <<>>
          BY <2>7 DEF Response!Told
        <5>2. next.answers = r.answers \o <<>>
          BY <4>4, <5>1 DEF Response!Tells, Response!End
        <5> QED
          BY <1>1, <5>2
      <4> QED
        BY <2>6, <2>7, <3>1, <4>4, <4>5 DEF Response!Tells
    <3>2. CASE ~(r.closeRequested /\ taken.queue = <<>>)
      <4>1. next = Response!CallPullWith(taken, taken.requests)
        BY <2>2, <3>2
      <4>2. /\ Response!SameReads(taken, next) /\ (taken.pulling => next.pulling)
            /\ (next.pulling => taken.pulling \/ Response!CanCloseOrEnqueue(taken))
        BY <2>6, <4>1, CallPullIs
      <4>3. Response!CanCloseOrEnqueue(taken) <=> Response!CanCloseOrEnqueue(r)
        BY <2>6 DEF Response!CanCloseOrEnqueue
      <4> QED
        BY <1>7, <2>6, <4>2, <4>3 DEF Response!SameReads
    <3> QED
      BY <3>1, <3>2
  <2>9. PICK e : e = [to |-> r.reader, what |-> what]
    OBVIOUS
  <2>10. what \in Response!Outcomes /\ e \in [to : {1, 2}, what : Response!Outcomes]
    BY <1>1, <2>3, <2>9 DEF Response!Outcomes
  <2>11. Append(r.answers, e) \in Seq([to : {1, 2}, what : Response!Outcomes])
    BY <1>1, <2>10
  <2>12. s = [next EXCEPT !.answers = Append(r.answers, e)]
    BY <2>5, <2>8, <2>9 DEF Response!Bodies
  <2>13. /\ s \in Response!Bodies /\ s.answers = Append(r.answers, e) /\ s.requests = r.requests
         /\ s.reader = r.reader /\ s.state = next.state /\ s.queue = Tail(r.queue)
         /\ s.pulling = next.pulling /\ s.closeRequested = r.closeRequested
    BY <2>8, <2>11, <2>12 DEF Response!Bodies
  <2>14. \A j \in 1..Len(s.queue) : s.queue[j].chunk = (c + 1) + j
    <3> SUFFICES ASSUME NEW j \in 1..Len(Tail(r.queue)) PROVE Tail(r.queue)[j].chunk = (c + 1) + j
      BY <2>13
    <3>1. j + 1 \in 1..Len(r.queue) /\ Tail(r.queue)[j] = r.queue[j + 1] /\ j \in Nat
      BY <2>4
    <3>2. r.queue[j + 1].chunk = c + (j + 1)
      BY <3>1 DEF Response!InTurn
    <3>3. c + (j + 1) = (c + 1) + j
      BY <1>1, <3>1
    <3> QED
      BY <3>1, <3>2, <3>3
  <2>15. Response!OneMore(r, s, c, c + 1, what)
    BY <1>7, <2>3, <2>7, <2>8, <2>9, <2>13, <2>14 DEF Response!OneMore
  <2>16. /\ \E l : Response!InTurn(s, c + 1, l) /\ (r.reader = 2 => l = k)
         /\ Response!Outstanding(s) = Response!Outstanding(r) + 1
         /\ Len(s.answers) = Len(r.answers) + 1
         /\ \A i \in 1..Len(r.answers) : s.answers[i] = r.answers[i]
    BY <2>10, <2>15, AnswerIs
  <2>17. Len(s.answers) >= Len(r.answers)
    <3>1. PICK m : Len(r.answers) = m
      OBVIOUS
    <3>2. m \in Nat /\ Len(s.answers) = m + 1
      BY <1>1, <2>16, <3>1
    <3> QED
      BY <3>1, <3>2
  <2>18. (c + 1) + Len(s.queue) = c + Len(r.queue)
    <3>1. PICK n : Len(r.queue) = n
      OBVIOUS
    <3>2. n \in Nat /\ Len(s.queue) = n - 1
      BY <2>4, <2>13, <3>1
    <3> QED
      BY <1>1, <3>1, <3>2
  <2>19. \E d, l : Response!InTurn(s, d, l) /\ (r.reader = 2 => l = k)
           /\ d + Len(s.queue) = c + Len(r.queue)
    BY <2>16, <2>18
  <2>20. /\ s.state # r.state => r.closeRequested /\ s.state = "closed"
         /\ r.pulling => s.pulling
         /\ s.pulling => r.pulling \/ Response!CanCloseOrEnqueue(r)
    BY <2>8, <2>13
  <2> QED
    BY <1>4, <1>7, <2>13, <2>16, <2>17, <2>19, <2>20 DEF Response!ReadTo
<1> QED
  BY <1>5, <1>6, <1>7

-----------------------------------------------------------------------------
(* The body of a response *)

LEMMA ResponseInit == Response!Init => Response!FetchInv
<1> SUFFICES ASSUME Response!Init PROVE Response!FetchInv
  OBVIOUS
<1>1. /\ net = [live |-> TRUE, pos |-> 0, ended |-> "no"]
      /\ response = [used |-> FALSE, vended |-> FALSE]
      /\ body = Response!NewReadable(1) /\ task = "none" /\ cancel = "no"
      /\ text = [at |-> "idle", got |-> <<>>, read |-> 0]
  BY DEF Response!Init
<1>2. Response!InTurn(body, 0, 0)
  BY <1>1, NewIsInTurn
<1>3. /\ body.answers = <<>> /\ body.queue = <<>> /\ body.reader = 0 /\ body.state = "readable"
      /\ ~body.closeRequested
  BY <1>1 DEF Response!NewReadable, Response!NoReader
<1>4. Response!FetchTypeOK
  BY <1>1 DEF Response!FetchTypeOK
<1>5. Response!PullsAreOfTheStream
  BY <1>1, <1>3 DEF Response!PullsAreOfTheStream, Response!NoReader, Response!CanCloseOrEnqueue
<1>6. Response!TextIsRead
  BY <1>1, <1>3, BodiesAssumption DEF Response!TextIsRead, Response!Drained, Response!Drainer
<1>7. Response!OfStream(0)
  BY <1>1, <1>3 DEF Response!OfStream
<1>8. Response!BodyIs(0, 0)
  BY <1>1, <1>2, <1>3, <1>7 DEF Response!BodyIs, Response!Drained, Response!Drainer
<1> QED
  BY <1>4, <1>5, <1>6, <1>8 DEF Response!FetchInv

\* A step of the stream that neither takes in a chunk nor is told of the end.
StreamGoes(c, d) ==
    /\ body'.closeRequested = body.closeRequested
    /\ body'.state # body.state =>
          body.state = "readable" /\ body.closeRequested /\ body'.state = "closed"
    /\ d + Len(body'.queue) = c + Len(body.queue)

\* What a stream in turn holds is counted.
LEMMA LengthsOf ==
  ASSUME NEW r, NEW c, NEW k, Response!InTurn(r, c, k)
  PROVE  /\ c \in Nat /\ k \in Nat /\ Len(r.answers) \in Nat /\ Len(r.requests) \in Nat
            /\ Len(r.queue) \in Nat
         /\ r.state \in {"readable", "closed", "errored"} /\ r.closeRequested \in BOOLEAN
         /\ r.reader \in {0, 1, 2}
         /\ r.state # "readable" => r.queue = <<>>
         /\ r.queue = <<>> <=> Len(r.queue) = 0
         /\ r.reader # 2 => Len(r.answers) = k
         /\ Response!Outstanding(r) \in Nat /\ Response!Outstanding(r) >= Len(r.answers)
<1>1. /\ r \in Response!Bodies /\ c \in 0..Len(r.answers) /\ k \in 0..Len(r.answers)
      /\ r.state # "readable" => r.queue = <<>>
      /\ r.reader # 2 => Len(r.answers) = k
  BY DEF Response!InTurn
<1>2. /\ r.answers \in Seq([to : {1, 2}, what : Response!Outcomes]) /\ r.requests \in Seq({1, 2})
      /\ r.queue \in Seq([chunk : Nat, size : {1}])
      /\ r.state \in {"readable", "closed", "errored"} /\ r.closeRequested \in BOOLEAN
      /\ r.reader \in {0, 1, 2}
  BY <1>1 DEF Response!Bodies
<1>3. PICK m, n : Len(r.answers) = m /\ Len(r.requests) = n
  OBVIOUS
<1>4. m \in Nat /\ n \in Nat
  BY <1>2, <1>3
<1>5. Response!Outstanding(r) = m + n
  BY <1>3 DEF Response!Outstanding
<1>6. Response!Outstanding(r) \in Nat /\ Response!Outstanding(r) >= m
  BY <1>4, <1>5
<1>7. Len(r.queue) \in Nat /\ (r.queue = <<>> <=> Len(r.queue) = 0)
  BY <1>2
<1> QED
  BY <1>1, <1>2, <1>3, <1>4, <1>6, <1>7

\* A step that leaves where the chunks are leaves the body as it is.
LEMMA StreamStays ==
  ASSUME Response!FetchTypeOK, net.ended # "no" => ~net.live,
         NEW c, NEW k, Response!InTurn(body, c, k), NEW d, NEW l, Response!InTurn(body', d, l),
         Response!OfStream(c), StreamGoes(c, d), UNCHANGED <<net, cancel>>
  PROVE  Response!OfStream(d)'
<1>1. /\ c \in Nat /\ Len(body.queue) \in Nat /\ body.state \in {"readable", "closed", "errored"}
      /\ body.state # "readable" => Len(body.queue) = 0
  BY LengthsOf
<1>2. /\ d \in Nat /\ Len(body'.queue) \in Nat /\ body'.state \in {"readable", "closed", "errored"}
      /\ body'.state # "readable" => Len(body'.queue) = 0
  BY LengthsOf
<1>3. PICK m, n : Len(body.queue) = m /\ Len(body'.queue) = n
  OBVIOUS
<1>4. m \in Nat /\ n \in Nat /\ d + n = c + m /\ net.pos \in Nat
  BY <1>1, <1>2, <1>3 DEF StreamGoes, Response!FetchTypeOK
<1>5. body'.state = "readable" => body.state = "readable" /\ d + n = net.pos
  BY <1>1, <1>2, <1>3, <1>4 DEF StreamGoes, Response!OfStream
<1>6. body'.state = "closed" /\ cancel = "no" => net.ended = "clean" /\ d = net.pos
  <2> SUFFICES ASSUME body'.state = "closed", cancel = "no" PROVE net.ended = "clean" /\ d = net.pos
    OBVIOUS
  <2>0. n = 0
    BY <1>2, <1>3
  <2>1. CASE body.state = "closed"
    <3>1. net.ended = "clean" /\ c = net.pos /\ m = 0
      BY <1>1, <1>3, <2>1 DEF Response!OfStream
    <3>2. d = c
      <4>1. d + 0 = c + 0
        BY <1>4, <2>0, <3>1
      <4> QED
        BY <1>1, <1>2, <4>1
    <3> QED
      BY <3>1, <3>2
  <2>2. CASE body.state # "closed"
    <3>1. body.state = "readable" /\ body.closeRequested
      BY <2>2 DEF StreamGoes
    <3>2. net.ended = "clean" /\ c + m = net.pos
      BY <1>3, <3>1 DEF Response!OfStream
    <3>3. d + 0 = net.pos
      BY <1>4, <2>0, <3>2
    <3> QED
      BY <1>2, <3>2, <3>3
  <2> QED
    BY <2>1, <2>2
<1>7. body'.state = "readable" /\ body'.closeRequested => net.ended = "clean"
  BY <1>5 DEF Response!OfStream, StreamGoes
<1>8. net.ended # "no" => ~(body'.state = "readable" /\ ~body'.closeRequested)
  BY <1>5 DEF Response!OfStream, StreamGoes, Response!CanCloseOrEnqueue
<1>9. net.live /\ body'.state # "readable" => cancel = "missed"
  BY DEF Response!OfStream, StreamGoes
<1> QED
  BY <1>3, <1>5, <1>6, <1>7, <1>8, <1>9 DEF Response!OfStream, Response!CanCloseOrEnqueue

\* Such a step, of a stream that text() does not read.
LEMMA StreamKeeps ==
  ASSUME Response!FetchInv, response.vended, UNCHANGED <<net, response, text, cancel>>,
         NEW c, NEW k, Response!BodyIs(c, k), NEW d, NEW l, Response!InTurn(body', d, l), StreamGoes(c, d),
         Response!Drained' <=> Response!Drained,
         Response!Drained => d = c /\ l = k /\ Response!Outstanding(body') = Response!Outstanding(body)
           /\ body'.state = body.state,
         task' \in {"none", "spawned", "settled"} \/ task' = task
  PROVE  Response!FetchInv'
<1>0. Response!FetchTypeOK /\ Response!PullsAreOfTheStream /\ Response!TextIsRead
  BY DEF Response!FetchInv
<1>1. Response!InTurn(body, c, k) /\ c \in Nat /\ k \in Nat /\ d \in Nat /\ l \in Nat
  BY LengthsOf DEF Response!BodyIs
<1>2. Response!FetchTypeOK'
  BY <1>0 DEF Response!FetchTypeOK
<1>3. body'.state = "readable" => body.state = "readable"
  BY DEF StreamGoes
<1>4. Response!PullsAreOfTheStream'
  BY <1>0, <1>3 DEF Response!PullsAreOfTheStream
<1>5. Response!TextIsRead'
  BY <1>0 DEF Response!TextIsRead
<1>6. ASSUME response.used /\ ~Response!Drained PROVE Response!OfSocket(d)'
  <2>1. Response!OfSocket(c)
    BY <1>6 DEF Response!BodyIs
  <2>2. /\ Len(body.queue) = 0 /\ c = 0 /\ Len(body'.queue) \in Nat
        /\ body'.queue = <<>> <=> Len(body'.queue) = 0
    BY <1>1, <2>1, LengthsOf DEF Response!OfSocket
  <2>3. PICK n : n = Len(body'.queue)
    OBVIOUS
  <2>4. d = 0 /\ n = 0
    BY <1>1, <2>2, <2>3 DEF StreamGoes
  <2> QED
    BY <2>1, <2>2, <2>3, <2>4 DEF Response!OfSocket
<1>7. ASSUME ~(response.used /\ ~Response!Drained) PROVE Response!OfStream(d)'
  <2>1. Response!OfStream(c)
    BY <1>7 DEF Response!BodyIs
  <2> QED
    BY <1>0, <1>1, <2>1, StreamStays DEF Response!PullsAreOfTheStream
<1>8. ASSUME Response!Drained PROVE Response!DrainedFrom(d, l)'
  <2>1. Response!DrainedFrom(c, k)
    BY <1>8 DEF Response!BodyIs
  <2> QED
    BY <1>8, <2>1 DEF Response!DrainedFrom
<1>9. Response!BodyIs(d, l)'
  BY <1>6, <1>7, <1>8 DEF Response!BodyIs
<1> QED
  BY <1>1, <1>2, <1>4, <1>5, <1>9 DEF Response!FetchInv

LEMMA BodyIsThere ==
  ASSUME Response!FetchInv
  PROVE  \E c, k \in Nat : Response!BodyIs(c, k) /\ Response!InTurn(body, c, k)
BY DEF Response!FetchInv, Response!BodyIs

LEMMA BodyGiven == ASSUME Response!FetchInv, Response!Body PROVE Response!FetchInv'
<1>1. /\ text.at \in {"idle", "resolved", "rejected"} /\ response' = [response EXCEPT !.vended = TRUE]
      /\ UNCHANGED <<net, body, task, text, reads, cancel>>
  BY DEF Response!Body, Response!Free
<1>2. PICK c, k \in Nat : Response!BodyIs(c, k)
  BY BodyIsThere
<1>3. Response!FetchTypeOK /\ Response!PullsAreOfTheStream /\ Response!TextIsRead
  BY DEF Response!FetchInv
<1>4. response'.vended /\ response'.used = response.used
  BY <1>1, <1>3 DEF Response!FetchTypeOK
<1>5. Response!FetchTypeOK'
  BY <1>1, <1>3 DEF Response!FetchTypeOK
<1>6. Response!PullsAreOfTheStream'
  BY <1>1, <1>3, <1>4 DEF Response!PullsAreOfTheStream
<1>7. Response!TextIsRead'
  BY <1>1, <1>3, <1>4 DEF Response!TextIsRead, Response!Drained
<1>8. Response!BodyIs(c, k)'
  BY <1>1, <1>2, <1>4 DEF Response!BodyIs, Response!OfStream, Response!OfSocket, Response!DrainedFrom,
    Response!Drained
<1> QED
  BY <1>5, <1>6, <1>7, <1>8 DEF Response!FetchInv

LEMMA BodyStarts == ASSUME Response!FetchInv, Response!StreamStarts PROVE Response!FetchInv'
<1>1. /\ response.vended /\ body' = Response!StartFulfilled(body)
         /\ UNCHANGED <<net, response, text, cancel>>
      /\ task' = "spawned" \/ task' = task
  BY DEF Response!StreamStarts, Response!Becomes
<1>2. PICK c, k \in Nat : Response!BodyIs(c, k) /\ Response!InTurn(body, c, k)
  BY BodyIsThere
<1>3. Response!InTurn(body', c, k) /\ Response!SameReads(body, body')
  BY <1>1, <1>2, StartIs
<1>4. Response!Outstanding(body') = Response!Outstanding(body)
  BY <1>2, <1>3, SameIsInTurn
<1>5. StreamGoes(c, c) /\ (Response!Drained' <=> Response!Drained) /\ body'.state = body.state
  BY <1>3 DEF Response!SameReads, StreamGoes, Response!Drained
<1> QED
  BY <1>1, <1>2, <1>3, <1>4, <1>5, StreamKeeps

LEMMA BodyPulled == ASSUME Response!FetchInv, Response!PullSettles PROVE Response!FetchInv'
<1>1. /\ task = "settled" /\ body' = Response!PullFulfilled(body)
         /\ UNCHANGED <<net, response, text, cancel>>
      /\ task' \in {"none", "spawned"}
  BY DEF Response!PullSettles
<1>2. PICK c, k \in Nat : Response!BodyIs(c, k) /\ Response!InTurn(body, c, k)
  BY BodyIsThere
<1>3. Response!InTurn(body', c, k) /\ Response!SameReads(body, body')
  BY <1>1, <1>2, PullEndIs
<1>4. Response!Outstanding(body') = Response!Outstanding(body)
  BY <1>2, <1>3, SameIsInTurn
<1>5. StreamGoes(c, c) /\ (Response!Drained' <=> Response!Drained) /\ body'.state = body.state
  BY <1>3 DEF Response!SameReads, StreamGoes, Response!Drained
<1>6. response.vended
  BY <1>1 DEF Response!FetchInv, Response!PullsAreOfTheStream
<1> QED
  BY <1>1, <1>2, <1>3, <1>4, <1>5, <1>6, StreamKeeps

LEMMA ReaderGot == ASSUME Response!FetchInv, Response!GetReader PROVE Response!FetchInv'
<1>1. /\ response.vended /\ ~Response!Locked(body) /\ body' = Response!AcquireReader(body, 1)
      /\ UNCHANGED <<net, response, task, text, cancel>>
  BY DEF Response!GetReader, Response!Script
<1>2. PICK c, k \in Nat : Response!BodyIs(c, k) /\ Response!InTurn(body, c, k)
  BY BodyIsThere
<1>3. /\ Response!InTurn(body', c, k) /\ body'.reader = 1 /\ body'.queue = body.queue
      /\ body'.state = body.state /\ body'.closeRequested = body.closeRequested
  BY <1>1, <1>2, AcquireIs
<1>4. StreamGoes(c, c) /\ ~Response!Drained' /\ ~Response!Drained
  BY <1>1, <1>3 DEF StreamGoes, Response!Drained, Response!Drainer, Response!Locked, Response!NoReader
<1> QED
  BY <1>1, <1>2, <1>3, <1>4, StreamKeeps

\* The script has a reader of a stream it has.
LEMMA ScriptReads ==
  ASSUME Response!FetchInv, body.reader = Response!Script
  PROVE  response.vended /\ ~Response!Drained
BY DEF Response!FetchInv, Response!PullsAreOfTheStream, Response!Script, Response!NoReader,
  Response!Drained, Response!Drainer

LEMMA LockReleased == ASSUME Response!FetchInv, Response!ReleaseLock PROVE Response!FetchInv'
<1>1. /\ response.vended /\ ~Response!Drained /\ body.reader = 1 /\ body' = Response!ReleaseReader(body)
      /\ UNCHANGED <<net, response, task, text, cancel>>
  BY ScriptReads DEF Response!ReleaseLock, Response!Script
<1>2. PICK c, k \in Nat : Response!BodyIs(c, k) /\ Response!InTurn(body, c, k)
  BY BodyIsThere
<1>3. /\ Response!InTurn(body', c, k) /\ body'.reader = 0 /\ body'.queue = body.queue
      /\ body'.state = body.state /\ body'.closeRequested = body.closeRequested
  BY <1>1, <1>2, ReleaseIs
<1>4. StreamGoes(c, c) /\ ~Response!Drained'
  BY <1>1, <1>3 DEF StreamGoes, Response!Drained, Response!Drainer
<1> QED
  BY <1>1, <1>2, <1>3, <1>4, StreamKeeps

LEMMA ReadMade == ASSUME Response!FetchInv, Response!ReadCall PROVE Response!FetchInv'
<1>1. /\ response.vended /\ ~Response!Drained /\ body.reader = 1 /\ body' = Response!Read(body, 1)
      /\ UNCHANGED <<net, response, text, cancel>> /\ (task' = "spawned" \/ task' = task)
  BY ScriptReads DEF Response!ReadCall, Response!Becomes, Response!Script
<1>2. PICK c, k \in Nat : Response!BodyIs(c, k) /\ Response!InTurn(body, c, k)
  BY BodyIsThere
<1>3. Response!ReadTo(body, body', c, k)
  BY <1>1, <1>2, ReadIs
<1>4. PICK d, l : Response!InTurn(body', d, l) /\ d + Len(body'.queue) = c + Len(body.queue)
  BY <1>3 DEF Response!ReadTo
<1>5. StreamGoes(c, d) /\ ~Response!Drained'
  BY <1>1, <1>3, <1>4 DEF Response!ReadTo, StreamGoes, Response!Drained, Response!Drainer
<1> QED
  BY <1>1, <1>2, <1>4, <1>5, StreamKeeps

LEMMA StreamCancelled == ASSUME Response!FetchInv, Response!CancelCall PROVE Response!FetchInv'
<1>1. /\ response.vended /\ ~Response!Drained /\ body.state = "readable" /\ body' = Response!Cancel(body)
      /\ UNCHANGED <<response, task, text>>
      /\ IF task = "holding" THEN cancel' = "missed" /\ UNCHANGED net
         ELSE cancel' = "freed" /\ net' = [net EXCEPT !.live = FALSE]
  BY DEF Response!CancelCall, Response!Drained
<1>2. PICK c, k \in Nat : Response!BodyIs(c, k) /\ Response!InTurn(body, c, k)
  BY BodyIsThere
<1>3. Response!FetchTypeOK /\ Response!PullsAreOfTheStream /\ Response!TextIsRead
  BY DEF Response!FetchInv
<1>4. Response!Tells(body, body') /\ body'.state = "closed"
  BY <1>1, <1>2, CancelIs
<1>5. PICK l : Response!Ends(body, body', c, l)
  BY <1>1, <1>2, <1>4, TellIs
<1>6. Response!InTurn(body', c, l) /\ l \in Nat /\ body'.queue = <<>> /\ ~Response!Drained'
  BY <1>1, <1>5, LengthsOf DEF Response!Ends, Response!Drained
<1>7. /\ net' \in [live : BOOLEAN, pos : Nat, ended : {"no", "clean", "failed"}] /\ net'.ended = net.ended
      /\ net'.pos = net.pos /\ (net'.live => net.live /\ cancel' = "missed")
      /\ (task = "holding" => net'.live) /\ (~net'.live => cancel' = "freed")
      /\ cancel' \in {"freed", "missed"}
  BY <1>1, <1>3 DEF Response!FetchTypeOK, Response!PullsAreOfTheStream
<1>8. Response!FetchTypeOK'
  BY <1>1, <1>3, <1>7 DEF Response!FetchTypeOK
<1>9. Response!PullsAreOfTheStream'
  BY <1>1, <1>3, <1>4, <1>7 DEF Response!PullsAreOfTheStream
<1>10. Response!TextIsRead'
  BY <1>1, <1>3, <1>6 DEF Response!TextIsRead
<1>11. Response!BodyIs(c, l)'
  <2>1. ASSUME response.used PROVE Response!OfSocket(c)'
    <3>1. Response!OfSocket(c) /\ text.at # "socket"
      BY <1>1, <1>2, <1>3, <2>1 DEF Response!BodyIs, Response!TextIsRead
    <3> QED
      BY <1>1, <1>6, <1>7, <3>1 DEF Response!OfSocket
  <2>2. ASSUME ~response.used PROVE Response!OfStream(c)'
    BY <1>1, <1>4, <1>7 DEF Response!OfStream, Response!CanCloseOrEnqueue
  <2> QED
    BY <1>1, <1>6, <2>1, <2>2 DEF Response!BodyIs
<1> QED
  BY <1>6, <1>8, <1>9, <1>10, <1>11 DEF Response!FetchInv

\* What only text() changes.
LEMMA TextKeeps ==
  ASSUME Response!FetchInv, UNCHANGED <<net, body, task, cancel>>, response' = response,
         text' \in [at : {"idle", "called", "socket", "stream", "resolved", "rejected"}, got : Seq(Nat), read : Nat],
         Response!TextIsRead', NEW c \in Nat, NEW k \in Nat, Response!BodyIs(c, k)', Response!InTurn(body, c, k)
  PROVE  Response!FetchInv'
BY DEF Response!FetchInv, Response!FetchTypeOK, Response!PullsAreOfTheStream

LEMMA TextCalled == ASSUME Response!FetchInv, Response!TextCall PROVE Response!FetchInv'
<1>1. /\ text.at \in {"idle", "resolved", "rejected"} /\ ~response.used
         /\ text' = [text EXCEPT !.at = "called"]
      /\ UNCHANGED <<net, response, body, task, cancel>>
  BY DEF Response!TextCall, Response!Free
<1>2. PICK c, k \in Nat : Response!BodyIs(c, k) /\ Response!InTurn(body, c, k)
  BY BodyIsThere
<1>3. Response!FetchTypeOK /\ Response!PullsAreOfTheStream /\ Response!TextIsRead
  BY DEF Response!FetchInv
<1>4. /\ text' \in [at : {"idle", "called", "socket", "stream", "resolved", "rejected"}, got : Seq(Nat), read : Nat]
      /\ text'.at = "called" /\ text'.got = text.got /\ text'.read = text.read
  BY <1>1, <1>3 DEF Response!FetchTypeOK
<1>5. Response!TextIsRead' /\ ~Response!Drained /\ ~Response!Drained'
  BY <1>1, <1>3, <1>4 DEF Response!TextIsRead, Response!Drained
<1>6. Response!BodyIs(c, k)'
  BY <1>1, <1>2, <1>4, <1>5 DEF Response!BodyIs, Response!OfStream
<1> QED
  BY <1>1, <1>2, <1>4, <1>5, <1>6, TextKeeps

LEMMA TextRejected ==
  ASSUME Response!FetchInv, Response!TextStarts, response.vended, Response!Locked(body)
  PROVE  Response!FetchInv'
<1>1. /\ text.at = "called" /\ text' = [text EXCEPT !.at = "rejected"]
      /\ UNCHANGED <<net, response, body, task, cancel>>
  BY DEF Response!TextStarts, Response!Settles
<1>2. PICK c, k \in Nat : Response!BodyIs(c, k) /\ Response!InTurn(body, c, k)
  BY BodyIsThere
<1>3. Response!FetchTypeOK /\ Response!PullsAreOfTheStream /\ Response!TextIsRead
  BY DEF Response!FetchInv
<1>4. /\ text' \in [at : {"idle", "called", "socket", "stream", "resolved", "rejected"}, got : Seq(Nat), read : Nat]
      /\ text'.at = "rejected" /\ text'.got = text.got /\ text'.read = text.read
  BY <1>1, <1>3 DEF Response!FetchTypeOK
<1>5. Response!TextIsRead' /\ ~Response!Drained /\ ~Response!Drained' /\ ~response.used
  BY <1>1, <1>3, <1>4 DEF Response!TextIsRead, Response!Drained
<1>6. Response!BodyIs(c, k)'
  BY <1>1, <1>2, <1>4, <1>5 DEF Response!BodyIs, Response!OfStream
<1> QED
  BY <1>1, <1>2, <1>4, <1>5, <1>6, TextKeeps

\* text() of a response whose stream the script has not asked for ...
LEMMA TextOfSocket ==
  ASSUME Response!FetchInv, Response!TextStarts, ~response.vended
  PROVE  Response!FetchInv'
<1>1. /\ text.at = "called" /\ text' = [text EXCEPT !.at = "socket"]
      /\ response' = [response EXCEPT !.used = TRUE] /\ UNCHANGED <<net, body, task, cancel>>
  BY DEF Response!TextStarts, Response!Settles
<1>2. PICK c, k \in Nat : Response!BodyIs(c, k) /\ Response!InTurn(body, c, k)
  BY BodyIsThere
<1>3. Response!FetchTypeOK /\ Response!PullsAreOfTheStream /\ Response!TextIsRead
  BY DEF Response!FetchInv
<1>4. /\ text' \in [at : {"idle", "called", "socket", "stream", "resolved", "rejected"}, got : Seq(Nat), read : Nat]
      /\ text'.at = "socket" /\ text'.got = text.got /\ text'.read = text.read
      /\ response' \in [used : BOOLEAN, vended : BOOLEAN] /\ response'.used /\ ~response'.vended
  BY <1>1, <1>3 DEF Response!FetchTypeOK
<1>5. ~response.used /\ ~Response!Drained /\ text.got = <<>> /\ body.state = "readable" /\ cancel = "no"
      /\ Response!CanCloseOrEnqueue(body)
  BY <1>1, <1>3 DEF Response!TextIsRead, Response!PullsAreOfTheStream, Response!CanCloseOrEnqueue
<1>6. Response!OfStream(c) /\ body.answers = <<>> /\ body.queue = <<>>
  BY <1>2, <1>5 DEF Response!BodyIs
<1>7. net.live
  BY <1>5, <1>6 DEF Response!OfStream
<1>8. c = 0 /\ net.pos = 0
  <2>1. c \in 0..Len(<<>>)
    BY <1>2, <1>6 DEF Response!InTurn
  <2>2. c + Len(<<>>) = net.pos
    BY <1>5, <1>6 DEF Response!OfStream
  <2> QED
    BY <2>1, <2>2
<1>9. Response!TextIsRead'
  BY <1>1, <1>3, <1>4, <1>5, <1>7 DEF Response!TextIsRead, Response!Drained
<1>10. Response!OfSocket(c)'
  BY <1>1, <1>4, <1>5, <1>6, <1>7, <1>8 DEF Response!OfSocket
<1>11. Response!BodyIs(c, k)'
  BY <1>1, <1>2, <1>4, <1>5, <1>6, <1>10 DEF Response!BodyIs, Response!Drained
<1>12. Response!FetchTypeOK' /\ Response!PullsAreOfTheStream'
  BY <1>1, <1>3, <1>4 DEF Response!FetchTypeOK, Response!PullsAreOfTheStream
<1> QED
  BY <1>9, <1>11, <1>12 DEF Response!FetchInv

\* ... and of one whose stream it has.
LEMMA TextOfStream ==
  ASSUME Response!FetchInv, Response!TextStarts, response.vended, ~Response!Locked(body)
  PROVE  Response!FetchInv'
<1>1. PICK a : a = Response!AcquireReader(body, 2)
  OBVIOUS
<1>2. /\ text.at = "called"
         /\ text' = [text EXCEPT !.at = "stream", !.read = Response!Outstanding(body) + 1]
      /\ response' = [response EXCEPT !.used = TRUE] /\ UNCHANGED <<net, cancel>>
      /\ body' = Response!Read(a, 2) /\ (task' = "spawned" \/ task' = task)
  BY <1>1 DEF Response!TextStarts, Response!NextAnswer, Response!Becomes, Response!Drainer
<1>3. PICK c, k \in Nat : Response!BodyIs(c, k) /\ Response!InTurn(body, c, k)
  BY BodyIsThere
<1>4. Response!FetchTypeOK /\ Response!PullsAreOfTheStream /\ Response!TextIsRead
  BY DEF Response!FetchInv
<1>5. ~response.used /\ ~Response!Drained /\ text.got = <<>>
  BY <1>2, <1>4 DEF Response!TextIsRead
<1>6. Response!OfStream(c) /\ body.reader = 0
  BY <1>3, <1>5 DEF Response!BodyIs, Response!Locked, Response!NoReader
<1>7. /\ Response!InTurn(a, c, k) /\ a.reader = 2 /\ a.answers = body.answers /\ a.requests = <<>>
      /\ a.queue = body.queue /\ a.state = body.state /\ a.closeRequested = body.closeRequested
  BY <1>1, <1>3, AcquireIs
<1>8. Response!ReadTo(a, body', c, k)
  BY <1>2, <1>7, ReadIs
<1>9. PICK d : Response!InTurn(body', d, k) /\ d + Len(body'.queue) = c + Len(body.queue)
  BY <1>7, <1>8 DEF Response!ReadTo
<1>10. StreamGoes(c, d) /\ body'.reader = 2
  BY <1>7, <1>8, <1>9 DEF Response!ReadTo, StreamGoes
<1>11. Response!OfStream(d)'
  BY <1>2, <1>3, <1>4, <1>6, <1>9, <1>10, StreamStays DEF Response!PullsAreOfTheStream
<1>12. Response!Outstanding(body) = k /\ Response!Outstanding(a) = k
  <2>1. body.requests = <<>> /\ Len(body.answers) = k
    BY <1>3, <1>6 DEF Response!InTurn
  <2>2. Response!Outstanding(body) = k + Len(<<>>) /\ Response!Outstanding(a) = k + Len(<<>>)
    BY <1>7, <2>1 DEF Response!Outstanding
  <2> QED
    BY <2>2
<1>13. Response!Outstanding(body') = k + 1 /\ Response!Outstanding(body) + 1 \in Nat
         /\ Response!Outstanding(body) + 1 = k + 1
  BY <1>8, <1>12 DEF Response!ReadTo
<1>14. /\ text' \in [at : {"idle", "called", "socket", "stream", "resolved", "rejected"}, got : Seq(Nat), read : Nat]
       /\ text'.at = "stream" /\ text'.got = <<>> /\ text'.read = k + 1
       /\ response' \in [used : BOOLEAN, vended : BOOLEAN] /\ response'.used /\ response'.vended
  BY <1>2, <1>4, <1>5, <1>13 DEF Response!FetchTypeOK
<1>15. Response!Drained' /\ (body'.state = "readable" => body.state = "readable")
  BY <1>7, <1>8, <1>10 DEF Response!Drained, Response!Drainer, Response!ReadTo
<1>16. Response!FetchTypeOK' /\ Response!PullsAreOfTheStream'
  BY <1>2, <1>4, <1>14, <1>15 DEF Response!FetchTypeOK, Response!PullsAreOfTheStream
<1>17. Response!TextIsRead'
  BY <1>14, <1>15, BodiesAssumption DEF Response!TextIsRead
<1>18. Response!DrainedFrom(d, k)'
  BY <1>13, <1>14 DEF Response!DrainedFrom
<1>19. Response!BodyIs(d, k)' /\ d \in Nat
  BY <1>9, <1>11, <1>14, <1>15, <1>18, LengthsOf DEF Response!BodyIs
<1> QED
  BY <1>16, <1>17, <1>19 DEF Response!FetchInv

\* text() reads the socket.
LEMMA SocketIs ==
  ASSUME Response!FetchInv, text.at = "socket"
  PROVE  /\ Response!FetchTypeOK /\ Response!PullsAreOfTheStream /\ Response!TextIsRead
         /\ net.live /\ net.ended = "no" /\ response.used /\ ~response.vended /\ ~Response!Drained
            /\ task = "none"
         /\ Len(text.got) \in Nat /\ text.got \in Seq(Nat) /\ Len(text.got) <= MaxBody
         /\ \E c, k \in Nat : Response!BodyIs(c, k) /\ Response!InTurn(body, c, k) /\ Response!OfSocket(c)
            /\ net.pos = Len(text.got)
<1>1. Response!FetchTypeOK /\ Response!PullsAreOfTheStream /\ Response!TextIsRead
  BY DEF Response!FetchInv
<1>2. net.live /\ net.ended = "no" /\ response.used /\ ~response.vended /\ ~Response!Drained
        /\ task = "none"
  BY <1>1 DEF Response!PullsAreOfTheStream, Response!TextIsRead
<1>3. Len(text.got) \in Nat /\ text.got \in Seq(Nat) /\ Len(text.got) <= MaxBody
  BY <1>1 DEF Response!FetchTypeOK, Response!TextIsRead
<1>4. PICK c, k \in Nat : Response!BodyIs(c, k) /\ Response!InTurn(body, c, k)
  BY BodyIsThere
<1>5. Response!OfSocket(c) /\ net.pos = Len(text.got)
  BY <1>2, <1>4 DEF Response!BodyIs, Response!OfSocket
<1> QED
  BY <1>1, <1>2, <1>3, <1>4, <1>5

\* Its end, which resolves only where it is clean.
LEMMA SocketIsRead ==
  ASSUME Response!FetchInv, text.at = "socket", UNCHANGED <<response, body, task, cancel>>,
         NEW at \in {"resolved", "rejected"}, text' = [text EXCEPT !.at = at],
         NEW how \in {"clean", "failed"}, net' = [net EXCEPT !.live = FALSE, !.ended = how],
         at = "resolved" => how = "clean"
  PROVE  Response!FetchInv'
<1>1. /\ Response!FetchTypeOK /\ Response!PullsAreOfTheStream /\ Response!TextIsRead
      /\ response.used /\ ~response.vended /\ ~Response!Drained /\ task = "none"
  BY SocketIs
<1>2. PICK c, k \in Nat : Response!BodyIs(c, k) /\ Response!InTurn(body, c, k) /\ Response!OfSocket(c)
             /\ net.pos = Len(text.got)
  BY SocketIs
<1>3. /\ text' \in [at : {"idle", "called", "socket", "stream", "resolved", "rejected"}, got : Seq(Nat), read : Nat]
      /\ text'.at = at /\ text'.got = text.got /\ text'.read = text.read
      /\ net' \in [live : BOOLEAN, pos : Nat, ended : {"no", "clean", "failed"}]
      /\ ~net'.live /\ net'.ended = how /\ net'.pos = net.pos
  BY <1>1 DEF Response!FetchTypeOK
<1>4. Response!FetchTypeOK' /\ Response!PullsAreOfTheStream'
  BY <1>1, <1>3 DEF Response!FetchTypeOK, Response!PullsAreOfTheStream
<1>5. Response!TextIsRead' /\ ~Response!Drained'
  BY <1>1, <1>3 DEF Response!TextIsRead, Response!Drained
<1>6. Response!OfSocket(c)'
  BY <1>2, <1>3 DEF Response!OfSocket
<1>7. Response!BodyIs(c, k)'
  BY <1>1, <1>2, <1>5, <1>6 DEF Response!BodyIs
<1> QED
  BY <1>4, <1>5, <1>7 DEF Response!FetchInv

LEMMA SocketEnded ==
  ASSUME Response!FetchInv, Response!SocketEnds \/ Response!SocketFails
  PROVE  Response!FetchInv'
<1>1. CASE Response!SocketEnds
  <2>1. /\ text.at = "socket" /\ net' = [net EXCEPT !.live = FALSE, !.ended = "clean"]
        /\ text' = [text EXCEPT !.at = "resolved"] /\ UNCHANGED <<response, body, task, cancel>>
    BY <1>1 DEF Response!SocketEnds, Response!Settles
  <2> QED
    BY <2>1, SocketIsRead
<1>2. CASE Response!SocketFails
  <2>1. /\ text.at = "socket" /\ net' = [net EXCEPT !.live = FALSE, !.ended = "failed"]
        /\ text' = [text EXCEPT !.at = "rejected"] /\ UNCHANGED <<response, body, task, cancel>>
    BY <1>2 DEF Response!SocketFails, Response!Settles
  <2> QED
    BY <2>1, SocketIsRead
<1> QED
  BY <1>1, <1>2

LEMMA SocketGives == ASSUME Response!FetchInv, Response!SocketChunk PROVE Response!FetchInv'
<1>1. PICK more : more = Append(text.got, net.pos + 1)
  OBVIOUS
<1>2. PICK over \in BOOLEAN : over <=> Len(more) > MaxBody
  OBVIOUS
<1>3. /\ text.at = "socket" /\ net' = [net EXCEPT !.pos = @ + 1, !.live = ~over]
      /\ text' = IF over THEN [text EXCEPT !.at = "rejected"] ELSE [text EXCEPT !.got = more]
      /\ UNCHANGED <<response, body, task, cancel>>
  <2>1. (Len(more) > MaxBody) \in BOOLEAN
    OBVIOUS
  <2>2. (~(Len(more) > MaxBody)) = ~over
    BY <1>2
  <2> QED
    BY <1>1, <1>2, <2>1, <2>2 DEF Response!SocketChunk
<1>4. /\ Response!FetchTypeOK /\ Response!PullsAreOfTheStream /\ Response!TextIsRead /\ net.live
         /\ net.ended = "no"
      /\ response.used /\ ~response.vended /\ ~Response!Drained /\ task = "none"
      /\ Len(text.got) \in Nat /\ text.got \in Seq(Nat) /\ Len(text.got) <= MaxBody
  BY <1>3, SocketIs
<1>5. PICK c, k \in Nat : Response!BodyIs(c, k) /\ Response!InTurn(body, c, k) /\ Response!OfSocket(c)
             /\ net.pos = Len(text.got)
  BY <1>3, SocketIs
<1>6. PICK n : n = Len(text.got)
  OBVIOUS
<1>7. /\ n \in Nat /\ net.pos = n /\ more \in Seq(Nat) /\ Len(more) = n + 1 /\ more[n + 1] = n + 1
      /\ \A i \in 1..n : more[i] = text.got[i]
  <2>1. n \in Nat /\ net.pos = n /\ text.got \in Seq(Nat) /\ n + 1 \in Nat
    BY <1>4, <1>5, <1>6
  <2> QED
    BY <1>1, <1>6, <2>1, Appended
<1>8. /\ net' \in [live : BOOLEAN, pos : Nat, ended : {"no", "clean", "failed"}]
      /\ net'.live = ~over /\ net'.ended = "no" /\ net'.pos = n + 1
  <2>1. net \in [live : BOOLEAN, pos : Nat, ended : {"no", "clean", "failed"}]
    BY <1>4 DEF Response!FetchTypeOK
  <2>2. PICK live \in BOOLEAN : live = ~over
    BY <1>2
  <2>3. net' = [net EXCEPT !.pos = n + 1, !.live = live] /\ n + 1 \in Nat
    BY <1>3, <1>7, <2>2
  <2> QED
    BY <1>4, <2>1, <2>2, <2>3
<1>9. \A i \in 1..n : text.got[i] = i
  BY <1>5, <1>6 DEF Response!OfSocket
<1>10. CASE over
  <2>1. /\ text' \in [at : {"idle", "called", "socket", "stream", "resolved", "rejected"}, got : Seq(Nat), read : Nat]
        /\ text'.at = "rejected" /\ text'.got = text.got /\ text'.read = text.read
    BY <1>3, <1>4, <1>10 DEF Response!FetchTypeOK
  <2>2. Response!FetchTypeOK' /\ Response!PullsAreOfTheStream'
    BY <1>3, <1>4, <1>8, <1>10, <2>1 DEF Response!FetchTypeOK, Response!PullsAreOfTheStream
  <2>3. Response!TextIsRead' /\ ~Response!Drained'
    BY <1>3, <1>4, <2>1 DEF Response!TextIsRead, Response!Drained
  <2>4. Response!OfSocket(c)'
    BY <1>3, <1>5, <1>8, <1>10, <2>1 DEF Response!OfSocket
  <2>5. Response!BodyIs(c, k)'
    BY <1>3, <1>4, <1>5, <2>3, <2>4 DEF Response!BodyIs
  <2> QED
    BY <2>2, <2>3, <2>5 DEF Response!FetchInv
<1>11. CASE ~over
  <2>1. /\ text' \in [at : {"idle", "called", "socket", "stream", "resolved", "rejected"}, got : Seq(Nat), read : Nat]
        /\ text'.at = "socket" /\ text'.got = more /\ text'.read = text.read
    BY <1>3, <1>4, <1>7, <1>11 DEF Response!FetchTypeOK
  <2>2. Response!FetchTypeOK' /\ Response!PullsAreOfTheStream'
    BY <1>3, <1>4, <1>8, <1>11, <2>1 DEF Response!FetchTypeOK, Response!PullsAreOfTheStream
  <2>3. Len(more) <= MaxBody
    BY <1>2, <1>7, <1>11, BodiesAssumption
  <2>4. Response!TextIsRead' /\ ~Response!Drained'
    BY <1>3, <1>4, <1>8, <1>11, <2>1, <2>3 DEF Response!TextIsRead, Response!Drained
  <2>5. \A i \in 1..Len(more) : more[i] = i
    BY <1>7, <1>9
  <2>6. Response!OfSocket(c)'
    BY <1>3, <1>5, <1>7, <1>8, <2>1, <2>5 DEF Response!OfSocket
  <2>7. Response!BodyIs(c, k)'
    BY <1>3, <1>4, <1>5, <2>4, <2>6 DEF Response!BodyIs
  <2> QED
    BY <2>2, <2>4, <2>7 DEF Response!FetchInv
<1> QED
  BY <1>2, <1>10, <1>11

\* text() reads the stream: where it has come to.
LEMMA DrainIs ==
  ASSUME Response!FetchInv, text.at = "stream"
  PROVE  /\ Response!FetchTypeOK /\ Response!PullsAreOfTheStream /\ Response!TextIsRead
         /\ Response!Drained /\ response.used /\ response.vended /\ body.reader = 2
         /\ Len(text.got) \in Nat /\ text.got \in Seq(Nat)
         /\ \E c, k \in Nat : /\ Response!InTurn(body, c, k) /\ Response!OfStream(c)
                                 /\ Response!DrainedFrom(c, k)
                              /\ Response!Outstanding(body) = k + Len(text.got) + 1
                                 /\ text.read = k + Len(text.got) + 1
<1>1. Response!FetchTypeOK /\ Response!PullsAreOfTheStream /\ Response!TextIsRead
  BY DEF Response!FetchInv
<1>2. Response!Drained /\ response.used /\ response.vended /\ body.reader = 2
  BY <1>1 DEF Response!TextIsRead, Response!Drained, Response!Drainer
<1>3. Len(text.got) \in Nat /\ text.got \in Seq(Nat)
  BY <1>1 DEF Response!FetchTypeOK
<1>4. PICK c, k \in Nat : Response!BodyIs(c, k) /\ Response!InTurn(body, c, k)
  BY BodyIsThere
<1>5. Response!OfStream(c) /\ Response!DrainedFrom(c, k)
  BY <1>2, <1>4 DEF Response!BodyIs
<1>6. Response!Outstanding(body) = k + Len(text.got) + 1 /\ text.read = k + Len(text.got) + 1
  BY <1>5 DEF Response!DrainedFrom
<1> QED
  BY <1>1, <1>2, <1>3, <1>4, <1>5, <1>6

\* It settles, with the stream closed and all of it heard if it resolves.
LEMMA DrainSettles ==
  ASSUME Response!FetchInv, text.at = "stream", UNCHANGED <<net, response, body, task, cancel>>,
         NEW at \in {"resolved", "rejected"}, text' = [text EXCEPT !.at = at],
         NEW c \in Nat, NEW k \in Nat, Response!InTurn(body, c, k), Response!OfStream(c),
                Response!DrainedFrom(c, k),
         at = "resolved" => body.state = "closed" /\ c <= k + Len(text.got)
  PROVE  Response!FetchInv'
<1>1. Response!FetchTypeOK /\ Response!PullsAreOfTheStream /\ Response!TextIsRead /\ Response!Drained
        /\ response.used /\ response.vended
  BY DrainIs
<1>2. /\ text' \in [at : {"idle", "called", "socket", "stream", "resolved", "rejected"}, got : Seq(Nat), read : Nat]
      /\ text'.at = at /\ text'.got = text.got /\ text'.read = text.read
  BY <1>1 DEF Response!FetchTypeOK
<1>3. Response!TextIsRead' /\ Response!Drained'
  BY <1>1, <1>2 DEF Response!TextIsRead, Response!Drained
<1>4. Response!DrainedFrom(c, k)' /\ Response!OfStream(c)'
  BY <1>2 DEF Response!DrainedFrom, Response!OfStream
<1>5. Response!BodyIs(c, k)'
  BY <1>1, <1>3, <1>4 DEF Response!BodyIs
<1> QED
  BY <1>2, <1>3, <1>5, TextKeeps

LEMMA DrainTimedOut == ASSUME Response!FetchInv, Response!DrainTimesOut PROVE Response!FetchInv'
<1>1. /\ text.at = "stream" /\ text' = [text EXCEPT !.at = "rejected"]
      /\ UNCHANGED <<net, response, body, task, cancel>>
  BY DEF Response!DrainTimesOut, Response!Settles
<1>2. PICK c, k \in Nat : Response!InTurn(body, c, k) /\ Response!OfStream(c) /\ Response!DrainedFrom(c, k)
  BY <1>1, DrainIs
<1> QED
  BY <1>1, <1>2, DrainSettles

LEMMA DrainHeard == ASSUME Response!FetchInv, Response!DrainHears PROVE Response!FetchInv'
<1>1. PICK what : what = body.answers[text.read].what
  OBVIOUS
<1>2. /\ text.at = "stream" /\ Len(body.answers) >= text.read
      /\ \/ what = Response!Done /\ text' = [text EXCEPT !.at = "resolved"] /\ UNCHANGED <<body, task>>
         \/ what = Response!Failed /\ text' = [text EXCEPT !.at = "rejected"] /\ UNCHANGED <<body, task>>
         \/ /\ what.kind = "chunk"
            /\ IF Len(text.got) >= MaxBody THEN text' = [text EXCEPT !.at = "rejected"]
               /\ UNCHANGED <<body, task>>
               ELSE /\ text' = [text EXCEPT !.got = Append(@, what.chunk), !.read = Response!Outstanding(body) + 1]
                    /\ body' = Response!Read(body, 2) /\ (task' = "spawned" \/ task' = task)
      /\ UNCHANGED <<net, response, cancel>>
  BY <1>1 DEF Response!DrainHears, Response!Settles, Response!NextAnswer, Response!Becomes,
    Response!Drainer
<1>3. /\ Response!FetchTypeOK /\ Response!PullsAreOfTheStream /\ Response!TextIsRead
      /\ Response!Drained /\ response.used /\ response.vended /\ body.reader = 2
      /\ Len(text.got) \in Nat /\ text.got \in Seq(Nat)
  BY <1>2, DrainIs
<1>4. PICK c, k \in Nat : /\ Response!InTurn(body, c, k) /\ Response!OfStream(c)
                             /\ Response!DrainedFrom(c, k)
                          /\ Response!Outstanding(body) = k + Len(text.got) + 1
                             /\ text.read = k + Len(text.got) + 1
  BY <1>2, DrainIs
<1>5. PICK n \in Nat : n = Len(text.got)
  BY <1>3
<1>6. PICK m \in Nat : m = Len(body.answers)
  BY <1>4, LengthsOf
<1>7. text.read = k + n + 1 /\ k + n + 1 \in 1..m /\ Response!Outstanding(body) = k + n + 1
  BY <1>2, <1>4, <1>5, <1>6
<1>8. /\ k + n + 1 <= c => what = Response!Chunk(k + n + 1)
      /\ k + n + 1 > c => what = Response!End(body.state)
  BY <1>1, <1>4, <1>6, <1>7 DEF Response!InTurn
<1>9. CASE what = Response!Done
  <2>1. k + n + 1 > c /\ Response!End(body.state) = Response!Done
    <3>1. ASSUME k + n + 1 <= c PROVE FALSE
      BY <1>8, <1>9, <3>1 DEF Response!Chunk, Response!Done
    <3>2. k + n + 1 > c
      BY <3>1
    <3> QED
      BY <1>8, <1>9, <3>2
  <2>2. body.state = "closed" /\ c <= k + n
    BY <2>1 DEF Response!End, Response!Done, Response!Failed
  <2>3. text' = [text EXCEPT !.at = "resolved"] /\ UNCHANGED <<body, task>>
    BY <1>2, <1>9 DEF Response!Done, Response!Failed
  <2> QED
    BY <1>2, <1>4, <1>5, <2>2, <2>3, DrainSettles
<1>10. CASE what = Response!Failed
  <2>1. text' = [text EXCEPT !.at = "rejected"] /\ UNCHANGED <<body, task>>
    BY <1>2, <1>10 DEF Response!Done, Response!Failed
  <2> QED
    BY <1>2, <1>4, <2>1, DrainSettles
<1>11. CASE what.kind = "chunk" /\ n >= MaxBody
  <2>1. text' = [text EXCEPT !.at = "rejected"] /\ UNCHANGED <<body, task>>
    BY <1>2, <1>5, <1>11 DEF Response!Done, Response!Failed
  <2> QED
    BY <1>2, <1>4, <2>1, DrainSettles
<1>12. CASE what.kind = "chunk" /\ ~(n >= MaxBody)
  <2>1. /\ text' = [text EXCEPT !.got = Append(@, what.chunk), !.read = k + n + 2]
        /\ body' = Response!Read(body, 2) /\ (task' = "spawned" \/ task' = task)
    <3>1. Response!Outstanding(body) + 1 = k + n + 2
      BY <1>7
    <3>2. what # Response!Done /\ what # Response!Failed
      BY <1>12 DEF Response!Done, Response!Failed
    <3>3. ~(Len(text.got) >= MaxBody)
      BY <1>5, <1>12
    <3>4. /\ text' = [text EXCEPT !.got = Append(@, what.chunk), !.read = Response!Outstanding(body) + 1]
          /\ body' = Response!Read(body, 2) /\ (task' = "spawned" \/ task' = task)
      BY <1>2, <3>2, <3>3
    <3> QED
      BY <3>1, <3>4
  <2>2. k + n + 1 <= c /\ what.chunk = k + n + 1
    <3>1. ASSUME k + n + 1 > c PROVE FALSE
      BY <1>8, <1>12, <3>1 DEF Response!End, Response!Done, Response!Failed
    <3>2. k + n + 1 <= c
      BY <3>1
    <3> QED
      BY <1>8, <3>2 DEF Response!Chunk
  <2>3. PICK got : got = Append(text.got, k + n + 1)
    OBVIOUS
  <2>4. /\ got \in Seq(Nat) /\ Len(got) = n + 1 /\ got[n + 1] = k + n + 1
        /\ \A i \in 1..n : got[i] = text.got[i]
    <3>1. text.got \in Seq(Nat) /\ k + n + 1 \in Nat
      BY <1>3
    <3> QED
      BY <1>5, <2>3, <3>1, Appended
  <2>5. /\ text' \in [at : {"idle", "called", "socket", "stream", "resolved", "rejected"}, got : Seq(Nat), read : Nat]
        /\ text'.at = "stream" /\ text'.got = got /\ text'.read = k + n + 2
    <3>1. k + n + 2 \in Nat
      OBVIOUS
    <3>2. text' = [text EXCEPT !.got = got, !.read = k + n + 2]
      BY <2>1, <2>2, <2>3
    <3> QED
      BY <1>2, <1>3, <2>4, <3>1, <3>2 DEF Response!FetchTypeOK
  <2>6. Response!ReadTo(body, body', c, k)
    BY <1>3, <1>4, <2>1, ReadIs
  <2>7. PICK d : Response!InTurn(body', d, k) /\ d + Len(body'.queue) = c + Len(body.queue)
    BY <1>3, <2>6 DEF Response!ReadTo
  <2>8. StreamGoes(c, d) /\ Response!Drained' /\ (body'.state = "readable" => body.state = "readable")
    BY <1>3, <2>6, <2>7 DEF Response!ReadTo, StreamGoes, Response!Drained, Response!Drainer
  <2>9. Response!OfStream(d)'
    BY <1>2, <1>3, <1>4, <2>7, <2>8, StreamStays DEF Response!PullsAreOfTheStream
  <2>10. d \in Nat /\ d >= c
    <3>1. PICK a, b, q \in Nat : a = Len(body'.answers) /\ b = Len(body'.queue) /\ q = Len(body.queue)
      BY <1>4, <2>7, LengthsOf
    <3>2. d \in Nat /\ d + b = c + q
      BY <2>7, <3>1, LengthsOf
    <3>3. CASE body'.state = "readable"
      <4>1. a = d /\ a >= m
        BY <1>6, <2>6, <2>7, <3>1, <3>3 DEF Response!InTurn, Response!ReadTo
      <4>2. c <= m
        BY <1>4, <1>6 DEF Response!InTurn
      <4> QED
        BY <3>2, <4>1, <4>2
    <3>4. CASE body'.state # "readable"
      <4>1. b = 0
        BY <2>7, <3>1, <3>4, LengthsOf
      <4> QED
        BY <3>1, <3>2, <4>1
    <3> QED
      BY <3>3, <3>4
  <2>11. Response!Outstanding(body') = k + (n + 1) + 1
    BY <1>7, <2>6 DEF Response!ReadTo
  <2>12. \A j \in 1..(n + 1) : got[j] = k + j
    <3>1. \A j \in 1..n : text.got[j] = k + j
      BY <1>4, <1>5 DEF Response!DrainedFrom
    <3> QED
      BY <2>4, <3>1
  <2>13. Response!DrainedFrom(d, k)'
    <3>1. k + n + 2 = k + (n + 1) + 1 /\ k + (n + 1) <= d
      BY <2>2, <2>10
    <3> QED
      BY <2>4, <2>5, <2>11, <2>12, <3>1 DEF Response!DrainedFrom
  <2>14. Response!BodyIs(d, k)'
    BY <1>2, <1>3, <2>7, <2>8, <2>9, <2>13 DEF Response!BodyIs
  <2>15. Response!FetchTypeOK'
    BY <1>2, <1>3, <2>1, <2>5 DEF Response!FetchTypeOK
  <2>16. Response!PullsAreOfTheStream'
    BY <1>2, <1>3, <2>1, <2>8 DEF Response!PullsAreOfTheStream
  <2>17. Response!TextIsRead'
    <3>1. Len(got) <= MaxBody
      BY <1>12, <2>4, BodiesAssumption
    <3>2. k + n + 2 > 0
      OBVIOUS
    <3> QED
      BY <1>2, <1>3, <2>5, <2>8, <3>1, <3>2 DEF Response!TextIsRead
  <2> QED
    BY <2>10, <2>14, <2>15, <2>16, <2>17 DEF Response!FetchInv
<1> QED
  BY <1>2, <1>5, <1>9, <1>10, <1>11, <1>12, BodiesAssumption

\* What the end of a pull changes.
LEMMA PullStays ==
  ASSUME Response!FetchInv, task = "holding", task' = "settled", UNCHANGED <<response, text, cancel>>,
         net' \in [live : BOOLEAN, pos : Nat, ended : {"no", "clean", "failed"}],
         net'.ended # "no" => ~net'.live,
         NEW c \in Nat, NEW k \in Nat, Response!BodyIs(c, k),
         NEW d, NEW l, Response!InTurn(body', d, l), Response!OfStream(d)', Response!Drained'
           <=> Response!Drained,
         body'.state = "readable" => body.state = "readable",
         Response!Drained => /\ l = k /\ d >= c /\ Response!Outstanding(body') = Response!Outstanding(body)
                             /\ body.state = "closed" => body'.state = "closed" /\ d = c
  PROVE  Response!FetchInv'
<1>1. Response!FetchTypeOK /\ Response!PullsAreOfTheStream /\ Response!TextIsRead
  BY DEF Response!FetchInv
<1>2. response.vended /\ net.live /\ text.at # "socket"
  BY <1>1 DEF Response!PullsAreOfTheStream, Response!TextIsRead
<1>3. Response!FetchTypeOK' /\ Response!PullsAreOfTheStream'
  BY <1>1, <1>2 DEF Response!FetchTypeOK, Response!PullsAreOfTheStream
<1>4. Response!TextIsRead'
  BY <1>1, <1>2 DEF Response!TextIsRead
<1>5. ~(response.used /\ ~Response!Drained)
  BY <1>2 DEF Response!BodyIs, Response!OfSocket
<1>6. d \in Nat /\ l \in Nat
  BY LengthsOf
<1>7. ASSUME Response!Drained PROVE Response!DrainedFrom(d, l)'
  <2>1. Response!DrainedFrom(c, k)
    BY <1>7 DEF Response!BodyIs
  <2>2. PICK n \in Nat : n = Len(text.got)
    BY <1>1 DEF Response!FetchTypeOK
  <2>3. n = 0 \/ k + n <= d
    BY <1>6, <1>7, <2>1, <2>2 DEF Response!DrainedFrom
  <2>4. text.at = "resolved" => body'.state = "closed" /\ d <= k + n
    BY <1>7, <2>1, <2>2 DEF Response!DrainedFrom
  <2> QED
    BY <1>7, <2>1, <2>2, <2>3, <2>4 DEF Response!DrainedFrom
<1>8. Response!BodyIs(d, l)'
  BY <1>2, <1>5, <1>7 DEF Response!BodyIs
<1> QED
  BY <1>3, <1>4, <1>6, <1>8 DEF Response!FetchInv

\* While a pull holds the socket the body is read as a stream.
LEMMA PullIs ==
  ASSUME Response!FetchInv, task = "holding"
  PROVE  /\ Response!FetchTypeOK /\ net.live /\ net.ended = "no"
         /\ \E c, k \in Nat : /\ Response!BodyIs(c, k) /\ Response!InTurn(body, c, k)
                                 /\ Response!OfStream(c)
                              /\ ~Response!CanCloseOrEnqueue(body) => body.state # "readable"
                                 /\ cancel = "missed"
                              /\ Response!CanCloseOrEnqueue(body) => body.state = "readable"
                                 /\ c + Len(body.queue) = net.pos
<1>1. Response!FetchTypeOK /\ Response!PullsAreOfTheStream /\ Response!TextIsRead
  BY DEF Response!FetchInv
<1>2. response.vended /\ net.live /\ text.at # "socket" /\ net.ended = "no"
  BY <1>1 DEF Response!PullsAreOfTheStream, Response!TextIsRead
<1>3. PICK c, k \in Nat : Response!BodyIs(c, k) /\ Response!InTurn(body, c, k)
  BY BodyIsThere
<1>4. Response!OfStream(c)
  BY <1>2, <1>3 DEF Response!BodyIs, Response!OfSocket
<1>5. /\ ~Response!CanCloseOrEnqueue(body) => body.state # "readable" /\ cancel = "missed"
      /\ Response!CanCloseOrEnqueue(body) => body.state = "readable" /\ c + Len(body.queue) = net.pos
  BY <1>2, <1>4 DEF Response!OfStream, Response!CanCloseOrEnqueue
<1> QED
  BY <1>1, <1>2, <1>3, <1>4, <1>5

LEMMA PullGives == ASSUME Response!FetchInv, Response!PullChunk PROVE Response!FetchInv'
<1>1. /\ task = "holding" /\ net' = [net EXCEPT !.pos = @ + 1] /\ task' = "settled"
      /\ body' = (IF Response!CanCloseOrEnqueue(body) THEN Response!Enqueue(body, net.pos + 1) ELSE body)
      /\ UNCHANGED <<response, text, cancel>>
  BY DEF Response!PullChunk
<1>2. Response!FetchTypeOK /\ net.live /\ net.ended = "no"
  BY <1>1, PullIs
<1>3. PICK c, k \in Nat :
        /\ Response!BodyIs(c, k) /\ Response!InTurn(body, c, k) /\ Response!OfStream(c)
        /\ ~Response!CanCloseOrEnqueue(body) => body.state # "readable" /\ cancel = "missed"
        /\ Response!CanCloseOrEnqueue(body) => body.state = "readable" /\ c + Len(body.queue) = net.pos
  BY <1>1, PullIs
<1>4. /\ net' \in [live : BOOLEAN, pos : Nat, ended : {"no", "clean", "failed"}]
      /\ net'.live /\ net'.ended = "no" /\ net'.pos = net.pos + 1
  BY <1>1, <1>2 DEF Response!FetchTypeOK
<1>5. CASE ~Response!CanCloseOrEnqueue(body)
  <2>1. body' = body /\ body.state # "readable" /\ cancel = "missed"
    BY <1>1, <1>3, <1>5
  <2>2. Response!OfStream(c)'
    BY <1>1, <1>4, <2>1 DEF Response!OfStream, Response!CanCloseOrEnqueue
  <2>3. Response!InTurn(body', c, k) /\ (Response!Drained' <=> Response!Drained)
    BY <1>3, <2>1 DEF Response!Drained
  <2> QED
    BY <1>1, <1>3, <1>4, <2>1, <2>2, <2>3, PullStays
<1>6. CASE Response!CanCloseOrEnqueue(body)
  <2>1. PICK q \in Nat : q = Len(body.queue)
    BY <1>3, LengthsOf
  <2>2. body.state = "readable" /\ c + q = net.pos /\ net.pos \in Nat
    BY <1>2, <1>3, <1>6, <2>1 DEF Response!FetchTypeOK
  <2>3. body' = Response!Enqueue(body, c + Len(body.queue) + 1)
    BY <1>1, <1>6, <2>1, <2>2
  <2>4. /\ \E d, l : /\ Response!InTurn(body', d, l) /\ d + Len(body'.queue) = c + Len(body.queue) + 1
                     /\ body.reader = 2 => l = k
        /\ Response!Outstanding(body') = Response!Outstanding(body)
           /\ Len(body'.answers) >= Len(body.answers)
        /\ body'.reader = body.reader /\ body'.state = "readable"
           /\ body'.closeRequested = body.closeRequested
    BY <1>3, <1>6, <2>3, EnqueueIs
  <2>5. PICK d, l : /\ Response!InTurn(body', d, l) /\ d + Len(body'.queue) = c + Len(body.queue) + 1
                    /\ body.reader = 2 => l = k
    BY <2>4
  <2>6. d + Len(body'.queue) = net'.pos
    BY <1>4, <2>1, <2>2, <2>5
  <2>7. Response!OfStream(d)'
    BY <1>4, <1>6, <2>4, <2>6 DEF Response!OfStream, Response!CanCloseOrEnqueue
  <2>8. d >= c
    <3>1. Len(body'.answers) = d /\ Len(body.answers) = c
      BY <1>3, <2>2, <2>4, <2>5 DEF Response!InTurn
    <3> QED
      BY <2>4, <3>1
  <2>9. (Response!Drained' <=> Response!Drained) /\ (Response!Drained => l = k)
    BY <2>4, <2>5 DEF Response!Drained, Response!Drainer
  <2> QED
    BY <1>1, <1>3, <1>4, <2>2, <2>4, <2>5, <2>7, <2>8, <2>9, PullStays
<1> QED
  BY <1>5, <1>6

LEMMA PullEnded == ASSUME Response!FetchInv, Response!PullEnds PROVE Response!FetchInv'
<1>1. /\ task = "holding" /\ net' = [net EXCEPT !.live = FALSE, !.ended = "clean"] /\ task' = "settled"
      /\ body' = Response!ControllerClose(body) /\ UNCHANGED <<response, text, cancel>>
  BY DEF Response!PullEnds
<1>2. Response!FetchTypeOK /\ net.live /\ net.ended = "no"
  BY <1>1, PullIs
<1>3. PICK c, k \in Nat :
        /\ Response!BodyIs(c, k) /\ Response!InTurn(body, c, k) /\ Response!OfStream(c)
        /\ ~Response!CanCloseOrEnqueue(body) => body.state # "readable" /\ cancel = "missed"
        /\ Response!CanCloseOrEnqueue(body) => body.state = "readable" /\ c + Len(body.queue) = net.pos
  BY <1>1, PullIs
<1>4. /\ net' \in [live : BOOLEAN, pos : Nat, ended : {"no", "clean", "failed"}]
      /\ ~net'.live /\ net'.ended = "clean" /\ net'.pos = net.pos
  BY <1>1, <1>2 DEF Response!FetchTypeOK
<1>5. CASE ~Response!CanCloseOrEnqueue(body)
  <2>1. body' = body /\ body.state # "readable" /\ cancel = "missed"
    BY <1>1, <1>3, <1>5, CloseIs
  <2>2. Response!OfStream(c)'
    BY <1>1, <1>4, <2>1 DEF Response!OfStream, Response!CanCloseOrEnqueue
  <2>3. Response!InTurn(body', c, k) /\ (Response!Drained' <=> Response!Drained)
    BY <1>3, <2>1 DEF Response!Drained
  <2> QED
    BY <1>1, <1>3, <1>4, <2>1, <2>2, <2>3, PullStays
<1>6. CASE Response!CanCloseOrEnqueue(body) /\ body.queue # <<>>
  <2>1. /\ Response!InTurn(body', c, k) /\ body'.closeRequested
        /\ body'.state = "readable" /\ body'.reader = body.reader /\ body'.queue = body.queue
        /\ body'.answers = body.answers /\ body'.requests = body.requests
    BY <1>1, <1>3, <1>6, CloseIs
  <2>2. Response!OfStream(c)'
    BY <1>3, <1>4, <1>6, <2>1 DEF Response!OfStream, Response!CanCloseOrEnqueue
  <2>3. (Response!Drained' <=> Response!Drained)
          /\ Response!Outstanding(body') = Response!Outstanding(body) /\ body.state = "readable"
    BY <1>3, <1>6, <2>1 DEF Response!Drained, Response!Outstanding
  <2> QED
    BY <1>1, <1>3, <1>4, <2>1, <2>2, <2>3, PullStays
<1>7. CASE Response!CanCloseOrEnqueue(body) /\ body.queue = <<>>
  <2>1. Response!Tells(body, body') /\ body'.state = "closed" /\ body.state = "readable"
    BY <1>1, <1>3, <1>7, CloseIs
  <2>2. PICK l : Response!Ends(body, body', c, l) /\ (body.reader = 2 => l = k)
    BY <1>3, <2>1, TellIs
  <2>3. c = net.pos
    <3>1. c + Len(<<>>) = net.pos
      BY <1>3, <1>7
    <3> QED
      BY <3>1
  <2>4. Response!OfStream(c)'
    BY <1>4, <2>1, <2>3 DEF Response!OfStream, Response!CanCloseOrEnqueue
  <2>5. /\ Response!InTurn(body', c, l) /\ Response!Outstanding(body') = Response!Outstanding(body)
           /\ (Response!Drained' <=> Response!Drained)
        /\ (Response!Drained => l = k)
    BY <2>2 DEF Response!Ends, Response!Drained, Response!Drainer
  <2> QED
    BY <1>1, <1>3, <1>4, <2>1, <2>4, <2>5, PullStays
<1> QED
  BY <1>5, <1>6, <1>7

LEMMA PullFailed == ASSUME Response!FetchInv, Response!PullFails PROVE Response!FetchInv'
<1>1. /\ task = "holding" /\ net' = [net EXCEPT !.live = FALSE, !.ended = "failed"] /\ task' = "settled"
      /\ body' = Response!ControllerError(body) /\ UNCHANGED <<response, text, cancel>>
  BY DEF Response!PullFails
<1>2. Response!FetchTypeOK /\ net.live /\ net.ended = "no"
  BY <1>1, PullIs
<1>3. PICK c, k \in Nat :
        /\ Response!BodyIs(c, k) /\ Response!InTurn(body, c, k) /\ Response!OfStream(c)
        /\ ~Response!CanCloseOrEnqueue(body) => body.state # "readable" /\ cancel = "missed"
        /\ Response!CanCloseOrEnqueue(body) => body.state = "readable" /\ c + Len(body.queue) = net.pos
  BY <1>1, PullIs
<1>4. /\ net' \in [live : BOOLEAN, pos : Nat, ended : {"no", "clean", "failed"}]
      /\ ~net'.live /\ net'.ended = "failed" /\ net'.pos = net.pos
  BY <1>1, <1>2 DEF Response!FetchTypeOK
<1>5. CASE ~Response!CanCloseOrEnqueue(body)
  <2>1. body' = body /\ body.state # "readable" /\ cancel = "missed"
    BY <1>1, <1>3, <1>5 DEF Response!ControllerError
  <2>2. Response!OfStream(c)'
    BY <1>1, <1>4, <2>1 DEF Response!OfStream, Response!CanCloseOrEnqueue
  <2>3. Response!InTurn(body', c, k) /\ (Response!Drained' <=> Response!Drained)
    BY <1>3, <2>1 DEF Response!Drained
  <2> QED
    BY <1>1, <1>3, <1>4, <2>1, <2>2, <2>3, PullStays
<1>6. CASE Response!CanCloseOrEnqueue(body)
  <2>1. Response!Tells(body, body') /\ body'.state = "errored" /\ body.state = "readable"
    BY <1>1, <1>3, <1>6, ErrorIs
  <2>2. PICK l : Response!Ends(body, body', c, l) /\ (body.reader = 2 => l = k)
    BY <1>3, <2>1, TellIs
  <2>4. Response!OfStream(c)'
    BY <1>4, <2>1 DEF Response!OfStream, Response!CanCloseOrEnqueue
  <2>5. /\ Response!InTurn(body', c, l) /\ Response!Outstanding(body') = Response!Outstanding(body)
           /\ (Response!Drained' <=> Response!Drained)
        /\ (Response!Drained => l = k)
    BY <2>2 DEF Response!Ends, Response!Drained, Response!Drainer
  <2> QED
    BY <1>1, <1>3, <1>4, <2>1, <2>4, <2>5, PullStays
<1> QED
  BY <1>5, <1>6

LEMMA PullLocked == ASSUME Response!FetchInv, Response!PullLocks PROVE Response!FetchInv'
<1>1. /\ task = "spawned" /\ UNCHANGED <<net, response, text, cancel>>
      /\ IF net.live THEN task' = "holding" /\ body' = body
         ELSE task' = "settled" /\ body' = Response!ControllerClose(body)
  BY DEF Response!PullLocks
<1>2. Response!FetchTypeOK /\ Response!PullsAreOfTheStream /\ Response!TextIsRead /\ response.vended
  BY <1>1 DEF Response!FetchInv, Response!PullsAreOfTheStream
<1>3. PICK c, k \in Nat : Response!BodyIs(c, k) /\ Response!InTurn(body, c, k)
  BY BodyIsThere
<1>4. CASE net.live
  <2>1. Response!FetchTypeOK' /\ Response!PullsAreOfTheStream' /\ Response!TextIsRead'
    BY <1>1, <1>2, <1>4 DEF Response!FetchTypeOK, Response!PullsAreOfTheStream, Response!TextIsRead,
      Response!Drained
  <2>2. Response!BodyIs(c, k)'
    BY <1>1, <1>3, <1>4 DEF Response!BodyIs, Response!OfSocket, Response!OfStream,
      Response!DrainedFrom, Response!Drained
  <2> QED
    BY <2>1, <2>2 DEF Response!FetchInv
<1>5. CASE ~net.live /\ ~Response!CanCloseOrEnqueue(body)
  <2>1. body' = body /\ task' = "settled"
    BY <1>1, <1>3, <1>5, CloseIs
  <2>2. StreamGoes(c, c) /\ Response!InTurn(body', c, k) /\ (Response!Drained' <=> Response!Drained)
    BY <1>3, <2>1 DEF StreamGoes, Response!Drained
  <2> QED
    BY <1>1, <1>2, <1>3, <2>1, <2>2, StreamKeeps
<1>6. CASE ~net.live /\ Response!CanCloseOrEnqueue(body)
  <2>1. body' = Response!ControllerClose(body) /\ task' = "settled" /\ cancel = "no"
          /\ body.state = "readable"
    BY <1>1, <1>2, <1>6 DEF Response!PullsAreOfTheStream, Response!CanCloseOrEnqueue
  <2>2. ~Response!OfStream(c)
    BY <1>6, <2>1 DEF Response!OfStream
  <2>3. Response!OfSocket(c) /\ ~Response!Drained /\ response.used
    BY <1>3, <2>2 DEF Response!BodyIs
  <2>4. Response!Tells(body, body') /\ body'.state = "closed"
    BY <1>3, <1>6, <2>1, <2>3, CloseIs DEF Response!OfSocket
  <2>5. PICK l : Response!Ends(body, body', c, l)
    BY <1>3, <2>1, <2>4, TellIs
  <2>6. Response!InTurn(body', c, l) /\ l \in Nat /\ body'.queue = <<>> /\ ~Response!Drained'
    BY <2>3, <2>5, LengthsOf DEF Response!Ends, Response!Drained
  <2>7. Response!OfSocket(c)'
    BY <1>1, <2>3, <2>6 DEF Response!OfSocket
  <2>8. Response!BodyIs(c, l)'
    BY <1>1, <1>2, <2>3, <2>6, <2>7 DEF Response!BodyIs
  <2>9. Response!FetchTypeOK' /\ Response!PullsAreOfTheStream' /\ Response!TextIsRead'
    BY <1>1, <1>2, <2>1, <2>3, <2>4, <2>6 DEF Response!FetchTypeOK, Response!PullsAreOfTheStream,
      Response!TextIsRead
  <2> QED
    BY <2>6, <2>8, <2>9 DEF Response!FetchInv
<1> QED
  BY <1>4, <1>5, <1>6

LEMMA ResponseRests == ASSUME Response!FetchInv, UNCHANGED Response!vars PROVE Response!FetchInv'
<1>1. PICK c, k \in Nat : Response!BodyIs(c, k) /\ Response!InTurn(body, c, k)
  BY BodyIsThere
<1>2. Response!FetchTypeOK' /\ Response!PullsAreOfTheStream' /\ Response!TextIsRead'
  BY DEF Response!vars, Response!FetchInv, Response!FetchTypeOK, Response!PullsAreOfTheStream,
    Response!TextIsRead, Response!Drained
<1>3. Response!BodyIs(c, k)'
  BY <1>1 DEF Response!vars, Response!BodyIs, Response!OfSocket, Response!OfStream,
    Response!DrainedFrom, Response!Drained
<1> QED
  BY <1>2, <1>3 DEF Response!FetchInv

LEMMA ResponseNext == ASSUME Response!FetchInv, [Response!Next]_(Response!vars) PROVE Response!FetchInv'
<1>1. CASE Response!Body \/ Response!StreamStarts \/ Response!GetReader \/ Response!ReadCall
             \/ Response!ReleaseLock \/ Response!CancelCall \/ Response!TextCall
  BY <1>1, BodyGiven, BodyStarts, ReaderGot, ReadMade, LockReleased, StreamCancelled, TextCalled
<1>2. CASE Response!TextStarts
  BY <1>2, TextRejected, TextOfSocket, TextOfStream
<1>3. CASE Response!SocketChunk \/ Response!SocketEnds \/ Response!SocketFails \/ Response!DrainHears
             \/ Response!DrainTimesOut
  BY <1>3, SocketGives, SocketEnded, DrainHeard, DrainTimedOut
<1>4. CASE Response!PullLocks \/ Response!PullChunk \/ Response!PullEnds \/ Response!PullFails
             \/ Response!PullSettles
  BY <1>4, PullLocked, PullGives, PullEnded, PullFailed, BodyPulled
<1> QED
  BY <1>1, <1>2, <1>3, <1>4, ResponseRests DEF Response!Next

LEMMA ResponseIsWhole == ASSUME Response!FetchInv PROVE Response!BodyIsWhole
<1>1. Response!FetchTypeOK /\ Response!PullsAreOfTheStream /\ Response!TextIsRead
  BY DEF Response!FetchInv
<1>2. PICK c, k \in Nat : Response!BodyIs(c, k) /\ Response!InTurn(body, c, k)
  BY BodyIsThere
<1>3. PICK m \in Nat : m = Len(body.answers)
  BY <1>2, LengthsOf
<1>4. /\ c \in 0..m /\ k \in 0..m /\ body.answers \in Seq([to : {1, 2}, what : Response!Outcomes])
      /\ body.queue \in Seq([chunk : Nat, size : {1}])
      /\ DOMAIN body.answers = 1..m /\ DOMAIN body.queue = 1..Len(body.queue)
  BY <1>2, <1>3 DEF Response!InTurn, Response!Bodies
<1>5. \A i \in 1..m : /\ i <= c => body.answers[i].what = Response!Chunk(i)
                      /\ i > c => body.answers[i].what = Response!End(body.state)
                      /\ body.answers[i].to = IF i <= k THEN 1 ELSE 2
  BY <1>2, <1>3 DEF Response!InTurn
<1>6. PICK n \in Nat : n = Len(text.got)
  BY <1>1 DEF Response!FetchTypeOK
<1>7. text.got = [j \in 1..n |-> text.got[j]] /\ net.pos \in Nat
  BY <1>1, <1>6 DEF Response!FetchTypeOK
<1>8. Response!ChunksInOrder
  <2>1. \A i \in DOMAIN body.answers :
           body.answers[i].what \in IF i <= c THEN {Response!Chunk(i)} ELSE {Response!Done, Response!Failed}
    <3> SUFFICES ASSUME NEW i \in 1..m
        PROVE body.answers[i].what \in IF i <= c THEN {Response!Chunk(i)} ELSE {Response!Done, Response!Failed}
      BY <1>4
    <3>1. CASE i <= c
      BY <1>5, <3>1
    <3>2. CASE i > c
      BY <1>5, <3>2 DEF Response!End
    <3> QED
      BY <3>1, <3>2
  <2>2. \A j \in DOMAIN body.queue : body.queue[j].chunk = c + j
    BY <1>2, <1>4 DEF Response!InTurn
  <2>3. ASSUME response.vended, body.state = "readable", net.live \/ net.ended # "no"
        PROVE  net.pos = c + Len(body.queue) + (IF text.read = 0 THEN Len(text.got) ELSE 0)
    <3>1. CASE response.used /\ ~Response!Drained
      <4>1. Response!OfSocket(c) /\ text.at # "socket" /\ text.read = 0
        BY <1>1, <1>2, <2>3, <3>1 DEF Response!BodyIs, Response!TextIsRead
      <4>2. c = 0 /\ body.queue = <<>> /\ net.pos = n
        BY <1>6, <2>3, <4>1 DEF Response!OfSocket
      <4>3. Len(<<>>) = 0
        OBVIOUS
      <4> QED
        BY <1>6, <4>1, <4>2, <4>3
    <3>2. CASE ~(response.used /\ ~Response!Drained)
      <4>1. c + Len(body.queue) = net.pos
        BY <1>2, <2>3, <3>2 DEF Response!BodyIs, Response!OfStream
      <4>2. text.read = 0 => Len(text.got) = 0
        <5>1. text.read = 0 => text.got = <<>>
          BY <1>1, <3>2 DEF Response!TextIsRead
        <5>2. Len(<<>>) = 0
          OBVIOUS
        <5> QED
          BY <5>1, <5>2
      <4>3. (IF text.read = 0 THEN Len(text.got) ELSE 0) = 0
        BY <4>2
      <4>4. PICK p, q : p = Len(body.queue) /\ q = IF text.read = 0 THEN Len(text.got) ELSE 0
        OBVIOUS
      <4>5. p \in Nat /\ c + p = net.pos /\ q = 0
        BY <1>4, <4>1, <4>3, <4>4
      <4>6. net.pos = c + p + q
        BY <1>7, <4>5
      <4> QED
        BY <4>4, <4>6
    <3> QED
      BY <3>1, <3>2
  <2>4. c \in 0..Len(body.answers)
    BY <1>3, <1>4
  <2> QED
    BY <2>1, <2>2, <2>3, <2>4 DEF Response!ChunksInOrder
<1>9. Response!WholeOrRejected
  <2> SUFFICES ASSUME text.at = "resolved", ~(cancel # "no" /\ body.state = "closed")
      PROVE  /\ net.ended = "clean" /\ Len(text.got) <= MaxBody
             /\ \E given \in 0..net.pos :
                   /\ {i \in DOMAIN body.answers : body.answers[i].to = 1
                         /\ body.answers[i].what.kind = "chunk"} = 1..given
                   /\ text.got = [j \in 1..(net.pos - given) |-> given + j]
    BY DEF Response!WholeOrRejected, Response!Script
  <2>0. response.used /\ Len(text.got) <= MaxBody
    BY <1>1 DEF Response!TextIsRead
  <2>1. PICK g \in Nat : g = IF k <= c THEN k ELSE c
    OBVIOUS
  <2>2. {i \in DOMAIN body.answers : body.answers[i].to = 1 /\ body.answers[i].what.kind = "chunk"} = 1..g
    <3>1. \A i \in 1..m : body.answers[i].to = 1 <=> i <= k
      BY <1>5
    <3>2. \A i \in 1..m : body.answers[i].what.kind = "chunk" <=> i <= c
      <4> SUFFICES ASSUME NEW i \in 1..m PROVE body.answers[i].what.kind = "chunk" <=> i <= c
        OBVIOUS
      <4>1. CASE i <= c
        <5>1. body.answers[i].what = Response!Chunk(i)
          BY <1>5, <4>1
        <5>2. Response!Chunk(i).kind = "chunk"
          BY DEF Response!Chunk
        <5> QED
          BY <4>1, <5>1, <5>2
      <4>2. CASE i > c
        <5>1. body.answers[i].what \in {Response!Done, Response!Failed}
          BY <1>5, <4>2 DEF Response!End
        <5> QED
          BY <4>2, <5>1 DEF Response!Done, Response!Failed
      <4>3. i <= c \/ i > c
        BY <1>4
      <4> QED
        BY <4>1, <4>2, <4>3
    <3> QED
      BY <1>4, <2>1, <3>1, <3>2
  <2>3. CASE ~Response!Drained
    <3>1. Response!OfSocket(c)
      BY <1>2, <2>0, <2>3 DEF Response!BodyIs
    <3>2. net.ended = "clean" /\ net.pos = n /\ c = 0 /\ \A j \in 1..n : text.got[j] = j
      BY <1>6, <3>1 DEF Response!OfSocket
    <3>3. g = 0 /\ net.pos - g = n
      BY <2>1, <3>2
    <3>4. text.got = [j \in 1..(net.pos - g) |-> g + j]
      BY <1>7, <3>2, <3>3
    <3>5. g \in 0..net.pos
      BY <3>2, <3>3
    <3> QED
      BY <2>0, <2>2, <3>2, <3>4, <3>5
  <2>4. CASE Response!Drained
    <3>1. Response!OfStream(c) /\ Response!DrainedFrom(c, k)
      BY <1>2, <2>4 DEF Response!BodyIs
    <3>2. /\ body.state = "closed" /\ c <= k + n /\ (n = 0 \/ k + n <= c)
          /\ \A j \in 1..n : text.got[j] = k + j
      BY <1>6, <3>1 DEF Response!DrainedFrom
    <3>3. net.ended = "clean" /\ c = net.pos
      BY <3>1, <3>2 DEF Response!OfStream
    <3>4. g <= c /\ c - g = n /\ (n # 0 => g = k)
      BY <2>1, <3>2
    <3>5. \A j \in 1..n : text.got[j] = g + j
      BY <3>2, <3>4
    <3>6. text.got = [j \in 1..(net.pos - g) |-> g + j]
      BY <1>7, <3>3, <3>4, <3>5
    <3>7. g \in 0..net.pos
      BY <3>3, <3>4
    <3> QED
      BY <2>0, <2>2, <3>3, <3>6, <3>7
  <2> QED
    BY <2>3, <2>4
<1>10. Response!SocketIsFreed
  <2>1. net.live /\ response.vended /\ body.state # "readable" => cancel = "missed"
    BY <1>1, <1>2 DEF Response!BodyIs, Response!OfSocket, Response!OfStream, Response!TextIsRead
  <2>2. net.live /\ ~response.vended => text.at \in {"idle", "called", "socket"}
    BY <1>1, <1>2 DEF Response!BodyIs, Response!OfSocket, Response!TextIsRead, Response!FetchTypeOK
  <2>3. ~net.live /\ net.ended = "no" => text.at = "rejected" \/ cancel = "freed"
    BY <1>1, <1>2 DEF Response!BodyIs, Response!OfSocket, Response!OfStream, Response!TextIsRead
  <2> QED
    BY <2>1, <2>2, <2>3 DEF Response!SocketIsFreed
<1>11. Response!DrainIsAlone
  <2> SUFFICES ASSUME text.at = "stream"
      PROVE body.reader = Response!Drainer /\ \A r \in Response!ToSet(body.requests) : r = Response!Drainer
    BY DEF Response!DrainIsAlone
  <2>1. body.reader = Response!Drainer
    BY <1>1 DEF Response!TextIsRead, Response!Drained
  <2>2. DOMAIN body.requests = 1..Len(body.requests)
          /\ \A i \in 1..Len(body.requests) : body.requests[i] = Response!Drainer
    BY <1>2, <2>1 DEF Response!InTurn, Response!Bodies
  <2> QED
    BY <2>1, <2>2 DEF Response!ToSet
<1> QED
  BY <1>8, <1>9, <1>10, <1>11 DEF Response!BodyIsWhole

-----------------------------------------------------------------------------
(* The streams of a request's body are the same *)

\* The sum of the sizes of a queue.
LEMMA SameSizes ==
  ASSUME NEW q
  PROVE  Request!QueueTotalSize(q) = Response!QueueTotalSize(q)
  BY DEF Request!QueueTotalSize, Response!QueueTotalSize, Request!FoldSeq, Response!FoldSeq,
     Request!FoldFunction, Response!FoldFunction, Request!FoldFunctionOnSet,
     Response!FoldFunctionOnSet, Request!MapThenFoldSet, Response!MapThenFoldSet

\* Whether there is something to pull for.
LEMMA SameWhen ==
  ASSUME NEW r, NEW requests
  PROVE  Request!ShouldCallPull(r, requests) <=> Response!ShouldCallPull(r, requests)
  BY SameSizes DEF Request!ShouldCallPull, Response!ShouldCallPull, Request!DesiredSize,
     Response!DesiredSize, Request!CanCloseOrEnqueue, Response!CanCloseOrEnqueue

\* Calls of pull().
LEMMA SamePulls ==
  ASSUME NEW r, NEW requests
  PROVE  Request!CallPullWith(r, requests) = Response!CallPullWith(r, requests)
  BY SameWhen DEF Request!CallPullWith, Response!CallPullWith

\* What start() and pull() do as they end.
LEMMA SameStarts ==
  ASSUME NEW r
  PROVE  /\ Request!CallPullIfNeeded(r) = Response!CallPullIfNeeded(r)
         /\ Request!StartFulfilled(r) = Response!StartFulfilled(r)
         /\ Request!PullFulfilled(r) = Response!PullFulfilled(r)
  BY SamePulls DEF Request!CallPullIfNeeded, Response!CallPullIfNeeded, Request!StartFulfilled,
     Response!StartFulfilled, Request!PullFulfilled, Response!PullFulfilled

\* How streams end.
LEMMA SameClosing ==
  ASSUME NEW r, NEW promise, NEW what
  PROVE  Request!Settle(r, promise, what) = Response!Settle(r, promise, what)
  BY DEF Request!Settle, Response!Settle, Request!Told, Response!Told

\* How controllers end them.
LEMMA SameEnds ==
  ASSUME NEW r
  PROVE  /\ Request!StreamClose(r) = Response!StreamClose(r)
         /\ Request!StreamError(r) = Response!StreamError(r)
         /\ Request!ControllerClose(r) = Response!ControllerClose(r)
         /\ Request!ControllerError(r) = Response!ControllerError(r)
  BY SameClosing DEF Request!StreamClose, Response!StreamClose, Request!StreamError,
     Response!StreamError, Request!ControllerClose, Response!ControllerClose, Request!ControllerError,
     Response!ControllerError, Request!ClearAlgorithms, Response!ClearAlgorithms, Request!Done,
     Response!Done, Request!Failed, Response!Failed, Request!CanCloseOrEnqueue,
     Response!CanCloseOrEnqueue

\* What becomes of a chunk.
LEMMA SameGiven ==
  ASSUME NEW r, NEW chunk
  PROVE  Request!FulfillReadRequest(r, chunk) = Response!FulfillReadRequest(r, chunk)
  BY DEF Request!FulfillReadRequest, Response!FulfillReadRequest, Request!Chunk, Response!Chunk

LEMMA SameBeginnings ==
  ASSUME NEW r, NEW chunk
  PROVE  Request!EnqueueStart(r, chunk) = Response!EnqueueStart(r, chunk)
  BY SameGiven, SameStarts DEF Request!EnqueueStart, Response!EnqueueStart, Request!CanCloseOrEnqueue,
     Response!CanCloseOrEnqueue

LEMMA SameRests ==
  ASSUME NEW r, NEW size
  PROVE  Request!SizeReturned(r, size) = Response!SizeReturned(r, size)
  BY SamePulls DEF Request!SizeReturned, Response!SizeReturned, Request!Last, Response!Last,
     Request!Front, Response!Front

LEMMA SameEnqueues ==
  ASSUME NEW r, NEW chunk
  PROVE  Request!Enqueue(r, chunk) = Response!Enqueue(r, chunk)
  BY SameBeginnings, SameRests DEF Request!Enqueue, Response!Enqueue

\* What becomes of a read.
LEMMA SamePullSteps ==
  ASSUME NEW r, NEW asker
  PROVE  Request!PullSteps(r, asker) = Response!PullSteps(r, asker)
<1>1. PICK taken : taken = [r EXCEPT !.queue = Tail(@)]
  OBVIOUS
<1>2. /\ Request!StreamClose(Request!ClearAlgorithms(taken)) = Response!StreamClose(Response!ClearAlgorithms(taken))
      /\ Request!CallPullIfNeeded(taken) = Response!CallPullIfNeeded(taken)
  BY SameStarts, SameEnds DEF Request!ClearAlgorithms, Response!ClearAlgorithms
<1>3. PICK next : next = IF r.closeRequested /\ taken.queue = <<>>
                         THEN Response!StreamClose(Response!ClearAlgorithms(taken))
                         ELSE Response!CallPullIfNeeded(taken)
  OBVIOUS
<1>4. PICK new : new = [to |-> asker, what |-> Response!Chunk(Head(r.queue).chunk)]
  OBVIOUS
<1>5. CASE r.queue = <<>>
  BY <1>5, SameStarts DEF Request!PullSteps, Response!PullSteps
<1>6. CASE r.queue # <<>>
  <2>1. Response!PullSteps(r, asker) = [next EXCEPT !.answers = Append(@, new)]
    BY <1>1, <1>3, <1>4, <1>6 DEF Response!PullSteps
  <2>2. Request!PullSteps(r, asker) = [next EXCEPT !.answers = Append(@, new)]
    BY <1>1, <1>2, <1>3, <1>4, <1>6 DEF Request!PullSteps, Request!Chunk, Response!Chunk
  <2> QED
    BY <2>1, <2>2
<1> QED
  BY <1>5, <1>6

LEMMA SameAnswers ==
  ASSUME NEW r, NEW asker
  PROVE  Request!Read(r, asker) = Response!Read(r, asker)
  BY SamePullSteps DEF Request!Read, Response!Read, Request!Told, Response!Told, Request!Done,
     Response!Done, Request!Failed, Response!Failed

\* Where streams stand.
LEMMA SameOutcomes ==
  ASSUME NEW x
  PROVE  /\ Request!Outcomes = Response!Outcomes
         /\ Request!Bodies = Response!Bodies
         /\ Request!End(x) = Response!End(x)
  BY DEF Request!Outcomes, Response!Outcomes, Request!Bodies, Response!Bodies, Request!Done,
     Response!Done, Request!Failed, Response!Failed, Request!Chunk, Response!Chunk, Request!End,
     Response!End

LEMMA SameTurns ==
  ASSUME NEW r, NEW c, NEW k
  PROVE  Request!InTurn(r, c, k) <=> Response!InTurn(r, c, k)
  BY SameOutcomes DEF Request!InTurn, Response!InTurn, Request!Chunk, Response!Chunk

\* How they change.
LEMMA SameChanges ==
  ASSUME NEW r, NEW s
  PROVE  /\ Request!SameReads(r, s) <=> Response!SameReads(r, s)
         /\ Request!Tells(r, s) <=> Response!Tells(r, s)
  BY SameOutcomes DEF Request!SameReads, Response!SameReads, Request!Tells, Response!Tells,
     Request!Told, Response!Told

LEMMA SameSteps ==
  ASSUME NEW r, NEW s, NEW c, NEW k
  PROVE  /\ Request!Ends(r, s, c, k) <=> Response!Ends(r, s, c, k)
         /\ Request!ReadTo(r, s, c, k) <=> Response!ReadTo(r, s, c, k)
  BY SameTurns DEF Request!Ends, Response!Ends, Request!ReadTo, Response!ReadTo, Request!Outstanding,
     Response!Outstanding, Request!CanCloseOrEnqueue, Response!CanCloseOrEnqueue

LEMMA SourceNewIsInTurn == ASSUME NEW h \in Nat PROVE Request!InTurn(Request!NewReadable(h), 0, 0)
  BY NewIsInTurn, SameTurns DEF Request!NewReadable, Response!NewReadable, Request!NoReader,
    Response!NoReader

LEMMA SourceSameIsInTurn ==
  ASSUME NEW r, NEW s, NEW c, NEW k, Request!InTurn(r, c, k), Request!SameReads(r, s)
  PROVE  Request!InTurn(s, c, k) /\ Request!Outstanding(s) = Request!Outstanding(r)
  BY SameIsInTurn, SameTurns, SameChanges DEF Request!Outstanding, Response!Outstanding

LEMMA SourceStartIs ==
  ASSUME NEW r, NEW c, NEW k, Request!InTurn(r, c, k)
  PROVE  LET s == Request!StartFulfilled(r) IN
         /\ Request!InTurn(s, c, k) /\ Request!SameReads(r, s)
         /\ r.pulling => s.pulling
         /\ s.pulling => r.pulling \/ Request!CanCloseOrEnqueue(r)
  BY StartIs, SameTurns, SameChanges, SameStarts DEF Request!CanCloseOrEnqueue,
    Response!CanCloseOrEnqueue

LEMMA SourcePullEndIs ==
  ASSUME NEW r, NEW c, NEW k, Request!InTurn(r, c, k)
  PROVE  LET s == Request!PullFulfilled(r) IN
         /\ Request!InTurn(s, c, k) /\ Request!SameReads(r, s)
         /\ s.pulling => Request!CanCloseOrEnqueue(r)
  BY PullEndIs, SameTurns, SameChanges, SameStarts DEF Request!CanCloseOrEnqueue,
    Response!CanCloseOrEnqueue

LEMMA SourceAcquireIs ==
  ASSUME NEW r, NEW c, NEW k, Request!InTurn(r, c, k), ~Request!Locked(r), NEW x \in {1, 2}
  PROVE  LET s == Request!AcquireReader(r, x) IN
         /\ Request!InTurn(s, c, k) /\ s.reader = x /\ s.answers = r.answers /\ s.requests = <<>>
         /\ s.queue = r.queue /\ s.state = r.state /\ s.closeRequested = r.closeRequested
         /\ s.pulling = r.pulling /\ s.started = r.started
  BY AcquireIs, SameTurns DEF Request!AcquireReader, Response!AcquireReader, Request!ClosedPromise,
    Response!ClosedPromise, Request!Locked, Response!Locked, Request!NoReader, Response!NoReader

LEMMA SourceEnqueueIs ==
  ASSUME NEW r, NEW c, NEW k, Request!InTurn(r, c, k), Request!CanCloseOrEnqueue(r)
  PROVE  LET s == Request!Enqueue(r, c + Len(r.queue) + 1) IN
         /\ \E d, l : /\ Request!InTurn(s, d, l) /\ d + Len(s.queue) = c + Len(r.queue) + 1
                      /\ r.reader = 2 => l = k
         /\ Request!Outstanding(s) = Request!Outstanding(r) /\ Len(s.answers) >= Len(r.answers)
         /\ \A i \in 1..Len(r.answers) : s.answers[i] = r.answers[i]
         /\ s.reader = r.reader /\ s.state = "readable" /\ s.closeRequested = r.closeRequested
         /\ r.pulling => s.pulling
<1>1. Response!InTurn(r, c, k) /\ Response!CanCloseOrEnqueue(r)
  BY SameTurns DEF Request!CanCloseOrEnqueue, Response!CanCloseOrEnqueue
<1>2. PICK s : s = Response!Enqueue(r, c + Len(r.queue) + 1)
  OBVIOUS
<1>3. Request!Enqueue(r, c + Len(r.queue) + 1) = s
  BY <1>2, SameEnqueues
<1>4. /\ \E d, l : /\ Response!InTurn(s, d, l) /\ d + Len(s.queue) = c + Len(r.queue) + 1
                   /\ r.reader = 2 => l = k
      /\ Response!Outstanding(s) = Response!Outstanding(r) /\ Len(s.answers) >= Len(r.answers)
      /\ \A i \in 1..Len(r.answers) : s.answers[i] = r.answers[i]
      /\ s.reader = r.reader /\ s.state = "readable" /\ s.closeRequested = r.closeRequested
      /\ r.pulling => s.pulling
  BY <1>1, <1>2, EnqueueIs
<1>5. PICK d, l : /\ Response!InTurn(s, d, l) /\ d + Len(s.queue) = c + Len(r.queue) + 1
                  /\ r.reader = 2 => l = k
  BY <1>4
<1>6. Request!InTurn(s, d, l)
  BY <1>5, SameTurns
<1>7. Request!Outstanding(s) = Request!Outstanding(r)
  BY <1>4 DEF Request!Outstanding, Response!Outstanding
<1> QED
  BY <1>3, <1>4, <1>5, <1>6, <1>7

LEMMA SourceTellIs ==
  ASSUME NEW r, NEW s, NEW c, NEW k, Request!InTurn(r, c, k), r.state = "readable", Request!Tells(r, s)
  PROVE  \E l : Request!Ends(r, s, c, l) /\ (r.reader = 2 => l = k)
  BY TellIs, SameTurns, SameChanges, SameSteps

LEMMA SourceCloseIs ==
  ASSUME NEW r, NEW c, NEW k, Request!InTurn(r, c, k)
  PROVE  LET s == Request!ControllerClose(r) IN
         \/ ~Request!CanCloseOrEnqueue(r) /\ s = r
         \/ /\ Request!CanCloseOrEnqueue(r) /\ r.queue # <<>> /\ Request!InTurn(s, c, k) /\ s.closeRequested
            /\ s.state = "readable" /\ s.reader = r.reader /\ s.pulling = r.pulling /\ s.queue = r.queue
            /\ s.answers = r.answers /\ s.requests = r.requests
         \/ Request!CanCloseOrEnqueue(r) /\ r.queue = <<>> /\ Request!Tells(r, s) /\ s.state = "closed"
  BY CloseIs, SameTurns, SameChanges, SameEnds DEF Request!CanCloseOrEnqueue, Response!CanCloseOrEnqueue

LEMMA SourceErrorIs ==
  ASSUME NEW r, NEW c, NEW k, Request!InTurn(r, c, k), r.state = "readable"
  PROVE  LET s == Request!ControllerError(r) IN
         Request!Tells(r, s) /\ s.state = "errored" /\ s.closeRequested = r.closeRequested
  BY ErrorIs, SameTurns, SameChanges, SameEnds

LEMMA SourceReadIs ==
  ASSUME NEW r, NEW c, NEW k, Request!InTurn(r, c, k), r.reader \in {1, 2}
  PROVE  Request!ReadTo(r, Request!Read(r, r.reader), c, k)
  BY ReadIs, SameTurns, SameSteps, SameAnswers

-----------------------------------------------------------------------------
(* The body of a request *)

LEMMA RequestInit == Request!Init => Request!IInv
<1> SUFFICES ASSUME Request!Init PROVE Request!IInv
  OBVIOUS
<1>1. PICK h \in SourceMarks : src = Request!NewReadable(h)
  BY DEF Request!Init
<1>2. Request!InTurn(src, 0, 0)
  BY <1>1, BodiesAssumption, SourceNewIsInTurn
<1>3. /\ src.answers = <<>> /\ src.queue = <<>> /\ src.reader = 0 /\ src.requests = <<>>
      /\ src.state = "readable"
  BY <1>1 DEF Request!NewReadable, Request!NoReader
<1>4. /\ made = 0 /\ pump = [at |-> "none", hand |-> <<>>, heard |-> 0]
      /\ channel = <<>> /\ wire = [at |-> "none", got |-> <<>>]
  BY DEF Request!Init
<1>5. Request!TypeOK
  BY <1>4 DEF Request!TypeOK, Request!PumpStates
<1>6. Request!SourceInTurn
  BY <1>2, <1>3, <1>4 DEF Request!SourceInTurn
<1>7. Request!PumpReadsAlone
  BY <1>3, <1>4 DEF Request!PumpReadsAlone, Request!NoReader, Request!Outstanding
<1> QED
  BY <1>4, <1>5, <1>6, <1>7 DEF Request!IInv, Request!PumpStops

\* How many messages there are.
SentCounts(g, c, h) == Len(wire.got) = g /\ Len(channel) = c /\ pump.heard = h

\* There are such counts.
LEMMA SentCountsAre ==
  ASSUME Request!TypeOK, pump.at # "none"
  PROVE  \E g, c, h \in Nat : SentCounts(g, c, h)
<1>1. Len(wire.got) \in Nat /\ Len(channel) \in Nat /\ pump.heard \in Nat
  BY DEF Request!TypeOK
<1> QED
  BY <1>1 DEF SentCounts

\* What OnTheWay says, of these counts.
SentWay(A, g, c, h) ==
    /\ c <= 1 /\ g + c <= h
    /\ \A i \in 1..g : wire.got[i] = i /\ A[i].what = Request!Chunk(i)
    /\ \A j \in 1..c : channel[j] = A[g + j].what
    /\ pump.at \in {"ready", "reading"} => g + c = h /\ \A i \in 1..h : A[i].what = Request!Chunk(i)
    /\ pump.at = "sending" =>
          /\ g + c + 1 = h /\ \A i \in 1..(g + c) : A[i].what = Request!Chunk(i)
          /\ pump.hand = <<A[h].what>> /\ A[h].what # Request!Done
    /\ pump.at = "ended" =>
          /\ h > 0 /\ \A i \in 1..(h - 1) : A[i].what = Request!Chunk(i)
          /\ \/ g + c + 1 = h /\ A[h].what = Request!Done
             \/ g + c = h /\ A[h].what = Request!Failed

LEMMA SentWayIs ==
  ASSUME Request!TypeOK, pump.at # "none", NEW A, Request!OnTheWay(A), NEW g \in Nat, NEW c \in Nat,
         NEW h \in Nat, SentCounts(g, c, h)
  PROVE  SentWay(A, g, c, h)
<1>1. pump.at \in {"ready", "reading", "sending", "ended"}
  BY DEF Request!TypeOK, Request!PumpStates
<1>2. /\ c <= 1
      /\ \A i \in 1..g : wire.got[i] = i /\ A[i].what = Request!Chunk(i)
      /\ \A j \in 1..c : channel[j] = A[g + j].what
      /\ pump.at \in {"ready", "reading"} => g + c = h /\ \A i \in 1..h : A[i].what = Request!Chunk(i)
      /\ pump.at = "sending" =>
           /\ g + c + 1 = h /\ \A i \in 1..(g + c) : A[i].what = Request!Chunk(i)
           /\ pump.hand = <<A[h].what>> /\ A[h].what # Request!Done
      /\ pump.at = "ended" =>
           /\ h > 0 /\ \A i \in 1..(h - 1) : A[i].what = Request!Chunk(i)
           /\ \/ g + c + 1 = h /\ A[h].what = Request!Done
              \/ g + c = h /\ A[h].what = Request!Failed
  BY DEF Request!OnTheWay, SentCounts, Request!Capacity
<1>3. g + c <= h
  BY <1>1, <1>2
<1> QED
  BY <1>2, <1>3 DEF SentWay

\* An answer is kept, and with it what became of it.
LEMMA SentWayStays ==
  ASSUME Request!TypeOK, pump.at # "none", NEW A, Request!OnTheWay(A), NEW B,
         \A i \in 1..pump.heard : B[i] = A[i]
  PROVE  Request!OnTheWay(B)
<1>1. PICK g \in Nat, c \in Nat, h \in Nat : SentCounts(g, c, h)
  BY SentCountsAre
<1>2. SentWay(A, g, c, h)
  BY <1>1, SentWayIs
<1>3. \A i \in 1..h : B[i] = A[i]
  BY <1>1 DEF SentCounts
<1>4. \A i \in 1..g : wire.got[i] = i /\ B[i].what = Request!Chunk(i)
  BY <1>2, <1>3 DEF SentWay
<1>5. \A j \in 1..c : channel[j] = B[g + j].what
  BY <1>2, <1>3 DEF SentWay
<1>6. pump.at \in {"ready", "reading"} => g + c = h /\ \A i \in 1..h : B[i].what = Request!Chunk(i)
  BY <1>2, <1>3 DEF SentWay
<1>7. pump.at = "sending" =>
           /\ g + c + 1 = h /\ \A i \in 1..(g + c) : B[i].what = Request!Chunk(i)
           /\ pump.hand = <<B[h].what>> /\ B[h].what # Request!Done
  BY <1>2, <1>3 DEF SentWay
<1>8. pump.at = "ended" =>
           /\ h > 0 /\ \A i \in 1..(h - 1) : B[i].what = Request!Chunk(i)
           /\ \/ g + c + 1 = h /\ B[h].what = Request!Done
              \/ g + c = h /\ B[h].what = Request!Failed
  <2> SUFFICES ASSUME pump.at = "ended"
      PROVE  /\ h > 0 /\ \A i \in 1..(h - 1) : B[i].what = Request!Chunk(i)
             /\ \/ g + c + 1 = h /\ B[h].what = Request!Done
                \/ g + c = h /\ B[h].what = Request!Failed
    OBVIOUS
  <2>1. h > 0 /\ B[h] = A[h] /\ \A i \in 1..(h - 1) : B[i] = A[i]
    BY <1>2, <1>3 DEF SentWay
  <2> QED
    BY <1>2, <2>1 DEF SentWay
<1> QED
  BY <1>1, <1>2, <1>4, <1>5, <1>6, <1>7, <1>8 DEF Request!OnTheWay, SentCounts, Request!Capacity,
    SentWay

\* What a stream in turn holds is counted.
LEMMA AnswersAre ==
  ASSUME NEW c, NEW k, Request!InTurn(src, c, k)
  PROVE  /\ src \in Request!Bodies /\ c \in Nat /\ Len(src.answers) \in Nat
            /\ src.answers \in Seq([to : {1, 2}, what : Request!Outcomes])
         /\ Request!Outstanding(src) \in Nat /\ Len(src.requests) \in Nat /\ Len(src.queue) \in Nat
<1>1. src \in Request!Bodies /\ c \in Nat /\ src.answers \in Seq([to : {1, 2}, what : Request!Outcomes])
        /\ src.requests \in Seq({1, 2})
      /\ src.queue \in Seq([chunk : Nat, size : {1}])
  BY DEF Request!InTurn, Request!Bodies
<1>2. Len(src.answers) \in Nat /\ Len(src.requests) \in Nat /\ Len(src.queue) \in Nat
  BY <1>1
<1>3. Request!Outstanding(src) \in Nat
  <2>1. PICK m, n : Len(src.answers) = m /\ Len(src.requests) = n
    OBVIOUS
  <2>2. m \in Nat /\ n \in Nat
    BY <1>2, <2>1
  <2>3. Request!Outstanding(src) = m + n
    BY <2>1 DEF Request!Outstanding
  <2> QED
    BY <2>2, <2>3
<1> QED
  BY <1>1, <1>2, <1>3

\* A step of the script's stream, beside the pump.
SourceMoves(d) ==
    /\ made' \in Nat /\ d \in Nat /\ Request!InTurn(src', d, Len(src'.answers))
    /\ src'.state = "readable" => d + Len(src'.queue) = made'
    /\ src'.state = "closed" => d = made'
    /\ src'.reader = src.reader /\ Request!Outstanding(src') = Request!Outstanding(src)
    /\ Len(src'.answers) >= Len(src.answers)
    /\ \A i \in 1..Len(src.answers) : src'.answers[i] = src.answers[i]
    /\ src.state = "closed" => src'.state = "closed" /\ made' = made

\* It leaves what is on its way where it is.
LEMMA SourceKeeps ==
  ASSUME Request!IInv, NEW d, SourceMoves(d), UNCHANGED <<pump, channel, wire>>
  PROVE  Request!IInv'
<1>0. Request!TypeOK /\ Request!SourceInTurn /\ Request!PumpReadsAlone
  BY DEF Request!IInv
<1>1. Request!TypeOK'
  BY <1>0 DEF Request!TypeOK, SourceMoves
<1>2. Request!SourceInTurn'
  BY DEF Request!SourceInTurn, SourceMoves
<1>3. PICK c \in Nat : Request!InTurn(src, c, Len(src.answers))
  BY <1>0 DEF Request!SourceInTurn
<1>4. PICK m : Len(src.answers) = m
  OBVIOUS
<1>5. PICK n : Len(src'.answers) = n
  OBVIOUS
<1>6. m \in Nat /\ n \in Nat /\ n >= m
  <2>1. m \in Nat
    BY <1>3, <1>4, AnswersAre
  <2>2. src' \in Request!Bodies
    BY DEF SourceMoves, Request!InTurn
  <2>3. n \in Nat
    <3>1. src'.answers \in Seq([to : {1, 2}, what : Request!Outcomes])
      BY <2>2 DEF Request!Bodies
    <3> QED
      BY <1>5, <3>1
  <2> QED
    BY <1>4, <1>5, <2>1, <2>3 DEF SourceMoves
<1>7. pump.heard \in Nat /\ pump.heard <= m
  BY <1>0, <1>4 DEF Request!TypeOK, Request!PumpReadsAlone
<1>8. Request!PumpReadsAlone'
  <2>1. pump.heard <= n
    BY <1>6, <1>7
  <2> QED
    BY <1>0, <1>5, <2>1 DEF Request!PumpReadsAlone, SourceMoves
<1>9. Request!PumpStops' /\ (wire'.at = "none" => pump'.at = "none" /\ wire'.got = <<>> /\ channel' = <<>>)
  BY DEF Request!IInv, Request!PumpStops
<1>10. ASSUME wire'.at = "sending" PROVE Request!OnTheWay(src.answers)'
  <2>1. pump.at # "none" /\ Request!OnTheWay(src.answers)
    BY <1>0, <1>10 DEF Request!IInv, Request!TypeOK
  <2>2. \A i \in 1..pump.heard : src'.answers[i] = src.answers[i]
    <3>1. \A i \in 1..m : src'.answers[i] = src.answers[i]
      BY <1>4 DEF SourceMoves
    <3> QED
      BY <1>6, <1>7, <3>1
  <2>3. Request!OnTheWay(src'.answers)
    BY <1>0, <2>1, <2>2, SentWayStays
  <2> QED
    BY <2>3 DEF Request!OnTheWay
<1>11. wire'.at = "complete" /\ pump'.at # "none" => src'.state = "closed"
         /\ wire'.got = [i \in 1..made' |-> i]
  BY DEF Request!IInv, SourceMoves
<1> QED
  BY <1>1, <1>2, <1>8, <1>9, <1>10, <1>11 DEF Request!IInv

\* One reader reads it, so the answers are all its own.
LEMMA AllToOne ==
  ASSUME NEW r, NEW c, NEW k, Request!InTurn(r, c, k), r.reader # 2
  PROVE  k = Len(r.answers) /\ Request!InTurn(r, c, Len(r.answers))
<1>1. Len(r.answers) = k
  BY DEF Request!InTurn
<1> QED
  BY <1>1

LEMMA SourceStart == ASSUME Request!IInv, Request!SourceStarts PROVE Request!IInv'
<1>1. PICK c \in Nat : /\ Request!InTurn(src, c, Len(src.answers))
                       /\ src.state = "readable" => c + Len(src.queue) = made
                       /\ src.state = "closed" => c = made
  BY DEF Request!IInv, Request!SourceInTurn
<1>2. src' = Request!StartFulfilled(src) /\ UNCHANGED <<pump, channel, wire, made>>
  BY DEF Request!SourceStarts
<1>3. Request!InTurn(src', c, Len(src.answers)) /\ Request!SameReads(src, src')
  BY <1>1, <1>2, SourceStartIs
<1>4. Request!Outstanding(src') = Request!Outstanding(src) /\ src'.answers = src.answers
  BY <1>1, <1>3, SourceSameIsInTurn DEF Request!SameReads
<1>5. Len(src'.answers) >= Len(src.answers) /\ made \in Nat
  BY <1>1, <1>4, AnswersAre DEF Request!IInv, Request!TypeOK
<1>6. SourceMoves(c)
  BY <1>1, <1>2, <1>3, <1>4, <1>5 DEF SourceMoves, Request!SameReads
<1> QED
  BY <1>2, <1>6, SourceKeeps

LEMMA SourcePull == ASSUME Request!IInv, Request!SourcePulled PROVE Request!IInv'
<1>1. PICK c \in Nat : /\ Request!InTurn(src, c, Len(src.answers))
                       /\ src.state = "readable" => c + Len(src.queue) = made
                       /\ src.state = "closed" => c = made
  BY DEF Request!IInv, Request!SourceInTurn
<1>2. src' = Request!PullFulfilled(src) /\ UNCHANGED <<pump, channel, wire, made>>
  BY DEF Request!SourcePulled
<1>3. Request!InTurn(src', c, Len(src.answers)) /\ Request!SameReads(src, src')
  BY <1>1, <1>2, SourcePullEndIs
<1>4. Request!Outstanding(src') = Request!Outstanding(src) /\ src'.answers = src.answers
  BY <1>1, <1>3, SourceSameIsInTurn DEF Request!SameReads
<1>5. Len(src'.answers) >= Len(src.answers) /\ made \in Nat
  BY <1>1, <1>4, AnswersAre DEF Request!IInv, Request!TypeOK
<1>6. SourceMoves(c)
  BY <1>1, <1>2, <1>3, <1>4, <1>5 DEF SourceMoves, Request!SameReads
<1> QED
  BY <1>2, <1>6, SourceKeeps

\* The pump is the only reader there is.
LEMMA SourceNotSecond == ASSUME Request!IInv PROVE src.reader \in {0, 1}
BY DEF Request!IInv, Request!PumpReadsAlone, Request!NoReader, Request!Pump

LEMMA SourceEnqueue == ASSUME Request!IInv, Request!SourceEnqueues PROVE Request!IInv'
<1>1. PICK c \in Nat : /\ Request!InTurn(src, c, Len(src.answers))
                       /\ src.state = "readable" => c + Len(src.queue) = made
                       /\ src.state = "closed" => c = made
  BY DEF Request!IInv, Request!SourceInTurn
<1>2. /\ src' = Request!Enqueue(src, made + 1) /\ made' = made + 1 /\ UNCHANGED <<pump, channel, wire>>
      /\ Request!CanCloseOrEnqueue(src) /\ src.state = "readable"
  BY DEF Request!SourceEnqueues, Request!CanCloseOrEnqueue
<1>3. PICK n : Len(src.queue) = n
  OBVIOUS
<1>4. n \in Nat /\ made \in Nat /\ c + n = made
  BY <1>1, <1>2, <1>3, AnswersAre DEF Request!IInv, Request!TypeOK
<1>5. src' = Request!Enqueue(src, c + Len(src.queue) + 1)
  BY <1>2, <1>3, <1>4
<1>6. /\ \E d, l : Request!InTurn(src', d, l) /\ d + Len(src'.queue) = c + Len(src.queue) + 1
      /\ Request!Outstanding(src') = Request!Outstanding(src) /\ Len(src'.answers) >= Len(src.answers)
      /\ \A i \in 1..Len(src.answers) : src'.answers[i] = src.answers[i]
      /\ src'.reader = src.reader /\ src'.state = "readable"
  BY <1>1, <1>2, <1>5, SourceEnqueueIs
<1>7. PICK d, l : Request!InTurn(src', d, l) /\ d + Len(src'.queue) = c + Len(src.queue) + 1
  BY <1>6
<1>8. Request!InTurn(src', d, Len(src'.answers)) /\ d \in Nat
  <2>1. src'.reader # 2
    BY <1>6, SourceNotSecond
  <2>2. d \in Nat
    BY <1>7 DEF Request!InTurn
  <2> QED
    BY <1>7, <2>1, <2>2, AllToOne
<1>9. d + Len(src'.queue) = made'
  <2>1. c + Len(src.queue) + 1 = made'
    BY <1>2, <1>3, <1>4
  <2> QED
    BY <1>7, <2>1
<1>10. SourceMoves(d)
  BY <1>2, <1>4, <1>6, <1>8, <1>9 DEF SourceMoves
<1> QED
  BY <1>2, <1>10, SourceKeeps

\* A stream that ends while the pump reads it.
LEMMA SourceEnds ==
  ASSUME Request!IInv, src.state = "readable", Request!Tells(src, src'),
         src'.state = "closed" => src.queue = <<>>,
         UNCHANGED <<pump, channel, wire, made>>
  PROVE  Request!IInv'
<1>1. PICK c \in Nat : /\ Request!InTurn(src, c, Len(src.answers))
                       /\ src.state = "readable" => c + Len(src.queue) = made
  BY DEF Request!IInv, Request!SourceInTurn
<1>2. PICK l : Request!Ends(src, src', c, l)
  BY <1>1, SourceTellIs
<1>3. Request!InTurn(src', c, Len(src'.answers))
  <2>1. src'.reader # 2
    BY <1>2, SourceNotSecond DEF Request!Ends
  <2> QED
    BY <1>2, <2>1, AllToOne DEF Request!Ends
<1>4. src'.state = "closed" => c = made
  <2>1. Len(<<>>) = 0
    OBVIOUS
  <2>2. src'.state = "closed" => Len(src.queue) = 0
    BY <2>1
  <2> QED
    BY <1>1, <2>2
<1>5. SourceMoves(c)
  BY <1>1, <1>2, <1>3, <1>4 DEF SourceMoves, Request!Ends, Request!Tells, Request!IInv, Request!TypeOK
<1> QED
  BY <1>5, SourceKeeps

LEMMA SourceClose == ASSUME Request!IInv, Request!SourceCloses PROVE Request!IInv'
<1>1. PICK c \in Nat : /\ Request!InTurn(src, c, Len(src.answers))
                       /\ src.state = "readable" => c + Len(src.queue) = made
                       /\ src.state = "closed" => c = made
  BY DEF Request!IInv, Request!SourceInTurn
<1>2. src' = Request!ControllerClose(src) /\ UNCHANGED <<pump, channel, wire, made>>
        /\ Request!CanCloseOrEnqueue(src)
      /\ src.state = "readable"
  BY DEF Request!SourceCloses, Request!CanCloseOrEnqueue
<1>3. CASE src.queue # <<>>
  <2>1. /\ Request!InTurn(src', c, Len(src.answers)) /\ src'.state = "readable" /\ src'.reader = src.reader
        /\ src'.queue = src.queue /\ src'.answers = src.answers /\ src'.requests = src.requests
    BY <1>1, <1>2, <1>3, SourceCloseIs
  <2>2. Len(src'.answers) >= Len(src.answers) /\ made \in Nat
    BY <1>1, <2>1, AnswersAre DEF Request!IInv, Request!TypeOK
  <2>3. SourceMoves(c)
    BY <1>1, <1>2, <2>1, <2>2 DEF SourceMoves, Request!Outstanding
  <2> QED
    BY <1>2, <2>3, SourceKeeps
<1>4. CASE src.queue = <<>>
  <2>1. Request!Tells(src, src')
    BY <1>1, <1>2, <1>4, SourceCloseIs
  <2> QED
    BY <1>2, <1>4, <2>1, SourceEnds
<1> QED
  BY <1>3, <1>4

LEMMA SourceError == ASSUME Request!IInv, Request!SourceErrors PROVE Request!IInv'
<1>1. PICK c \in Nat : Request!InTurn(src, c, Len(src.answers))
  BY DEF Request!IInv, Request!SourceInTurn
<1>2. src' = Request!ControllerError(src) /\ UNCHANGED <<pump, channel, wire, made>>
        /\ src.state = "readable"
  BY DEF Request!SourceErrors
<1>3. Request!Tells(src, src') /\ src'.state = "errored"
  BY <1>1, <1>2, SourceErrorIs
<1> QED
  BY <1>2, <1>3, SourceEnds

\* fetch() locks the stream.
LEMMA StreamFetched == ASSUME Request!IInv, Request!FetchStream PROVE Request!IInv'
<1>0. Request!TypeOK /\ Request!SourceInTurn /\ Request!PumpReadsAlone
  BY DEF Request!IInv
<1>1. wire.at = "none" /\ pump.at = "none" /\ wire.got = <<>> /\ pump.heard = 0 /\ src.reader = 0
  BY <1>0 DEF Request!FetchStream, Request!Before, Request!IInv, Request!PumpReadsAlone,
    Request!NoReader
<1>2. /\ src' = Request!AcquireReader(src, 1) /\ pump' = [pump EXCEPT !.at = "ready"]
      /\ wire' = [wire EXCEPT !.at = "sending"] /\ made' = made /\ channel' = channel
  BY DEF Request!FetchStream, Request!Pump
<1>3. PICK c \in Nat : /\ Request!InTurn(src, c, Len(src.answers))
                       /\ src.state = "readable" => c + Len(src.queue) = made
                       /\ src.state = "closed" => c = made
  BY <1>0 DEF Request!SourceInTurn
<1>4. /\ Request!InTurn(src', c, Len(src.answers)) /\ src'.reader = 1 /\ src'.answers = src.answers
      /\ src'.requests = <<>> /\ src'.queue = src.queue /\ src'.state = src.state
  BY <1>1, <1>2, <1>3, SourceAcquireIs DEF Request!Locked, Request!NoReader
<1>5. src.requests = <<>>
  BY <1>1, <1>3 DEF Request!InTurn
<1>6. /\ pump' \in [at : Request!PumpStates, hand : Seq(Request!Outcomes), heard : Nat]
         /\ pump'.at = "ready" /\ pump'.heard = 0
      /\ wire' \in [at : {"sending", "complete", "failed", "aborted"}, got : Seq(Nat)]
      /\ wire'.at = "sending" /\ wire'.got = <<>>
  <2>1. /\ wire \in [at : {"none", "complete"}, got : {<<>>, <<"bytes">>}]
        /\ pump \in [at : Request!PumpStates, hand : Seq(Request!Outcomes), heard : Nat]
    BY <1>0, <1>1 DEF Request!TypeOK
  <2>2. /\ pump' \in [at : Request!PumpStates, hand : Seq(Request!Outcomes), heard : Nat]
           /\ pump'.at = "ready" /\ pump'.heard = 0
    BY <1>1, <1>2, <2>1 DEF Request!PumpStates
  <2>3. wire' = [at |-> "sending", got |-> <<>>]
    BY <1>1, <1>2, <2>1
  <2>4. <<>> \in Seq(Nat)
    OBVIOUS
  <2> QED
    BY <2>2, <2>3, <2>4
<1>7. Request!TypeOK'
  BY <1>0, <1>2, <1>6 DEF Request!TypeOK
<1>8. Request!SourceInTurn'
  BY <1>2, <1>3, <1>4 DEF Request!SourceInTurn
<1>9. Request!PumpReadsAlone'
  BY <1>0, <1>1, <1>4, <1>5, <1>6 DEF Request!PumpReadsAlone, Request!Outstanding, Request!Pump
<1>10. channel = <<>>
  BY <1>1 DEF Request!IInv
<1>11. Request!OnTheWay(src.answers)'
  BY <1>2, <1>6, <1>10 DEF Request!OnTheWay, Request!Capacity
<1> QED
  BY <1>6, <1>7, <1>8, <1>9, <1>11 DEF Request!IInv, Request!PumpStops

\* Where the pump is it is the one reader.
LEMMA PumpIsThere ==
  ASSUME Request!IInv, pump.at # "none"
  PROVE  /\ pump \in [at : Request!PumpStates, hand : Seq(Request!Outcomes), heard : Nat]
            /\ channel \in Seq(Request!Outcomes) /\ made \in Nat
         /\ wire \in [at : {"sending", "complete", "failed", "aborted"}, got : Seq(Nat)]
         /\ src.reader = 1 /\ wire.at # "none"
         /\ Request!Outstanding(src) = pump.heard + (IF pump.at = "reading" THEN 1 ELSE 0)
         /\ pump.heard <= Len(src.answers) /\ pump.heard \in Nat
         /\ \E c \in Nat : /\ Request!InTurn(src, c, Len(src.answers))
                           /\ src.state = "readable" => c + Len(src.queue) = made
                           /\ src.state = "closed" => c = made
<1>1. Request!TypeOK /\ Request!SourceInTurn /\ Request!PumpReadsAlone
  BY DEF Request!IInv
<1>2. /\ pump \in [at : Request!PumpStates, hand : Seq(Request!Outcomes), heard : Nat]
         /\ channel \in Seq(Request!Outcomes) /\ made \in Nat
      /\ wire \in [at : {"sending", "complete", "failed", "aborted"}, got : Seq(Nat)]
  BY <1>1 DEF Request!TypeOK
<1> QED
  BY <1>1, <1>2 DEF Request!PumpReadsAlone, Request!SourceInTurn, Request!Pump

LEMMA PumpRead == ASSUME Request!IInv, Request!PumpReads PROVE Request!IInv'
<1>1. /\ pump.at = "ready" /\ src' = Request!Read(src, 1) /\ pump' = [pump EXCEPT !.at = "reading"]
      /\ made' = made /\ channel' = channel /\ wire' = wire
  BY DEF Request!PumpReads, Request!Pump
<1>2. /\ pump \in [at : Request!PumpStates, hand : Seq(Request!Outcomes), heard : Nat]
         /\ channel \in Seq(Request!Outcomes) /\ made \in Nat
      /\ wire \in [at : {"sending", "complete", "failed", "aborted"}, got : Seq(Nat)]
      /\ src.reader = 1 /\ Request!Outstanding(src) = pump.heard /\ pump.heard <= Len(src.answers)
         /\ pump.heard \in Nat
      /\ wire.at # "none"
  BY <1>1, PumpIsThere
<1>3. PICK c \in Nat : /\ Request!InTurn(src, c, Len(src.answers))
                       /\ src.state = "readable" => c + Len(src.queue) = made
                       /\ src.state = "closed" => c = made
  BY <1>1, PumpIsThere
<1>4. Request!ReadTo(src, src', c, Len(src.answers))
  BY <1>1, <1>2, <1>3, SourceReadIs
<1>5. PICK d, l : Request!InTurn(src', d, l) /\ d + Len(src'.queue) = c + Len(src.queue)
  BY <1>4 DEF Request!ReadTo
<1>6. Request!InTurn(src', d, Len(src'.answers)) /\ d \in Nat
  <2>1. src'.reader # 2 /\ d \in Nat
    BY <1>2, <1>4, <1>5 DEF Request!ReadTo, Request!InTurn
  <2> QED
    BY <1>5, <2>1, AllToOne
<1>7. pump' \in [at : Request!PumpStates, hand : Seq(Request!Outcomes), heard : Nat]
        /\ pump'.at = "reading" /\ pump'.heard = pump.heard
  BY <1>1, <1>2 DEF Request!PumpStates
<1>8. Request!TypeOK'
  BY <1>1, <1>2, <1>7 DEF Request!TypeOK
<1>9. Request!SourceInTurn'
  <2>1. src'.state = "readable" => src.state = "readable"
    BY <1>4 DEF Request!ReadTo
  <2>2. src'.state = "readable" => d + Len(src'.queue) = made'
    BY <1>1, <1>3, <1>5, <2>1
  <2>3. ASSUME src'.state = "closed" PROVE d = made'
    <3>1. src'.queue = <<>>
      BY <1>5, <2>3 DEF Request!InTurn
    <3>2. Len(<<>>) = 0
      OBVIOUS
    <3>3. d = c + Len(src.queue)
      <4>1. d + 0 = c + Len(src.queue)
        BY <1>5, <3>1, <3>2
      <4> QED
        BY <1>6, <4>1
    <3>4. CASE src.state = "readable"
      BY <1>1, <1>3, <3>3, <3>4
    <3>5. CASE src.state # "readable"
      <4>1. src.queue = <<>> /\ src.state = "closed"
        BY <1>3, <1>4, <2>3, <3>5 DEF Request!ReadTo, Request!InTurn
      <4>2. d = c + 0
        BY <3>2, <3>3, <4>1
      <4> QED
        BY <1>1, <1>3, <4>1, <4>2
    <3> QED
      BY <3>4, <3>5
  <2> QED
    BY <1>6, <2>2, <2>3 DEF Request!SourceInTurn
<1>10. PICK m : Len(src.answers) = m
  OBVIOUS
<1>11. PICK n : Len(src'.answers) = n
  OBVIOUS
<1>12. m \in Nat /\ n \in Nat /\ n >= m /\ pump.heard <= m
  <2>1. m \in Nat /\ pump.heard <= m
    BY <1>2, <1>3, <1>10, AnswersAre
  <2>2. src' \in Request!Bodies
    BY <1>6 DEF Request!InTurn
  <2>3. src'.answers \in Seq([to : {1, 2}, what : Request!Outcomes])
    BY <2>2 DEF Request!Bodies
  <2>4. n \in Nat
    BY <1>11, <2>3
  <2>5. Len(src'.answers) >= Len(src.answers)
    BY <1>4 DEF Request!ReadTo
  <2> QED
    BY <1>10, <1>11, <2>1, <2>4, <2>5
<1>13. Request!PumpReadsAlone'
  <2>1. Request!Outstanding(src') = pump.heard + 1
    BY <1>2, <1>4 DEF Request!ReadTo
  <2>2. src'.reader = 1
    BY <1>2, <1>4 DEF Request!ReadTo
  <2>3. pump.heard <= n
    BY <1>2, <1>12
  <2> QED
    BY <1>7, <1>11, <2>1, <2>2, <2>3 DEF Request!PumpReadsAlone, Request!Pump
<1>14. Request!PumpStops' /\ wire'.at # "none"
  BY <1>1, <1>2 DEF Request!IInv, Request!PumpStops
<1>15. ASSUME wire'.at = "sending" PROVE Request!OnTheWay(src.answers)'
  <2>1. pump.at # "none" /\ Request!OnTheWay(src.answers) /\ Request!TypeOK
    BY <1>1, <1>15 DEF Request!IInv
  <2>2. \A i \in 1..pump.heard : src'.answers[i] = src.answers[i]
    <3>1. \A i \in 1..m : src'.answers[i] = src.answers[i]
      BY <1>4, <1>10 DEF Request!ReadTo
    <3> QED
      BY <1>2, <1>12, <3>1
  <2>3. Request!OnTheWay(src'.answers)
    BY <2>1, <2>2, SentWayStays
  <2> QED
    BY <1>1, <1>7, <2>3 DEF Request!OnTheWay
<1>16. wire'.at = "complete" /\ pump'.at # "none" => src'.state = "closed"
         /\ wire'.got = [i \in 1..made' |-> i]
  <2> SUFFICES ASSUME wire.at = "complete" PROVE src'.state = "closed" /\ wire.got = [i \in 1..made |-> i]
    BY <1>1
  <2>1. src.state = "closed" /\ wire.got = [i \in 1..made |-> i]
    BY <1>1 DEF Request!IInv
  <2> QED
    BY <1>4, <2>1 DEF Request!ReadTo
<1> QED
  BY <1>8, <1>9, <1>13, <1>14, <1>15, <1>16 DEF Request!IInv

\* An answer is the chunk whose turn it is, or the end.
LEMMA AnswerIsOne ==
  ASSUME NEW c, NEW k, Request!InTurn(src, c, k), NEW i \in 1..Len(src.answers)
  PROVE  src.answers[i].what \in {Request!Chunk(i), Request!End(src.state)}
           /\ src.answers[i].what \in Request!Outcomes
<1>1. c \in Nat /\ i \in Nat
  BY AnswersAre
<1>2. src.answers[i].what \in {Request!Chunk(i), Request!End(src.state)}
  BY <1>1 DEF Request!InTurn
<1> QED
  BY <1>1, <1>2 DEF Request!Outcomes, Request!End

LEMMA PumpHear == ASSUME Request!IInv, Request!PumpHears PROVE Request!IInv'
<1>1. PICK what : what = src.answers[pump.heard + 1].what
  OBVIOUS
<1>2. /\ pump.at = "reading" /\ Len(src.answers) > pump.heard /\ UNCHANGED <<src, made, channel, wire>>
      /\ pump' = [heard |-> pump.heard + 1, at |-> IF what = Request!Done THEN "ended" ELSE "sending",
                  hand |-> IF what = Request!Done THEN <<>> ELSE <<what>>]
  BY <1>1 DEF Request!PumpHears
<1>3. /\ channel \in Seq(Request!Outcomes) /\ made \in Nat
      /\ wire \in [at : {"sending", "complete", "failed", "aborted"}, got : Seq(Nat)]
      /\ src.reader = 1 /\ Request!Outstanding(src) = pump.heard + 1 /\ pump.heard \in Nat
         /\ wire.at # "none"
  BY <1>2, PumpIsThere
<1>4. PICK c \in Nat : Request!InTurn(src, c, Len(src.answers))
  BY <1>2, PumpIsThere
<1>5. Len(src.answers) = pump.heard + 1
  <2>1. PICK m, n : Len(src.answers) = m /\ Len(src.requests) = n
    OBVIOUS
  <2>2. m \in Nat /\ n \in Nat
    BY <1>4, <2>1, AnswersAre
  <2>3. m + n = pump.heard + 1 /\ m > pump.heard
    BY <1>2, <1>3, <2>1 DEF Request!Outstanding
  <2> QED
    BY <1>3, <2>1, <2>2, <2>3
<1>6. what \in Request!Outcomes
  <2>1. pump.heard + 1 \in 1..Len(src.answers)
    BY <1>3, <1>5
  <2> QED
    BY <1>1, <1>4, <2>1, AnswerIsOne
<1>7. pump' \in [at : Request!PumpStates, hand : Seq(Request!Outcomes), heard : Nat]
        /\ pump'.heard = pump.heard + 1
      /\ pump'.at \in {"ended", "sending"}
  BY <1>2, <1>3, <1>6 DEF Request!PumpStates
<1>8. Request!TypeOK'
  BY <1>2, <1>3, <1>7 DEF Request!TypeOK
<1>9. Request!SourceInTurn'
  BY <1>2 DEF Request!IInv, Request!SourceInTurn
<1>10. Request!PumpReadsAlone'
  <2>1. pump.heard + 1 <= Len(src.answers)
    BY <1>3, <1>5
  <2> QED
    BY <1>2, <1>3, <1>7, <2>1 DEF Request!PumpReadsAlone, Request!Pump
<1>11. ASSUME wire'.at = "sending" PROVE Request!OnTheWay(src.answers)'
  <2>1. Request!OnTheWay(src.answers) /\ Request!TypeOK
    BY <1>2, <1>11 DEF Request!IInv
  <2>2. PICK g \in Nat, d \in Nat, h \in Nat : SentCounts(g, d, h)
    BY <1>2, <2>1, SentCountsAre
  <2>3. SentWay(src.answers, g, d, h)
    BY <1>2, <2>1, <2>2, SentWayIs
  <2>4. /\ d <= 1 /\ g + d = h /\ \A i \in 1..h : src.answers[i].what = Request!Chunk(i)
        /\ \A i \in 1..g : wire.got[i] = i /\ src.answers[i].what = Request!Chunk(i)
        /\ \A j \in 1..d : channel[j] = src.answers[g + j].what
    BY <1>2, <2>3 DEF SentWay
  <2>5. pump'.heard = h + 1 /\ Len(wire.got) = g /\ Len(channel) = d /\ what = src.answers[h + 1].what
    BY <1>1, <1>7, <2>2 DEF SentCounts
  <2>6. CASE what = Request!Done
    <3>1. pump'.at = "ended"
      BY <1>2, <2>6
    <3>2. h + 1 > 0 /\ (h + 1) - 1 = h /\ g + d + 1 = h + 1
      BY <2>4
    <3> QED
      BY <1>2, <2>4, <2>5, <2>6, <3>1, <3>2 DEF Request!OnTheWay, Request!Capacity
  <2>7. CASE what # Request!Done
    <3>1. pump'.at = "sending" /\ pump'.hand = <<what>>
      BY <1>2, <2>7
    <3>2. g + d + 1 = h + 1 /\ \A i \in 1..(g + d) : src.answers[i].what = Request!Chunk(i)
      BY <2>4
    <3> QED
      BY <1>2, <2>4, <2>5, <2>7, <3>1, <3>2 DEF Request!OnTheWay, Request!Capacity
  <2> QED
    BY <2>6, <2>7
<1>12. Request!PumpStops' /\ wire'.at # "none"
       /\ (wire'.at = "complete" => src'.state = "closed" /\ wire'.got = [i \in 1..made' |-> i])
  BY <1>2, <1>3 DEF Request!IInv, Request!PumpStops
<1> QED
  BY <1>8, <1>9, <1>10, <1>11, <1>12 DEF Request!IInv

LEMMA PumpSend == ASSUME Request!IInv, Request!PumpSends PROVE Request!IInv'
<1>1. /\ pump.at = "sending" /\ UNCHANGED <<src, made, wire>>
      /\ \/ /\ wire.at = "sending" /\ Len(channel) < 1 /\ channel' = channel \o pump.hand
            /\ pump' = [pump EXCEPT !.hand = <<>>, !.at = IF pump.hand = <<Request!Failed>> THEN "ended" ELSE "ready"]
         \/ /\ wire.at \in {"failed", "aborted"}
            /\ pump' = [pump EXCEPT !.hand = <<>>, !.at = "ended"] /\ channel' = channel
  BY DEF Request!PumpSends, Request!Capacity
<1>2. /\ pump \in [at : Request!PumpStates, hand : Seq(Request!Outcomes), heard : Nat]
         /\ channel \in Seq(Request!Outcomes) /\ made \in Nat
      /\ wire \in [at : {"sending", "complete", "failed", "aborted"}, got : Seq(Nat)]
      /\ src.reader = 1 /\ Request!Outstanding(src) = pump.heard /\ pump.heard <= Len(src.answers)
         /\ pump.heard \in Nat
      /\ wire.at # "none"
  BY <1>1, PumpIsThere
<1>3. PICK c \in Nat : Request!InTurn(src, c, Len(src.answers))
  BY <1>1, PumpIsThere
<1>4. /\ pump' \in [at : Request!PumpStates, hand : Seq(Request!Outcomes), heard : Nat]
         /\ pump'.heard = pump.heard
      /\ pump'.at \in {"ended", "ready"}
  <2>1. <<>> \in Seq(Request!Outcomes)
    OBVIOUS
  <2>2. PICK at : at = IF wire.at = "sending" /\ pump.hand # <<Request!Failed>> THEN "ready" ELSE "ended"
    OBVIOUS
  <2>3. at \in Request!PumpStates /\ at \in {"ended", "ready"}
    BY <2>2 DEF Request!PumpStates
  <2>4. pump' = [pump EXCEPT !.hand = <<>>, !.at = at]
    BY <1>1, <2>2
  <2> QED
    BY <1>2, <2>1, <2>3, <2>4
<1>5. channel' \in Seq(Request!Outcomes)
  <2>1. pump.hand \in Seq(Request!Outcomes)
    BY <1>2
  <2>2. channel \o pump.hand \in Seq(Request!Outcomes)
    BY <1>2, <2>1, Joined
  <2> QED
    BY <1>1, <1>2, <2>2
<1>6. Request!TypeOK'
  BY <1>1, <1>2, <1>4, <1>5 DEF Request!TypeOK
<1>7. Request!SourceInTurn'
  BY <1>1 DEF Request!IInv, Request!SourceInTurn
<1>8. Request!PumpReadsAlone'
  BY <1>1, <1>2, <1>4 DEF Request!PumpReadsAlone, Request!Pump
<1>9. ASSUME wire'.at = "sending" PROVE Request!OnTheWay(src.answers)'
  <2>1. Request!OnTheWay(src.answers) /\ Request!TypeOK
    BY <1>1, <1>9 DEF Request!IInv
  <2>2. PICK g \in Nat, d \in Nat, h \in Nat : SentCounts(g, d, h)
    BY <1>1, <2>1, SentCountsAre
  <2>3. SentWay(src.answers, g, d, h)
    BY <1>1, <2>1, <2>2, SentWayIs
  <2>4. /\ g + d + 1 = h /\ \A i \in 1..(g + d) : src.answers[i].what = Request!Chunk(i)
        /\ \A i \in 1..g : wire.got[i] = i /\ src.answers[i].what = Request!Chunk(i)
        /\ pump.hand = <<src.answers[h].what>> /\ src.answers[h].what # Request!Done
    BY <1>1, <2>3 DEF SentWay
  <2>5. PICK what : what = src.answers[h].what
    OBVIOUS
  <2>6. Len(channel) = d /\ d = 0
    BY <1>1, <1>9, <2>2 DEF SentCounts
  <2>7. channel' = <<what>>
    <3>1. channel = <<>>
      BY <1>2, <2>6
    <3>2. <<>> \o <<what>> = <<what>>
      OBVIOUS
    <3> QED
      BY <1>1, <1>9, <2>4, <2>5, <3>1, <3>2
  <2>8. h = g + 1 /\ h \in Nat /\ \A i \in 1..g : src.answers[i].what = Request!Chunk(i)
    BY <2>4, <2>6
  <2>9. what \in {Request!Chunk(h), Request!End(src.state)}
    <3>1. h \in 1..Len(src.answers)
      <4>1. pump.heard = h
        BY <2>2 DEF SentCounts
      <4>2. PICK m : Len(src.answers) = m
        OBVIOUS
      <4>3. m \in Nat
        BY <1>3, <4>2, AnswersAre
      <4> QED
        BY <1>2, <2>8, <4>1, <4>2, <4>3
    <3> QED
      BY <1>3, <2>5, <3>1, AnswerIsOne
  <2>10. /\ Len(wire.got) = g /\ pump'.heard = h /\ Len(channel') = 1 /\ channel'[1] = what
         /\ pump'.at = IF what = Request!Failed THEN "ended" ELSE "ready"
    <3>1. Len(wire.got) = g /\ pump'.heard = h
      BY <1>4, <2>2 DEF SentCounts
    <3>2. Len(channel') = 1 /\ channel'[1] = what
      BY <2>7
    <3>3. pump.hand = <<Request!Failed>> <=> what = Request!Failed
      BY <2>4, <2>5
    <3>4. pump'.at = IF what = Request!Failed THEN "ended" ELSE "ready"
      BY <1>1, <1>2, <1>9, <3>3
    <3> QED
      BY <3>1, <3>2, <3>4
  <2>11. CASE what = Request!Failed
    <3>1. pump'.at = "ended" /\ h > 0 /\ h - 1 = g /\ g + 1 = h
      BY <2>8, <2>10, <2>11
    <3>2. \A j \in 1..1 : channel'[j] = src.answers[g + j].what
      BY <2>5, <2>8, <2>10
    <3> QED
      BY <1>1, <2>4, <2>5, <2>8, <2>10, <2>11, <3>1, <3>2 DEF Request!OnTheWay, Request!Capacity
  <2>12. CASE what # Request!Failed
    <3>1. pump'.at = "ready" /\ g + 1 = h
      BY <2>8, <2>10, <2>12
    <3>2. \A j \in 1..1 : channel'[j] = src.answers[g + j].what
      BY <2>5, <2>8, <2>10
    <3>3. what = Request!Chunk(h)
      BY <2>4, <2>5, <2>9, <2>12 DEF Request!End
    <3>4. \A i \in 1..h : src.answers[i].what = Request!Chunk(i)
      BY <2>5, <2>8, <3>3
    <3> QED
      BY <1>1, <2>4, <2>10, <3>1, <3>2, <3>4 DEF Request!OnTheWay, Request!Capacity
  <2> QED
    BY <2>11, <2>12
<1>10. Request!PumpStops' /\ wire'.at # "none"
       /\ (wire'.at = "complete" => src'.state = "closed" /\ wire'.got = [i \in 1..made' |-> i])
  BY <1>1, <1>2 DEF Request!IInv, Request!PumpStops
<1> QED
  BY <1>6, <1>7, <1>8, <1>9, <1>10 DEF Request!IInv

LEMMA EngineTake == ASSUME Request!IInv, Request!EngineTakes PROVE Request!IInv'
<1>1. /\ wire.at = "sending" /\ channel # <<>> /\ UNCHANGED <<src, made, pump>>
      /\ IF Head(channel) = Request!Failed
         THEN wire' = [wire EXCEPT !.at = "failed"] /\ channel' = <<>>
         ELSE wire' = [wire EXCEPT !.got = Append(@, Head(channel).chunk)] /\ channel' = Tail(channel)
  BY DEF Request!EngineTakes
<1>2. pump.at # "none"
  BY <1>1 DEF Request!IInv, Request!TypeOK
<1>3. /\ pump \in [at : Request!PumpStates, hand : Seq(Request!Outcomes), heard : Nat]
         /\ channel \in Seq(Request!Outcomes) /\ made \in Nat
      /\ wire \in [at : {"sending", "complete", "failed", "aborted"}, got : Seq(Nat)]
      /\ pump.heard <= Len(src.answers) /\ pump.heard \in Nat
  BY <1>2, PumpIsThere
<1>4. Request!TypeOK /\ Request!SourceInTurn' /\ Request!PumpReadsAlone' /\ Request!OnTheWay(src.answers)
  BY <1>1 DEF Request!IInv, Request!SourceInTurn, Request!PumpReadsAlone
<1>5. PICK b \in Nat : Request!InTurn(src, b, Len(src.answers))
  BY <1>2, PumpIsThere
<1>6. PICK g \in Nat, c \in Nat, h \in Nat : SentCounts(g, c, h)
  BY <1>2, <1>4, SentCountsAre
<1>7. SentWay(src.answers, g, c, h)
  BY <1>2, <1>4, <1>6, SentWayIs
<1>8. c = 1 /\ Len(wire.got) = g /\ Len(channel) = 1 /\ pump.heard = h /\ g + 1 <= h
  BY <1>1, <1>3, <1>6, <1>7 DEF SentCounts, SentWay
<1>9. PICK what : what = Head(channel)
  OBVIOUS
<1>10. what = src.answers[g + 1].what
  BY <1>7, <1>8, <1>9 DEF SentWay
<1>11. what \in {Request!Chunk(g + 1), Request!End(src.state)}
  <2>1. PICK m : Len(src.answers) = m
    OBVIOUS
  <2>2. m \in Nat
    BY <1>5, <2>1, AnswersAre
  <2>3. g + 1 \in 1..Len(src.answers)
    BY <1>3, <1>8, <2>1, <2>2
  <2> QED
    BY <1>5, <1>10, <2>3, AnswerIsOne
<1>12. channel' = <<>>
  BY <1>1, <1>3, <1>8
<1>13. <<>> \in Seq(Request!Outcomes)
  OBVIOUS
<1>14. CASE what = Request!Failed
  <2>1. wire' = [wire EXCEPT !.at = "failed"]
    BY <1>1, <1>9, <1>14
  <2>2. wire' \in [at : {"sending", "complete", "failed", "aborted"}, got : Seq(Nat)] /\ wire'.at = "failed"
    BY <1>3, <2>1
  <2>3. Request!TypeOK'
    BY <1>1, <1>2, <1>3, <1>12, <1>13, <2>2 DEF Request!TypeOK
  <2> QED
    BY <1>4, <1>12, <2>2, <2>3 DEF Request!IInv, Request!PumpStops
<1>15. CASE what # Request!Failed
  <2>1. wire' = [wire EXCEPT !.got = Append(@, what.chunk)]
    BY <1>1, <1>9, <1>15
  <2>2. what # Request!Done
    <3>1. CASE pump.at \in {"ready", "reading"}
      <4>1. g + 1 \in 1..h
        BY <1>8
      <4>2. src.answers[g + 1].what = Request!Chunk(g + 1)
        BY <1>7, <3>1, <4>1 DEF SentWay
      <4> QED
        BY <1>10, <4>2 DEF Request!Chunk, Request!Done
    <3>2. CASE pump.at = "sending"
      <4>1. g + 1 \in 1..(g + c)
        BY <1>8
      <4>2. src.answers[g + 1].what = Request!Chunk(g + 1)
        BY <1>7, <3>2, <4>1 DEF SentWay
      <4> QED
        BY <1>10, <4>2 DEF Request!Chunk, Request!Done
    <3>3. CASE pump.at = "ended"
      <4>1. /\ h > 0 /\ \A i \in 1..(h - 1) : src.answers[i].what = Request!Chunk(i)
            /\ \/ g + c + 1 = h
               \/ g + c = h /\ src.answers[h].what = Request!Failed
        BY <1>7, <3>3 DEF SentWay
      <4>2. g + 1 \in 1..(h - 1)
        BY <1>8, <1>10, <1>15, <4>1
      <4>3. src.answers[g + 1].what = Request!Chunk(g + 1)
        BY <4>1, <4>2
      <4> QED
        BY <1>10, <4>3 DEF Request!Chunk, Request!Done
    <3> QED
      BY <1>2, <1>4, <3>1, <3>2, <3>3 DEF Request!TypeOK, Request!PumpStates
  <2>3. what = Request!Chunk(g + 1)
    BY <1>11, <1>15, <2>2 DEF Request!End
  <2>4. what.chunk = g + 1
    BY <2>3 DEF Request!Chunk
  <2>5. /\ Append(wire.got, g + 1) \in Seq(Nat) /\ Len(Append(wire.got, g + 1)) = g + 1
        /\ \A i \in 1..g : Append(wire.got, g + 1)[i] = wire.got[i]
        /\ Append(wire.got, g + 1)[g + 1] = g + 1
    <3>1. wire.got \in Seq(Nat) /\ g + 1 \in Nat
      BY <1>3
    <3> QED
      BY <1>8, <3>1, Appended
  <2>6. /\ wire' \in [at : {"sending", "complete", "failed", "aborted"}, got : Seq(Nat)]
        /\ wire'.at = "sending" /\ wire'.got = Append(wire.got, g + 1)
    BY <1>1, <1>3, <2>1, <2>4, <2>5
  <2>7. Request!TypeOK'
    BY <1>1, <1>2, <1>3, <1>12, <1>13, <2>6 DEF Request!TypeOK
  <2>8. Len(channel') = 0 /\ Len(wire'.got) = g + 1 /\ pump' = pump /\ src' = src
    BY <1>1, <1>12, <2>5, <2>6
  <2>9. \A i \in 1..(g + 1) : wire'.got[i] = i /\ src.answers[i].what = Request!Chunk(i)
    <3> SUFFICES ASSUME NEW i \in 1..(g + 1)
        PROVE wire'.got[i] = i /\ src.answers[i].what = Request!Chunk(i)
      OBVIOUS
    <3>1. CASE i \in 1..g
      BY <1>7, <2>5, <2>6, <3>1 DEF SentWay
    <3>2. CASE i = g + 1
      BY <1>10, <2>3, <2>5, <2>6, <3>2
    <3> QED
      BY <3>1, <3>2
  <2>10. pump.at \in {"ready", "reading"} => g + 1 = h
           /\ \A i \in 1..h : src.answers[i].what = Request!Chunk(i)
    BY <1>7, <1>8 DEF SentWay
  <2>11. pump.at = "sending" =>
           /\ (g + 1) + 1 = h /\ \A i \in 1..(g + 1) : src.answers[i].what = Request!Chunk(i)
           /\ pump.hand = <<src.answers[h].what>> /\ src.answers[h].what # Request!Done
    BY <1>7, <1>8 DEF SentWay
  <2>12. pump.at = "ended" =>
           /\ h > 0 /\ \A i \in 1..(h - 1) : src.answers[i].what = Request!Chunk(i)
           /\ \/ (g + 1) + 1 = h /\ src.answers[h].what = Request!Done
              \/ g + 1 = h /\ src.answers[h].what = Request!Failed
    BY <1>7, <1>8 DEF SentWay
  <2>13. g + 1 + 0 = g + 1 /\ \A j \in 1..0 : channel'[j] = src.answers[g + 1 + j].what
    OBVIOUS
  <2>14. Request!OnTheWay(src.answers)'
    BY <1>8, <2>8, <2>9, <2>10, <2>11, <2>12, <2>13 DEF Request!OnTheWay, Request!Capacity
  <2> QED
    BY <1>4, <2>6, <2>7, <2>14 DEF Request!IInv, Request!PumpStops
<1> QED
  BY <1>14, <1>15

\* A body that ended is the whole of a stream that closed.
LEMMA EngineEnd == ASSUME Request!IInv, Request!EngineEnds PROVE Request!IInv'
<1>1. /\ wire.at = "sending" /\ channel = <<>> /\ pump.at = "ended"
         /\ UNCHANGED <<src, made, pump, channel>>
      /\ wire' = [wire EXCEPT !.at = "complete"]
  BY DEF Request!EngineEnds
<1>2. /\ wire \in [at : {"sending", "complete", "failed", "aborted"}, got : Seq(Nat)] /\ made \in Nat
      /\ pump.heard <= Len(src.answers) /\ pump.heard \in Nat
      /\ Request!Outstanding(src) = pump.heard
  BY <1>1, PumpIsThere
<1>3. Request!TypeOK /\ Request!SourceInTurn' /\ Request!PumpReadsAlone' /\ Request!OnTheWay(src.answers)
        /\ Request!PumpStops'
  BY <1>1 DEF Request!IInv, Request!SourceInTurn, Request!PumpReadsAlone, Request!PumpStops
<1>4. PICK b \in Nat : /\ Request!InTurn(src, b, Len(src.answers))
                       /\ src.state = "closed" => b = made
  BY <1>1, PumpIsThere
<1>5. PICK g \in Nat, c \in Nat, h \in Nat : SentCounts(g, c, h)
  BY <1>1, <1>3, SentCountsAre
<1>6. SentWay(src.answers, g, c, h)
  BY <1>1, <1>3, <1>5, SentWayIs
<1>7. c = 0 /\ Len(wire.got) = g /\ pump.heard = h
  BY <1>1, <1>5 DEF SentCounts
<1>8. /\ h > 0 /\ \A i \in 1..(h - 1) : src.answers[i].what = Request!Chunk(i)
      /\ \/ g + 1 = h /\ src.answers[h].what = Request!Done
         \/ g = h /\ src.answers[h].what = Request!Failed
      /\ \A i \in 1..g : wire.got[i] = i /\ src.answers[i].what = Request!Chunk(i)
  BY <1>1, <1>6, <1>7 DEF SentWay
<1>9. g + 1 = h /\ src.answers[h].what = Request!Done
  <2>1. ASSUME g = h PROVE src.answers[h].what # Request!Failed
    <3>1. h \in 1..g
      BY <1>8, <2>1
    <3>2. src.answers[h].what = Request!Chunk(h)
      BY <1>8, <3>1
    <3> QED
      BY <3>2 DEF Request!Chunk, Request!Failed
  <2> QED
    BY <1>8, <2>1
<1>10. PICK m : Len(src.answers) = m
  OBVIOUS
<1>11. m \in Nat /\ h <= m /\ b \in 0..m
  BY <1>2, <1>4, <1>7, <1>10, AnswersAre DEF Request!InTurn
<1>12. \A i \in 1..m : /\ i <= b => src.answers[i].what = Request!Chunk(i)
                       /\ i > b => src.answers[i].what = Request!End(src.state)
  BY <1>4, <1>10 DEF Request!InTurn
<1>13. m = h
  <2>1. PICK n : Len(src.requests) = n
    OBVIOUS
  <2>2. n \in Nat /\ m + n = h
    BY <1>2, <1>4, <1>7, <1>10, <2>1, AnswersAre DEF Request!Outstanding
  <2> QED
    BY <1>11, <2>2
<1>14. b < h /\ src.state = "closed"
  <2>1. h \in 1..m
    BY <1>8, <1>11
  <2>2. ASSUME h <= b PROVE FALSE
    <3>1. src.answers[h].what = Request!Chunk(h)
      BY <1>12, <2>1, <2>2
    <3> QED
      BY <1>9, <3>1 DEF Request!Chunk, Request!Done
  <2>3. Request!End(src.state) = Request!Done
    BY <1>9, <1>11, <1>12, <2>1, <2>2
  <2> QED
    BY <1>11, <2>2, <2>3 DEF Request!End, Request!Done, Request!Failed
<1>15. b = g
  <2>1. ASSUME b < g PROVE FALSE
    <3>1. g \in 1..m /\ g > b
      BY <1>9, <1>11, <2>1
    <3>2. src.answers[g].what = Request!Done
      BY <1>12, <1>14, <3>1 DEF Request!End
    <3>3. src.answers[g].what = Request!Chunk(g)
      BY <1>8, <3>1
    <3> QED
      BY <3>2, <3>3 DEF Request!Chunk, Request!Done
  <2> QED
    BY <1>9, <1>11, <1>14, <2>1
<1>16. wire.got = [i \in 1..made |-> i]
  <2>1. made = g
    BY <1>4, <1>14, <1>15
  <2>2. wire.got \in Seq(Nat) /\ Len(wire.got) = g
    BY <1>2, <1>7
  <2>3. wire.got = [i \in 1..g |-> wire.got[i]]
    BY <2>2
  <2>4. \A i \in 1..g : wire.got[i] = i
    BY <1>8
  <2> QED
    BY <2>1, <2>3, <2>4
<1>17. /\ wire' \in [at : {"sending", "complete", "failed", "aborted"}, got : Seq(Nat)]
       /\ wire'.at = "complete" /\ wire'.got = wire.got
  BY <1>1, <1>2
<1>18. Request!TypeOK'
  BY <1>1, <1>3, <1>17 DEF Request!TypeOK
<1> QED
  BY <1>1, <1>3, <1>14, <1>16, <1>17, <1>18 DEF Request!IInv

LEMMA RequestAbort == ASSUME Request!IInv, Request!Abort PROVE Request!IInv'
<1>1. /\ wire.at = "sending" /\ wire' = [wire EXCEPT !.at = "aborted"] /\ channel' = <<>>
      /\ UNCHANGED <<src, made, pump>>
  BY DEF Request!Abort
<1>2. Request!TypeOK /\ Request!SourceInTurn' /\ Request!PumpReadsAlone' /\ pump.at # "none"
  BY <1>1 DEF Request!IInv, Request!SourceInTurn, Request!PumpReadsAlone, Request!TypeOK
<1>3. /\ wire' \in [at : {"sending", "complete", "failed", "aborted"}, got : Seq(Nat)]
         /\ wire'.at = "aborted"
  BY <1>1, <1>2 DEF Request!TypeOK
<1>4. <<>> \in Seq(Request!Outcomes)
  OBVIOUS
<1>5. Request!TypeOK'
  BY <1>1, <1>2, <1>3, <1>4 DEF Request!TypeOK
<1> QED
  BY <1>1, <1>2, <1>3, <1>5 DEF Request!IInv, Request!PumpStops

LEMMA RequestFetched == ASSUME Request!IInv, Request!FetchRequest PROVE Request!IInv'
<1>1. /\ wire.at = "none" /\ wire' = [at |-> "complete", got |-> IF request.bytes THEN <<"bytes">> ELSE <<>>]
      /\ UNCHANGED <<src, made, pump, channel>>
  BY DEF Request!FetchRequest, Request!Before
<1>2. Request!TypeOK /\ Request!SourceInTurn' /\ Request!PumpReadsAlone' /\ pump.at = "none"
  BY <1>1 DEF Request!IInv, Request!SourceInTurn, Request!PumpReadsAlone
<1>3. wire' \in [at : {"none", "complete"}, got : {<<>>, <<"bytes">>}] /\ wire'.at = "complete"
  BY <1>1
<1>4. Request!TypeOK'
  BY <1>1, <1>2, <1>3 DEF Request!TypeOK
<1> QED
  BY <1>1, <1>2, <1>3, <1>4 DEF Request!IInv, Request!PumpStops

\* The script's Request, before it is sent.
LEMMA RequestRests == ASSUME Request!IInv, UNCHANGED <<src, made, pump, channel, wire>> PROVE Request!IInv'
BY DEF Request!IInv, Request!TypeOK, Request!SourceInTurn, Request!PumpReadsAlone, Request!PumpStops,
  Request!OnTheWay

LEMMA RequestNext == ASSUME Request!IInv, [Request!Next]_(Request!vars) PROVE Request!IInv'
<1>1. CASE Request!BodyGetter \/ Request!ReadBody \/ Request!TakeBytes \/ Request!NewFrom
             \/ UNCHANGED Request!vars
  BY <1>1, RequestRests DEF Request!BodyGetter, Request!ReadBody, Request!TakeBytes, Request!NewFrom,
    Request!vars
<1>2. CASE Request!FetchRequest \/ Request!FetchStream
  BY <1>2, RequestFetched, StreamFetched
<1>3. CASE Request!SourceStarts \/ Request!SourceEnqueues \/ Request!SourceCloses \/ Request!SourceErrors
             \/ Request!SourcePulled
  BY <1>3, SourceStart, SourceEnqueue, SourceClose, SourceError, SourcePull
<1>4. CASE Request!PumpReads \/ Request!PumpHears \/ Request!PumpSends
  BY <1>4, PumpRead, PumpHear, PumpSend
<1>5. CASE Request!EngineTakes \/ Request!EngineEnds \/ Request!Abort
  BY <1>5, EngineTake, EngineEnd, RequestAbort
<1> QED
  BY <1>1, <1>2, <1>3, <1>4, <1>5 DEF Request!Next

LEMMA RequestIsWhole == ASSUME Request!IInv PROVE Request!BodyIsSentWhole
<1>1. Request!NeverTruncated
  <2> SUFFICES ASSUME wire.at = "complete"
      PROVE  \/ pump.at = "none" /\ wire.got \in {<<>>, <<"bytes">>}
             \/ src.state = "closed" /\ wire.got = [n \in 1..made |-> n]
    BY DEF Request!NeverTruncated
  <2> QED
    BY DEF Request!IInv, Request!TypeOK
<1>2. Request!PumpStops
  BY DEF Request!IInv
<1>3. Request!PumpKeepsPace
  <2>0. PICK mid : mid = [i \in DOMAIN channel |-> IF channel[i] = Request!Failed THEN 0 ELSE channel[i].chunk]
    OBVIOUS
  <2> SUFFICES ASSUME wire.at = "sending"
      PROVE  /\ Len(channel) <= Request!Capacity
             /\ pump.heard <= Len(wire.got) + Request!Capacity + 1
             /\ Len(src.answers) + Len(src.requests) <= pump.heard + 1
             /\ \A n \in DOMAIN (wire.got \o mid) : (wire.got \o mid)[n] \in {0, n}
    BY <2>0 DEF Request!PumpKeepsPace
  <2>1. pump.at # "none" /\ Request!TypeOK /\ Request!OnTheWay(src.answers)
    BY DEF Request!IInv, Request!TypeOK
  <2>2. /\ channel \in Seq(Request!Outcomes) /\ pump.heard <= Len(src.answers) /\ pump.heard \in Nat
        /\ wire.got \in Seq(Nat)
        /\ Request!Outstanding(src) = pump.heard + (IF pump.at = "reading" THEN 1 ELSE 0)
    BY <2>1, PumpIsThere
  <2>3. PICK g \in Nat, c \in Nat, h \in Nat : SentCounts(g, c, h)
    BY <2>1, SentCountsAre
  <2>4. SentWay(src.answers, g, c, h)
    BY <2>1, <2>3, SentWayIs
  <2>5. Len(wire.got) = g /\ Len(channel) = c /\ pump.heard = h /\ c <= 1
    BY <2>3, <2>4 DEF SentCounts, SentWay
  <2>6. h <= g + 1 + 1
    BY <2>1, <2>4 DEF SentWay, Request!TypeOK, Request!PumpStates
  <2>7. Len(src.answers) + Len(src.requests) <= h + 1
    <3>1. PICK m : m = Len(src.answers) + Len(src.requests)
      OBVIOUS
    <3>2. m = Request!Outstanding(src)
      BY <3>1 DEF Request!Outstanding
    <3>2a. m = h \/ m = h + 1
      <4>1. CASE pump.at = "reading"
        BY <2>2, <2>5, <3>2, <4>1
      <4>2. CASE pump.at # "reading"
        BY <2>2, <2>5, <3>2, <4>2
      <4> QED
        BY <4>1, <4>2
    <3>3. m <= h + 1
      BY <3>2a
    <3> QED
      BY <3>1, <3>3
  <2>8. PICK b \in Nat : Request!InTurn(src, b, Len(src.answers))
    BY <2>1, PumpIsThere
  <2>9. mid \in Seq(Nat) /\ Len(mid) = c /\ \A j \in 1..c : mid[j] \in {0, g + j}
    <3>1. channel = [i \in 1..c |-> channel[i]] /\ \A i \in 1..c : channel[i] \in Request!Outcomes
      BY <2>2, <2>5
    <3>2. \A j \in 1..c : channel[j] \in {Request!Chunk(g + j), Request!Failed}
      <4> SUFFICES ASSUME NEW j \in 1..c PROVE channel[j] \in {Request!Chunk(g + j), Request!Failed}
        OBVIOUS
      <4>1. channel[j] = src.answers[g + j].what
        BY <2>4 DEF SentWay
      <4>2. CASE pump.at \in {"ready", "reading"}
        <5>1. g + j \in 1..h
          BY <2>4, <4>2 DEF SentWay
        <5> QED
          BY <2>4, <4>1, <4>2, <5>1 DEF SentWay
      <4>3. CASE pump.at = "sending"
        <5>1. g + j \in 1..(g + c)
          OBVIOUS
        <5> QED
          BY <2>4, <4>1, <4>3, <5>1 DEF SentWay
      <4>4. CASE pump.at = "ended"
        <5>1. /\ h > 0 /\ \A i \in 1..(h - 1) : src.answers[i].what = Request!Chunk(i)
              /\ \/ g + c + 1 = h
                 \/ g + c = h /\ src.answers[h].what = Request!Failed
          BY <2>4, <4>4 DEF SentWay
        <5>2. CASE g + j \in 1..(h - 1)
          BY <4>1, <5>1, <5>2
        <5>3. CASE g + j = h
          <6>1. src.answers[h].what = Request!Failed
            BY <5>1, <5>3
          <6> QED
            BY <4>1, <5>3, <6>1
        <5>4. g + j \in 1..(h - 1) \/ g + j = h
          BY <5>1
        <5> QED
          BY <5>2, <5>3, <5>4
      <4> QED
        BY <2>1, <4>2, <4>3, <4>4 DEF Request!TypeOK, Request!PumpStates
    <3>3. DOMAIN channel = 1..c
      BY <2>2, <2>5
    <3>4. mid = [i \in 1..c |-> IF channel[i] = Request!Failed THEN 0 ELSE channel[i].chunk]
      BY <2>0, <3>3
    <3>5. \A j \in 1..c : mid[j] \in {0, g + j}
      BY <3>2, <3>4 DEF Request!Chunk
    <3>6. \A j \in 1..c : mid[j] \in Nat
      BY <3>5
    <3>7. mid = [i \in 1..c |-> mid[i]]
      BY <3>4
    <3> QED
      BY <3>5, <3>6, <3>7
  <2>10. PICK held : held = wire.got \o mid
    OBVIOUS
  <2>10a. PICK got : got = wire.got
    OBVIOUS
  <2>10b. held = got \o mid /\ got \in Seq(Nat) /\ Len(got) = g
    BY <2>2, <2>5, <2>10, <2>10a
  <2>10c. /\ held \in Seq(Nat) /\ Len(held) = Len(got) + Len(mid)
          /\ \A i \in 1..Len(got) : held[i] = got[i]
          /\ \A i \in 1..Len(mid) : held[Len(got) + i] = mid[i]
    <3>1. mid \in Seq(Nat) /\ got \in Seq(Nat)
      BY <2>9, <2>10b
    <3>2. /\ got \o mid \in Seq(Nat) /\ Len(got \o mid) = Len(got) + Len(mid)
          /\ \A i \in 1..Len(got) : (got \o mid)[i] = got[i]
          /\ \A i \in 1..Len(mid) : (got \o mid)[Len(got) + i] = mid[i]
      BY <3>1, Joined
    <3> QED
      BY <2>10b, <3>2
  <2>11. /\ held \in Seq(Nat) /\ Len(held) = g + c
         /\ \A i \in 1..g : held[i] = wire.got[i]
         /\ \A i \in 1..c : held[g + i] = mid[i]
    BY <2>9, <2>10a, <2>10b, <2>10c
  <2>12. \A n \in DOMAIN held : held[n] \in {0, n}
    <3> SUFFICES ASSUME NEW n \in 1..(g + c) PROVE held[n] \in {0, n}
      BY <2>11
    <3>1. CASE n \in 1..g
      BY <2>4, <2>11, <3>1 DEF SentWay
    <3>2. CASE n \notin 1..g
      <4>1. PICK j \in 1..c : n = g + j
        <5>1. n - g \in 1..c /\ n = g + (n - g)
          BY <3>2
        <5> QED
          BY <5>1
      <4> QED
        BY <2>9, <2>11, <4>1
    <3> QED
      BY <3>1, <3>2
  <2> QED
    BY <2>5, <2>6, <2>7, <2>10, <2>12 DEF Request!Capacity
<1> QED
  BY <1>1, <1>2, <1>3 DEF Request!BodyIsSentWhole

-----------------------------------------------------------------------------
\* Bodies arrive whole or fail, however many chunks they have, however large a body
\* text() takes and whatever the high water mark (consume, from_net, request_body).
THEOREM BodiesArriveWhole == MCSpec => []BodiesAreWhole
<1> DEFINE Inv == Response!FetchInv /\ Request!IInv
<1>1. MCInit => Inv
  BY ResponseInit, RequestInit DEF MCInit
<1>2. Inv /\ [MCNext]_allVars => Inv'
  <2> SUFFICES ASSUME Inv, [MCNext]_allVars PROVE Inv'
    OBVIOUS
  <2>1. [Response!Next]_(Response!vars) /\ [Request!Next]_(Request!vars)
    BY DEF MCNext, ResponseStep, RequestStep, FetchStep, allVars, responseVars, requestVars,
           Response!vars, Request!vars
  <2>2. Response!FetchInv'
    BY <2>1, ResponseNext
  <2>3. Request!IInv'
    BY <2>1, RequestNext
  <2> QED
    BY <2>2, <2>3
<1>3. Inv => BodiesAreWhole
  BY ResponseIsWhole, RequestIsWhole DEF BodiesAreWhole
<1> QED
  BY <1>1, <1>2, <1>3, PTL DEF MCSpec

-------------------------------------------------------------------------------
(* Proofs about a request, for any urls, cookies and credentials, and any  *)
(* limits, by the inductive invariant of FetchEngine.                      *)

\* A cookie that matches where it goes and is in its setter's domain is at home there.
LEMMA CookieIsHome ==
    ASSUME NEW cookie, NEW url, Fetch!DomainMatches(cookie.from, cookie), Fetch!MatchesUrl(cookie, url)
    PROVE  /\ \/ cookie.from = url.host
              \/ /\ cookie.dotted
                 /\ Fetch!IsPrefix(cookie.domain, cookie.from)
                 /\ Fetch!IsPrefix(cookie.domain, url.host)
           /\ cookie.secure => url.scheme = "https" \/ Fetch!IsLocal(url.host)
BY DEF Fetch!DomainMatches, Fetch!MatchesUrl

\* Whatever a response sets, the jar keeps only cookies in their setter's domain.
LEMMA StoredIsHonest ==
    ASSUME Fetch!JarIsHonest, NEW raws
    PROVE  \A cookie \in Fetch!Stored(raws) : Fetch!DomainMatches(cookie.from, cookie)
<1>1. ASSUME NEW cookie \in Fetch!Accepted(raws, req.url)
      PROVE  Fetch!DomainMatches(cookie.from, cookie)
  <2>1. PICK raw \in raws : cookie = Fetch!Parsed(raw, req.url)
    BY DEF Fetch!Accepted
  <2>2. cookie.from = req.url.host
    BY <2>1 DEF Fetch!Parsed
  <2> QED
    BY <2>2 DEF Fetch!Accepted
<1> QED
  BY <1>1 DEF Fetch!Stored, Fetch!Added, Fetch!JarIsHonest

LEMMA FetchInitIInv ==
    ASSUME Fetch!ConstantsOK, Fetch!Init
    PROVE  Fetch!IInv
<1>1. req \in Fetch!RequestType /\ orig \in Fetch!RequestType /\ orig = req
  BY DEF Fetch!Init, Fetch!Requests, Fetch!RequestType, Fetch!Origins
<1>2. (req.method = "GET" => req.body = "none") /\ req.auth \in {None, Fetch!Origin(req.url)}
  BY DEF Fetch!Init, Fetch!Requests
<1>3. Fetch!RedirectsLeft \in 0..MaxRedirects
  BY DEF Fetch!RedirectsLeft, Fetch!Init, Fetch!FollowBudget, Fetch!ConstantsOK
<1>4. Fetch!Typed
  BY <1>1 DEF Fetch!Typed, Fetch!Init, Fetch!FollowBudget, Fetch!ConstantsOK
<1>5. Fetch!HopsAreFew
  BY <1>3 DEF Fetch!HopsAreFew, Fetch!HopsToCome, Fetch!Init, Fetch!ConstantsOK
<1> QED
  BY <1>1, <1>2, <1>4, <1>5 DEF Fetch!IInv, Fetch!Init, Fetch!HeaderIsForItsOrigin, Fetch!JarIsHonest,
    Fetch!HopIsTheRequests, Fetch!CarriesItsOwn,
    Fetch!BodyIsThere, Fetch!CredentialsStayHome, Fetch!PayloadIsWhole

LEMMA BackoffGrows ==
    ASSUME Fetch!DoublingGrows, NEW m \in Nat, NEW n \in Nat, m <= n
    PROVE  Fetch!Backoff(m) \in Nat /\ Fetch!Backoff(m) <= Fetch!Backoff(n)
<1> DEFINE Exponent(k) == IF k = 0 THEN 0 ELSE k - 1
<1>1. Exponent(m) \in Nat /\ Exponent(n) \in Nat /\ Exponent(m) <= Exponent(n)
  OBVIOUS
<1> HIDE DEF Exponent
<1>2. 2 ^ Exponent(m) \in Nat /\ 2 ^ Exponent(m) <= 2 ^ Exponent(n)
  BY <1>1 DEF Fetch!DoublingGrows
<1>3. Fetch!Backoff(m) = 2 ^ Exponent(m) /\ Fetch!Backoff(n) = 2 ^ Exponent(n)
  BY DEF Fetch!Backoff, Exponent
<1> QED
  BY <1>2, <1>3

\* Steps that leave the request, the hop and the jar as they are.
LEMMA WaitKeepsIInv ==
    ASSUME Fetch!ConstantsOK, Fetch!DoublingGrows, Fetch!IInv,
           Fetch!RefusedByGuard \/ Fetch!TooLate \/ Fetch!Tick \/ Fetch!ConnectionReset \/ Fetch!OtherFailure
    PROVE  Fetch!IInv'
<1> USE DEF Fetch!RefusedByGuard, Fetch!TooLate, Fetch!Tick, Fetch!ConnectionReset, Fetch!OtherFailure
<1>1. Fetch!Typed'
  <2> USE DEF Fetch!IInv, Fetch!Typed, Fetch!ConstantsOK
  <2>1. CASE Fetch!RefusedByGuard \/ Fetch!TooLate \/ Fetch!Tick \/ Fetch!OtherFailure
    BY <2>1
  <2>2. CASE Fetch!ConnectionReset /\ phase' = "failed"
    BY <2>2
  <2>3. CASE Fetch!ConnectionReset /\ phase' # "failed"
    BY <2>3, BackoffGrows
  <2> QED
    BY <2>1, <2>2, <2>3
<1>2. Fetch!HeaderIsForItsOrigin'
  BY DEF Fetch!IInv, Fetch!HeaderIsForItsOrigin
<1>3. Fetch!JarIsHonest'
  BY DEF Fetch!IInv, Fetch!JarIsHonest
<1>4. Fetch!HopIsTheRequests'
  BY DEF Fetch!IInv, Fetch!HopIsTheRequests, Fetch!CarriesItsOwn, Fetch!IsHop
<1>5. Fetch!BodyIsThere'
  BY DEF Fetch!IInv, Fetch!BodyIsThere
<1>6. Fetch!HopsAreFew'
  BY DEF Fetch!IInv, Fetch!HopsAreFew, Fetch!HopsToCome, Fetch!RedirectsLeft, Fetch!Typed,
    Fetch!ConstantsOK
<1>7. Fetch!CredentialsStayHome'
  BY DEF Fetch!IInv, Fetch!CredentialsStayHome, Fetch!CarriesItsOwn
<1>8. Fetch!PayloadIsWhole'
  BY DEF Fetch!IInv, Fetch!PayloadIsWhole
<1> QED
  BY <1>1, <1>2, <1>3, <1>4, <1>5, <1>6, <1>7, <1>8 DEF Fetch!IInv

LEMMA BuildKeepsIInv ==
    ASSUME Fetch!ConstantsOK, Fetch!IInv, Fetch!BuildHop
    PROVE  Fetch!IInv'
<1> USE DEF Fetch!BuildHop
<1>1. Fetch!Typed'
  BY DEF Fetch!IInv, Fetch!Typed, Fetch!ConstantsOK, Fetch!RequestType
<1>2. Fetch!HeaderIsForItsOrigin'
  BY DEF Fetch!IInv, Fetch!HeaderIsForItsOrigin
<1>3. Fetch!JarIsHonest'
  BY DEF Fetch!IInv, Fetch!JarIsHonest
<1>5. Fetch!BodyIsThere'
  BY DEF Fetch!IInv, Fetch!BodyIsThere
<1>6. Fetch!HopsAreFew'
  BY DEF Fetch!IInv, Fetch!HopsAreFew, Fetch!HopsToCome, Fetch!RedirectsLeft, Fetch!Typed,
    Fetch!ConstantsOK
<1>4. Fetch!CarriesItsOwn(hop')
  <2>1. hop'.url = req.url /\ hop'.auth = req.auth /\ hop'.cookies = Fetch!CookiesFor(req.url)
    OBVIOUS
  <2>2. \A cookie \in Fetch!CookiesFor(req.url) : cookie \in jar /\ Fetch!MatchesUrl(cookie, req.url)
    BY DEF Fetch!CookiesFor
  <2>3. orig.credentials = "omit" => Fetch!CookiesFor(req.url) = {}
    BY DEF Fetch!CookiesFor, Fetch!IInv, Fetch!HeaderIsForItsOrigin
  <2> QED
    BY <2>1, <2>2, <2>3, CookieIsHome DEF Fetch!IInv, Fetch!CarriesItsOwn, Fetch!HeaderIsForItsOrigin,
      Fetch!JarIsHonest
<1>7. Fetch!CredentialsStayHome' /\ Fetch!HopIsTheRequests'
  BY <1>4 DEF Fetch!CredentialsStayHome, Fetch!HopIsTheRequests, Fetch!IsHop, Fetch!CarriesItsOwn
<1>8. Fetch!PayloadIsWhole'
  BY DEF Fetch!IInv, Fetch!PayloadIsWhole
<1> QED
  BY <1>1, <1>2, <1>3, <1>4, <1>5, <1>6, <1>7, <1>8 DEF Fetch!IInv

LEMMA SendKeepsIInv ==
    ASSUME Fetch!ConstantsOK, Fetch!IInv, Fetch!Send
    PROVE  Fetch!IInv'
<1> USE DEF Fetch!Send
<1>0. /\ hop'.url = hop.url /\ hop'.method = hop.method /\ hop'.auth = hop.auth
      /\ hop'.cookies = hop.cookies /\ hop'.body = req.body /\ Fetch!IsHop(hop')
  BY DEF Fetch!IInv, Fetch!HopIsTheRequests, Fetch!CarriesItsOwn, Fetch!IsHop
<1>1. Fetch!Typed'
  BY DEF Fetch!IInv, Fetch!Typed, Fetch!ConstantsOK, Fetch!RequestType
<1>2. Fetch!HeaderIsForItsOrigin'
  BY DEF Fetch!IInv, Fetch!HeaderIsForItsOrigin
<1>3. Fetch!JarIsHonest'
  BY DEF Fetch!IInv, Fetch!JarIsHonest
<1>4. Fetch!HopIsTheRequests'
  BY <1>0 DEF Fetch!IInv, Fetch!HopIsTheRequests, Fetch!CarriesItsOwn, Fetch!IsHop
<1>5. Fetch!BodyIsThere'
  BY DEF Fetch!IInv, Fetch!BodyIsThere
<1>6. Fetch!HopsAreFew'
  BY DEF Fetch!IInv, Fetch!HopsAreFew, Fetch!HopsToCome, Fetch!RedirectsLeft, Fetch!Typed,
    Fetch!ConstantsOK
<1>7. Fetch!CredentialsStayHome'
  BY <1>0 DEF Fetch!IInv, Fetch!CredentialsStayHome, Fetch!CarriesItsOwn, Fetch!HopIsTheRequests,
    Fetch!HeaderIsForItsOrigin
<1>8. Fetch!PayloadIsWhole'
  BY <1>0 DEF Fetch!IInv, Fetch!PayloadIsWhole, Fetch!HopIsTheRequests, Fetch!CarriesItsOwn,
    Fetch!BodyIsThere, Fetch!Typed, Fetch!RequestType
<1> QED
  BY <1>1, <1>2, <1>3, <1>4, <1>5, <1>6, <1>7, <1>8 DEF Fetch!IInv

\* What a redirect makes of the request.
LEMMA RewrittenRequest ==
    ASSUME Fetch!IInv, NEW status, NEW target \in Urls
    PROVE  /\ Fetch!Rewritten(status, target) \in Fetch!RequestType
           /\ Fetch!Rewritten(status, target).auth \in {None, Fetch!Origin(target)}
           /\ Fetch!Rewritten(status, target).url = target
           /\ Fetch!Rewritten(status, target).credentials = req.credentials
           /\ \/ Fetch!Rewritten(status, target).method = "GET"
                   /\ Fetch!Rewritten(status, target).body = "none"
              \/ /\ Fetch!Rewritten(status, target).method = req.method
                 /\ Fetch!Rewritten(status, target).body = req.body
                 /\ ~(status = 303 /\ req.method # "GET")
<1> DEFINE toGet == \/ status = 301 /\ req.method = "POST"
                    \/ status = 303 /\ req.method # "GET"
           auth == IF Fetch!Origin(target) = Fetch!Origin(req.url) THEN req.auth ELSE None
           new == [req EXCEPT !.url = target, !.method = IF toGet THEN "GET" ELSE @,
                              !.body = IF toGet THEN "none" ELSE @, !.auth = auth]
<1>1. auth \in {None, Fetch!Origin(target)} /\ auth \in {None} \union Fetch!Origins
  BY DEF Fetch!IInv, Fetch!HeaderIsForItsOrigin, Fetch!Origins
<1>2. Fetch!Rewritten(status, target) = new
  BY DEF Fetch!Rewritten
<1> HIDE DEF auth
<1>3. /\ new.url = target /\ new.auth = auth /\ new.credentials = req.credentials
      /\ new.method = (IF toGet THEN "GET" ELSE req.method)
      /\ new.body = (IF toGet THEN "none" ELSE req.body)
  BY DEF Fetch!IInv, Fetch!Typed, Fetch!RequestType
<1>4. new \in Fetch!RequestType
  BY <1>1 DEF Fetch!IInv, Fetch!Typed, Fetch!RequestType
<1> QED
  BY <1>1, <1>2, <1>3, <1>4

LEMMA RedirectKeepsIInv ==
    ASSUME Fetch!ConstantsOK, Fetch!IInv, NEW raws \in Fetch!Raws, NEW status \in {301, 303, 307}, NEW target \in Urls,
           Fetch!Redirected(status, target, raws)
    PROVE  Fetch!IInv'
<1>1. Fetch!JarIsHonest'
  BY StoredIsHonest DEF Fetch!IInv, Fetch!Redirected, Fetch!JarIsHonest
<1>2. CASE phase' = "refused"
  BY <1>1, <1>2 DEF Fetch!Redirected, Fetch!IInv, Fetch!Typed, Fetch!HeaderIsForItsOrigin,
    Fetch!HopIsTheRequests, Fetch!CarriesItsOwn, Fetch!BodyIsThere,
    Fetch!HopsAreFew, Fetch!CredentialsStayHome, Fetch!PayloadIsWhole
<1>3. CASE phase' = "build"
  <2>1. /\ req' = Fetch!Rewritten(status, target)
        /\ remaining' = remaining - 1 /\ remaining \in 1..MaxRedirects
        /\ ~(orig.body = "stream" /\ status # 303)
        /\ phase = "wire"
        /\ UNCHANGED <<attempt, now, hop, hops, orig>>
    BY <1>3 DEF Fetch!Redirected, Fetch!IInv, Fetch!Typed, Fetch!ConstantsOK
  <2>2. Fetch!Typed' /\ Fetch!HeaderIsForItsOrigin'
    BY <1>3, <2>1, RewrittenRequest DEF Fetch!IInv, Fetch!Typed, Fetch!HeaderIsForItsOrigin,
      Fetch!ConstantsOK
  <2>3. Fetch!BodyIsThere'
    BY <1>3, <2>1, RewrittenRequest DEF Fetch!IInv, Fetch!BodyIsThere, Fetch!Typed, Fetch!RequestType
  <2>4. Fetch!HopsAreFew'
    BY <1>3, <2>1 DEF Fetch!IInv, Fetch!Typed, Fetch!HopsAreFew, Fetch!HopsToCome, Fetch!RedirectsLeft,
      Fetch!ConstantsOK
  <2>5. Fetch!HopIsTheRequests' /\ Fetch!CredentialsStayHome' /\ Fetch!PayloadIsWhole'
    BY <1>3, <2>1 DEF Fetch!IInv, Fetch!HopIsTheRequests, Fetch!CarriesItsOwn,
      Fetch!CredentialsStayHome, Fetch!PayloadIsWhole
  <2> QED
    BY <1>1, <2>2, <2>3, <2>4, <2>5 DEF Fetch!IInv
<1> QED
  BY <1>2, <1>3 DEF Fetch!Redirected

LEMMA ChallengeKeepsIInv ==
    ASSUME Fetch!ConstantsOK, Fetch!IInv, NEW raws \in Fetch!Raws, Fetch!Challenged(raws)
    PROVE  Fetch!IInv'
<1>1. Fetch!JarIsHonest'
  BY StoredIsHonest DEF Fetch!IInv, Fetch!Challenged, Fetch!JarIsHonest
<1>2. /\ req' = [req EXCEPT !.auth = Fetch!Origin(req.url)]
      /\ phase = "wire" /\ phase' = "build" /\ req.auth = None /\ orig.body # "stream"
      /\ UNCHANGED <<remaining, attempt, now, hop, hops, orig>>
  BY DEF Fetch!Challenged, Fetch!IInv, Fetch!HopIsTheRequests, Fetch!CarriesItsOwn
<1>3. Fetch!Origin(req.url) \in Fetch!Origins /\ Fetch!Origin(req.url) # None
  BY DEF Fetch!IInv, Fetch!Typed, Fetch!RequestType, Fetch!Origins, Fetch!ConstantsOK
<1>4. /\ req' \in Fetch!RequestType /\ req'.auth = Fetch!Origin(req.url)
      /\ req'.url = req.url /\ req'.credentials = req.credentials
      /\ req'.method = req.method /\ req'.body = req.body
  BY <1>2, <1>3 DEF Fetch!IInv, Fetch!Typed, Fetch!RequestType
<1>5. Fetch!Typed' /\ Fetch!HeaderIsForItsOrigin' /\ Fetch!BodyIsThere'
  BY <1>2, <1>4 DEF Fetch!IInv, Fetch!Typed, Fetch!HeaderIsForItsOrigin, Fetch!BodyIsThere
<1>6. Fetch!HopsAreFew'
  BY <1>2, <1>3, <1>4 DEF Fetch!IInv, Fetch!Typed, Fetch!HopsAreFew, Fetch!HopsToCome,
    Fetch!RedirectsLeft, Fetch!ConstantsOK
<1>7. Fetch!HopIsTheRequests' /\ Fetch!CredentialsStayHome' /\ Fetch!PayloadIsWhole'
  BY <1>2 DEF Fetch!IInv, Fetch!HopIsTheRequests, Fetch!CarriesItsOwn, Fetch!CredentialsStayHome,
    Fetch!PayloadIsWhole
<1> QED
  BY <1>1, <1>5, <1>6, <1>7 DEF Fetch!IInv

LEMMA AnswerKeepsIInv ==
    ASSUME Fetch!IInv, NEW raws \in Fetch!Raws, Fetch!Answer(raws)
    PROVE  Fetch!IInv'
<1>1. Fetch!JarIsHonest'
  BY StoredIsHonest DEF Fetch!IInv, Fetch!Answer, Fetch!JarIsHonest
<1> QED
  BY <1>1 DEF Fetch!Answer, Fetch!IInv, Fetch!Typed, Fetch!HeaderIsForItsOrigin,
    Fetch!HopIsTheRequests, Fetch!CarriesItsOwn, Fetch!BodyIsThere,
    Fetch!HopsAreFew, Fetch!CredentialsStayHome, Fetch!PayloadIsWhole

LEMMA JarKeepsIInv ==
    ASSUME Fetch!ConstantsOK, Fetch!IInv, Fetch!JarChanges
    PROVE  Fetch!IInv'
<1> USE DEF Fetch!JarChanges
<1>1. Fetch!Typed'
  BY DEF Fetch!IInv, Fetch!Typed, Fetch!ConstantsOK, Fetch!RequestType
<1>2. Fetch!HeaderIsForItsOrigin'
  BY DEF Fetch!IInv, Fetch!HeaderIsForItsOrigin
<1>3. Fetch!JarIsHonest'
  BY DEF Fetch!IInv, Fetch!JarIsHonest
<1>4. Fetch!HopIsTheRequests'
  BY DEF Fetch!IInv, Fetch!HopIsTheRequests, Fetch!CarriesItsOwn, Fetch!IsHop
<1>5. Fetch!BodyIsThere'
  BY DEF Fetch!IInv, Fetch!BodyIsThere
<1>6. Fetch!HopsAreFew'
  BY DEF Fetch!IInv, Fetch!HopsAreFew, Fetch!HopsToCome, Fetch!RedirectsLeft, Fetch!Typed,
    Fetch!ConstantsOK
<1>7. Fetch!CredentialsStayHome'
  BY DEF Fetch!IInv, Fetch!CredentialsStayHome, Fetch!CarriesItsOwn
<1>8. Fetch!PayloadIsWhole'
  BY DEF Fetch!IInv, Fetch!PayloadIsWhole
<1> QED
  BY <1>1, <1>2, <1>3, <1>4, <1>5, <1>6, <1>7, <1>8 DEF Fetch!IInv

LEMMA FetchNextIInv ==
    ASSUME Fetch!ConstantsOK, Fetch!DoublingGrows, Fetch!IInv, [Fetch!Next]_(Fetch!vars)
    PROVE  Fetch!IInv'
<1>1. CASE UNCHANGED Fetch!vars
  BY <1>1 DEF Fetch!vars, Fetch!IInv, Fetch!Typed, Fetch!HeaderIsForItsOrigin, Fetch!JarIsHonest,
    Fetch!HopIsTheRequests, Fetch!CarriesItsOwn, Fetch!BodyIsThere,
    Fetch!HopsAreFew, Fetch!HopsToCome, Fetch!RedirectsLeft, Fetch!CredentialsStayHome, Fetch!PayloadIsWhole
<1> QED
  BY <1>1, WaitKeepsIInv, BuildKeepsIInv, SendKeepsIInv, RedirectKeepsIInv, ChallengeKeepsIInv,
    AnswerKeepsIInv, JarKeepsIInv DEF Fetch!Next

LEMMA FetchStaysOnTime ==
    ASSUME Fetch!ConstantsOK, Fetch!DoublingGrows, Fetch!IInv, Fetch!OnTime, [Fetch!Next]_(Fetch!vars)
    PROVE  Fetch!OnTime'
<1> USE DEF Fetch!OnTime, Fetch!IInv, Fetch!Typed, Fetch!ConstantsOK
<1>1. CASE Fetch!RefusedByGuard \/ Fetch!BuildHop \/ Fetch!Send \/ Fetch!TooLate \/ Fetch!Tick \/ Fetch!OtherFailure \/ Fetch!JarChanges
  BY <1>1 DEF Fetch!RefusedByGuard, Fetch!BuildHop, Fetch!Send, Fetch!TooLate, Fetch!Tick,
    Fetch!OtherFailure, Fetch!JarChanges
<1>2. CASE Fetch!ConnectionReset
  <2>1. attempt + 1 \in Nat /\ Fetch!Backoff(attempt + 1) \in Nat
    BY BackoffGrows
  <2> QED
    BY <1>2, <2>1 DEF Fetch!ConnectionReset
<1>3. ASSUME NEW raws \in Fetch!Raws, NEW status \in {301, 303, 307}, NEW target \in Urls,
             Fetch!Redirected(status, target, raws)
      PROVE  Fetch!OnTime'
  BY <1>3 DEF Fetch!Redirected
<1>4. ASSUME NEW raws \in Fetch!Raws, Fetch!Challenged(raws) \/ Fetch!Answer(raws)
      PROVE  Fetch!OnTime'
  BY <1>4 DEF Fetch!Challenged, Fetch!Answer
<1>5. CASE UNCHANGED Fetch!vars
  BY <1>5 DEF Fetch!vars
<1> QED
  BY <1>1, <1>2, <1>3, <1>4, <1>5 DEF Fetch!Next

\* Whatever servers answer, whoever changes the jar and however often the transport
\* fails: credentials go only where they belong, the payload arrives whole or not at
\* all, and the hops and the time of a request are bounded (send, send_hop).
THEOREM RequestsGoRight ==
    ASSUME Fetch!ConstantsOK, Fetch!DoublingGrows
    PROVE  Fetch!Spec => []RequestsAreGoverned
<1>1. Fetch!IInv /\ Fetch!OnTime /\ [Fetch!Next]_(Fetch!vars) => Fetch!IInv' /\ Fetch!OnTime'
  BY FetchNextIInv, FetchStaysOnTime
<1>2. Fetch!Init => Fetch!IInv /\ Fetch!OnTime
  BY FetchInitIInv DEF Fetch!Init, Fetch!OnTime, Fetch!ConstantsOK
<1>3. Fetch!IInv /\ Fetch!OnTime => RequestsAreGoverned
  <2> SUFFICES ASSUME Fetch!IInv, Fetch!OnTime PROVE Fetch!RequestIsBounded
    BY DEF Fetch!IInv, RequestsAreGoverned, Fetch!RequestsAreGoverned
  <2>1. attempt \in 0..MaxRetries /\ MaxRetries \in Nat
    BY DEF Fetch!IInv, Fetch!Typed, Fetch!ConstantsOK
  <2>2. Fetch!Backoff(attempt) \in Nat /\ Fetch!Backoff(MaxRetries) \in Nat
          /\ Fetch!Backoff(attempt) <= Fetch!Backoff(MaxRetries)
    BY <2>1, BackoffGrows
  <2> QED
    BY <2>1, <2>2 DEF Fetch!RequestIsBounded, Fetch!IInv, Fetch!OnTime, Fetch!Typed, Fetch!HopsAreFew,
      Fetch!ConstantsOK
<1> QED
  BY <1>1, <1>2, <1>3, PTL DEF Fetch!Spec
================================================================================
