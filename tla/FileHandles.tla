---------------------------- MODULE FileHandles -----------------------------
(***************************************************************************)
(* A file handle in the hands of a script (fs/file_handle.rs): reads and   *)
(* writes at the cursor or at a position, on a file that the runtime's     *)
(* threads write.                                                          *)
(*                                                                         *)
(* A byte is its number, 0 the byte of a hole; a buffer is a sequence of   *)
(* them.  A handle whose call has not settled is borrowed: other calls     *)
(* throw.                                                                  *)
(***************************************************************************)
EXTENDS Naturals, Sequences, FiniteSets, SequencesExt

CONSTANTS
    BufferSizes,    \* none is 0
    Positions,      \* of reads and writes, None for the cursor
    None,
    MaxSize,        \* bound on the file
    MaxCalls

VARIABLES
    file,           \* the file: its bytes, and the bytes on their way into it
    handle,         \* open or not, the cursor, append, the call that runs
    answer,         \* what the last call came to
    calls,          \* how many were made
    expected,       \* the file, had each write put its bytes where it says (ghost)
    astray          \* which of the code's own ways a call took (ghost)

vars == <<file, handle, answer, calls, expected, astray>>

-----------------------------------------------------------------------------
Least(a, b) == IF a < b THEN a ELSE b
Most(a, b) == IF a > b THEN a ELSE b

\* What a system's write does: a hole before it, if there is one, reads as zeros.
Put(bytes, at, new) ==
    [i \in 1..(IF new = <<>> THEN Len(bytes) ELSE Most(Len(bytes), at + Len(new))) |->
        CASE i > at /\ i <= at + Len(new) -> new[i - at]
          [] (i <= at \/ i > at + Len(new)) /\ i <= Len(bytes) -> bytes[i]
          [] OTHER -> 0]
From(bytes, at, n) == SubSeq(bytes, at + 1, Least(at + n, Len(bytes)))
Fresh(n) == [i \in 1..n |-> 10 * (calls + 1) + i]

\* validate_length_offset
InRange(length, offset, size) == offset <= size /\ length <= size - offset

\* `&buffer[offset..length]': the end is taken for a length.
Written(buffer, offset, length) == SubSeq(buffer, offset + 1, length)
Short(out, meant) == IF out # meant THEN {"short"} ELSE {}

-----------------------------------------------------------------------------
Init ==
    /\ \E append \in BOOLEAN :
           handle = [open |-> TRUE, cursor |-> 0, append |-> append, running |-> None, failed |-> FALSE]
    /\ file = [bytes |-> <<1, 2>>, inFlight |-> <<>>]
    /\ answer = [how |-> "none"] /\ calls = 0
    /\ expected = file.bytes /\ astray = {}

Answers(how) == answer' = [how |-> how]

\* A call that throws before it touches the file.
Refuse ==
    /\ Answers("threw")
    /\ UNCHANGED <<file, handle, expected>>

\* Every call: it waits for what is on its way into the file.
Called ==
    /\ calls < MaxCalls /\ calls' = calls + 1 /\ file.inFlight = <<>>

\* What is on its way into the file when a call needs the file again arrives first.
Settled == Put(file.bytes, IF file.inFlight = <<>> THEN 0 ELSE file.inFlight[1].at,
               IF file.inFlight = <<>> THEN <<>> ELSE file.inFlight[1].bytes)

\* A position is put back to the cursor there was.
CursorAfter(position, n) == IF position = None THEN handle.cursor + n ELSE handle.cursor

\* read(buffer, offset, length, position): the whole rest of the buffer is written
\* over, or, if less than that was asked for, the copy panics.
Read ==
    \E size \in BufferSizes, offset \in 0..2, length \in (0..2) \union {None}, position \in Positions :
        LET n == IF length = None THEN (IF offset > size THEN 0 ELSE size - offset) ELSE length
            at == IF position = None THEN handle.cursor ELSE position
            got == From(file.bytes, at, n)
        IN  /\ Called
            /\ IF ~handle.open \/ handle.running # None \/ ~InRange(n, offset, size)
               THEN Refuse /\ UNCHANGED astray
               ELSE /\ handle' = [handle EXCEPT !.cursor = CursorAfter(position, Len(got))]
                    /\ astray' = astray \union (IF n # size - offset THEN {"panicked"} ELSE {})
                                        \union (IF Len(got) < n THEN {"zeroed"} ELSE {})
                    /\ answer' = IF n # size - offset THEN [how |-> "panicked"]
                                 ELSE [how |-> "read", at |-> at, got |-> got,
                                       from |-> handle.cursor, position |-> position]
                    /\ UNCHANGED <<file, expected>>

\* The parts of `sent' that a thread may have written before it failed.
Partly(sent) == {SubSeq(sent.bytes, 1, k) : k \in 0..(Len(sent.bytes) - 1)}
CursorIn(sent, part) == IF part = <<>> THEN sent.from ELSE sent.at + Len(part)

\* write_all hears that an earlier write failed, if there is a byte to write.
HearsOfFailure(out) == handle.failed /\ out # <<>>

\* write(buffer, offset, length, position), its arguments checked.  The cursor is moved
\* to a position first and put back last: a slice that panics, and an earlier failure
\* that is heard, leave it there.  write_all answers once a thread has the bytes; putting
\* the cursor back waits for the thread, and keeps its failure for the next write.
WriteBytes(buffer, offset, n, position) ==
    LET sought == IF position = None THEN handle.cursor ELSE position
        out == Written(buffer, offset, n)
        meant == SubSeq(buffer, offset + 1, offset + n)
        at(bytes) == IF handle.append THEN Len(bytes) ELSE sought
        sent == [at |-> at(file.bytes), bytes |-> out, from |-> sought]
    IN  IF offset > n \/ HearsOfFailure(out)
        THEN /\ handle' = [handle EXCEPT !.cursor = sought, !.failed = @ /\ offset > n]
             /\ Answers(IF offset > n THEN "panicked" ELSE "threw")
             /\ astray' = astray \union (IF offset > n THEN {"panicked"} ELSE {})
             /\ UNCHANGED <<file, expected>>
        ELSE /\ at(expected) + n <= MaxSize
             /\ expected' = Put(expected, at(expected), meant)
             /\ answer' = [how |-> "wrote", bytesWritten |-> n]
             /\ \/ /\ position = None /\ out # <<>>
                   /\ file' = [file EXCEPT !.inFlight = <<sent>>]
                   /\ handle' = [handle EXCEPT !.cursor = sent.at + Len(out)]
                   /\ astray' = astray \union Short(out, meant)
                \/ /\ position # None \/ out = <<>>
                   /\ file' = [file EXCEPT !.bytes = Put(@, sent.at, out)]
                   /\ astray' = astray \union Short(out, meant) /\ UNCHANGED handle
                \/ /\ position # None
                   /\ \E part \in Partly(sent) : file' = [file EXCEPT !.bytes = Put(@, sent.at, part)]
                   /\ handle' = [handle EXCEPT !.failed = TRUE]
                   /\ astray' = astray \union Short(out, meant) \union {"unwritten"}

Write ==
    \E size \in BufferSizes, offset \in 0..1, length \in {1, None}, position \in Positions :
        LET n == IF length = None THEN (IF offset > size THEN 0 ELSE size - offset) ELSE length
        IN  /\ Called
            /\ IF ~handle.open \/ handle.running # None \/ ~InRange(n, offset, size)
               THEN Refuse /\ UNCHANGED astray
               ELSE WriteBytes(Fresh(size), offset, n, position)

\* The thread has written.
Arrive ==
    /\ file.inFlight # <<>>
    /\ file' = [bytes |-> Settled, inFlight |-> <<>>]
    /\ UNCHANGED <<handle, answer, calls, expected, astray>>

\* The thread could not write, or not all; the failure is for the next write to hear.
Fail ==
    /\ file.inFlight # <<>>
    /\ \E part \in Partly(file.inFlight[1]) :
           /\ file' = [bytes |-> Put(file.bytes, file.inFlight[1].at, part), inFlight |-> <<>>]
           /\ handle' = [handle EXCEPT !.failed = TRUE, !.cursor = CursorIn(file.inFlight[1], part)]
    /\ astray' = astray \union {"unwritten"}
    /\ UNCHANGED <<answer, calls, expected>>

\* writeFile: the file is emptied before the encoding is looked at and before an earlier
\* failure is heard, and the cursor is left where it was.
WriteFile ==
    \E size \in BufferSizes, known \in BOOLEAN :
        LET at == IF handle.append THEN Len(file.bytes) ELSE handle.cursor
            empty == IF handle.append THEN file.bytes ELSE <<>>
            wanted == IF handle.append THEN expected ELSE <<>>
        IN  /\ Called
            /\ IF ~handle.open \/ handle.running # None THEN Refuse /\ UNCHANGED astray
               ELSE IF ~known \/ handle.failed
               THEN /\ file' = [file EXCEPT !.bytes = empty] /\ Answers("threw")
                    /\ handle' = [handle EXCEPT !.failed = @ /\ ~known]
                    /\ astray' = astray \union (IF handle.append THEN {} ELSE {"emptied"})
                    /\ UNCHANGED expected
               ELSE /\ at + size <= MaxSize
                    /\ file' = [bytes |-> empty,
                                inFlight |-> <<[at |-> at, bytes |-> Fresh(size), from |-> handle.cursor]>>]
                    /\ expected' = Put(wanted, Len(wanted), Fresh(size))
                    /\ handle' = [handle EXCEPT !.cursor = at + size]
                    /\ Answers("wrote file")
                    /\ astray' = astray \union (IF ~handle.append /\ at > 0 THEN {"hole"} ELSE {})

\* readFile: from the cursor to the end.
ReadFile ==
    /\ Called
    /\ IF ~handle.open \/ handle.running # None THEN Refuse /\ UNCHANGED astray
       ELSE /\ answer' = [how |-> "read", at |-> handle.cursor, position |-> None,
                          from |-> handle.cursor,
                          got |-> From(file.bytes, handle.cursor, Len(file.bytes))]
            /\ handle' = [handle EXCEPT !.cursor = Most(@, Len(file.bytes))]
            /\ UNCHANGED <<file, expected, astray>>

Truncate ==
    \E n \in {0, 1} :
        /\ Called
        /\ IF ~handle.open \/ handle.running # None THEN Refuse /\ UNCHANGED astray
           ELSE /\ file' = [file EXCEPT !.bytes = [i \in 1..n |-> IF i <= Len(@) THEN @[i] ELSE 0]]
                /\ expected' = [i \in 1..n |-> IF i <= Len(expected) THEN expected[i] ELSE 0]
                /\ Answers("truncated") /\ UNCHANGED <<handle, astray>>

\* A call that takes the handle for a while: sync, stat, chmod.
Begin ==
    /\ Called /\ handle.open /\ handle.running = None
    /\ handle' = [handle EXCEPT !.running = "sync"]
    /\ UNCHANGED <<file, answer, expected, astray>>
End ==
    /\ handle.running # None /\ handle' = [handle EXCEPT !.running = None]
    /\ Answers("synced") /\ UNCHANGED <<file, calls, expected, astray>>

\* close: what is on its way arrives first; a closed handle may be closed.
Close ==
    /\ Called
    /\ IF handle.running # None THEN Refuse /\ UNCHANGED astray
       ELSE /\ handle' = [handle EXCEPT !.open = FALSE] /\ Answers("closed")
            /\ UNCHANGED <<file, expected, astray>>

Next ==
    \/ Read \/ Write \/ Arrive \/ Fail
    \/ WriteFile \/ ReadFile \/ Truncate \/ Begin \/ End \/ Close

Spec == Init /\ [][Next]_vars

-----------------------------------------------------------------------------
(* Properties *)

\* The file is what the calls that answered made of it, each write where it says it
\* was, but for calls that went the code's own way: a write whose end was taken for
\* a length, a file emptied before a call failed, a hole before what writeFile put,
\* a thread that could not write; and a read gives the file's bytes, from where it
\* says, and leaves the cursor of a positional read alone (read, write, write_file).
FileIsWhatWasWritten ==
    /\ astray \intersect {"short", "emptied", "hole", "unwritten"} = {} => Settled = expected
    /\ answer.how = "read" =>
          /\ \A i \in DOMAIN answer.got : answer.got[i] = file.bytes[answer.at + i]
          /\ answer.position # None => handle.cursor = answer.from
=============================================================================
