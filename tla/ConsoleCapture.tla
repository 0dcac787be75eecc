---------------------------- MODULE ConsoleCapture ----------------------------
(***************************************************************************)
(* The console of a run, buffered (console.rs): push and drain.            *)
(*                                                                         *)
(* A message is the widths in bytes of its characters: String::truncate    *)
(* panics inside one.                                                      *)
(***************************************************************************)
EXTENDS Naturals, Sequences, SequencesExt

CONSTANTS
    Messages,
    MaxEntries, MaxTotalBytes, MaxEntryBytes,
    MaxPushes

Ellipsis == 3       \* bytes of '…'
Notice == <<0>>     \* "console capture truncated: limits exceeded"

VARIABLES
    entries,        \* as they are now
    totalBytes,
    truncated,
    pushed,         \* every message, in order
    drained,        \* what drain has given
    panicked        \* a message was cut inside a character

vars == <<entries, totalBytes, truncated, pushed, drained, panicked>>

Init ==
    /\ entries = <<>> /\ totalBytes = 0 /\ truncated = FALSE
    /\ pushed = <<>> /\ drained = <<>> /\ panicked = FALSE

Bytes(message) == FoldLeft(+, 0, message)

\* The characters of a message that end within the limit, and whether the limit
\* falls between two of them.
Heads(message) == {n \in 0..Len(message) : Bytes(SubSeq(message, 1, n)) <= MaxEntryBytes}
Cut(message) == SubSeq(message, 1, CHOOSE n \in Heads(message) : \A m \in Heads(message) : m <= n)
CutIsClean(message) == Bytes(Cut(message)) = MaxEntryBytes

Clamped(message) ==
    IF Bytes(message) > MaxEntryBytes THEN Append(Cut(message), Ellipsis) ELSE message

\* Variant: the notice is forgotten once drained.
Closed_Drained == truncated /\ entries # <<>>

\* Nothing is taken any more.
Closed == truncated

Push(message) ==
    LET clamped == Clamped(message)
        over == Len(entries) >= MaxEntries \/ totalBytes + Bytes(clamped) > MaxTotalBytes
    IN  /\ Len(pushed) < MaxPushes /\ ~panicked
        /\ pushed' = Append(pushed, clamped)
        /\ IF Bytes(message) > MaxEntryBytes /\ ~CutIsClean(message)
           THEN panicked' = TRUE /\ UNCHANGED <<entries, totalBytes, truncated>>
           ELSE /\ entries' = IF Closed THEN entries
                              ELSE Append(entries, IF over THEN Notice ELSE clamped)
                /\ totalBytes' = IF Closed \/ over THEN totalBytes ELSE totalBytes + Bytes(clamped)
                /\ truncated' = (truncated \/ over)
                /\ UNCHANGED panicked
        /\ UNCHANGED drained

Drain ==
    /\ entries # <<>>
    /\ drained' = drained \o entries /\ entries' = <<>>
    /\ UNCHANGED <<totalBytes, truncated, pushed, panicked>>

Next == Drain \/ \E message \in Messages : Push(message)

Spec == Init /\ [][Next]_vars

-----------------------------------------------------------------------------
(* Properties *)

Kept == drained \o entries
Taken == SelectSeq(Kept, LAMBDA m : m # Notice)

\* However often it is drained, what a capture gives is a prefix of what was
\* pushed, within its budget, with one notice, after it, when anything was lost,
\* but for the message that made it panic.
PrefixThenNotice ==
    LET lost == Len(Taken) < Len(pushed) - (IF panicked THEN 1 ELSE 0)
    IN  /\ IsPrefix(Taken, pushed)
        /\ Bytes(FlattenSeq(Taken)) <= MaxTotalBytes
        /\ Kept = Taken \o (IF truncated THEN <<Notice>> ELSE <<>>)
        /\ lost => truncated
=============================================================================
