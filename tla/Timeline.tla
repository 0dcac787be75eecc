------------------------------ MODULE Timeline ------------------------------
(***************************************************************************)
(* The performance timeline (web/performance.rs): marks, which may be      *)
(* backdated, and measures between marks, timestamps and now.              *)
(***************************************************************************)
EXTENDS Integers, Sequences, FiniteSets, SequencesExt

CONSTANTS
    Names,
    Times,          \* timestamps a script gives, a negative one among them
    None,
    MaxTime,        \* bound on the clock
    MaxEntries

VARIABLES
    entries,        \* recorded and not cleared, in the order of recording
    now,            \* the monotonic clock
    thrown          \* whether the last call threw

vars == <<entries, now, thrown>>

Timestamps == {None} \union Times \union Names

\* resolve_mark: the start of the latest mark recorded under the name.
MarkAt(name) ==
    LET marks == {i \in DOMAIN entries : entries[i].mark /\ entries[i].name = name}
    IN  IF marks = {} THEN None ELSE entries[CHOOSE i \in marks : \A j \in marks : j <= i].start

\* resolve_timestamp
Resolves(t) == t = None \/ (t \in Names /\ MarkAt(t) # None) \/ (t \in Times /\ t >= 0)
Resolved(t) == IF t \in Names THEN MarkAt(t) ELSE t

\* Where a measure lies, of what was given of its start, end and duration.
Interval(start, end, dur) ==
    LET from == CASE start # None -> start
                  [] start = None /\ dur = None -> 0
                  [] start = None /\ dur # None /\ end # None -> end - dur
                  [] OTHER -> now - dur
        length == CASE dur # None -> dur
                    [] dur = None /\ end # None -> end - from
                    [] OTHER -> now - from
    IN  [start |-> from, dur |-> length]

-----------------------------------------------------------------------------
Init == entries = <<>> /\ now = 0 /\ thrown = FALSE

Tick == now < MaxTime /\ now' = now + 1 /\ UNCHANGED <<entries, thrown>>

Record(entry) ==
    /\ Len(entries) < MaxEntries
    /\ entries' = Append(entries, entry) /\ thrown' = FALSE /\ UNCHANGED now
Throw == thrown' = TRUE /\ UNCHANGED <<entries, now>>

\* mark(name, { startTime })
Mark ==
    \E name \in Names, start \in {None} \union Times :
        IF start # None /\ start < 0 THEN Throw
        ELSE Record([mark |-> TRUE, name |-> name, dur |-> 0, asked |-> <<None, None, None>>,
                     start |-> IF start = None THEN now ELSE start])

\* measure(name, { start, end, duration }), some of them given and not all.
MeasureOptions ==
    \E name \in Names, start, end, dur \in Timestamps :
        LET given == {i \in 1..3 : <<start, end, dur>>[i] # None}
            at == Interval(Resolved(start), Resolved(end), Resolved(dur))
        IN  IF Cardinality(given) \in {0, 3} \/ ~Resolves(start) \/ ~Resolves(end) \/ ~Resolves(dur)
            THEN Throw
            ELSE Record([mark |-> FALSE, name |-> name, start |-> at.start, dur |-> at.dur,
                         asked |-> <<Resolved(start), Resolved(end), Resolved(dur)>>])

\* measure(name, startMark, endMark): from the origin, to now, where one is missing.
MeasureMarks ==
    \E name \in Names, start, end \in Timestamps :
        LET from == IF start = None THEN 0 ELSE Resolved(start)
            to == IF end = None THEN now ELSE Resolved(end)
        IN  IF ~Resolves(start) \/ ~Resolves(end) THEN Throw
            ELSE Record([mark |-> FALSE, name |-> name, start |-> from, dur |-> to - from,
                         asked |-> <<Resolved(start), Resolved(end), None>>])

Clear(marks, name) ==
    /\ entries' = SelectSeq(entries, LAMBDA e : e.mark # marks \/ (name # None /\ e.name # name))
    /\ thrown' = FALSE /\ UNCHANGED now
ClearMarks == \E name \in Names \union {None} : Clear(TRUE, name)
ClearMeasures == \E name \in Names \union {None} : Clear(FALSE, name)

Next == Tick \/ Mark \/ MeasureOptions \/ MeasureMarks \/ ClearMarks \/ ClearMeasures

Spec == Init /\ [][Next]_vars

-----------------------------------------------------------------------------
(* get_entries and its likes: by start, and what starts at once as recorded. *)

InOrder(list) ==
    LET Insert(sorted, e) ==
            LET before == SelectSeq(sorted, LAMBDA x : x.start <= e.start)
            IN  Append(before, e) \o SelectSeq(sorted, LAMBDA x : x.start > e.start)
    IN  FoldLeft(Insert, <<>>, list)

GetEntries == InOrder(entries)
GetEntriesByName(name, type) ==
    InOrder(SelectSeq(entries, LAMBDA e : e.name = name /\ (type = None \/ e.mark = (type = "mark"))))
GetEntriesByType(type) ==
    IF type \notin {"mark", "measure"} THEN <<>>
    ELSE InOrder(SelectSeq(entries, LAMBDA e : e.mark = (type = "mark")))

-----------------------------------------------------------------------------
(* Properties *)

\* A measure keeps to what was given of it, whichever two that were, and has an end
\* that is not later than what was given or the clock; the timeline is in order
\* whatever was backdated, and its parts are parts of it (measure, get_entries).
TimelineIsTrue ==
    LET all == GetEntries
    IN  /\ \A i \in DOMAIN entries :
              LET e == entries[i] given == e.asked
              IN  ~e.mark => /\ given[1] # None => e.start = given[1]
                             /\ given[2] # None => e.start + e.dur = given[2]
                             /\ given[3] # None => e.dur = given[3]
                             /\ given = <<None, None, None>> => e.start = 0 /\ e.dur <= now
                             /\ given[2] = None /\ given[3] = None => e.start + e.dur <= now
        /\ Len(all) = Len(entries)
        /\ \A i, j \in DOMAIN all : i < j => all[i].start <= all[j].start
        /\ \A type \in {"mark", "measure"} :
              /\ GetEntriesByType(type) = SelectSeq(all, LAMBDA e : e.mark = (type = "mark"))
              /\ \A name \in Names :
                    GetEntriesByName(name, type) = SelectSeq(GetEntriesByType(type), LAMBDA e : e.name = name)
=============================================================================
