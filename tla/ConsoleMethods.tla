--------------------------- MODULE ConsoleMethods ---------------------------
(***************************************************************************)
(* The one console of a realm (console_fmt.rs): grouping, counters and     *)
(* timers, which a run finds as it leaves them and the next run must not   *)
(* find at all.                                                            *)
(***************************************************************************)
EXTENDS Naturals, Sequences, FiniteSets

CONSTANTS
    Labels,
    MaxCalls    \* bound on the calls of a run

VARIABLES
    indent,     \* groups that are open
    counts,     \* label -> times counted, for those counted
    timers,     \* labels being timed
    used,       \* whether this run counted or timed anything
    run         \* what this run called, in order (ghost)

vars == <<indent, counts, timers, used, run>>

-----------------------------------------------------------------------------
Init ==
    /\ indent = 0 /\ counts = [l \in {} |-> 0] /\ timers = {}
    /\ used = FALSE /\ run = <<>>

Calls(method, label) ==
    /\ Len(run) < MaxCalls
    /\ run' = Append(run, <<method, label>>)

Group(label) == Calls("group", label) /\ indent' = indent + 1
    /\ UNCHANGED <<counts, timers, used>>

\* One that is not open is no error.
GroupEnd(label) ==
    /\ Calls("groupEnd", label)
    /\ indent' = IF indent = 0 THEN 0 ELSE indent - 1
    /\ UNCHANGED <<counts, timers, used>>

Count(label) ==
    /\ Calls("count", label)
    /\ used' = TRUE
    /\ counts' = [l \in DOMAIN counts \union {label} |->
                    (IF l \in DOMAIN counts THEN counts[l] ELSE 0) + (IF l = label THEN 1 ELSE 0)]
    /\ UNCHANGED <<indent, timers>>

CountReset(label) ==
    /\ Calls("countReset", label)
    /\ counts' = [l \in DOMAIN counts \ {label} |-> counts[l]]
    /\ UNCHANGED <<indent, timers, used>>

\* A label that is being timed is timed anew.
Time(label) ==
    /\ Calls("time", label)
    /\ used' = TRUE /\ timers' = timers \union {label}
    /\ UNCHANGED <<indent, counts>>

TimeEnd(label) ==
    /\ Calls("timeEnd", label)
    /\ timers' = timers \ {label}
    /\ UNCHANGED <<indent, counts, used>>

TimeLog(label) ==
    /\ Calls("timeLog", label)
   
    /\ UNCHANGED <<indent, counts, timers, used>>

Clear(label) == Calls("clear", label) /\ indent' = 0
    /\ UNCHANGED <<counts, timers, used>>

\* The next run begins; counters and timers are left alone if none was used.
Retarget ==
    /\ indent' = 0 /\ used' = FALSE /\ run' = <<>>
    /\ counts' = IF used THEN [l \in {} |-> 0] ELSE counts
    /\ timers' = IF used THEN {} ELSE timers

Next ==
    \/ Retarget
    \/ \E l \in Labels : \/ Group(l) \/ GroupEnd(l) \/ Count(l) \/ CountReset(l)
                         \/ Time(l) \/ TimeEnd(l) \/ TimeLog(l) \/ Clear(l)

-----------------------------------------------------------------------------
(* Properties *)

Since(n, method, label) == {i \in n + 1..Len(run) : run[i] = <<method, label>>}
LastOf(methods, label) ==
    LET at == {i \in DOMAIN run : run[i][1] \in methods /\ run[i][2] = label}
    IN  IF at = {} THEN 0 ELSE CHOOSE i \in at : \A j \in at : j <= i

\* A run finds the counters and timers it made itself and no others, whatever the run
\* before it left (retarget).
RunsStartClean ==
    \A l \in Labels :
        /\ (IF l \in DOMAIN counts THEN counts[l] ELSE 0)
             = Cardinality(Since(LastOf({"countReset"}, l), "count", l))
        /\ l \in timers <=> LastOf({"time"}, l) > LastOf({"timeEnd"}, l)
=============================================================================
