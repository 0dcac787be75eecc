---------------------------- MODULE BytecodeCache ----------------------------
(***************************************************************************)
(* The disk cache of compiled bundles (ferrijs-bundle, cache.rs and the    *)
(* compile of bundle.rs): tasks of several processes load, bundle and      *)
(* store one entry while its inputs are edited and processes die.          *)
(*                                                                         *)
(* A version stands for the contents of an input and for its stamp, which  *)
(* no edit gives twice; 0 is an input that is gone.  A record is written   *)
(* to a temporary file named for the process and renamed: names and the    *)
(* files they name are kept apart, for two threads may share a name.       *)
(***************************************************************************)
EXTENDS Naturals

CONSTANTS
    Inputs,         \* the files of the bundle
    Tasks,          \* compiles, each in a process
    ProcessOf,      \* [Tasks -> processes]
    MaxEdits        \* bounds edits, deletions and additions

VARIABLES
    version,    \* of each input
    edits,
    names,      \* what each name stands for, 0 for nothing
    contents,   \* of the files in the cache directory
    tasks

vars == <<version, edits, names, contents, tasks>>

Bin == "bin"
Tmp(t) == ProcessOf[t]
Processes == {ProcessOf[t] : t \in Tasks}
Nothing == [f \in Inputs |-> 0]
Truncated == [code |-> Nothing, stamps |-> Nothing]
NewFile == CHOOSE n \in 1..10 : n \notin DOMAIN contents

Init ==
    /\ version = [f \in Inputs |-> 1] /\ edits = 0
    /\ names = [n \in {Bin} \union Processes |-> 0] /\ contents = <<>>
    /\ tasks = [t \in Tasks |->
           [pc |-> "start", left |-> {}, record |-> Truncated, file |-> 0, seen |-> [f \in Inputs |-> {}]]]

-----------------------------------------------------------------------------

\* An input is edited, deleted or added again.  `seen' is what a task could have
\* found since it started.
Edit(f) ==
    \E v \in {0, edits + 2} :
        /\ edits < MaxEdits /\ v # version[f]
        /\ edits' = edits + 1
        /\ version' = [version EXCEPT ![f] = v]
        /\ tasks' = [t \in Tasks |-> [tasks[t] EXCEPT !.seen[f] = @ \union {v}]]
        /\ UNCHANGED <<names, contents>>

To(t, pc, left) == [tasks[t] EXCEPT !.pc = pc, !.left = left]

\* load: the record is read at once; one that is cut short is refused (Reader).
Load(t) ==
    LET seen == [f \in Inputs |-> {version[f]}]
    IN  /\ tasks[t].pc = "start"
        /\ tasks' = [tasks EXCEPT ![t] =
               IF names[Bin] = 0 \/ contents[names[Bin]] = Truncated
               THEN [To(t, "bundling", Inputs) EXCEPT !.seen = seen]
               ELSE [To(t, "checking", {f \in Inputs : contents[names[Bin]].stamps[f] # 0})
                        EXCEPT !.seen = seen, !.record = contents[names[Bin]]]]
        /\ UNCHANGED <<version, edits, names, contents>>

\* Variant: an edited input is only missed when it is gone.
Matches_Exists(stamp, f) == version[f] # 0

\* One input of a record against what it is now.
Matches(stamp, f) == version[f] = stamp

CheckInput(t, f) ==
    /\ tasks[t].pc = "checking" /\ f \in tasks[t].left
    /\ tasks' = [tasks EXCEPT ![t] =
           IF ~Matches(@.record.stamps[f], f)
           THEN [To(t, "bundling", Inputs) EXCEPT !.record = Truncated]
           ELSE To(t, "checking", @.left \ {f})]
    /\ UNCHANGED <<version, edits, names, contents>>

Hit(t) ==
    /\ tasks[t].pc = "checking" /\ tasks[t].left = {}
    /\ tasks' = [tasks EXCEPT ![t].pc = "hit"]
    /\ UNCHANGED <<version, edits, names, contents>>

\* The bundler reads an input; one that is gone fails the compile.
Bundle(t, f) ==
    /\ tasks[t].pc = "bundling" /\ f \in tasks[t].left
    /\ tasks' = [tasks EXCEPT ![t] =
           IF version[f] = 0 THEN To(t, "failed", {})
           ELSE [To(t, IF @.left = {f} THEN "stamping" ELSE "bundling",
                    IF @.left = {f} THEN Inputs ELSE @.left \ {f})
                    EXCEPT !.record.code[f] = version[f]]]
    /\ UNCHANGED <<version, edits, names, contents>>

\* store: the inputs are stamped now, after they were read, and one that is gone
\* by now is left out.
Stamp(t, f) ==
    /\ tasks[t].pc = "stamping" /\ f \in tasks[t].left
    /\ tasks' = [tasks EXCEPT ![t] =
           [To(t, IF @.left = {f} THEN "opening" ELSE "stamping", @.left \ {f})
               EXCEPT !.record.stamps[f] = version[f]]]
    /\ UNCHANGED <<version, edits, names, contents>>

\* Variant: the record is written where it is read.
Target_Direct(t) == Bin

\* atomic_write: where the record is written first.
Target(t) == Tmp(t)

\* fs::write creates the file or truncates the one of that name, then fills it.
OpenTmp(t) ==
    LET file == IF names[Target(t)] = 0 THEN NewFile ELSE names[Target(t)]
    IN  /\ tasks[t].pc = "opening"
        /\ names' = [names EXCEPT ![Target(t)] = file]
        /\ contents' = [n \in DOMAIN contents \union {file} |->
                            IF n = file THEN Truncated ELSE contents[n]]
        /\ tasks' = [tasks EXCEPT ![t].pc = "writing", ![t].file = file]
        /\ UNCHANGED <<version, edits>>

WriteTmp(t) ==
    /\ tasks[t].pc = "writing"
    /\ contents' = [contents EXCEPT ![tasks[t].file] = tasks[t].record]
    /\ tasks' = [tasks EXCEPT ![t].pc = "renaming"]
    /\ UNCHANGED <<version, edits, names>>

\* A rename of a name that another thread took is an error nobody looks at.
Rename(t) ==
    /\ tasks[t].pc = "renaming"
    /\ names' = IF names[Tmp(t)] = 0 THEN names
                ELSE [names EXCEPT ![Bin] = names[Tmp(t)], ![Tmp(t)] = 0]
    /\ tasks' = [tasks EXCEPT ![t].pc = "compiled"]
    /\ UNCHANGED <<version, edits, contents>>

Crash(p) ==
    /\ \E t \in Tasks : ProcessOf[t] = p /\ tasks[t].pc \in {"opening", "writing", "renaming"}
    /\ tasks' = [t \in Tasks |-> IF ProcessOf[t] = p THEN To(t, "dead", {}) ELSE tasks[t]]
    /\ UNCHANGED <<version, edits, names, contents>>

Next ==
    \/ \E t \in Tasks :
           Load(t) \/ Hit(t) \/ OpenTmp(t) \/ WriteTmp(t) \/ Rename(t)
    \/ \E t \in Tasks, f \in Inputs : CheckInput(t, f) \/ Bundle(t, f) \/ Stamp(t, f)
    \/ \E f \in Inputs : Edit(f)
    \/ \E p \in Processes : Crash(p)

Spec == Init /\ [][Next]_vars

-----------------------------------------------------------------------------
(* Properties *)

\* A hit gives code of what every input was at some moment of that load, except
\* for inputs that changed between being read by the bundler and being stamped.
HitIsFresh ==
    \A t \in Tasks :
        LET record == tasks[t].record
        IN  tasks[t].pc = "hit"
                => \A f \in Inputs :
                       record.code[f] = record.stamps[f] => record.code[f] \in tasks[t].seen[f]

\* What the cache holds is whole, whoever dies, unless a thread is filling, or
\* died filling, the temporary file that another thread of its process renamed
\* (atomic_write).
NeverTorn ==
    names[Bin] # 0 /\ contents[names[Bin]] = Truncated
        => \E t, u \in Tasks :
               /\ t # u /\ ProcessOf[t] = ProcessOf[u] /\ tasks[u].pc \in {"compiled", "dead"}
               /\ tasks[t].file = names[Bin] /\ tasks[t].pc \in {"writing", "dead"}

\* Cached code is the code of its inputs (BytecodeCache::load and store).
CacheIsSound == HitIsFresh /\ NeverTorn
=============================================================================
