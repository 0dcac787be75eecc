---------------------------- MODULE LazyGlobals -----------------------------
(***************************************************************************)
(* Globals installed on first touch (lazy.rs): a group of names behind     *)
(* accessors, whose install takes them away, defines the real values and   *)
(* then puts back what the script had done to the names before.            *)
(*                                                                         *)
(* What is under a name is "absent", "lazy" (the group's accessor), "real" *)
(* (the install's value) or the script's own.                              *)
(***************************************************************************)
EXTENDS Naturals, Sequences, FiniteSets, SequencesExt

CONSTANTS
    Groups,
    NamesOf(_),     \* the names of a group, in order
    NeededBy(_),    \* the groups an install asks for first (ensure)
    MaxTouches      \* bound on what the script does to names

VARIABLES
    realm,          \* what is under each name, and which installs are left
    did,            \* name -> what the script last made of it, "nothing" at first (ghost)
    touches

vars == <<realm, did, touches>>

AllNames == UNION {ToSet(NamesOf(g)) : g \in Groups}
GroupOf(n) == CHOOSE g \in Groups : n \in ToSet(NamesOf(g))

\* The script's own: a value assigned or defined, one that cannot be redefined.
Own == {"assigned", "fixed"}

-----------------------------------------------------------------------------
Put(r, n, what) == [r EXCEPT !.under[n] = what]

\* Object.seal(globalThis) leaves no property that can be removed.
Removable(r, n) == r.under[n] \notin {"fixed", "absent"} /\ ~r.sealed

\* Out of the install's way, one name after the other; removing an accessor that
\* cannot be removed throws, and with it the install, which is not tried again.
MoveAside(r, names) ==
    FoldLeft(LAMBDA acc, n :
                CASE acc.threw -> acc
                  [] ~acc.threw /\ acc.under[n] = "lazy" /\ ~Removable(acc, n) ->
                         [acc EXCEPT !.threw = TRUE]
                  [] ~acc.threw /\ Removable(acc, n) -> Put(acc, n, "absent")
                  [] OTHER -> acc,
             r, names)

\* The definitions of an install; one of a name that cannot be redefined, or a new
\* one on a sealed object, throws.
Define(r, names) ==
    FoldLeft(LAMBDA acc, n :
                CASE acc.threw -> acc
                  [] ~acc.threw /\ acc.under[n] \in {"fixed"} \union (IF acc.sealed THEN {"absent"} ELSE {}) ->
                         [acc EXCEPT !.threw = TRUE]
                  [] OTHER -> Put(acc, n, "real"),
             [r EXCEPT !.calls = @ \o names], names)

PutBack(r, names, before) ==
    FoldLeft(LAMBDA acc, n :
                CASE before[n] = "absent" -> Put(acc, n, "absent")
                  [] before[n] \in Own -> Put(acc, n, before[n])
                  [] OTHER -> acc,
             r, names)

\* install_group.  The install is taken before it runs, so that a read of one of
\* its names meanwhile does not run it again.
RECURSIVE InstallGroup(_, _)
InstallGroup(r, g) ==
    LET names == NamesOf(g)
        aside == MoveAside([r EXCEPT !.left = @ \ {g}], names)
        ready == FoldLeft(LAMBDA acc, h : InstallGroup(acc, h), aside, NeededBy(g))
        defined == IF ready.threw THEN ready ELSE Define(ready, names)
    IN  CASE g \notin r.left \/ r.threw -> r
          [] g \in r.left /\ ~r.threw /\ defined.threw -> [defined EXCEPT !.failed = @ \union {g}]
          [] OTHER -> PutBack(defined, names, r.under)

\* The accessor of a name: install, then read what is there now.  An accessor that
\* is still there reads itself.
ReadName(r, n) ==
    LET installed == InstallGroup(r, GroupOf(n))
    IN  CASE r.under[n] # "lazy" -> [r EXCEPT !.answer = r.under[n]]
          [] r.under[n] = "lazy" /\ installed.threw -> [installed EXCEPT !.answer = "threw"]
          [] r.under[n] = "lazy" /\ ~installed.threw /\ installed.under[n] = "lazy" ->
                 [installed EXCEPT !.answer = "endless"]
          [] OTHER -> [installed EXCEPT !.answer = installed.under[n]]

Ensure(r, n) == IF GroupOf(n) \in r.left THEN InstallGroup(r, GroupOf(n)) ELSE r
EnsureAll(r) == FoldLeft(LAMBDA acc, g : InstallGroup(acc, g), r, SetToSeq(Groups))

-----------------------------------------------------------------------------
\* define, for every group.
Init ==
    /\ realm = [under |-> [n \in AllNames |-> "lazy"], left |-> Groups, calls |-> <<>>,
                failed |-> {}, sealed |-> FALSE, threw |-> FALSE, answer |-> "none"]
    /\ did = [n \in AllNames |-> "nothing"]
    /\ touches = 0

\* What a throw unwinds to is the reader.
Becomes(r) == realm' = [r EXCEPT !.threw = FALSE]

Touch(n, what) ==
    /\ touches < MaxTouches /\ touches' = touches + 1
    /\ did' = [did EXCEPT ![n] = what]
    /\ Becomes(Put(realm, n, what))

\* The setter, or an ordinary assignment; a sealed name of the group's still has
\* its setter, which cannot redefine it.
Assign(n) ==
    /\ realm.under[n] # "fixed"
    /\ realm.sealed => realm.under[n] \notin {"lazy", "absent"}
    /\ Touch(n, "assigned")
Delete(n) == Removable(realm, n) /\ Touch(n, "absent")
Fix(n) == realm.under[n] # "fixed" /\ ~realm.sealed /\ Touch(n, "fixed")

Seal ==
    /\ ~realm.sealed /\ Becomes([realm EXCEPT !.sealed = TRUE])
    /\ UNCHANGED <<did, touches>>

Read(n) == Becomes(ReadName(realm, n)) /\ UNCHANGED <<did, touches>>
EnsureName(n) == Becomes(Ensure(realm, n)) /\ UNCHANGED <<did, touches>>
EnsureEvery == Becomes(EnsureAll(realm)) /\ UNCHANGED <<did, touches>>

Next ==
    \/ \E n \in AllNames : Assign(n) \/ Delete(n) \/ Fix(n) \/ Read(n) \/ EnsureName(n)
    \/ Seal \/ EnsureEvery

Spec == Init /\ [][Next]_vars

-----------------------------------------------------------------------------
(* Properties *)

\* "What a script did to a name before its group installed survives the install: an
\* assignment or a redefinition stands, and a deleted name stays deleted", whichever
\* read or group brought the install about; the rest are plain data afterwards, and
\* no install runs twice.  Names whose install threw, on one that the script had made
\* unchangeable, are apart: they stay as the install left them.
GlobalsAreTheScripts ==
    /\ \A i, j \in DOMAIN realm.calls : realm.calls[i] = realm.calls[j] => i = j
    /\ \A n \in AllNames :
          GroupOf(n) \notin realm.failed
             => realm.under[n] = CASE did[n] # "nothing" -> did[n]
                                   [] did[n] = "nothing" /\ GroupOf(n) \in realm.left -> "lazy"
                                   [] OTHER -> "real"
    /\ ~realm.sealed => realm.answer \notin {"endless", "lazy"}
    /\ (~realm.sealed /\ \A n \in AllNames : did[n] # "fixed") => realm.failed = {}
=============================================================================
