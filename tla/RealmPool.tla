------------------------------- MODULE RealmPool -------------------------------
(***************************************************************************)
(* The pool of realms built ahead of need (crates/ferrijs/src/pool.rs).    *)
(*                                                                         *)
(* Takers run on any thread: each pops a ready realm, tops the pool up, and*)
(* builds a realm of its own when there was none.  Builds in flight are    *)
(* counted against the target, under the same lock as the queue; each is a *)
(* spawned task that outlives its taker.                                   *)
(***************************************************************************)
EXTENDS Integers

CONSTANTS
  Takers,      \* The calls of acquire
  Target,      \* How many realms the pool keeps ready
  MaxFailures  \* Bound on the background builds that fail

ASSUME TargetAssumption == Target \in Nat
ASSUME FailureAssumption == MaxFailures \in Nat

VARIABLES
  alive,      \* Whether a handle of the pool is left
  ready,      \* State::ready, its length
  building,   \* State::building
  spawning,   \* Builds counted by a refill that did not spawn them yet
  builds,     \* Spawned fill tasks that still build
  built,      \* Fill tasks that finished, by whether they failed
  taker,      \* Where each taker is
  failures,   \* Background builds that failed so far, panics included
  panics      \* Builds that panicked so far

vars == <<alive, ready, building, spawning, builds, built, taker, failures, panics>>

Monus(a, b) == IF a > b THEN a - b ELSE 0

\* The pool was created and fills itself at once.
Init ==
  /\ alive = TRUE
  /\ ready = 0
  /\ building = Target
  /\ spawning = Target
  /\ builds = 0
  /\ built = [ok |-> 0, failed |-> 0]
  /\ taker = [t \in Takers |-> "new"]
  /\ failures = 0
  /\ panics = 0

-------------------------------------------------------------------------------
(* Takers *)

\* Variant: an empty queue is popped all the same.
Pop_Unchecked(t) ==
  /\ alive
  /\ taker[t] = "new"
  /\ taker' = [taker EXCEPT ![t] = "popped"]
  /\ ready' = ready - 1
  /\ UNCHANGED <<alive, building, spawning, builds, built, failures, panics>>

\* acquire: a ready realm, if there is one ...
Pop(t) ==
  /\ alive
  /\ taker[t] = "new"
  /\ taker' = [taker EXCEPT ![t] = IF ready > 0 THEN "popped" ELSE "empty"]
  /\ ready' = Monus(ready, 1)
  /\ UNCHANGED <<alive, building, spawning, builds, built, failures, panics>>

\* Variant: the builds in flight are not counted.
Missing_IgnoresBuilding == Monus(Target, ready)

\* refill: what is missing, builds in flight counted.
Missing == Monus(Target, ready + building)

\* ... then the pool tops itself up, whether there was one or not.
Refill(t) ==
  /\ taker[t] \in {"popped", "empty"}
  /\ building' = building + Missing
  /\ spawning' = spawning + Missing
  /\ taker' = [taker EXCEPT ![t] = IF @ = "popped" THEN "served" ELSE "inline"]
  /\ UNCHANGED <<alive, ready, builds, built, failures, panics>>

\* The realm built on the taker's own clock; its failure is the taker's.
InlineBuild(t) ==
  /\ taker[t] = "inline"
  /\ \E outcome \in {"served", "refused"} : taker' = [taker EXCEPT ![t] = outcome]
  /\ UNCHANGED <<alive, ready, building, spawning, builds, built, failures, panics>>

\* The last handle of the pool is dropped.
DropPool ==
  /\ alive
  /\ \A t \in Takers : taker[t] \notin {"popped", "empty", "inline"}
  /\ spawning = 0
  /\ alive' = FALSE
  /\ UNCHANGED <<ready, building, spawning, builds, built, taker, failures, panics>>

-------------------------------------------------------------------------------
(* Fill tasks *)

Spawn ==
  /\ spawning > 0
  /\ spawning' = spawning - 1
  /\ builds' = builds + 1
  /\ UNCHANGED <<alive, ready, building, built, taker, failures, panics>>

Build ==
  /\ builds > 0
  /\ builds' = builds - 1
  /\ \/ /\ built' = [built EXCEPT !.ok = @ + 1]
        /\ UNCHANGED failures
     \/ /\ failures < MaxFailures
        /\ built' = [built EXCEPT !.failed = @ + 1]
        /\ failures' = failures + 1
  /\ UNCHANGED <<alive, ready, building, spawning, taker, panics>>

\* A build that panics takes its task with it.
Panic ==
  /\ failures < MaxFailures
  /\ builds > 0
  /\ builds' = builds - 1
  /\ failures' = failures + 1
  /\ panics' = panics + 1
  /\ UNCHANGED <<alive, ready, building, spawning, built, taker>>

\* Variant: a build that failed keeps its place.
FailedFill_KeepsPlace ==
  /\ built.failed > 0
  /\ built' = [built EXCEPT !.failed = @ - 1]
  /\ UNCHANGED <<alive, ready, building, spawning, builds, taker, failures, panics>>

\* The end of fill, under the lock: the build gives its place up.
FailedFill ==
  /\ built.failed > 0
  /\ built' = [built EXCEPT !.failed = @ - 1]
  /\ building' = IF alive THEN building - 1 ELSE building
  /\ UNCHANGED <<alive, ready, spawning, builds, taker, failures, panics>>

\* Variant: the place is given up and the realm never queued.
Fill_LosesRealm ==
  /\ built.ok > 0
  /\ built' = [built EXCEPT !.ok = @ - 1]
  /\ building' = IF alive THEN building - 1 ELSE building
  /\ UNCHANGED <<alive, ready, spawning, builds, taker, failures, panics>>

\* A realm for a pool that is gone is dropped.
Fill ==
  /\ built.ok > 0
  /\ built' = [built EXCEPT !.ok = @ - 1]
  /\ building' = IF alive THEN building - 1 ELSE building
  /\ ready' = IF alive THEN ready + 1 ELSE ready
  /\ UNCHANGED <<alive, spawning, builds, taker, failures, panics>>

Next ==
  \/ \E t \in Takers : Pop(t) \/ Refill(t) \/ InlineBuild(t)
  \/ DropPool \/ Spawn \/ Build \/ Panic \/ FailedFill \/ Fill

Spec == Init /\ [][Next]_vars

\* Builds end, and tasks are polled; nobody has to take a realm.
FairSpec ==
  /\ Spec
  /\ WF_vars(Spawn) /\ WF_vars(Build \/ Panic) /\ WF_vars(FailedFill) /\ WF_vars(Fill)
  /\ \A t \in Takers : WF_vars(Refill(t)) /\ WF_vars(InlineBuild(t))

-------------------------------------------------------------------------------
(* Properties *)

TypeOK ==
  /\ alive \in BOOLEAN
  /\ ready \in Nat /\ building \in Nat /\ spawning \in Nat /\ builds \in Nat
  /\ built \in [ok : Nat, failed : Nat]
  /\ taker \in [Takers -> {"new", "popped", "empty", "inline", "served", "refused"}]
  /\ failures \in 0..MaxFailures
  /\ panics \in 0..failures

\* The realms ready or on their way to be.
Coming == ready + spawning + builds + built.ok + built.failed

\* The pool never holds, nor has in the making, more realms than its target,
\* however takes and builds interleave.
NeverOverTarget == alive => Coming <= Target

\* A take leaves the pool topping itself back up to its target: it makes up for
\* what was taken and for every build that failed before it.  Only the place of a
\* build that panicked is lost.
TakeTopsUp ==
  [][\A t \in Takers :
       taker[t] \in {"popped", "empty"} /\ taker'[t] # taker[t] =>
         Coming' + panics' >= Target]_vars

\* Once takes stop the pool settles full, unless a build failed.
SettlesFull == <>[](ready = Target \/ ~alive \/ failures > 0)

\* The pool counts right: its counters never go below zero, nor what it holds and
\* makes above its target (refill, fill).
PoolIsSound == TypeOK /\ NeverOverTarget
===============================================================================
