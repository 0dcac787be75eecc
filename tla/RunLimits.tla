------------------------------- MODULE RunLimits -------------------------------
(***************************************************************************)
(* The limits of a run (apply_limits in crates/ferrijs/src/runtime.rs).    *)
(*                                                                         *)
(* The engine holds one value of each limit.  A run pushes its own before  *)
(* it is armed, and skips the setters whose value is recorded as applied.  *)
(* A value is recorded before its setter is awaited; the setter takes the  *)
(* engine's lock, so other tasks run, and the host may drop the run, while *)
(* it waits.                                                               *)
(***************************************************************************)
EXTENDS FiniteSets, Integers

CONSTANTS
  Runs,          \* The runs the host makes on the realm
  Settings,      \* How many limits there are: memory, stack, gc, in that order
  Values,        \* The values a run may ask for
  Default,       \* The realm's own value, pushed when it was created
  MaxInFlight    \* How many runs the host overlaps

VARIABLES
  pc,        \* Where each run is
  wants,     \* What each run asked for
  next,      \* The limit each run looks at next
  applied,   \* AppliedLimits: what was recorded
  ceiling    \* What the engine holds

vars == <<pc, wants, next, applied, ceiling>>

Limits == 1..Settings
Defaults == [s \in Limits |-> Default]
InFlight == {r \in Runs : pc[r] \in {"applying", "setting", "running"}}

Init ==
  /\ pc = [r \in Runs |-> "new"]
  /\ wants = [r \in Runs |-> Defaults]
  /\ next = [r \in Runs |-> 1]
  /\ applied = Defaults
  /\ ceiling = Defaults

\* apply_run_options: what the run asks for, or else the realm's own.
Start(r, asked) ==
  /\ pc[r] = "new"
  /\ Cardinality(InFlight) < MaxInFlight
  /\ pc' = [pc EXCEPT ![r] = "applying"]
  /\ wants' = [wants EXCEPT ![r] = asked]
  /\ UNCHANGED <<next, applied, ceiling>>

\* The recorded value is what the run asks for: the setter is skipped.
Skip(r) ==
  /\ pc[r] = "applying"
  /\ next[r] \in Limits
  /\ applied[next[r]] = wants[r][next[r]]
  /\ next' = [next EXCEPT ![r] = @ + 1]
  /\ UNCHANGED <<pc, wants, applied, ceiling>>

\* Variant: the value is pushed and never recorded.
Record_Forgets(r) ==
  /\ pc[r] = "applying"
  /\ next[r] \in Limits
  /\ applied[next[r]] # wants[r][next[r]]
  /\ pc' = [pc EXCEPT ![r] = "setting"]
  /\ UNCHANGED <<wants, next, applied, ceiling>>

\* It is not: the new value is recorded, and the setter begins to wait.
Record(r) ==
  /\ pc[r] = "applying"
  /\ next[r] \in Limits
  /\ applied[next[r]] # wants[r][next[r]]
  /\ applied' = [applied EXCEPT ![next[r]] = wants[r][next[r]]]
  /\ pc' = [pc EXCEPT ![r] = "setting"]
  /\ UNCHANGED <<wants, next, ceiling>>

\* Variant: the limit after the one that was set is passed over.
Set_Shifted(r) ==
  /\ pc[r] = "setting"
  /\ ceiling' = [ceiling EXCEPT ![next[r]] = wants[r][next[r]]]
  /\ next' = [next EXCEPT ![r] = @ + 2]
  /\ pc' = [pc EXCEPT ![r] = "applying"]
  /\ UNCHANGED <<wants, applied>>

\* The setter has the engine's lock.
Set(r) ==
  /\ pc[r] = "setting"
  /\ ceiling' = [ceiling EXCEPT ![next[r]] = wants[r][next[r]]]
  /\ next' = [next EXCEPT ![r] = @ + 1]
  /\ pc' = [pc EXCEPT ![r] = "applying"]
  /\ UNCHANGED <<wants, applied>>

\* Every limit was looked at: the run is armed and submitted.
Run(r) ==
  /\ pc[r] = "applying"
  /\ next[r] \notin Limits
  /\ pc' = [pc EXCEPT ![r] = "running"]
  /\ UNCHANGED <<wants, next, applied, ceiling>>

Finish(r) ==
  /\ pc[r] = "running"
  /\ pc' = [pc EXCEPT ![r] = "over"]
  /\ UNCHANGED <<wants, next, applied, ceiling>>

\* The host drops the run while a setter waits: the guard that would poison the
\* realm does not exist yet.
Drop(r) ==
  /\ pc[r] = "setting"
  /\ pc' = [pc EXCEPT ![r] = "dropped"]
  /\ UNCHANGED <<wants, next, applied, ceiling>>

Next ==
  \E r \in Runs :
    \/ \E asked \in [Limits -> Values] : Start(r, asked)
    \/ Skip(r) \/ Record(r) \/ Set(r) \/ Run(r) \/ Finish(r) \/ Drop(r)

Spec == Init /\ [][Next]_vars

-------------------------------------------------------------------------------
(* Properties *)

TypeOK ==
  /\ pc \in [Runs -> {"new", "applying", "setting", "running", "over", "dropped"}]
  /\ wants \in [Runs -> [Limits -> Values]]
  /\ next \in [Runs -> 1..(Settings + 1)]
  /\ applied \in [Limits -> Values]
  /\ ceiling \in [Limits -> Values]

\* A run of a host that makes one at a time runs under the limits it asked for,
\* whichever setters it skipped; only one that asks for what a run dropped in
\* that very setter had asked for may not.
MisledOnlyByADrop ==
  \A r \in Runs, s \in Limits :
    pc[r] = "running" /\ ceiling[s] # wants[r][s] =>
      \E d \in Runs : pc[d] = "dropped" /\ next[d] = s /\ wants[d][s] = wants[r][s]

\* The record of what was applied can be relied on, but for drops (apply_limits).
LimitsAreKept == TypeOK /\ MisledOnlyByADrop

\* Every run runs under the limits it asked for.
RunsUnderItsLimits ==
  \A r \in Runs : pc[r] = "running" => ceiling = wants[r]

-------------------------------------------------------------------------------
(* The inductive invariant, for every number of runs and of limits, of a   *)
(* host that makes one run at a time; the proofs are in MCHost.            *)
(*                                                                         *)
(* Only the run in flight writes the record, so the limits it has looked   *)
(* at stay as it wants them; and where engine and record differ, a setter  *)
(* waits for the lock or was dropped there.                                *)

OneRun == \A r, q \in InFlight : r = q

RecordIsTheRuns ==
  \A r \in InFlight :
    /\ \A s \in Limits : s < next[r] => applied[s] = wants[r][s]
    /\ pc[r] = "setting" => next[r] \in Limits /\ applied[next[r]] = wants[r][next[r]]
    /\ pc[r] = "running" => next[r] \notin Limits

EngineLagsAtASetter ==
  \A s \in Limits :
    ceiling[s] # applied[s] =>
      \E r \in Runs : pc[r] \in {"setting", "dropped"} /\ next[r] = s /\ wants[r][s] = applied[s]

NewRunsStartAtTheFirst == \A r \in Runs : pc[r] = "new" => next[r] = 1

IInv == TypeOK /\ OneRun /\ NewRunsStartAtTheFirst /\ RecordIsTheRuns /\ EngineLagsAtASetter
===============================================================================
