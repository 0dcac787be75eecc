------------------------------- MODULE Timers -------------------------------
(***************************************************************************)
(* setTimeout, setInterval and clearTimeout (web/timers.rs).               *)
(*                                                                         *)
(* Each timer is a task of the realm's loop that waits for its delay or    *)
(* for its handle's Notify, whichever it sees first: when both have come   *)
(* by the time it is polled, either may win.  A callback runs to its end   *)
(* before another timer is polled; time passes meanwhile.                  *)
(***************************************************************************)
EXTENDS Naturals, Sequences

CONSTANTS
    MaxTimers,      \* timers armed
    MaxTime,        \* milliseconds
    Delays          \* what scripts ask for

MaxFreeNesting == 5

VARIABLES
    timers,     \* in the order they were armed
    now,
    nesting,    \* the level in force
    current     \* the timer whose callback runs, 0 for none

vars == <<timers, now, nesting, current>>

Init == timers = <<>> /\ now = 0 /\ nesting = 0 /\ current = 0

Clamped(requested, level) == IF level > MaxFreeNesting /\ requested < 4 THEN 4 ELSE requested

\* Script runs between the polls of timers or in a callback.  A promise
\* continuation of the callback is the former: the level is restored by then.
Arm ==
    \E interval \in BOOLEAN, requested \in Delays :
        /\ Len(timers) < MaxTimers
        /\ timers' = Append(timers,
               [interval |-> interval, requested |-> requested, level |-> nesting + 1,
                depth |-> IF current = 0 THEN 1 ELSE timers[current].depth + 1, root |->
                    IF current = 0 THEN now ELSE timers[current].root, armed |-> now,
                phase |-> "spawned", next |-> 0, cleared |-> "no", ended |-> 0, after |-> 0])
        /\ UNCHANGED <<now, nesting, current>>

\* notify_one keeps its permit for a task that does not wait yet.
Clear ==
    \E i \in DOMAIN timers :
        /\ timers[i].phase # "done" /\ timers[i].cleared = "no"
        /\ timers' = [timers EXCEPT ![i].cleared = timers[i].phase]
        /\ UNCHANGED <<now, nesting, current>>

\* A timer that is done: what it was is of no more account.
Done(timer) ==
    [timer EXCEPT !.phase = "done", !.level = 0, !.depth = 0, !.root = 0, !.armed = 0,
                  !.next = 0, !.ended = 0]

\* The select as it is first polled: the delay is not over yet, a zero delay
\* yields once.
Waiting(timer, next) ==
    IF timer.cleared # "no" THEN Done(timer)
    ELSE [timer EXCEPT !.phase = "waiting", !.next = next]

FirstPoll(i) ==
    /\ current = 0 /\ timers[i].phase = "spawned"
    /\ timers' = [timers EXCEPT ![i] = Waiting(@, now + Clamped(@.requested, @.level))]
    /\ UNCHANGED <<now, nesting, current>>

SeesClear(i) ==
    /\ current = 0 /\ timers[i].phase = "waiting" /\ timers[i].cleared # "no"
    /\ timers' = [timers EXCEPT ![i] = Done(@)]
    /\ UNCHANGED <<now, nesting, current>>

Fire(i) ==
    /\ current = 0 /\ timers[i].phase = "waiting" /\ now >= timers[i].next
    /\ timers' = [timers EXCEPT ![i].phase = "running",
                                    ![i].after = IF timers[i].cleared = "no" THEN 0 ELSE @ + 1]
    /\ current' = i /\ nesting' = timers[i].level
    /\ UNCHANGED now

\* Variant: ticks that were missed fire one after the other.
Repeated_CatchesUp(timer) ==
    LET level == timer.level + 1
    IN  Waiting([timer EXCEPT !.level = level, !.depth = @ + 1, !.ended = now],
                timer.next + Clamped(timer.requested, level))

\* An interval's deadline is carried forward and ticks that were missed are
\* skipped.
Repeated(timer) ==
    LET level == timer.level + 1
        period == Clamped(timer.requested, level)
        next == timer.next + period
    IN  Waiting([timer EXCEPT !.level = level, !.depth = @ + 1, !.ended = now],
                IF next <= now THEN now + period ELSE next)

CallbackEnds ==
    \E throws \in BOOLEAN :
        /\ current # 0
        /\ timers' = [timers EXCEPT ![current] =
                          IF @.interval /\ ~throws THEN Repeated(@) ELSE Done(@)]
        /\ current' = 0 /\ nesting' = 0
        /\ UNCHANGED now

Tick == timers # <<>> /\ now < MaxTime /\ now' = now + 1 /\ UNCHANGED <<timers, nesting, current>>

Next ==
    \/ Arm \/ Clear \/ CallbackEnds \/ Tick
    \/ \E i \in DOMAIN timers : FirstPoll(i) \/ SeesClear(i) \/ Fire(i)

Spec == Init /\ [][Next]_vars

-----------------------------------------------------------------------------
(* Properties *)

\* No timer fires before its delay, and a chain of n timers, each armed by the
\* callback of the one before it or by its own repeat, takes 4 (n - 5)
\* milliseconds: a script cannot spin the loop with zero delays (clamped).
ChainsAreSlowed ==
    \A i \in DOMAIN timers :
        LET timer == timers[i]
        IN  timer.phase = "running"
                => /\ now >= timer.armed + timer.requested
                   /\ timer.depth > MaxFreeNesting
                          => now >= timer.root + 4 * (timer.depth - MaxFreeNesting)

\* An interval that was overrun does not make up for the ticks it missed: it does
\* not fire in the millisecond its last callback ended (next += period).
NoBurst ==
    \A i \in DOMAIN timers :
        LET timer == timers[i]
        IN  timer.phase = "running" /\ timer.requested > 0 /\ timer.ended > 0 => now > timer.ended

\* A timer cleared before its first poll or in its own callback fires no more.
\* One cleared while it waits may fire once: it is due by the time it is polled.
ClearedIsQuiet ==
    \A i \in DOMAIN timers :
        timers[i].after > 0 => timers[i].cleared = "waiting" /\ timers[i].after = 1

\* The level in force is that of the callback that runs.
NestingIsTheCallbacks == nesting = (IF current = 0 THEN 0 ELSE timers[current].level)

\* Timers fire when they should (set_timeout_interval).
TimersKeepTime == ChainsAreSlowed /\ NoBurst /\ ClearedIsQuiet /\ NestingIsTheCallbacks

-----------------------------------------------------------------------------
(* The inductive invariant *)

Timer ==
    [interval : BOOLEAN, requested : Nat, level : Nat, depth : Nat, root : Nat, armed : Nat,
     phase : {"spawned", "waiting", "running", "done"}, next : Nat,
     cleared : {"no", "spawned", "waiting", "running"}, ended : Nat, after : Nat]

TypeOK == timers \in Seq(Timer) /\ now \in Nat /\ nesting \in Nat /\ current \in Nat

\* What a timer's fields say of one another: next is no sooner than its delay and
\* its chain's 4 ms a link; its level is its place in the chain.
OnTime(timer, time) ==
    /\ timer.root <= timer.armed /\ timer.armed <= time /\ timer.ended <= time
    /\ timer.phase # "done" => timer.depth = timer.level
    /\ timer.phase = "spawned"
          => /\ timer.ended = 0
             /\ timer.depth - 1 > MaxFreeNesting
                  => timer.armed >= timer.root + 4 * (timer.depth - 1 - MaxFreeNesting)
    /\ timer.phase \in {"waiting", "running"}
          => /\ timer.next >= timer.armed + timer.requested
             /\ timer.depth > MaxFreeNesting
                  => timer.next >= timer.root + 4 * (timer.depth - MaxFreeNesting)
             /\ timer.requested > 0 /\ timer.ended > 0 => timer.next > timer.ended
    /\ timer.phase = "running" => time >= timer.next

\* A timer cleared while it waits fires once at most, and any other not at all.
Quiet(timer) ==
    /\ timer.phase \in {"spawned", "waiting"} => timer.after = 0 /\ timer.cleared \in {"no", timer.phase}
    /\ timer.after > 0 => timer.cleared = "waiting" /\ timer.after = 1

\* One callback runs at a time, that of `current'.
CurrentRuns ==
    /\ current # 0 => current \in DOMAIN timers
    /\ \A i \in DOMAIN timers : timers[i].phase = "running" <=> i = current

IInv ==
    /\ TypeOK /\ CurrentRuns /\ NestingIsTheCallbacks
    /\ \A i \in DOMAIN timers : OnTime(timers[i], now) /\ Quiet(timers[i])
=============================================================================
