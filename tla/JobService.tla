------------------------------ MODULE JobService ------------------------------
(***************************************************************************)
(* What a realm's VM promises to whoever submits work to it, with no word  *)
(* of channels, permits or polling: a bounded number of calls is in        *)
(* service, a call beyond that is refused at once, an admitted call is     *)
(* answered at most once and only after its work completed, and work is    *)
(* abandoned only when its client left or the service closed.              *)
(* VmLoop is shown to implement this module.                               *)
(***************************************************************************)
EXTENDS FiniteSets, Integers

CONSTANTS
  Calls,     \* The calls that are ever made, each at most once
  Capacity   \* How many calls may be in service at a time

VARIABLES
  client,    \* What the maker of each call knows of it
  work,      \* What became of the work the call carries
  closed     \* Whether the service stopped taking work up

vars == <<client, work, closed>>

Occupying == {c \in Calls : work[c] \in {"held", "begun"}}

Init ==
  /\ client = [c \in Calls |-> "new"]
  /\ work = [c \in Calls |-> "none"]
  /\ closed = FALSE

Admit(c) ==
  /\ client[c] = "new"
  /\ Cardinality(Occupying) < Capacity
  /\ client' = [client EXCEPT ![c] = "waiting"]
  /\ work' = [work EXCEPT ![c] = "held"]
  /\ UNCHANGED closed

Refuse(c) ==
  /\ client[c] = "new"
  /\ Cardinality(Occupying) = Capacity
  /\ client' = [client EXCEPT ![c] = "refused"]
  /\ UNCHANGED <<work, closed>>

Begin(c) ==
  /\ work[c] = "held"
  /\ work' = [work EXCEPT ![c] = "begun"]
  /\ UNCHANGED <<client, closed>>

Complete(c) ==
  /\ work[c] = "begun"
  /\ work' = [work EXCEPT ![c] = "completed"]
  /\ UNCHANGED <<client, closed>>

\* The client leaving may give the work up in the same step (a reservation
\* that was never submitted).
Cancel(c) ==
  /\ client[c] = "waiting"
  /\ client' = [client EXCEPT ![c] = "cancelled"]
  /\ \/ UNCHANGED work
     \/ /\ work[c] = "held"
        /\ work' = [work EXCEPT ![c] = "abandoned"]
  /\ UNCHANGED closed

\* Any number of calls lose their work together when the service is torn down;
\* a client may learn of it in the same step (a submission that was refused).
Abandon(dropped, told) ==
  /\ \A c \in dropped :
       /\ work[c] \in {"held", "begun"}
       /\ closed \/ client[c] = "cancelled"
  /\ told \subseteq {c \in dropped : client[c] = "waiting"}
  /\ work' = [c \in Calls |-> IF c \in dropped THEN "abandoned" ELSE work[c]]
  /\ client' = [c \in Calls |-> IF c \in told THEN "failed" ELSE client[c]]
  /\ UNCHANGED closed

Answer(c) ==
  /\ client[c] = "waiting"
  /\ work[c] = "completed"
  /\ client' = [client EXCEPT ![c] = "answered"]
  /\ UNCHANGED <<work, closed>>

Fail(c) ==
  /\ client[c] = "waiting"
  /\ work[c] = "abandoned"
  /\ client' = [client EXCEPT ![c] = "failed"]
  /\ UNCHANGED <<work, closed>>

Close ==
  /\ closed' = TRUE
  /\ UNCHANGED <<client, work>>

Next ==
  \/ \E c \in Calls : \/ Admit(c) \/ Refuse(c)
                      \/ Begin(c) \/ Complete(c)
                      \/ Cancel(c) \/ Answer(c) \/ Fail(c)
  \/ \E dropped, told \in SUBSET Calls : Abandon(dropped, told)
  \/ Close

Spec == Init /\ [][Next]_vars
===============================================================================
