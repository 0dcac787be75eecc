---------------------------- MODULE AbortSignals ----------------------------
(***************************************************************************)
(* Abort signals and the event lists under them (abort/, events/mod.rs,    *)
(* utils/mc_oneshot.rs): controllers that abort their signals, one signal  *)
(* made of theirs by AbortSignal.any, and listeners that abort, listen,    *)
(* stop listening and throw while an event is dispatched.                  *)
(*                                                                         *)
(* A dispatch copies the listeners and drops those for once before it      *)
(* calls the first; what they do to the list meanwhile is for the next     *)
(* one.  The composite signal listens to each source with a `follow'.      *)
(*                                                                         *)
(* Two things a script can do to a signal without aborting it are left     *)
(* out, and nothing is claimed of a signal they were done to: it can       *)
(* dispatch an "abort" event of its own, and assign to `reason'.           *)
(***************************************************************************)
EXTENDS Naturals, Sequences, SequencesExt

CONSTANTS
    Sources,        \* the signals of controllers
    Composite,            \* the signal made of them
    MaxListeners    \* listeners of scripts

Signals == Sources \union {Composite}
NoReason == "none"

VARIABLES
    signals,    \* aborted, reason, and what the one-shot channel holds
    listeners,  \* of each signal, in order
    stack,      \* the dispatches under way, the innermost first
    made,       \* AbortSignal.any: "no", "follows", or "born" aborted
    added,      \* of each listener of a script: its signal, once, and calls
    due,        \* who listened as a signal was dispatched
    missed      \* whom a throw has kept from being called

vars == <<signals, listeners, stack, made, added, due, missed>>

FollowId == MaxListeners + 1
Follow == [id |-> FollowId, once |-> TRUE]

Init ==
    /\ signals = [s \in Signals |-> [aborted |-> FALSE, reason |-> NoReason, sent |-> NoReason]]
    /\ listeners = [s \in Signals |-> <<>>]
    /\ stack = <<>> /\ made = "no" /\ added = <<>> /\ due = {} /\ missed = {}

-----------------------------------------------------------------------------
(* Script runs when no event is dispatched, and in a listener. *)

Running(id) == stack # <<>> /\ stack[1].in = id
ScriptMay == stack = <<>> \/ \E id \in 1..MaxListeners : Running(id)

Ids(list) == {list[i].id : i \in DOMAIN list}

\* Variant: listeners for once are dropped after their calls.
Remaining_All(list) == list

\* The elements of a list at these places, in order.
Picked(list, places) ==
    LET picked[i \in 0..Len(list)] ==
            IF i = 0 THEN <<>>
            ELSE IF i \in places THEN Append(picked[i - 1], list[i]) ELSE picked[i - 1]
    IN  picked[Len(list)]

\* What do_emit keeps of a list before it calls the listeners.
Remaining(list) == Picked(list, {i \in DOMAIN list : ~list[i].once})

\* send_aborted: the channel keeps the first value it gets (Sender::send), the
\* signal the last.  `below' are the dispatches under way.
SendAborted(s, reason, below) ==
    /\ signals' = [signals EXCEPT ![s] =
                       [aborted |-> TRUE, reason |-> reason,
                        sent |-> IF @.sent = NoReason THEN reason ELSE @.sent]]
    /\ listeners' = [listeners EXCEPT ![s] = Remaining(@)]
    /\ stack' = <<[of |-> s, rest |-> listeners[s], in |-> 0]>> \o below
    /\ due' = due \union Ids(listeners[s])

\* AbortController.abort, only once.  Each source is aborted for its own reason.
Abort ==
    \E s \in Sources :
        /\ ScriptMay /\ ~signals[s].aborted
        /\ SendAborted(s, s, stack)
        /\ UNCHANGED <<made, added, missed>>

\* Of sources one of which is aborted, `any' makes a signal that is aborted and
\* says nothing on its channel.
MakeAny ==
    LET aborted == {s \in Sources : signals[s].aborted}
    IN  /\ ScriptMay /\ made = "no"
        /\ IF aborted = {}
           THEN /\ made' = "follows"
                /\ listeners' = [s \in Signals |->
                                     IF s = Composite THEN <<>> ELSE Append(listeners[s], Follow)]
                /\ UNCHANGED signals
           ELSE /\ made' = "born"
                /\ \E s \in aborted :
                       signals' = [signals EXCEPT ![Composite].aborted = TRUE, ![Composite].reason = s]
                /\ UNCHANGED listeners
        /\ UNCHANGED <<stack, added, due, missed>>

AddListener ==
    \E s \in Signals, once \in BOOLEAN, prepend \in BOOLEAN :
        LET new == [id |-> Len(added) + 1, once |-> once]
        IN  /\ ScriptMay /\ Len(added) < MaxListeners /\ (s = Composite => made # "no")
            /\ added' = Append(added, [on |-> s, once |-> once, calls |-> 0])
            /\ listeners' = [listeners EXCEPT ![s] =
                                 IF prepend THEN <<new>> \o @ ELSE Append(@, new)]
            /\ UNCHANGED <<signals, stack, made, due, missed>>

RemoveListener ==
    \E s \in Signals : \E i \in DOMAIN listeners[s] :
        /\ ScriptMay /\ listeners[s][i].id # FollowId
        /\ listeners' = [listeners EXCEPT ![s] = RemoveAt(@, i)]
        /\ UNCHANGED <<signals, stack, made, added, due, missed>>

-----------------------------------------------------------------------------
(* do_emit, from call to call. *)

Entered == <<[stack[1] EXCEPT !.in = stack[1].rest[1].id, !.rest = Tail(@)]>> \o Tail(stack)

CallListener ==
    /\ Running(0) /\ stack[1].rest # <<>> /\ stack[1].rest[1].id # FollowId
    /\ stack' = Entered
    /\ added' = [added EXCEPT ![stack[1].rest[1].id].calls = @ + 1]
    /\ UNCHANGED <<signals, listeners, made, due, missed>>

\* The composite takes the source's reason, aborted or not.
CallFollow ==
    /\ Running(0) /\ stack[1].rest # <<>> /\ stack[1].rest[1].id = FollowId
    /\ SendAborted(Composite, signals[stack[1].of].reason, Entered)
    /\ UNCHANGED <<made, added, missed>>

ListenerReturns ==
    /\ ScriptMay /\ stack # <<>>
    /\ stack' = [stack EXCEPT ![1].in = 0]
    /\ UNCHANGED <<signals, listeners, made, added, due, missed>>

\* The rest of the listeners are not called; a follow passes the error on, a
\* listener that aborted may catch it.
ListenerThrows ==
    LET outer == Len(stack) > 1 /\ stack[2].in = FollowId
        lost == IF outer THEN 2 ELSE 1
    IN  /\ ScriptMay /\ stack # <<>>
        /\ stack' = SubSeq(stack, lost + 1, Len(stack))
        /\ missed' = missed \union UNION {Ids(stack[i].rest) : i \in 1..lost}
        /\ UNCHANGED <<signals, listeners, made, added, due>>

DispatchEnds ==
    /\ Running(0) /\ stack[1].rest = <<>>
    /\ stack' = IF Len(stack) > 1 /\ stack[2].in = FollowId
                THEN [Tail(stack) EXCEPT ![1].in = 0] ELSE Tail(stack)
    /\ UNCHANGED <<signals, listeners, made, added, due, missed>>

Next ==
    \/ Abort \/ MakeAny \/ AddListener \/ RemoveListener
    \/ CallListener \/ CallFollow \/ ListenerReturns \/ ListenerThrows \/ DispatchEnds

Spec == Init /\ [][Next]_vars

-----------------------------------------------------------------------------
(* Properties *)

Called == {id \in DOMAIN added : added[id].calls > 0}

\* Whoever listened as a signal was dispatched is called, whatever listeners do
\* to the list meanwhile, unless one before threw (do_emit).
NobodyIsSkipped == stack = <<>> => due \ {FollowId} \subseteq Called \union missed

\* A listener for once is called once, and so is any listener of a source: only
\* the composite is dispatched more than once.
OnceIsOnce ==
    \A id \in DOMAIN added : added[id].once \/ added[id].on # Composite => added[id].calls <= 1

\* The composite is aborted when a source is, but for a throw of a listener that
\* came before it, for the reason of one of them; and its channel says so unless
\* it was born aborted (any).
CompositeFollows ==
    LET aborted == {s \in Sources : signals[s].aborted}
    IN  /\ stack = <<>> /\ made = "follows" /\ aborted # {} /\ FollowId \notin missed
               => signals[Composite].aborted
        /\ signals[Composite].aborted => signals[Composite].reason \in aborted
        /\ made = "follows" /\ signals[Composite].aborted => signals[Composite].sent # NoReason

\* Listeners hear of an abort, and of one (send_aborted, any).
AbortsAreHeard == NobodyIsSkipped /\ OnceIsOnce /\ CompositeFollows

-----------------------------------------------------------------------------
(* The inductive invariant *)

Entries == [id : Nat, once : BOOLEAN]
Reasons == Signals \union {NoReason}
Frames == [of : Signals, rest : Seq(Entries), in : Nat]
Registrations == [on : Signals, once : BOOLEAN, calls : Nat]

TypeOK ==
    /\ signals \in [Signals -> [aborted : BOOLEAN, reason : Reasons, sent : Reasons]]
    /\ listeners \in [Signals -> Seq(Entries)]
    /\ stack \in Seq(Frames)
    /\ made \in {"no", "follows", "born"}
    /\ added \in Seq(Registrations)
    /\ Len(added) <= MaxListeners

Distinct(list) == \A i, j \in DOMAIN list : list[i].id = list[j].id => i = j

\* A follow listens to a source, any other as it was added.
Theirs(list, s, registered, any) ==
    /\ Distinct(list)
    /\ \A i \in DOMAIN list :
          \/ list[i] = Follow /\ s \in Sources /\ any = "follows"
          \/ /\ list[i].id \in DOMAIN registered
             /\ registered[list[i].id].on = s /\ registered[list[i].id].once = list[i].once

ListsAreTheirs ==
    /\ \A s \in Signals : Theirs(listeners[s], s, added, made)
    /\ \A f \in DOMAIN stack : Theirs(stack[f].rest, stack[f].of, added, made)

\* Who is to be called once has not been while it waits in a list that will be
\* dispatched, or in the one dispatch that has it.
Single(id) == added[id].once \/ added[id].on # Composite
Uncalled ==
    \A id \in DOMAIN added :
        Single(id) =>
            /\ added[id].calls <= 1
            /\ id \in Ids(listeners[added[id].on]) /\ (added[id].once \/ ~signals[added[id].on].aborted)
                  => added[id].calls = 0 /\ \A f \in DOMAIN stack : id \notin Ids(stack[f].rest)
            /\ \A f \in DOMAIN stack :
                  id \in Ids(stack[f].rest)
                     => added[id].calls = 0
                          /\ \A g \in DOMAIN stack : id \in Ids(stack[g].rest) => g = f

Waits(id) == \E f \in DOMAIN stack : id \in Ids(stack[f].rest)
DueAreHeard == \A id \in due : id = FollowId \/ id \in Called \/ id \in missed \/ Waits(id)

AbortsPassOn ==
    /\ \A f \in DOMAIN stack : stack[f].of \in Sources => signals[stack[f].of].aborted
    /\ \A s \in Sources : signals[s].aborted => signals[s].reason = s
    /\ made = "no" => ~signals[Composite].aborted
    /\ signals[Composite].aborted
          => \E s \in Sources : signals[s].aborted /\ signals[Composite].reason = s
    /\ made = "follows" =>
          /\ signals[Composite].aborted => signals[Composite].sent # NoReason
          /\ \A s \in Sources :
                IF signals[s].aborted
                THEN signals[Composite].aborted \/ FollowId \in missed \/ Waits(FollowId)
                ELSE FollowId \in Ids(listeners[s])

IInv == TypeOK /\ ListsAreTheirs /\ Uncalled /\ DueAreHeard /\ AbortsPassOn
=============================================================================
