------------------------------ MODULE Emitters ------------------------------
(***************************************************************************)
(* Event emitters (events/mod.rs): one that is native, and                 *)
(* objects that borrow its methods and keep their listeners in a hidden    *)
(* property, one of them the other's prototype.  Listeners listen, stop    *)
(* listening, emit and throw while an event is emitted.                    *)
(***************************************************************************)
EXTENDS Naturals, Sequences, FiniteSets, SequencesExt

CONSTANTS
    Events,
    Callbacks,
    MaxAdded,       \* registrations
    MaxDepth,       \* emits within one another
    MaxEmits

Native == "native"      \* of the class
Parent == "parent"      \* a plain object, and one that inherits from it
Child == "child"
Emitting == {Native, Parent, Child}

VARIABLES
    tables,     \* of each object that has one: event and listeners, in order
    made,       \* the objects that have one
    stack,      \* the emits under way, the innermost first
    added,      \* of each registration: through what, whether it stands, its calls (ghost)
    emits,
    missed      \* whom a throw has kept from being called (ghost)

vars == <<tables, made, stack, added, emits, missed>>

-----------------------------------------------------------------------------
(* Tables *)

\* resolve_events: the hidden property is found on the prototype too.
HomeAmong(having, o) == IF o = Child /\ Child \notin having /\ Parent \in having THEN Parent ELSE o
Home(o) == HomeAmong(made, o)

Index(table, event) == SelectInSeq(table, LAMBDA entry : entry.event = event)
ListenersOf(table, event) ==
    IF Index(table, event) = 0 THEN <<>> ELSE table[Index(table, event)].items

\* No event is left without listeners.
WithListeners(table, event, items) ==
    LET i == Index(table, event)
    IN  CASE i = 0 -> Append(table, [event |-> event, items |-> items])
          [] i # 0 /\ items = <<>> -> RemoveAt(table, i)
          [] OTHER -> [table EXCEPT ![i].items = items]

Ids(items) == {items[i].id : i \in DOMAIN items}

\* The elements of a list at these places, in order.
Picked(list, places) ==
    LET picked[i \in 0..Len(list)] ==
            IF i = 0 THEN <<>>
            ELSE IF i \in places THEN Append(picked[i - 1], list[i]) ELSE picked[i - 1]
    IN  picked[Len(list)]

\* Whatever asks for a table makes one.
Update(o, table) ==
    /\ tables' = [tables EXCEPT ![Home(o)] = table]
    /\ made' = made \union {Home(o)}
Gone(ids) == added' = [i \in DOMAIN added |-> [added[i] EXCEPT !.stands = @ /\ i \notin ids]]

-----------------------------------------------------------------------------
Init ==
    /\ tables = [o \in Emitting |-> <<>>] /\ made = {Native}
    /\ stack = <<>> /\ added = <<>> /\ emits = 0 /\ missed = {}

\* Script runs when nothing is emitted, and in a listener.
ScriptMay == stack # <<>> => stack[1].running

\* on, once, prependListener, prependOnceListener: the event goes last if it is new.
AddListener ==
    \E o \in Emitting, event \in Events, callback \in Callbacks, once, prepend \in BOOLEAN :
        LET item == [id |-> Len(added) + 1, callback |-> callback, once |-> once]
            items == ListenersOf(tables[Home(o)], event)
        IN  /\ ScriptMay /\ Len(added) < MaxAdded
            /\ Update(o, WithListeners(tables[Home(o)], event,
                                       IF prepend THEN <<item>> \o items ELSE Append(items, item)))
            /\ added' = Append(added, [through |-> o, event |-> event, once |-> once,
                                       stands |-> TRUE, calls |-> 0])
            /\ UNCHANGED <<stack, emits, missed>>

\* off: the first of that callback.
RemoveListener ==
    \E o \in Emitting, event \in Events, callback \in Callbacks :
        LET items == ListenersOf(tables[Home(o)], event)
            at == SelectInSeq(items, LAMBDA item : item.callback = callback)
        IN  /\ ScriptMay
            /\ IF at = 0 THEN Update(o, tables[Home(o)]) /\ UNCHANGED added
               ELSE Update(o, WithListeners(tables[Home(o)], event, RemoveAt(items, at))) /\ Gone({items[at].id})
            /\ UNCHANGED <<stack, emits, missed>>

\* removeAllListeners, of an event or of all.
RemoveAll ==
    \E o \in Emitting, of \in SUBSET Events :
        LET table == tables[Home(o)]
            rest == Picked(table, {i \in DOMAIN table : table[i].event \notin of})
        IN  /\ ScriptMay /\ (of = Events \/ Cardinality(of) = 1)
            /\ Update(o, rest)
            /\ Gone(UNION {Ids(ListenersOf(tables[Home(o)], event)) : event \in of})
            /\ UNCHANGED <<stack, emits, missed>>

\* emit: the listeners are copied, those for once dropped, before the first is called.
Emit ==
    \E o \in Emitting, event \in Events :
        LET items == ListenersOf(tables[Home(o)], event)
            kept == Picked(items, {i \in DOMAIN items : ~items[i].once})
        IN  /\ ScriptMay /\ Len(stack) < MaxDepth /\ emits < MaxEmits
            /\ emits' = emits + 1
            /\ Update(o, IF items = <<>> THEN tables[Home(o)]
                         ELSE WithListeners(tables[Home(o)], event, kept))
            /\ stack' = <<[rest |-> items, running |-> FALSE, through |-> o, event |-> event,
                           due |-> {i \in DOMAIN added : added[i].stands /\ added[i].through = o
                                                           /\ added[i].event = event},
                           heard |-> {}]>> \o stack
            /\ Gone(Ids(items) \ Ids(kept))
            /\ UNCHANGED missed

Call ==
    /\ stack # <<>> /\ ~stack[1].running /\ stack[1].rest # <<>>
    /\ LET id == stack[1].rest[1].id
       IN  /\ stack' = [stack EXCEPT ![1].running = TRUE, ![1].rest = Tail(@), ![1].heard = @ \union {id}]
           /\ added' = [added EXCEPT ![id].calls = @ + 1]
    /\ UNCHANGED <<tables, made, emits, missed>>

Return ==
    /\ stack # <<>> /\ stack[1].running
    /\ stack' = [stack EXCEPT ![1].running = FALSE]
    /\ UNCHANGED <<tables, made, added, emits, missed>>

\* The rest are not called; the listener that emitted may catch it.
ThrowOut ==
    /\ stack # <<>> /\ stack[1].running
    /\ stack' = Tail(stack) /\ missed' = missed \union Ids(stack[1].rest)
    /\ UNCHANGED <<tables, made, added, emits>>

EmitEnds ==
    /\ stack # <<>> /\ ~stack[1].running /\ stack[1].rest = <<>>
    /\ stack' = Tail(stack)
    /\ UNCHANGED <<tables, made, added, emits, missed>>

Next ==
    \/ AddListener \/ RemoveListener \/ RemoveAll
    \/ Emit \/ Call \/ Return \/ ThrowOut \/ EmitEnds

Spec == Init /\ [][Next]_vars

-----------------------------------------------------------------------------
(* Properties *)

\* eventNames, listenerCount and the answer of emit are true: an event is in the
\* table once, and if it has listeners; and the listeners there are those that were
\* added and neither removed nor called for once, found again through the object
\* they were added through, whoever else made a table meanwhile (resolve_events,
\* remove_event_listener, do_emit).
TablesAreTrue ==
    /\ \A o \in Emitting :
          /\ \A i, j \in DOMAIN tables[o] : tables[o][i].event = tables[o][j].event => i = j
          /\ \A i \in DOMAIN tables[o] : tables[o][i].items # <<>>
    /\ \A i \in DOMAIN added :
          added[i].stands <=> i \in Ids(ListenersOf(tables[Home(added[i].through)], added[i].event))

\* Who listens as an event is emitted hears of it, whatever listeners do meanwhile,
\* unless one of them throws; and who listens for once hears of one (do_emit).
EmitsAreHeard ==
    /\ \A i \in DOMAIN added : added[i].once => added[i].calls <= 1
    /\ \A f \in DOMAIN stack :
          /\ stack[f].due \subseteq stack[f].heard \union Ids(stack[f].rest)
          /\ \A id \in stack[f].heard \union Ids(stack[f].rest) : added[id].event = stack[f].event

EmittersAreTrue == TablesAreTrue /\ EmitsAreHeard

-----------------------------------------------------------------------------
(* The inductive invariant *)

Items == [id : Nat, callback : Callbacks, once : BOOLEAN]
TableEntries == [event : Events, items : Seq(Items)]
Frames == [rest : Seq(Items), running : BOOLEAN, through : Emitting, event : Events,
           due : SUBSET Nat, heard : SUBSET Nat]
Registrations == [through : Emitting, event : Events, once : BOOLEAN, stands : BOOLEAN, calls : Nat]

TypeOK ==
    /\ tables \in [Emitting -> Seq(TableEntries)]
    /\ made \subseteq Emitting
    /\ stack \in Seq(Frames)
    /\ added \in Seq(Registrations)

Proper(table) ==
    /\ \A i, j \in DOMAIN table : table[i].event = table[j].event => i = j
    /\ \A i \in DOMAIN table : table[i].items # <<>>

Distinct(items) == \A i, j \in DOMAIN items : items[i].id = items[j].id => i = j

\* Listeners as they were added, for the event.
Listed(items, event, registered) ==
    /\ Distinct(items)
    /\ \A k \in DOMAIN items :
          LET id == items[k].id
          IN  /\ id \in DOMAIN registered
              /\ registered[id].event = event /\ registered[id].once = items[k].once

\* A table holds what was added through an object whose table it is, and that stands;
\* what is added through an object finds its table from then on.
TablesHold ==
    /\ \A o \in Emitting :
          /\ Proper(tables[o]) /\ (o \notin made => tables[o] = <<>>)
          /\ \A event \in Events :
                /\ Listed(ListenersOf(tables[o], event), event, added)
                /\ \A id \in Ids(ListenersOf(tables[o], event)) :
                      added[id].stands /\ Home(added[id].through) = o
    /\ \A id \in DOMAIN added :
          /\ Home(added[id].through) \in made
          /\ added[id].stands => id \in Ids(ListenersOf(tables[Home(added[id].through)], added[id].event))

\* Who listens for once has not been called while it stands, or is in the one emit
\* that will call it.
OnceUncalled ==
    \A id \in DOMAIN added :
        added[id].once =>
            /\ added[id].calls <= 1
            /\ added[id].stands
                  => added[id].calls = 0 /\ \A f \in DOMAIN stack : id \notin Ids(stack[f].rest)
            /\ \A f \in DOMAIN stack :
                  id \in Ids(stack[f].rest)
                     => added[id].calls = 0
                          /\ \A g \in DOMAIN stack : id \in Ids(stack[g].rest) => g = f

EmitsHold ==
    \A f \in DOMAIN stack :
        /\ Listed(stack[f].rest, stack[f].event, added)
        /\ stack[f].due \subseteq stack[f].heard \union Ids(stack[f].rest)
        /\ \A id \in stack[f].heard : id \in DOMAIN added /\ added[id].event = stack[f].event

IInv == TypeOK /\ TablesHold /\ OnceUncalled /\ EmitsHold
=============================================================================
