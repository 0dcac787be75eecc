------------------------------ MODULE NameLists ------------------------------
(***************************************************************************)
(* The lists of names and values a script keeps: URLSearchParams over the  *)
(* query of its URL (url/url_search_params.rs), FormData                   *)
(* (web/form_data.rs) and Headers (fetch/mod.rs over                       *)
(* ferrijs-fetch/src/headers.rs).  Their iterators are places in a list    *)
(* that goes on changing.                                                  *)
(*                                                                         *)
(* Names are numbers, in the order they sort; a value is the sequence of   *)
(* the values that were combined into it.                                  *)
(***************************************************************************)
EXTENDS Naturals, Sequences, SequencesExt, FiniteSets

CONSTANTS
    Names,          \* 1..n
    SetCookie,      \* the name whose values are never combined
    Values,
    MaxEntries

VARIABLES
    kind,           \* "params", "form", "headers"
    list,
    iterator,       \* [seen, lost]: the names it gave, until it loses its place
    each,           \* forEach: its place, or Off
    given,          \* what the script gave each name since it last replaced it
    deduplicated    \* a set() dropped a pair that another name had twice

vars == <<kind, list, iterator, each, given, deduplicated>>

Entry(name, value) == [name |-> name, value |-> value]
Named(entries, name) == SelectSeq(entries, LAMBDA e : e.name = name)
Without(entries, name) == SelectSeq(entries, LAMBDA e : e.name # name)

\* A stable sort by name.
Sorted(entries) == FlattenSeq([name \in 1..Cardinality(Names) |-> Named(entries, name)])

\* The list as its iterators see it.
View == IF kind = "headers" THEN Sorted(list) ELSE list

NewIterator == [seen |-> <<>>, lost |-> FALSE]
Off == 100

Init ==
    /\ kind \in {"params", "form", "headers"} /\ list = <<>>
    /\ iterator = NewIterator /\ each = Off
    /\ given = [name \in Names |-> <<>>] /\ deduplicated = FALSE

-----------------------------------------------------------------------------
(* The lists *)

\* append_combined
Appended(entries, name, value) ==
    LET same == {i \in DOMAIN entries : entries[i].name = name}
        at == CHOOSE i \in same : \A j \in same : i <= j
    IN  IF kind = "headers" /\ name # SetCookie /\ same # {}
        THEN [entries EXCEPT ![at].value = @ \o value]
        ELSE Append(entries, Entry(name, value))

\* The first of its name is replaced where it is, and the others go.
Replaced(entries, name, value) ==
    LET at == CHOOSE i \in DOMAIN entries : /\ entries[i].name = name
                                            /\ \A j \in 1..(i - 1) : entries[j].name # name
    IN  IF Named(entries, name) = <<>> THEN Append(entries, Entry(name, value))
        ELSE Without(SubSeq(entries, 1, at - 1), name) \o <<Entry(name, value)>>
               \o Without(SubSeq(entries, at + 1, Len(entries)), name)

\* Each pair once, where it first is.
Uniques(entries) ==
    LET firsts == {i \in DOMAIN entries : \A j \in 1..(i - 1) : entries[j] # entries[i]}
    IN  [k \in 1..Cardinality(firsts) |->
            entries[CHOOSE i \in firsts : Cardinality({j \in firsts : j <= i}) = k]]

\* URLSearchParams.set rewrites every pair through a set of those it has seen.
SetInParams(entries, name, value) ==
    Uniques(Append([i \in DOMAIN entries |->
                      IF entries[i].name = name THEN Entry(name, value) ELSE entries[i]],
                   Entry(name, value)))

-----------------------------------------------------------------------------
(* The script *)

\* forEach of FormData and of Headers borrows the list: who changes it then throws.
MayChange == each = Off \/ kind = "params"

\* The list becomes `after'.  Unless entries may go or come before its place, an
\* iterator is followed on.
Becomes(after, disturbs) ==
    /\ MayChange /\ list' = after /\ UNCHANGED <<kind, each>>
    /\ iterator' = IF disturbs THEN [seen |-> <<>>, lost |-> TRUE] ELSE iterator

AppendCall(name, value) ==
    /\ Len(FlattenSeq([n \in 1..Cardinality(Names) |-> given[n]])) < MaxEntries
    /\ Becomes(Appended(list, name, <<value>>), kind = "headers")
    /\ given' = [given EXCEPT ![name] = Append(@, value)] /\ UNCHANGED deduplicated

\* Variant: the pairs that the name had stay behind the new one.
SetCall_Keeps(name, value) ==
    /\ Becomes(Append(list, Entry(name, <<value>>)), FALSE)
    /\ given' = [given EXCEPT ![name] = <<value>>] /\ UNCHANGED deduplicated

\* set; a body's own content-type goes over the caller's (apply_body_content_type).
SetCall(name, value) ==
    LET after == IF kind = "params" THEN SetInParams(list, name, <<value>>)
                 ELSE Replaced(list, name, <<value>>)
    IN  /\ Len(Without(list, name)) < MaxEntries
        /\ Becomes(after, \/ Len(Named(list, name)) > 1 \/ Uniques(list) # list
                          \/ Named(list, name) = <<>> /\ kind = "headers")
        /\ given' = [given EXCEPT ![name] = <<value>>]
        /\ deduplicated' = (deduplicated \/ Len(Without(after, name)) < Len(Without(list, name)))

\* A body's content-type where there is none.
SetIfAbsent(name, value) ==
    /\ kind = "headers" /\ Named(list, name) = <<>> /\ Len(list) < MaxEntries
    /\ Becomes(Append(list, Entry(name, <<value>>)), TRUE)
    /\ given' = [given EXCEPT ![name] = <<value>>] /\ UNCHANGED deduplicated

DeleteCall(name) ==
    /\ Becomes(Without(list, name), Named(list, name) # <<>>) /\ given' = [given EXCEPT ![name] = <<>>]
    /\ UNCHANGED deduplicated

DeleteValue(name, value) ==
    /\ kind = "params" /\ Becomes(SelectSeq(list, LAMBDA e : e # Entry(name, <<value>>)), TRUE)
    /\ given' = [given EXCEPT ![name] = SelectSeq(@, LAMBDA v : v # value)]
    /\ UNCHANGED deduplicated

Sort == kind = "params" /\ Becomes(Sorted(list), list # Sorted(list)) /\ UNCHANGED <<given, deduplicated>>

\* url.search, or url.href, is assigned; the parameters are those of the URL.
SetSearch(name, value) ==
    /\ kind = "params" /\ Becomes(<<Entry(name, <<value>>)>>, TRUE)
    /\ given' = [n \in Names |-> IF n = name THEN <<value>> ELSE <<>>]
    /\ UNCHANGED deduplicated

-----------------------------------------------------------------------------
(* Iteration *)

\* next() of keys, values and entries reads the list as it is.
NextCall ==
    LET at == Len(iterator.seen) + 1
    IN  /\ ~iterator.lost /\ at <= Len(View)
        /\ iterator' = [iterator EXCEPT !.seen = Append(@, View[at].name)]
        /\ UNCHANGED <<kind, list, each, given, deduplicated>>

\* Another iterator; one that lost its place is not followed.
Restart ==
    /\ iterator' = NewIterator /\ UNCHANGED <<kind, list, each, given, deduplicated>>

\* forEach: its callback may call anything.
ForEach ==
    /\ each = Off /\ each' = 0 /\ UNCHANGED <<kind, list, iterator, given, deduplicated>>

Callback ==
    /\ each # Off /\ each < Len(View) /\ each' = each + 1
    /\ UNCHANGED <<kind, list, iterator, given, deduplicated>>

ForEachEnds ==
    /\ each # Off /\ each >= Len(View) /\ each' = Off
    /\ UNCHANGED <<kind, list, iterator, given, deduplicated>>

Next ==
    \/ \E name \in Names, value \in Values :
          \/ AppendCall(name, value) \/ SetCall(name, value) \/ SetIfAbsent(name, value)
          \/ DeleteValue(name, value) \/ SetSearch(name, value)
    \/ \E name \in Names : DeleteCall(name)
    \/ Sort \/ NextCall \/ Restart \/ ForEach \/ Callback \/ ForEachEnds

Spec == Init /\ [][Next]_vars

-----------------------------------------------------------------------------
(* Properties *)

ValuesOf(name) == FlattenSeq([i \in DOMAIN Named(list, name) |-> Named(list, name)[i].value])

\* A name has what it was given since it was last replaced, in that order; only a
\* set() of URLSearchParams may drop pairs that another name has twice (append, set,
\* delete and sort).
NamesKeepTheirValues ==
    \A name \in Names :
        IF deduplicated THEN ToSet(ValuesOf(name)) \subseteq ToSet(given[name])
        ELSE ValuesOf(name) = given[name]

\* Names of headers do not repeat, but for the one that is not combined.
HeadersAreCombined ==
    kind = "headers" => \A name \in Names \ {SetCookie} : Len(Named(list, name)) <= 1

\* An iterator gives every entry once and in order, those that come while it is under
\* way with them, as long as nothing goes or comes before its place.
IteratorsKeepTheirPlace ==
    ~iterator.lost =>
        /\ Len(iterator.seen) <= Len(View)
        /\ \A i \in DOMAIN iterator.seen : iterator.seen[i] = View[i].name

\* forEach of FormData and Headers ends where the list ended.
ForEachEndsWithTheList == each # Off /\ kind # "params" => each <= Len(View)

ListsKeepTheirNames ==
    NamesKeepTheirValues /\ HeadersAreCombined /\ IteratorsKeepTheirPlace /\ ForEachEndsWithTheList
=============================================================================
