----------------------------- MODULE Inspecting -----------------------------
(***************************************************************************)
(* Looking at values: util.inspect and util.format (node/inspect.rs),      *)
(* console.table (console_fmt.rs), and deep equality                       *)
(* (node/deep_equal.rs).                                                   *)
(*                                                                         *)
(* A heap h gives each object its class and its entries, key and value.    *)
(* What a Map, a Date or an Error holds are entries too, but none of its   *)
(* own properties; a promise has one entry once it is settled.  Other      *)
(* values are named for themselves.                                        *)
(***************************************************************************)
EXTENDS Integers, Sequences, SequencesExt, FiniteSets

CONSTANTS
    MaxDepth,         \* to which containers are shown
    MaxArrayLength,   \* of which elements are shown
    EqualDepth,       \* MAX_DEPTH of deep_equal.rs
    StackDepth        \* calls until the native stack has no more room

Class(h, v) == IF v \in DOMAIN h THEN h[v].class ELSE "primitive"
Keys(object) == {object.entries[i][1] : i \in DOMAIN object.entries}
Entry(object, key) ==
    object.entries[CHOOSE i \in DOMAIN object.entries : object.entries[i][1] = key][2]

\* A promise is never resolved with a promise.
Promises == {"pending", "resolved", "rejected"}
IsHeap(h) ==
    \A v \in DOMAIN h :
        h[v].class = "resolved" => Class(h, h[v].entries[1][2]) \notin Promises

\* What holds its entries out of sight of its properties.
Opaque == {"Map", "Date", "Error"} \union Promises
Own(h, v) == IF h[v].class \in Opaque THEN [h[v] EXCEPT !.entries = <<>>] ELSE h[v]

-----------------------------------------------------------------------------
(* inspect.rs *)

\* The stack ends first.
Overflow == <<"overflow">>
Ends(shown) == shown # Overflow

RECURSIVE Show(_, _, _, _)

\* What is inside, one level down, or as much of it as is shown.
ShowAll(h, kind, entries, depth, n) ==
    LET shown == [i \in DOMAIN entries |-> <<entries[i][1], Show(h, entries[i][2], depth + 1, n)>>]
    IN  IF \A i \in DOMAIN shown : Ends(shown[i][2]) THEN <<kind, shown>> ELSE Overflow

\* Inspector::value.  A promise is looked into however deep it is.
Show(h, v, depth, n) ==
    LET class == Class(h, v)
        entries == IF class = "primitive" THEN <<>> ELSE h[v].entries
        length == Len(entries)
    IN  CASE class \in {"primitive", "Error", "pending"} -> <<v>>
          [] n = 0 -> Overflow
          [] class \in {"resolved", "rejected"} -> ShowAll(h, class, entries, depth, n - 1)
          [] depth > MaxDepth -> <<"beyond", class>>
          [] class = "Date" -> <<v>>
          [] class = "array" /\ length > MaxArrayLength ->
               ShowAll(h, "more", SubSeq(entries, 1, MaxArrayLength), depth, n - 1)
          [] OTHER -> ShowAll(h, class, entries, depth, n - 1)

Inspect(h, v) == Show(h, v, 0, StackDepth)

\* Inspector::printf: what a format is made of, text or a specifier, and the arguments
\* after it.
Printf(format, args) ==
    LET Piece(state, piece) ==
            IF piece \in {"%s", "%c"} /\ state.consumed < Len(args)
            THEN [consumed |-> state.consumed + 1,
                  out |-> IF piece = "%c" THEN state.out
                          ELSE Append(state.out, args[state.consumed + 1])]
            ELSE [state EXCEPT !.out = Append(@, IF piece = "%%" THEN "%" ELSE piece)]
    IN  FoldLeft(Piece, [consumed |-> 0, out |-> <<>>], format)

\* Inspector::args: what the format leaves is shown after it.
Args(format, args) ==
    LET shown == Printf(format, args)
    IN  shown.out \o SubSeq(args, shown.consumed + 1, Len(args))

-----------------------------------------------------------------------------
(* console.table: a row for each entry, with a cell for each of its own;   *)
(* what has none is a value.  A filter names the columns to keep.          *)

IsRow(h, v) == Class(h, v) \notin {"primitive", "function"}

Row(h, filter, e) ==
    IF IsRow(h, e[2])
    THEN [index |-> e[1], cells |-> SelectSeq(Own(h, e[2]).entries, LAMBDA c : c[1] \in filter),
          value |-> <<>>]
    ELSE [index |-> e[1], cells |-> <<>>, value |-> <<e[2]>>]

BuildTable(h, v, filter) ==
    LET rows == [i \in DOMAIN h[v].entries |-> Row(h, filter, h[v].entries[i])]
        Columns(seen, row) ==
            FoldLeft(LAMBDA known, c : IF Contains(known, c[1]) THEN known ELSE Append(known, c[1]),
                     seen, row.cells)
    IN  [columns |-> FoldLeft(Columns, <<>>, rows), rows |-> rows,
         values |-> \E i \in DOMAIN rows : rows[i].value # <<>>]

\* render_table: an empty cell where a row has none.
Line(table, row) ==
    LET Cell(column) == FoldRight(LAMBDA c, cell : IF c[1] = column THEN <<c[2]>> ELSE cell,
                                  row.cells, <<>>)
    IN  <<row.index>> \o [i \in DOMAIN table.columns |-> Cell(table.columns[i])]
          \o (IF table.values THEN <<row.value>> ELSE <<>>)

Headers(table) ==
    <<"(index)">> \o table.columns \o (IF table.values THEN <<"Values">> ELSE <<>>)

-----------------------------------------------------------------------------
(* deep_equal.rs *)

\* equal_at, of what is no object; a text of a number is loosely that number.
LooselySame == {{"null", "undefined"}, {"1", "'1'"}}
PrimitiveEq(a, b, mode) == a = b \/ (mode = "loose" /\ {a, b} \in LooselySame)

\* A property, the prototype's included.
Has(object, key) == key \in Keys(object) \union {"constructor"}
Get(object, key) == IF key \in Keys(object) THEN Entry(object, key) ELSE object.class

\* An own property of that name is taken for the constructor.
ConstructorName(object) == Get(object, "constructor")

\* A settled promise is no object for this, nor is a function: they are who they are.
TypeOf(h, v) ==
    CASE Class(h, v) \in {"array", "primitive"} -> Class(h, v)
      [] Class(h, v) \in {"pending", "resolved", "rejected", "function"} -> "identity"
      [] Class(h, v) = "Error" -> "exception"
      [] OTHER -> "object"

RECURSIVE EqualAt(_, _, _, _, _)

ArrayEq(h, a, b, mode, depth) ==
    /\ Len(h[a].entries) = Len(h[b].entries)
    /\ \A i \in DOMAIN h[a].entries :
           EqualAt(h, h[a].entries[i][2], h[b].entries[i][2], mode, depth + 1)

ObjectEq(h, a, b, mode, depth) ==
    LET x == Own(h, a)
        y == Own(h, b)
    IN  /\ mode = "loose" \/ ConstructorName(x) = ConstructorName(y)
        /\ IF ConstructorName(x) = "Date" /\ ConstructorName(y) = "Date"
           THEN h[a].entries = h[b].entries
           ELSE /\ Len(x.entries) = Len(y.entries)
                /\ \A key \in Keys(x) :
                       Has(y, key) /\ EqualAt(h, Entry(x, key), Get(y, key), mode, depth + 1)

EqualAt(h, a, b, mode, depth) ==
    CASE depth > EqualDepth -> FALSE
      [] TypeOf(h, a) # TypeOf(h, b) -> FALSE
      [] TypeOf(h, a) = "primitive" -> PrimitiveEq(a, b, mode)
      [] TypeOf(h, a) = "identity" -> a = b
      [] TypeOf(h, a) = "array" -> ArrayEq(h, a, b, mode, depth)
      [] OTHER -> ObjectEq(h, a, b, mode, depth)

DeepEqual(h, a, b, mode) == EqualAt(h, a, b, mode, 0)

-----------------------------------------------------------------------------
(* What is the same: objects of one class with the same properties, those   *)
(* met before on the way here taken to be.                                 *)

RECURSIVE Same(_, _, _, _, _)

Same(h, a, b, mode, met) ==
    IF TypeOf(h, a) # TypeOf(h, b) THEN FALSE
    ELSE IF TypeOf(h, a) = "primitive" THEN PrimitiveEq(a, b, mode)
    ELSE IF TypeOf(h, a) = "identity" THEN a = b
    ELSE \/ <<a, b>> \in met
         \/ /\ h[a].class = h[b].class \/ (mode = "loose" /\ {h[a].class, h[b].class} \cap Opaque = {})
            /\ Len(h[a].entries) = Len(h[b].entries) /\ Keys(h[a]) = Keys(h[b])
            /\ \A key \in Keys(h[a]) :
                   Same(h, Entry(h[a], key), Entry(h[b], key), mode, met \union {<<a, b>>})

RECURSIVE IsShallow(_, _, _)
IsShallow(h, v, n) ==
    v \notin DOMAIN h \/ (n > 0 /\ \A i \in DOMAIN h[v].entries : IsShallow(h, h[v].entries[i][2], n - 1))

-----------------------------------------------------------------------------
(* Properties *)

\* Equal values are the same and the same values, unless they are too deep, equal - but
\* Maps and Errors are equal whatever is in them, a Date is loosely equal to what has no
\* properties, and one called "constructor" is found on the other's prototype (object_eq).
EqualIsTheSame(h, a, b, mode) ==
    /\ DeepEqual(h, a, b, mode)
         => \/ Same(h, a, b, mode, {})
            \/ \E v \in DOMAIN h : \/ h[v].class \in {"Map", "Error"}
                                  \/ (mode = "loose" /\ h[v].class = "Date")
                                  \/ "constructor" \in Keys(h[v])
    /\ Same(h, a, b, mode, {}) /\ IsShallow(h, a, EqualDepth) => DeepEqual(h, a, b, mode)

\* Looking ends, cycles or not, unless promises are rejected with one another.
LookingEnds(h, v) ==
    \/ Ends(Inspect(h, v))
    \/ \E p \in DOMAIN h : h[p].class = "rejected" /\ Class(h, h[p].entries[1][2]) = "rejected"

\* Every cell of a table is under its own name, and no line is longer than another.
CellsAreInPlace(h, v, filter) ==
    LET table == BuildTable(h, v, filter)
    IN  \A r \in DOMAIN table.rows :
            LET e == h[v].entries[r]
                line == Line(table, table.rows[r])
            IN  /\ Len(line) = Len(Headers(table))
                /\ IsRow(h, e[2]) => \A i \in 2..Len(table.columns) + 1 :
                       LET key == Headers(table)[i]
                       IN  line[i] = IF key \in Keys(Own(h, e[2])) THEN <<Entry(h[e[2]], key)>> ELSE <<>>

\* Every argument is shown once, in its place, except what %c is for.
ArgumentsShownOnce(format, args) ==
    LET styles == {i \in DOMAIN args : \E j \in DOMAIN format : format[j] = "%c"
                     /\ i = Cardinality({k \in 1..j : format[k] \in {"%s", "%c"}})}
    IN  SelectSeq(Args(format, args), LAMBDA piece : piece \in Range(args))
          = SelectSeq(args, LAMBDA arg : \A i \in styles : args[i] # arg)
=============================================================================
