----------------------------- MODULE ValueWalks -----------------------------
(***************************************************************************)
(* A script's value as JSON: by ferrijs-serde (de.rs), by the walk that    *)
(* answers in its place (to_json.rs), and by the writer of texts           *)
(* (json/stringify.rs), against what JSON.stringify is to do.              *)
(*                                                                         *)
(* A heap h gives each object its class, its entries (key and value), and  *)
(* what its toJSON and its valueOf or toString return, Nothing where they  *)
(* are not callable.  Other values are named for their type.  A walk is    *)
(* given how many more calls the engine's stack holds.                     *)
(***************************************************************************)
EXTENDS Integers, Sequences, SequencesExt

CONSTANTS
    Nothing,
    StackDepth,      \* the engine's stack
    DetectionDepth   \* CIRCULAR_REF_DETECTION_DEPTH

Class(h, v) == IF v \in DOMAIN h THEN h[v].class ELSE v
ToJson(h, v) == IF v \in DOMAIN h THEN h[v].toJson ELSE Nothing
Unboxed(h, v) == IF v \in DOMAIN h THEN h[v].unboxed ELSE Nothing
Boxed(h, v) == Class(h, v) \in {"Number", "String"} /\ Unboxed(h, v) # Nothing

\* What a walk comes to, and the methods it called, each with the key it was given.
Done(json) == [ok |-> TRUE, json |-> json, calls |-> <<>>]
Failed == [ok |-> FALSE, json |-> <<>>, calls |-> <<>>]
After(calls, out) == [out EXCEPT !.calls = calls \o @]

\* One more entry of what is being walked.
With(out, key, item) ==
    IF item.ok THEN [out EXCEPT !.json = Append(@, <<key, item.json>>), !.calls = @ \o item.calls]
    ELSE After(out.calls, item)

As(kind, out) == IF out.ok THEN [out EXCEPT !.json = <<kind, @>>] ELSE out

\* Undefined and functions are not JSON; a boxed BigInt is an error (ensure_supported).
IsSupported(h, v) == Class(h, v) \notin {"undefined", "function"}

-----------------------------------------------------------------------------
(* ferrijs-serde *)

RECURSIVE SerdeAny(_, _, _, _)

\* What toJSON makes of an entry or an element, called with its key.
Replaced(h, v) == IF ToJson(h, v) = Nothing THEN v ELSE ToJson(h, v)
ReplacingCalls(h, v, key) == IF ToJson(h, v) = Nothing THEN <<>> ELSE <<<<v, key>>>>

\* The value a key was handed out with, if it has one (current_kv).
Pending(h, v) == IF Class(h, v) \in {"Number", "String"} THEN Unboxed(h, v) ELSE v

SerdeValue(h, v, stack, n) == IF v \in stack THEN Failed ELSE SerdeAny(h, v, stack, n)

SerdeMap(h, v, stack, n) ==
    LET Entry(out, e) ==
            LET value == Replaced(h, e[2])
                calls == ReplacingCalls(h, e[2], e[1])
                pending == Pending(h, value)
                unboxing == IF Boxed(h, value) THEN <<<<value, "">>>> ELSE <<>>
            IN  CASE ~out.ok -> out
                  [] Class(h, value) = "BigInt" -> With(out, e[1], After(calls, Failed))
                  [] ~IsSupported(h, value) -> [out EXCEPT !.calls = @ \o calls]
                  [] OTHER ->
                       With(out, e[1], After(calls \o unboxing,
                           IF pending = Nothing THEN Failed
                           ELSE SerdeValue(h, pending, stack \union {v}, n)))
    IN  As("object", FoldLeft(Entry, Done(<<>>), h[v].entries))

SerdeSeq(h, v, stack, n) ==
    LET Element(out, e) ==
            LET value == IF IsSupported(h, e[2]) \/ ToJson(h, e[2]) # Nothing THEN Replaced(h, e[2])
                         ELSE "undefined"
            IN  CASE ~out.ok -> out
                  [] Class(h, e[2]) = "BigInt" /\ ToJson(h, e[2]) = Nothing ->
                       With(out, "", Failed)
                  [] OTHER -> With(out, "", After(ReplacingCalls(h, e[2], e[1]),
                                       SerdeValue(h, value, stack \union {v}, n)))
    IN  As("array", FoldLeft(Element, Done(<<>>), h[v].entries))

\* The end of deserialize_any, for what is no number and not empty.
SerdeRest(h, v, stack, n) ==
    CASE v \in {"text", "bigint"} -> Done(<<"text">>)
      [] Class(h, v) = "array" -> SerdeSeq(h, v, stack, n)
      [] Class(h, v) = "BigInt" \/ v \notin DOMAIN h -> Failed
      [] ToJson(h, v) # Nothing -> After(<<<<v, "">>>>, SerdeAny(h, ToJson(h, v), stack, n - 1))
      [] OTHER -> SerdeMap(h, v, stack, n)

SerdeAny(h, v, stack, n) ==
    CASE n <= 0 -> Failed
      [] v = "number" -> Done(<<"number">>)
      [] Class(h, v) = "Number" /\ Boxed(h, v) ->
           After(<<<<v, "">>>>, IF Unboxed(h, v) = "number" THEN Done(<<"number">>) ELSE Failed)
      [] v = "undefined" -> Done(<<"null">>)
      [] Class(h, v) = "String" /\ Boxed(h, v) ->
           After(<<<<v, "">>>>, SerdeRest(h, Unboxed(h, v), stack, n - 1))
      [] OTHER -> SerdeRest(h, v, stack, n)

Serde(h, v) == SerdeAny(h, v, {}, StackDepth)

-----------------------------------------------------------------------------
(* The direct walk: frames hold what they walk, so the stack is a sequence. *)

RECURSIVE DirectAny(_, _, _, _)

\* map_entries
DirectMap(h, v, stack, n) ==
    LET Entry(out, e) ==
            LET value == Replaced(h, e[2])
                item == IF Boxed(h, value) THEN Unboxed(h, value) ELSE value
                calls == ReplacingCalls(h, e[2], e[1])
                           \o (IF Boxed(h, value) THEN <<<<value, "">>>> ELSE <<>>)
            IN  IF ~out.ok THEN out
                ELSE IF Class(h, value) = "BigInt" THEN After(out.calls \o calls, Failed)
                ELSE IF ~IsSupported(h, value) THEN [out EXCEPT !.calls = @ \o calls]
                ELSE IF Contains(stack, item) THEN After(out.calls \o calls, Failed)
                ELSE With(out, e[1], After(calls, DirectAny(h, item, stack, n)))
    IN  As("object", FoldLeft(Entry, Done(<<>>), h[v].entries))

\* seq_items
DirectSeq(h, v, stack, n) ==
    LET Element(out, e) ==
            LET calls == ReplacingCalls(h, e[2], e[1])
                item == IF calls # <<>> THEN ToJson(h, e[2])
                        ELSE IF IsSupported(h, e[2]) THEN e[2] ELSE "undefined"
            IN  IF ~out.ok THEN out
                ELSE IF calls = <<>> /\ Class(h, e[2]) = "BigInt" THEN After(out.calls, Failed)
                ELSE IF Contains(stack, item) THEN After(out.calls \o calls, Failed)
                ELSE With(out, "", After(calls, DirectAny(h, item, stack, n)))
    IN  As("array", FoldLeft(Element, Done(<<>>), h[v].entries))

DirectAny(h, v, stack, n) ==
    LET current == IF Class(h, v) = "String" /\ Boxed(h, v) THEN Unboxed(h, v) ELSE v
        left == IF current = v THEN n ELSE n - 1
        out ==
          CASE Class(h, v) = "Number" /\ Boxed(h, v) ->
                 IF Unboxed(h, v) = "number" THEN Done(<<"number">>) ELSE Failed
            [] v \in {"number", "undefined"} -> Done(<<IF v = "number" THEN v ELSE "null">>)
            [] current \in {"text", "bigint"} -> Done(<<"text">>)
            [] Class(h, current) = "array" -> DirectSeq(h, current, Append(stack, current), left)
            [] Class(h, current) = "BigInt" \/ current \notin DOMAIN h -> Failed
            [] ToJson(h, current) # Nothing ->
                 After(<<<<current, "">>>>, DirectAny(h, ToJson(h, current), stack, left - 1))
            [] OTHER -> DirectMap(h, current, Append(stack, current), left)
    IN  IF n <= 0 THEN Failed ELSE IF Boxed(h, v) THEN After(<<<<v, "">>>>, out) ELSE out

Direct(h, v) == DirectAny(h, v, <<>>, StackDepth)
-----------------------------------------------------------------------------
(* The writer of texts.  Methods are not asked for their keys, boxes are    *)
(* objects, and what is above is looked for only below a certain depth.    *)

\* What was written, and the objects it is in that are remembered.
Wrote(json, above) == [ok |-> TRUE, json |-> json, above |-> above]
Broke == [ok |-> FALSE, json |-> <<>>, above |-> <<>>]

\* Nothing at all, where a value should be.
Missing == <<"missing">>

\* Those up to the parent stay, and are not to hold it (detect_circular_reference).
UpTo(above, parent) ==
    SubSeq(above, 1, SelectLastInSeq(above, LAMBDA one : one = parent))

RECURSIVE Append_value(_, _, _, _, _, _, _)

\* iterate
Iterate(h, v, parent, depth, above, n) ==
    LET kind == IF Class(h, v) = "array" THEN "array" ELSE "object"
        kept == IF depth > DetectionDepth THEN UpTo(above, parent) ELSE above
        held == IF depth > DetectionDepth THEN Append(kept, v) ELSE above
        Entry(out, e) ==
            LET item == Append_value(h, e[2], IF kind = "array" THEN "index" ELSE "key", v, depth,
                                     out.above, n - 1)
            IN  IF ~out.ok \/ ~item.ok THEN Broke
                ELSE IF item.json = <<>> THEN [out EXCEPT !.above = item.above]
                ELSE Wrote(Append(out.json, <<IF kind = "array" THEN "" ELSE e[1], item.json>>),
                           item.above)
        all == FoldLeft(Entry, Wrote(<<>>, held), h[v].entries)
    IN  CASE n = 0 -> Broke
          [] Class(h, v) = "function" -> Wrote(Missing, above)
          [] kind = "object" /\ ToJson(h, v) # Nothing ->
               LET to == Append_value(h, ToJson(h, v), "none", v, depth, above, n - 1)
               IN  IF to.ok /\ to.json = <<>> THEN Wrote(Missing, to.above) ELSE to
          [] depth > DetectionDepth /\ Contains(kept, v) -> Broke
          [] OTHER -> IF all.ok THEN Wrote(<<kind, all.json>>, all.above) ELSE Broke

\* Empty when the value is ignored.
Append_value(h, v, place, parent, depth, above, n) ==
    CASE place # "index" /\ ~IsSupported(h, v) -> Wrote(<<>>, above)
      [] v = "bigint" -> Broke
      [] v \in {"number", "text"} -> Wrote(<<v>>, above)
      [] v = "undefined" -> Wrote(<<"null">>, above)
      [] OTHER -> Iterate(h, v, parent, depth + 1, above, n)

Stringify(h, v) == Append_value(h, v, "none", Nothing, 0, <<>>, StackDepth)

-----------------------------------------------------------------------------
(* What JSON.stringify is to do *)

RECURSIVE Property(_, _, _, _, _)

\* SerializeJSONProperty: absent when there is nothing to write.
Property(h, v, key, above, n) ==
    LET value == IF ToJson(h, v) = Nothing THEN v ELSE ToJson(h, v)
        plain == IF Boxed(h, value) THEN Unboxed(h, value) ELSE value
        Entry(out, e) ==
            LET item == Property(h, e[2], e[1], above \union {plain}, n - 1)
            IN  IF ~out.ok \/ ~item.ok THEN Failed
                ELSE IF Class(h, plain) = "array"
                     THEN With(out, "", IF item.json = <<>> THEN Done(<<"null">>) ELSE item)
                ELSE IF item.json = <<>> THEN out ELSE With(out, e[1], item)
    IN  CASE n = 0 \/ plain \in above \cup {"bigint"} \/ Class(h, plain) = "BigInt" -> Failed
          [] plain \in {"number", "text"} -> Done(<<plain>>)
          [] ~IsSupported(h, plain) -> Done(<<>>)
          [] OTHER -> As(IF Class(h, plain) = "array" THEN "array" ELSE "object",
                         FoldLeft(Entry, Done(<<>>), h[plain].entries))

Specified(h, v) == Property(h, v, "", {}, StackDepth)

-----------------------------------------------------------------------------
(* Properties *)

HasBareBox(h) == \E v \in DOMAIN h : h[v].class \in {"Number", "String"} /\ ~Boxed(h, v)

\* Boxes hold what they are for; toJSON answers no object that has one itself.
IsOrdinary(h) ==
    /\ \A v \in DOMAIN h : h[v].class = "Number" => h[v].unboxed = "number"
    /\ \A v \in DOMAIN h : h[v].class = "String" => h[v].unboxed = "text"
    /\ \A v \in DOMAIN h : ToJson(h, ToJson(h, v)) = Nothing

\* The walk that answers in its place finds what ferrijs-serde finds and calls what it
\* calls (to_json.rs) - except in a box without a method, where ferrijs-serde has no
\* value for the key and fails.
WalksAgree(h, v) == HasBareBox(h) \/ Direct(h, v) = Serde(h, v)

\* It is what JSON.stringify is to find, where it is JSON at all.  (What is in
\* nothing is asked for its toJSON only if it is a plain object.)
JsonIsAsSpecified(h, v) ==
    IsOrdinary(h) /\ (ToJson(h, v) = Nothing \/ Class(h, v) = "object")
      /\ Specified(h, v).ok /\ Specified(h, v).json # <<>>
      => Direct(h, v).ok /\ Direct(h, v).json = Specified(h, v).json

\* What the writer leaves out: a function in an array, behind its key what toJSON makes
\* undefined; and it asks neither boxes for their values nor arrays for their toJSON.
LeavesOut(h, v) ==
    \/ h[v].class \in {"Number", "String"}
    \/ h[v].toJson # Nothing /\ (h[v].class # "object" \/ ~IsSupported(h, h[v].toJson))
    \/ h[v].class = "array" /\ \E i \in DOMAIN h[v].entries : Class(h, h[v].entries[i][2]) = "function"

\* Else the writer fails where there is a cycle and nowhere besides, however late it looks
\* for one, and writes what is there.
TextsAreWhole(h, v) ==
    IsOrdinary(h) /\ (\A one \in DOMAIN h : h[one].class # "BigInt" /\ ~LeavesOut(h, one))
      => /\ Stringify(h, v).ok = Specified(h, v).ok
         /\ Stringify(h, v).ok => Stringify(h, v).json = Specified(h, v).json

ValuesComeOut(h, v) == WalksAgree(h, v) /\ JsonIsAsSpecified(h, v) /\ TextsAreWhole(h, v)
=============================================================================
