------------------------------- MODULE Buffers -------------------------------
(***************************************************************************)
(* Who shares whose bytes: array buffers, the views a script has on them,  *)
(* and the blobs and files made of them (buffer/class.rs, buffer/blob.rs,  *)
(* buffer/file.rs, node/buffer.rs, utils/array_buffer.rs).                 *)
(*                                                                         *)
(* An array buffer is a store.  One that a blob keeps is not handed out;   *)
(* one that is immutable takes no write of a script's and is not detached. *)
(*                                                                         *)
(* What the calls compute comes first: numbers laid out in bytes, texts    *)
(* cut to what fits, searches, orderings, relative positions, line         *)
(* endings.  Positions count from 0, as in the code.                       *)
(***************************************************************************)
EXTENDS Integers, Sequences, SequencesExt, FiniteSetsExt

CONSTANTS
    Base,           \* values of a byte: 256, fewer in an instance
    None,           \* an argument that is not given
    MaxLength,      \* of a store, in bytes
    MaxStores, MaxViews, MaxBlobs,
    Positions,      \* that calls are given, None and a negative one among them
    MaxCalls

At(bytes, i) == bytes[i + 1]
Part(bytes, from, to) == SubSeq(bytes, from + 1, to)    \* without what is at `to'
Atleast0(n) == Max({0, n})
Atmost(n, m) == Min({n, m})

-----------------------------------------------------------------------------
(* Numbers (NumberKind, write_buf, read_buf) *)

NumberKinds == [size : {1, 2, 4}, signed : BOOLEAN]

Highest(kind) == (IF kind.signed THEN Base ^ kind.size \div 2 ELSE Base ^ kind.size) - 1
Lowest(kind) == IF kind.signed THEN -Highest(kind) - 1 ELSE 0

\* shifted_bytes: the two's complement, the least significant byte first or last.
ShiftedBytes(value, size, endian) ==
    LET masked == value % (Base ^ size)
    IN  [i \in 1..size |->
           (masked \div Base ^ (IF endian = "big" THEN size - i ELSE i - 1)) % Base]

Put(bytes, offset, part) ==
    Part(bytes, 0, offset) \o part \o Part(bytes, offset + Len(part), Len(bytes))

\* What the bytes become; None where the call throws a RangeError.
WriteNumber(bytes, value, offset, endian, kind) ==
    IF value < Lowest(kind) \/ value > Highest(kind) \/ offset + kind.size > Len(bytes) THEN None
    ELSE [bytes |-> Put(bytes, offset, ShiftedBytes(value, kind.size, endian))]

ReadNumber(bytes, offset, endian, kind) ==
    LET digits == Part(bytes, offset, offset + kind.size)
        unsigned == FoldLeft(LAMBDA sum, d : sum * Base + d, 0,
                             IF endian = "big" THEN digits ELSE Reverse(digits))
    IN  IF offset + kind.size > Len(bytes) THEN None
        ELSE [value |-> IF unsigned > Highest(kind) THEN unsigned - Base ^ kind.size ELSE unsigned]

\* swap16, swap32, swap64
Swap(bytes, width) ==
    IF Len(bytes) % width # 0 THEN None
    ELSE [bytes |-> [i \in DOMAIN bytes |->
            bytes[((i - 1) \div width) * width + (width - ((i - 1) % width))]]]

-----------------------------------------------------------------------------
(* Texts: the sequence of the widths of their characters *)

Width(chars) == FoldLeft(LAMBDA sum, w : sum + w, 0, chars)

\* safe_byte_slice: up to the last character that begins no later than the end.
SafeByteSlice(chars, end) ==
    IF Width(chars) <= end THEN Width(chars)
    ELSE Max({0} \union {s \in {Width(SubSeq(chars, 1, i)) : i \in 0..(Len(chars) - 1)} : s <= end})

\* get_write_parameters: a negative offset is beyond every end, and a negative length
\* the longest there is.
WriteParameters(length, offset, count) ==
    IF offset # None /\ (offset < 0 \/ offset > length) THEN None
    ELSE LET from == IF offset = None THEN 0 ELSE offset
         IN  [offset |-> from,
              count |-> IF count = None \/ count < 0 THEN length - from ELSE Atmost(count, length - from)]

\* write: how many bytes of the text land in a buffer of the length, None for a RangeError.
WriteText(length, chars, offset, count) ==
    LET at == WriteParameters(length, offset, count)
    IN  IF at = None THEN None
        ELSE [at EXCEPT !.count = SafeByteSlice(chars, Atmost(at.count, Width(chars)))]

\* byteLength(text, encoding), of the text's units and the padding at its end.
ByteLength(encoding, units, padding) ==
    CASE encoding = "hex" -> units \div 2
      [] encoding = "base64" -> ((units - Atmost(padding, 2)) * 3) \div 4
      [] encoding = "utf16le" -> units * 2
      [] OTHER -> units

\* process_parts, { endings: "native" } on a system whose lines end in LF: two at a time
\* from each CR.
NativeEndings(text) ==
    LET from[i \in 1..(Len(text) + 1)] ==
          CASE i > Len(text) -> <<>>
            [] i <= Len(text) /\ (text[i] # "CR" \/ i = Len(text)) -> <<text[i]>> \o from[i + 1]
            [] OTHER -> (IF text[i + 1] = "LF" THEN <<"LF">> ELSE <<"CR", text[i + 1]>>) \o from[i + 2]
    IN  from[1]

-----------------------------------------------------------------------------
(* Positions *)

\* slice_blob, subarray: from the end where negative, and never past it.
Relative(length, n) == IF n < 0 THEN Atleast0(length + n) ELSE Atmost(n, length)
SliceOf(length, start, end) ==
    LET from == IF start = None THEN 0 ELSE Relative(length, start)
        to == IF end = None THEN length ELSE Relative(length, end)
    IN  [at |-> from, len |-> Atleast0(to - from)]

\* get_start_end_indexes: the part of a source a new buffer is of.
StartEndIndexes(length, offset, count) ==
    IF offset > length THEN [at |-> 0, len |-> 0]
    ELSE [at |-> offset,
          len |-> IF count = None THEN length - offset ELSE Atmost(count, length - offset)]

\* toString(encoding, start, end) slices what it was given in the wrong order, and panics.
TextRange(length, start, end) ==
    LET from == IF start = None THEN 0 ELSE Atmost(Atleast0(start), length)
        to == IF end = None THEN length ELSE Atmost(Atleast0(end), length)
    IN  IF from > to THEN None ELSE [at |-> from, len |-> to - from]

-----------------------------------------------------------------------------
(* Searches (bidirectional) *)

IndexOfOffset(length, offset, needle, forward) ==
    CASE offset < 0 /\ offset + length >= 0 -> length + offset
      [] offset < 0 /\ offset + length < 0 -> IF forward \/ needle = 0 THEN 0 ELSE -1
      [] offset >= 0 /\ offset + needle <= length -> offset
      [] OTHER -> IF needle = 0 THEN length ELSE IF forward THEN -1 ELSE length - 1

\* search: over units, from the unit the position is in.
Search(haystack, needle, unit, start, forward) ==
    LET units == Len(needle) \div unit
        last == Len(haystack) \div unit - units
        found == {at \in (IF forward THEN start..last ELSE 0..Atmost(start, last)) :
                    Part(haystack, at * unit, (at + units) * unit) = Part(needle, 0, units * unit)}
    IN  CASE found = {} -> -1
          [] found # {} /\ forward -> unit * Min(found)
          [] OTHER -> unit * Max(found)

\* indexOf and lastIndexOf; a UCS-2 search is over whole units of two bytes.
IndexOf(bytes, needle, offset, unit, forward) ==
    LET haystack == Part(bytes, 0, Len(bytes) - (Len(bytes) % unit))
        position == CASE offset # None -> offset [] forward -> 0 [] OTHER -> Len(bytes)
        start == IndexOfOffset(Len(haystack), position, Len(needle), forward)
    IN  CASE needle = <<>> -> start
          [] haystack = <<>> \/ start <= -1 -> -1
          [] (forward /\ Len(needle) + start > Len(haystack)) \/ Len(needle) > Len(haystack) -> -1
          [] Len(needle) < unit -> -1
          [] OTHER -> Search(haystack, needle, unit, start \div unit, forward)

\* ... of a number: its lowest byte.
IndexOfByte(bytes, number, offset, forward) ==
    LET position == CASE offset # None -> offset [] forward -> 0 [] OTHER -> Len(bytes)
        start == IndexOfOffset(Len(bytes), position, 1, forward)
        found == {i \in (IF forward THEN start..(Len(bytes) - 1) ELSE 0..Atmost(start, Len(bytes) - 1)) :
                    At(bytes, i) = number % Base}
    IN  IF start <= -1 \/ bytes = <<>> \/ found = {} THEN -1
        ELSE IF forward THEN Min(found) ELSE Max(found)

-----------------------------------------------------------------------------
(* compare *)

Ordering(a, b) ==
    LET differ == {i \in 1..Atmost(Len(a), Len(b)) : a[i] # b[i]}
    IN  CASE differ # {} -> IF a[Min(differ)] < b[Min(differ)] THEN -1 ELSE 1
          [] differ = {} /\ Len(a) # Len(b) -> IF Len(a) < Len(b) THEN -1 ELSE 1
          [] OTHER -> 0

\* Of parts, each [from, to]; None where the call throws a RangeError.
Compare(source, s, target, t) ==
    CASE s.to > Len(source) \/ t.to > Len(target) -> None
      [] s.to <= Len(source) /\ t.to <= Len(target) /\ s.from >= s.to ->
           [order |-> IF t.from >= t.to THEN 0 ELSE -1]
      [] s.to <= Len(source) /\ t.to <= Len(target) /\ s.from < s.to /\ t.from >= t.to -> [order |-> 1]
      [] OTHER -> [order |-> Ordering(Part(source, s.from, s.to), Part(target, t.from, t.to))]

-----------------------------------------------------------------------------
(* What a script may rely on *)

\* A number that was written is read back, in the other order once its bytes are swapped,
\* and no other byte changes; one out of range is refused.
NumbersComeBack(bytes, value, offset) ==
    \A kind \in NumberKinds, endian \in {"big", "little"} :
        LET other == IF endian = "big" THEN "little" ELSE "big"
            written == WriteNumber(bytes, value, offset, endian, kind)
            fits == value \in Lowest(kind)..Highest(kind) /\ offset + kind.size <= Len(bytes)
        IN  /\ (written # None) <=> fits
            /\ fits =>
                 /\ Len(written.bytes) = Len(bytes)
                 /\ ReadNumber(written.bytes, offset, endian, kind) = [value |-> value]
                 /\ \A i \in 0..(Len(bytes) - 1) :
                       i \notin offset..(offset + kind.size - 1) => At(written.bytes, i) = At(bytes, i)
                 /\ offset = 0 /\ Len(bytes) = kind.size
                      => ReadNumber(Swap(written.bytes, kind.size).bytes, 0, other, kind) = [value |-> value]

\* Where JavaScript would find it: the first place at or after the position, or the last
\* at or before it, counted from the end where negative.  From within a unit the code may
\* find the unit itself, or miss it at the end.
FoundWhereItIs(bytes, needle, offset, unit, forward) ==
    LET whole == Len(bytes) - (Len(bytes) % unit)
        from == CASE offset = None -> IF forward THEN 0 ELSE whole
                  [] offset # None /\ offset < 0 -> whole + offset
                  [] OTHER -> offset
        places == {i \in 0..(whole - Len(needle)) :
                     /\ i % unit = 0
                     /\ Part(bytes, i, i + Len(needle)) = needle
                     /\ IF forward THEN i >= from ELSE i <= from}
        found == IndexOf(bytes, needle, offset, unit, forward)
    IN  /\ needle # <<>> /\ Len(needle) % unit = 0 /\ from % unit = 0 =>
             found = (IF places = {} THEN -1 ELSE IF forward THEN Min(places) ELSE Max(places))
        /\ Len(needle) = 1 /\ unit = 1 =>
             \A n \in {needle[1], needle[1] + Base} : IndexOfByte(bytes, n, offset, forward) = found
        /\ needle = <<>> => found \in 0..whole

\* An order: the other way round it is the opposite, and equal is equal.
OrderIsByBytes(a, s, b, t) ==
    LET order == Compare(a, s, b, t)
        opposite == Compare(b, t, a, s)
    IN  /\ (order = None) <=> (opposite = None)
        /\ order # None =>
             /\ order.order = -opposite.order
             /\ (order.order = 0) <=> (Part(a, s.from, s.to) = Part(b, t.from, t.to))

\* As many whole characters as fit, and no byte past the end.
TextFits(length, chars, offset, count) ==
    LET wrote == WriteText(length, chars, offset, count)
        room == Atmost(length - wrote.offset, IF count = None \/ count < 0 THEN length ELSE count)
    IN  wrote # None =>
          wrote.count = Max({w \in {Width(SubSeq(chars, 1, i)) : i \in 0..Len(chars)} : w <= room})

\* A part is what is at or after its start and before its end.
PartsAreMeant(length, start, end) ==
    LET slice == SliceOf(length, start, end)
        place(n) == IF n < 0 THEN length + n ELSE n
        meant == {i \in 0..(length - 1) :
                    (start = None \/ i >= place(start)) /\ (end = None \/ i < place(end))}
        positions(part) == part.at..(part.at + part.len - 1)
    IN  /\ positions(slice) = meant
        /\ slice.at + slice.len <= length
        /\ start # None /\ start >= 0 /\ (end = None \/ end >= 0) =>
             LET part == StartEndIndexes(length, start, end)
             IN  /\ part.at + part.len <= length
                 /\ positions(part) = {i \in 0..(length - 1) : i >= start /\ (end = None \/ i < start + end)}
        /\ start # None /\ end # None /\ 0 <= start /\ start <= end =>
             TextRange(length, start, end) # None /\ positions(TextRange(length, start, end)) = meant

\* Only an LF is ever lost, of a line that ended in CR LF; none is left of those where a
\* CR does not follow another.
EndingsAreNative(text) ==
    LET native == NativeEndings(text)
        count(t, char) == Cardinality({i \in DOMAIN t : t[i] = char})
        ended(t) == {i \in 1..(Len(t) - 1) : t[i] = "CR" /\ t[i + 1] = "LF"}
    IN  /\ \A char \in {"LF", "x"} : count(native, char) = count(text, char)
        /\ (\A i \in 1..(Len(text) - 1) : ~(text[i] = "CR" /\ text[i + 1] = "CR")) =>
             /\ ended(native) = {}
             /\ count(native, "CR") = count(text, "CR") - Cardinality(ended(text))

\* Bytes that were encoded are counted as they were.
LengthsAreRight(n) ==
    LET thirds == (n + 2) \div 3
    IN  /\ ByteLength("hex", 2 * n, 0) = n
        /\ ByteLength("base64", 4 * thirds, 3 * thirds - n) = n
        /\ ByteLength("base64", 4 * thirds - (3 * thirds - n), 0) = n
        /\ n % 2 = 0 => ByteLength("utf16le", n \div 2, 0) = n

-----------------------------------------------------------------------------
(* Stores, views and blobs *)

VARIABLES
    stores,         \* [bytes, gone, immutable]
    views,          \* [of, at, len, buffer, meant]: of a Buffer or a plain Uint8Array
    blobs,          \* [of, at, len, was]
    calls

vars == <<stores, views, blobs, calls>>

\* `meant' and `was' are for the properties: the places of its store a view is of, and
\* what a blob was made of.

Values == 0..(Base - 1)
Strings(n) == UNION {[1..k -> Values] : k \in 0..n}

Store(bytes) == [bytes |-> bytes, gone |-> FALSE, immutable |-> FALSE]
Whole(store, length, buffer) ==
    [of |-> store, at |-> 0, len |-> length, buffer |-> buffer, meant |-> [i \in 1..length |-> i - 1]]

Holds(x) == Part(stores[x.of].bytes, x.at, x.at + x.len)
Gone(view) == stores[view.of].gone

\* What lies at or after the start and before the end, each counted from the end where
\* it is negative.
Chosen(list, start, end) ==
    LET place(n) == IF n < 0 THEN Len(list) + n ELSE n
        meant == {i \in 1..Len(list) :
                    (start = None \/ i > place(start)) /\ (end = None \/ i <= place(end))}
    IN  [k \in 1..Cardinality(meant) |-> list[Min(meant) + k - 1]]

-----------------------------------------------------------------------------
Init ==
    \E bytes \in Strings(MaxLength) :
        /\ Len(bytes) = MaxLength
        /\ stores = <<Store(bytes)>>
        /\ views = <<Whole(1, MaxLength, FALSE)>>
        /\ blobs = <<>>
        /\ calls = 0

Call == calls < MaxCalls /\ calls' = calls + 1

\* A new store with a view of all of it.
HandOut(store, buffer) ==
    /\ Len(stores) < MaxStores /\ Len(views) < MaxViews /\ Len(store.bytes) <= MaxLength
    /\ stores' = Append(stores, store)
    /\ views' = Append(views, Whole(Len(stores) + 1, Len(store.bytes), buffer))
    /\ UNCHANGED blobs

\* A further view on a store there is, of a part of another view.
Share(view, part, meant) ==
    /\ Len(views) < MaxViews
    /\ views' = Append(views, [of |-> view.of, at |-> view.at + part.at, len |-> part.len,
                               buffer |-> TRUE, meant |-> meant])
    /\ UNCHANGED <<stores, blobs>>

\* The bytes a native call writes, behind the engine's back: an immutable store takes them.
Overwrite(view, bytes) ==
    /\ stores' = [stores EXCEPT ![view.of].bytes = Put(@, view.at, bytes)]
    /\ UNCHANGED <<views, blobs>>

-----------------------------------------------------------------------------
(* Making buffers *)

Repeated(pattern, n) == [i \in 1..n |-> pattern[((i - 1) % Len(pattern)) + 1]]

\* alloc(length, fill); an empty fill panics (alloc_byte_ref).
Alloc ==
    \E n \in 0..MaxLength, fill \in Strings(2) \ {<<>>} : Call /\ HandOut(Store(Repeated(fill, n)), TRUE)

\* allocUnsafe: whatever the memory held.
AllocUnsafe ==
    \E n \in 0..MaxLength, bytes \in Strings(MaxLength) :
        Len(bytes) = n /\ Call /\ HandOut(Store(bytes), TRUE)

\* from(view, offset, length): a Buffer is copied, whole; anything else is shared.
From ==
    \E v \in DOMAIN views, offset, count \in {n \in Positions : n = None \/ n >= 0} :
        /\ Call /\ ~Gone(views[v])
        /\ IF views[v].buffer THEN HandOut(Store(Holds(views[v])), TRUE)
           ELSE LET from == IF offset = None THEN 0 ELSE offset
                IN  Share(views[v], StartEndIndexes(views[v].len, from, count),
                          Chosen(views[v].meant, from, IF count = None THEN None ELSE from + count))

\* concat(list, totalLength)
Concat ==
    \E v, w \in DOMAIN views, most \in {n \in Positions : n = None \/ n >= 0} :
        LET all == (IF Gone(views[v]) THEN <<>> ELSE Holds(views[v]))
                     \o (IF Gone(views[w]) THEN <<>> ELSE Holds(views[w]))
        IN  Call /\ HandOut(Store(IF most = None THEN all ELSE SubSeq(all, 1, Atmost(most, Len(all)))), TRUE)

Subarray ==
    \E v \in DOMAIN views, start, end \in Positions :
        /\ Call /\ ~Gone(views[v])
        /\ Share(views[v], SliceOf(views[v].len, start, end), Chosen(views[v].meant, start, end))

-----------------------------------------------------------------------------
(* Changing them *)

\* writeInt8 and the like.
WriteInt ==
    \E v \in DOMAIN views, offset \in 0..MaxLength, value \in Values, kind \in {k \in NumberKinds : k.size = 1} :
        LET written == WriteNumber(Holds(views[v]), value, offset, "little", kind)
        IN  Call /\ ~Gone(views[v]) /\ written # None /\ Overwrite(views[v], written.bytes)

\* write(text, offset, length), of characters of a byte.
Write ==
    \E v \in DOMAIN views, text \in Strings(2), offset, count \in Positions :
        LET at == WriteText(views[v].len, [i \in DOMAIN text |-> 1], offset, count)
        IN  /\ Call /\ ~Gone(views[v]) /\ at # None
            /\ Overwrite(views[v], Put(Holds(views[v]), at.offset, SubSeq(text, 1, at.count)))

\* fill(value, offset, end)
Fill ==
    \E v \in DOMAIN views, pattern \in Strings(2) \ {<<>>}, start, stop \in 0..MaxLength :
        /\ Call /\ ~Gone(views[v])
        /\ start < stop /\ stop <= views[v].len
        /\ Overwrite(views[v], Put(Holds(views[v]), start, Repeated(pattern, stop - start)))

SwapBytes ==
    \E v \in DOMAIN views :
        LET swapped == Swap(Holds(views[v]), 2)
        IN  Call /\ ~Gone(views[v]) /\ swapped # None /\ Overwrite(views[v], swapped.bytes)

\* copy(target, targetStart, sourceStart, sourceEnd): as if the two ranges had nothing in
\* common; where they have, the bytes may be moved one by one in either order.
Moved(bytes, to, from, n, order) ==
    FoldLeft(LAMBDA b, k : [b EXCEPT ![to + k] = b[from + k]], bytes,
             [k \in 1..n |-> IF order = "forward" THEN k ELSE n + 1 - k])

Copy ==
    \E v, w \in DOMAIN views, targetStart, sourceStart, sourceEnd \in 0..MaxLength :
        LET source == views[v]
            target == views[w]
            end == Atmost(sourceEnd, source.len)
            n == Atmost(end - sourceStart, target.len - targetStart)
        IN  /\ Call /\ ~Gone(source) /\ ~Gone(target)
            /\ sourceStart < end /\ targetStart < target.len
            /\ IF source.of # target.of
               THEN Overwrite(target, Put(Holds(target), targetStart,
                                          Part(Holds(source), sourceStart, sourceStart + n)))
               ELSE \E order \in {"forward", "backward"} :
                       /\ stores' = [stores EXCEPT ![source.of].bytes =
                                       Moved(@, target.at + targetStart, source.at + sourceStart, n, order)]
                       /\ UNCHANGED <<views, blobs>>

-----------------------------------------------------------------------------
(* The engine's own: a script sets a byte, which an immutable store ignores; transfers a  *)
(* store, which one refuses. *)

SetByte ==
    \E v \in DOMAIN views, i \in 0..(MaxLength - 1), value \in Values :
        /\ Call /\ ~Gone(views[v]) /\ ~stores[views[v].of].immutable
        /\ i < views[v].len
        /\ Overwrite(views[v], Put(Holds(views[v]), i, <<value>>))

Transfer ==
    \E v \in DOMAIN views :
        LET of == views[v].of
        IN  /\ Call /\ ~Gone(views[v]) /\ ~stores[of].immutable
            /\ Len(stores) < MaxStores /\ Len(views) < MaxViews
            /\ stores' = Append([stores EXCEPT ![of] = [Store(<<>>) EXCEPT !.gone = TRUE]], stores[of])
            /\ views' = Append(views, Whole(Len(stores) + 1, Len(stores[of].bytes), FALSE))
            /\ UNCHANGED blobs

-----------------------------------------------------------------------------
(* Blobs and files *)

Sources == {<<"view", v>> : v \in DOMAIN views} \union {<<"blob", b>> : b \in DOMAIN blobs}
BytesOf(source) == Holds(IF source[1] = "view" THEN views[source[2]] ELSE blobs[source[2]])

\* new Blob(parts), new File(parts, name): copied; a part whose store is gone throws.
NewBlob ==
    \E parts \in UNION {[1..n -> Sources] : n \in 0..2} :
        LET bytes == FlattenSeq([i \in DOMAIN parts |-> BytesOf(parts[i])])
        IN  /\ \A i \in DOMAIN parts : parts[i][1] = "view" => ~Gone(views[parts[i][2]])
            /\ Call /\ Len(blobs) < MaxBlobs /\ Len(stores) < MaxStores /\ Len(bytes) <= MaxLength
            /\ stores' = Append(stores, Store(bytes))
            /\ blobs' = Append(blobs, [of |-> Len(stores) + 1, at |-> 0, len |-> Len(bytes), was |-> bytes])
            /\ UNCHANGED views

\* A blob on the store of another, which lives as long as it does.
SharedView(blob, part, was) ==
    [of |-> blob.of, at |-> blob.at + part.at, len |-> part.len, was |-> was]

Slice ==
    \E b \in DOMAIN blobs, start, end \in Positions :
        /\ Call /\ Len(blobs) < MaxBlobs
        /\ blobs' = Append(blobs, SharedView(blobs[b], SliceOf(blobs[b].len, start, end),
                                             Chosen(blobs[b].was, start, end)))
        /\ UNCHANGED <<stores, views>>

\* arrayBuffer(), bytes(): a copy.
ReadBlob == \E b \in DOMAIN blobs : Call /\ HandOut(Store(Holds(blobs[b])), FALSE)

Immutable(store) == [store EXCEPT !.immutable = TRUE]

\* stream(): the one chunk is an immutable view of a copy; an empty blob has none.
StreamBlob ==
    \E b \in DOMAIN blobs :
        /\ Call /\ blobs[b].len # 0
        /\ HandOut(Immutable(Store(Holds(blobs[b]))), FALSE)

Next ==
    \/ Alloc \/ AllocUnsafe \/ From \/ Concat \/ Subarray
    \/ WriteInt \/ Write \/ Fill \/ SwapBytes \/ Copy
    \/ SetByte \/ Transfer
    \/ NewBlob \/ Slice \/ ReadBlob \/ StreamBlob

-----------------------------------------------------------------------------
\* What a blob was made of is what is read from it, whatever a script does to the buffers
\* it made it of or got from it (Blob).
BlobsKeep == \A b \in DOMAIN blobs : Holds(blobs[b]) = blobs[b].was

\* A view of a view is of the places it was asked for, and of no other, for as long as
\* there are any (subarray, from).
ViewsAreOfTheirPlaces ==
    \A v \in DOMAIN views :
        LET view == views[v]
        IN  /\ [i \in 1..view.len |-> view.at + i - 1] = view.meant
            /\ ~Gone(view) => view.at + view.len <= Len(stores[view.of].bytes)

BuffersAreSound == BlobsKeep /\ ViewsAreOfTheirPlaces
=============================================================================
