------------------------------ MODULE TextChunks ------------------------------
(***************************************************************************)
(* Bytes decoded a chunk at a time: TextDecoder with {stream: true}        *)
(* (text/text_decoder.rs) and node's StringDecoder                         *)
(* (string_decoder/decoder.rs).                                            *)
(*                                                                         *)
(* Bytes are numbers; a character is the sequence of the bytes that make   *)
(* it, and Bad the replacement character.                                  *)
(***************************************************************************)
EXTENDS Naturals, Sequences, SequencesExt, FiniteSetsExt

CONSTANTS
    BytesOf,        \* for each encoding, the bytes that come
    MaxBytes        \* of a text

Encodings == DOMAIN BytesOf

VARIABLES
    encoding,
    fatal,          \* a TextDecoder that throws
    decoder,        \* [held, missing, buffered, bom]
    input,          \* of the text so far
    text,           \* its characters so far
    ended,
    threw,
    astray          \* something happened that the code does not provide for

vars == <<encoding, fatal, decoder, input, text, ended, threw, astray>>

Bad == <<>>

-----------------------------------------------------------------------------
(* Whole texts (bytes_to_utf8_string, bytes_to_utf16_string) *)

IsTrail(b) == b \in 128..191

\* The characters a lead byte begins: its length, and what may follow it.
LengthOf(b) ==
    CASE b \in 194..223 -> 2 [] b \in 224..239 -> 3 [] b \in 240..244 -> 4 [] OTHER -> 0

Second(b) ==
    CASE b = 224 -> 160..191 [] b = 237 -> 128..159
      [] b = 240 -> 144..191 [] b = 244 -> 128..143 [] OTHER -> 128..191

\* As many bytes from i as begin a character.
WellBegun(bytes, i, n) ==
    /\ n <= LengthOf(bytes[i]) /\ i + n - 1 <= Len(bytes)
    /\ n >= 2 => bytes[i + 1] \in Second(bytes[i])
    /\ \A k \in 3..n : IsTrail(bytes[i + k - 1])

Utf8(bytes) ==
    LET from[i \in 1..(Len(bytes) + 1)] ==
          IF i > Len(bytes) THEN <<>>
          ELSE IF bytes[i] < 128 THEN <<<<bytes[i]>>>> \o from[i + 1]
          ELSE LET n == Max({1} \union {k \in 1..4 : WellBegun(bytes, i, k)})
               IN  <<IF n = LengthOf(bytes[i]) THEN SubSeq(bytes, i, i + n - 1) ELSE Bad>>
                     \o from[i + n]
    IN  from[1]

IsHigh(b) == b \in 216..219
IsLow(b) == b \in 220..223

\* The high byte of a unit is its second.
Utf16(bytes) ==
    LET from[i \in 1..(Len(bytes) + 1)] ==
          IF i > Len(bytes) THEN <<>>
          ELSE IF i = Len(bytes) THEN <<Bad>>
          ELSE IF IsHigh(bytes[i + 1]) /\ i + 3 <= Len(bytes) /\ IsLow(bytes[i + 3])
               THEN <<SubSeq(bytes, i, i + 3)>> \o (IF i + 4 > Len(bytes) THEN <<>> ELSE from[i + 4])
          ELSE <<IF IsHigh(bytes[i + 1]) \/ IsLow(bytes[i + 1]) THEN Bad
                 ELSE SubSeq(bytes, i, i + 1)>>
                 \o (IF i + 2 > Len(bytes) THEN <<>> ELSE from[i + 2])
    IN  from[1]

\* Groups of three bytes, and a padded one.
Base64(bytes) ==
    [g \in 1..((Len(bytes) + 2) \div 3) |->
        SubSeq(bytes, 3 * g - 2, Min({3 * g, Len(bytes)}))]

Decoded(bytes) ==
    CASE encoding.of = "utf8" -> Utf8(bytes)
      [] encoding.of = "utf16le" -> Utf16(bytes)
      [] encoding.of = "base64" -> Base64(bytes)

-----------------------------------------------------------------------------
NewDecoder == [held |-> <<>>, missing |-> 0, buffered |-> 0, bom |-> FALSE]

Init ==
    /\ encoding \in [api : {"TextDecoder", "StringDecoder"}, of : Encodings]
    /\ encoding.api = "TextDecoder" => encoding.of # "base64"
    /\ fatal \in BOOLEAN /\ (encoding.api = "StringDecoder" => fatal = FALSE)
    /\ decoder = NewDecoder /\ input = <<>> /\ text = <<>>
    /\ ended = FALSE /\ threw = FALSE /\ astray = FALSE

\* The text a call is part of: a new one, after one that ended.
Before == IF ended THEN <<>> ELSE input
Strayed == ~ended /\ astray
Text == IF ended THEN <<>> ELSE text

\* A decoder that is fatal throws instead.
Produces(chars) ==
    LET fails == fatal /\ Bad \in ToSet(chars)
    IN  /\ text' = Text \o (IF fails THEN <<>> ELSE chars)
        /\ threw' = ((~ended /\ threw) \/ fails)

-----------------------------------------------------------------------------
(* TextDecoder *)

Bom == IF encoding.of = "utf8" THEN <<239, 187, 191>> ELSE <<255, 254>>

\* utf8_incomplete_tail, and the odd byte or the high surrogate of UTF-16
Incomplete(data) ==
    LET len == Len(data)
        even == len - (len % 2)
    IN  IF encoding.of = "utf8"
        THEN Max({0} \union {k \in 1..Min({3, len}) :
                                k < LengthOf(data[len - k + 1]) /\ WellBegun(data, len - k + 1, k)})
        ELSE (len % 2) + (IF even >= 2 /\ IsHigh(data[even]) THEN 2 ELSE 0)

Decode(chunk, stream) ==
    LET data == decoder.held \o chunk
        looked == decoder.bom /\ stream
        strips == ~looked /\ IsPrefix(Bom, data)
        waits == stream /\ ~looked /\ data # <<>> /\ IsStrictPrefix(data, Bom)
        rest == IF strips THEN SubSeq(data, Len(Bom) + 1, Len(data)) ELSE data
        keep == IF ~stream THEN 0 ELSE IF waits THEN Len(data) ELSE Incomplete(rest)
    IN  /\ encoding.api = "TextDecoder"
        /\ decoder' = [decoder EXCEPT
                !.held = SubSeq(rest, Len(rest) - keep + 1, Len(rest)),
                !.bom = looked \/ (data # <<>> /\ ~waits)]
        /\ Produces(Decoded(SubSeq(rest, 1, Len(rest) - keep)))
        /\ input' = Before \o chunk /\ ended' = ~stream
        \* What was seen of a byte order mark belongs to another text, or is forgotten.
        /\ astray' = (Strayed \/ (IsPrefix(Bom, data) /\ strips # (Len(Before) = Len(decoder.held))))
        /\ UNCHANGED <<encoding, fatal>>

-----------------------------------------------------------------------------
(* StringDecoder *)

\* What a lead byte asks for here, by its upper bits.
Asks(b) ==
    CASE b \in 192..223 -> 2 [] b \in 224..239 -> 3 [] b \in 240..247 -> 4 [] OTHER -> 0

\* How many bytes at the end of a chunk wait for the next, and for how many.
Held(data) ==
    LET len == Len(data)
        leads == {k \in 1..Min({4, len}) : ~IsTrail(data[len - k + 1])}
        lead == Asks(data[len - Min(leads) + 1])
    IN  CASE encoding.of = "utf8" ->
               IF data[len] < 128 \/ leads = {} \/ Min(leads) >= lead THEN <<0, 0>>
               ELSE <<Min(leads), lead - Min(leads)>>
          [] encoding.of = "utf16le" ->
               IF len % 2 = 1
               THEN <<IF len >= 3 /\ IsHigh(data[len - 1]) THEN 3 ELSE 1, 1>>
               ELSE IF IsHigh(data[len]) THEN <<2, 2>> ELSE <<0, 0>>
          [] encoding.of = "base64" -> <<len % 3, (3 - (len % 3)) % 3>>

\* Variant: the bytes that finish a character are not taken off what is missing.
Finish_Uncounted(d, data) ==
    [found |-> Min({d.missing, Len(data)}), left |-> d.missing, strays |-> FALSE]

\* How much of a chunk goes to the character that waits, and what it lacks then.  In
\* UTF-16 a byte like that of a high surrogate asks for three, wherever it is.
Finish(d, data) ==
    LET near == 1..Min({d.missing, Len(data)})
        breaks == {i \in near : encoding.of = "utf8" /\ ~IsTrail(data[i])}
        more == encoding.of = "utf16le" /\ \E i \in near : IsHigh(data[i])
        wanted == IF more THEN 3 ELSE d.missing
    IN  IF breaks # {} THEN [found |-> Min(breaks) - 1, left |-> 0, strays |-> FALSE]
        ELSE [found |-> Min({wanted, Len(data)}), left |-> wanted - Min({wanted, Len(data)}),
              strays |-> more /\ d.buffered % 2 = 0]

\* decode_data: [chars, decoder, strays]
Written(d, data) ==
    LET f == IF d.missing = 0 THEN [found |-> 0, left |-> 0, strays |-> FALSE] ELSE Finish(d, data)
        buffer == d.held \o SubSeq(data, 1, f.found)
        whole == d.missing > 0 /\ f.left = 0
        after == [d EXCEPT !.held = IF whole THEN <<>> ELSE buffer, !.missing = f.left,
                           !.buffered = IF whole THEN 0 ELSE @ + f.found]
        rest == SubSeq(data, f.found + 1, Len(data))
        hold == Held(rest)
        first == IF whole THEN Decoded(buffer) ELSE <<>>
    IN  IF rest = <<>> THEN [chars |-> first, decoder |-> after, strays |-> f.strays]
        ELSE [chars |-> first \o Decoded(SubSeq(rest, 1, Len(rest) - hold[1])), strays |-> f.strays,
              decoder |-> [after EXCEPT
                  !.held = @ \o SubSeq(rest, Len(rest) - hold[1] + 1, Len(rest)),
                  !.missing = hold[2], !.buffered = hold[1]]]

Write(chunk) ==
    LET w == Written(decoder, chunk)
    IN  /\ encoding.api = "StringDecoder"
        /\ decoder' = w.decoder /\ Produces(w.chars) /\ input' = Before \o chunk /\ ended' = FALSE
        \* A buffer that outlived its text is taken for the beginning of this one.
        /\ astray' = (Strayed \/ w.strays \/ (ended /\ decoder.held # <<>>))
        /\ UNCHANGED <<encoding, fatal>>

\* end: of an odd byte only the count goes, and the buffer is decoded as it is.
End ==
    LET odd == encoding.of = "utf16le" /\ decoder.buffered % 2 = 1
        left == decoder.buffered - (IF odd THEN 1 ELSE 0)
    IN  /\ encoding.api = "StringDecoder" /\ ~ended
        /\ IF left = 0
           THEN /\ decoder' = [decoder EXCEPT !.buffered = 0,
                                              !.missing = IF odd THEN @ - 1 ELSE @]
                /\ UNCHANGED <<text, threw>>
           ELSE decoder' = NewDecoder /\ Produces(Decoded(decoder.held))
        /\ ended' = TRUE /\ UNCHANGED <<encoding, fatal, input, astray>>

-----------------------------------------------------------------------------
Chunks ==
    UNION {[1..n -> BytesOf[encoding.of]] : n \in 0..Min({3, MaxBytes - Len(Before)})}

\* A decoder that has gone astray is followed to the end of its text, and another text
\* comes after one shorter than the longest.
Followed == ended => ~astray /\ Len(input) < MaxBytes

Next ==
    \/ \E chunk \in Chunks, stream \in BOOLEAN : Followed /\ Decode(chunk, stream)
    \/ \E chunk \in Chunks : Followed /\ Write(chunk)
    \/ End

Spec == Init /\ [][Next]_vars

-----------------------------------------------------------------------------
(* Properties *)

\* A TextDecoder leaves the byte order mark out.
Meant ==
    IF encoding.api = "TextDecoder" /\ IsPrefix(Bom, input)
    THEN SubSeq(input, Len(Bom) + 1, Len(input)) ELSE input

\* Wherever a text is cut, its characters are those of the whole, and what is held back
\* makes up the rest (decode, decode_data).
CutsDoNotShow ==
    ~astray /\ ~threw /\ ~(ended /\ encoding.api = "StringDecoder" /\ encoding.of = "utf16le")
        => text \o Decoded(IF ended THEN <<>> ELSE decoder.held) = Decoded(Meant)

\* Of a text in UTF-16 that ended, an odd byte at most is not accounted for (flush).
EndsWhole ==
    ~astray /\ ended /\ encoding = [api |-> "StringDecoder", of |-> "utf16le"] =>
        text \in {Decoded(input), Decoded(SubSeq(input, 1, Len(input) - (Len(input) % 2)))}

\* A fatal decoder lets no malformed text through, and throws at none that is well
\* formed so far (encode_to_string with lossy = false).
FatalIsExact ==
    fatal /\ ~astray =>
        /\ Bad \notin ToSet(text)
        /\ ended => (threw <=> Bad \in ToSet(Decoded(Meant)))

\* No more than a character is ever held back, and its bytes are counted; only high
\* surrogates that follow one another pile up.
HoldsLittle ==
    ~astray => /\ Len(decoder.held) <= 3 \/ \A i \in 1..(Len(decoder.held) \div 2 - 1) : IsHigh(decoder.held[2 * i])
               /\ encoding.api = "StringDecoder" /\ ~ended => decoder.buffered = Len(decoder.held)
               /\ decoder.missing = 0 => decoder.buffered = 0

TextSurvivesCuts == CutsDoNotShow /\ EndsWhole /\ FatalIsExact /\ HoldsLittle
=============================================================================
