------------------------------ MODULE MCRealm -------------------------------
(***************************************************************************)
(* A realm that is used again: runs that overlap, what is made once and    *)
(* kept for the runs after, and the data a script puts into the library,   *)
(* each on a small instance.  `subject' is the one a behaviour is about.   *)
(***************************************************************************)
EXTENDS RunBracket, Sequences, TLC

CONSTANTS
    None,
    MarkNames       \* of the performance timeline

VARIABLES
    subject,
    s1, s2, s3, s4, s5, s6, s7, s8      \* the state of the other parts, in turn

slots == <<s1, s2, s3, s4, s5, s6, s7, s8>>
realmAndSlots == <<subject, vars, slots>>

-----------------------------------------------------------------------------
(* Names and files. *)

\* A group of two, and one whose install asks for the first.
MCNamesOf(group) == IF group = "streams" THEN <<"ReadableStream", "TransformStream">> ELSE <<"TextDecoderStream">>
MCNeededBy(group) == IF group = "encoding" THEN <<"streams">> ELSE <<>>

-----------------------------------------------------------------------------
(* A module of each kind; modules of extensions, one under a standard      *)
(* name; aliases of an alias, and of a name the policy may drop.           *)

Native(names, kind) == [names |-> names, kind |-> kind]
MCStd ==
    <<Native(<<<<"fs">>, <<"node:", "fs">>>>, "kept"),
      Native(<<<<"path">>, <<"node:", "path">>>>, "built"),
      Native(<<<<"zlib">>, <<"node:", "zlib">>>>, "default")>>
MCExtra == {Native(<<<<"acme">>, <<"acme", "kit">>>>, "kept"), Native(<<<<"fs">>>>, "default")}
MCAliases == {<<<<"my">>, <<"acme", "kit">>>>, <<<<"my">>, <<"node:", "path">>>>, <<<<"acme">>, <<"fs">>>>}
MCKeeps == {{<<"fs">>, <<"path">>, <<"zlib">>}, {<<"path">>}, {<<"fs">>, <<"zlib">>}}

\* A root with a link out of it, and a link outside that leads back in.
MCRoot == <<"/", "r">>
MCCwd == <<"/", "o">>
MCTree ==
    [p \in {<<"/">>, MCRoot, <<"/", "r", "sub">>, MCCwd, <<"/", "o", "hosted">>} |-> [kind |-> "dir"]]
      @@ [p \in {<<"/", "r", "a">>, <<"/", "r", "sub", "b">>, <<"/", "o", "c">>} |-> [kind |-> "file"]]
      @@ [p \in {<<"/", "r", "ln">>} |-> [kind |-> "link", to |-> <<"/", "o", "c">>]]
      @@ [p \in {<<"/", "o", "back">>} |-> [kind |-> "link", to |-> <<"/", "r", "sub">>]]
MCImports ==
    {<<".", "a">>, <<".", "sub", "b">>, <<"..", "a">>, <<"..", "o", "c">>, <<"..", "o", "back", "b">>,
     <<".", "ln">>, <<"..", "ln">>, <<"..", "..", "o", "c">>, <<"/", "o", "c">>, <<"/", "r", "a">>}

-----------------------------------------------------------------------------
(* What is kept: two threads of one process and another process with one   *)
(* bundle of two files; scripts, two of them with one hash; a console that *)
(* takes two entries and seven bytes.                                      *)

Bytecode == INSTANCE BytecodeCache WITH
    Inputs <- {"entry", "helper"}, Tasks <- 1..3,
    ProcessOf <- [t \in 1..3 |-> IF t = 3 THEN "q" ELSE "p"], MaxEdits <- 1,
    version <- s1, edits <- s2, names <- s3, contents <- s4, tasks <- s5

Scripts == INSTANCE ScriptCache WITH
    Sources <- 1..4, HashOf <- <<1, 2, 3, 3>>, Limit <- 2, MaxCalls <- 6,
    entries <- s1, clock <- s2, called <- s3, recent <- s4

Console == INSTANCE ConsoleCapture WITH
    Messages <- {<<1>>, <<1, 2>>, <<1, 1, 1, 1>>, <<1, 1, 2>>},
    MaxEntries <- 2, MaxTotalBytes <- 7, MaxEntryBytes <- 3, MaxPushes <- 4,
    entries <- s1, totalBytes <- s2, truncated <- s3, pushed <- s4, drained <- s5, panicked <- s6

Methods == INSTANCE ConsoleMethods WITH
    Labels <- {"a", "b"}, MaxCalls <- 3,
    indent <- s1, counts <- s2, timers <- s3, used <- s4, run <- s5

Globals == INSTANCE LazyGlobals WITH
    Groups <- {"streams", "encoding"}, NamesOf <- MCNamesOf, NeededBy <- MCNeededBy, MaxTouches <- 2,
    realm <- s1, did <- s2, touches <- s3

Natives == INSTANCE Modules WITH
    Std <- MCStd, Extra <- MCExtra, Aliases <- MCAliases, Keeps <- MCKeeps, Tree <- MCTree,
    Root <- MCRoot, Cwd <- MCCwd, Imports <- MCImports, MaxUses <- 2, MaxChanges <- 2,
    table <- s1, phase <- s2, realm <- s3, uses <- s4, files <- s5

\* Stores of two bytes; a script makes at most four calls of any kind.
MCPositions == {None, -1, 1}
Bytes == INSTANCE Buffers WITH
    Base <- 2, MaxLength <- 2, MaxStores <- 3, MaxViews <- 3, MaxBlobs <- 2,
    Positions <- MCPositions, MaxCalls <- 4,
    stores <- s1, views <- s2, blobs <- s3, calls <- s4

-----------------------------------------------------------------------------
(* Data: texts of four bytes that are characters of up to four, a byte     *)
(* order mark, surrogates; lists of three pairs.                           *)

MCBytesOf ==
    [utf8 |-> {65, 187, 191, 239, 241}, utf16le |-> {0, 216, 220}, base64 |-> {0}]

Text == INSTANCE TextChunks WITH
    BytesOf <- MCBytesOf, MaxBytes <- 4,
    encoding <- s1, fatal <- s2, decoder <- s3, input <- s4, text <- s5,
    ended <- s6, threw <- s7, astray <- s8

Lists == INSTANCE NameLists WITH
    Names <- {1, 2}, SetCookie <- 2, Values <- {1, 2}, MaxEntries <- 3,
    kind <- s1, list <- s2, iterator <- s3, each <- s4, given <- s5, deduplicated <- s6

\* Two names, one with an extension; in ".." the code takes the dot for one.
MCExtOf(segment) == CASE segment = "b.x" -> ".x" [] segment = ".." -> "." [] OTHER -> ""

MCExtensions == <<"js", "json">>
Paths == INSTANCE Paths WITH
    Names <- {"a", "b.x"}, ExtOf <- [s \in {"a", "b.x", "", ".", ".."} |-> MCExtOf(s)],
    Nothing <- None, Extensions <- MCExtensions, PathMax <- 8

Walks == INSTANCE ValueWalks WITH Nothing <- None, StackDepth <- 8, DetectionDepth <- 2
Looks == INSTANCE Inspecting WITH
    MaxDepth <- 2, MaxArrayLength <- 2, EqualDepth <- 3, StackDepth <- 8

\* Two objects, of each other and of what is none.
MCValues == {"undefined", "number", "bigint", "a", "b"}
MCLists(n) == UNION {[1..k -> MCValues] : k \in 0..n}
MCObjects(n) ==
    {[class |-> c, entries |-> [i \in DOMAIN l |-> <<"key", l[i]>>], toJson |-> t, unboxed |-> None] :
         c \in {"object", "array"}, l \in MCLists(n), t \in {None, "undefined", "a", "b"}}
      \union {[class |-> c, entries |-> <<>>, toJson |-> None, unboxed |-> u] :
                 c \in {"Number", "String"}, u \in {None, "number", "text", "a", "b"}}
      \union {[class |-> c, entries |-> <<>>, toJson |-> t, unboxed |-> None] :
                 c \in {"function", "BigInt"}, t \in {None, "number"}}

MCEntries ==
    {<<>>, <<<<"j", "1">>>>, <<<<"constructor", "1">>>>, <<<<"constructor", "object">>>>}
      \union {<<<<"k", v>>>> : v \in {"1", "'1'", "a", "b"}}
      \union {<<<<"k", v>>, <<"j", w>>>> : v \in {"1", "'1'", "a", "b"}, w \in {"1", "a", "b"}}
MCContainers ==
    [class : {"object"}, entries : MCEntries]
      \union [class : {"array"},
              entries : {[i \in DOMAIN l |-> <<<<"0", "1", "2">>[i], l[i]>>] :
                            l \in UNION {[1..k -> {"1", "a", "b"}] : k \in 0..3}}]
      \union [class : {"Map", "resolved", "rejected"}, entries : {<<<<"k", v>>>> : v \in {"1", "a", "b"}}]
      \union [class : {"Error", "Date"}, entries : {<<<<"k", v>>>> : v \in {"1", "2"}}]
      \union [class : {"pending", "function"}, entries : {<<>>}]

MCFormats == UNION {[1..k -> {"text", "%s", "%c", "%%"}] : k \in 0..3}

PathsUpTo(n) == UNION {[1..k -> Paths!Segments] : k \in 1..n}
MCWorkingDir == <<"", "a", "b.x">>

-----------------------------------------------------------------------------
(* A package at the root and one below a directory, with the manifests     *)
(* that could mislead, one that leads back to its own directory among them.*)

SegX == <<"x">>
XJs == <<"x", "js">>
IndexJs == <<"index", "js">>
SegD == <<"d">>
Pkg == <<<<"node_modules">>, <<"p">>>>
Dot == <<".">>

Dir(exports, module, main) == [kind |-> "dir", exports |-> exports, module |-> module, main |-> main]
NoExports == [c \in {} |-> Dot]
Manifests ==
    {Dir(e, mo, ma) :
        e \in {NoExports, [c \in {"require"} |-> <<SegD>>],
               [c \in {"import", "default"} |-> IF c = "import" THEN <<Dot>> ELSE <<SegX>>]},
        mo \in {None, <<Dot, SegD>>},
        ma \in {None, <<SegX>>, <<Dot>>, <<Dot, SegD>>, <<<<"..">>, SegX>>}}
FileSets ==
    {{}, {Pkg \o <<XJs>>, <<SegX>>}, {Pkg \o <<IndexJs>>, <<SegD, XJs>>, <<SegD, <<"index", "json">>>>},
     {<<SegD>> \o Pkg \o <<IndexJs>>, Pkg \o <<<<"x", "json">>>>, <<XJs>>, <<<<"x", "json">>>>}}
MCTrees ==
    {[p \in {<<>>, <<SegD>>, SubSeq(Pkg, 1, 1), Pkg, <<SegD>> \o SubSeq(Pkg, 1, 1), <<SegD>> \o Pkg} \union files |->
        CASE p \in files -> [kind |-> "file"] [] p = Pkg -> manifest [] OTHER -> Dir(NoExports, None, None)] :
            manifest \in Manifests, files \in FileSets}

Specifier(kind, path, subpath) == [kind |-> kind, path |-> path, subpath |-> subpath]
MCSpecifiers ==
    {Specifier("path", p, <<>>) : p \in {<<Dot>>, <<<<"..">>>>, <<Dot, SegX>>, <<Dot, XJs>>, <<<<"..">>, SegX>>, <<<<"..">>, SegD>>}}
      \union {Specifier("absolute", p, <<>>) : p \in {<<SegX>>, <<SegD, SegX>>, Pkg}}
      \union {Specifier("package", SubSeq(Pkg, 2, 2), p) : p \in {<<>>, <<SegX>>, <<SegD>>}}

-----------------------------------------------------------------------------
(* Names of files, a file handle, a timeline. *)

Handle == INSTANCE FileHandles WITH
    BufferSizes <- {1, 2}, Positions <- {None, 0, 1}, MaxSize <- 5, MaxCalls <- 3,
    file <- s1, handle <- s2, answer <- s3, calls <- s4, expected <- s5, astray <- s6

Performance == INSTANCE Timeline WITH
    Names <- MarkNames, Times <- {-1, 1}, MaxTime <- 1, MaxEntries <- 2,
    entries <- s1, now <- s2, thrown <- s3

\* Bytes of four values; numbers of one byte, two and four.
Calls == INSTANCE Buffers WITH
    Base <- 4, MaxLength <- 2, MaxStores <- 1, MaxViews <- 1, MaxBlobs <- 1, Positions <- {None}, MaxCalls <- 0,
    stores <- s1, views <- s2, blobs <- s3, calls <- s4

Seqs(S, n) == UNION {[1..k -> S] : k \in 0..n}
Ends(n) == [from : 0..n, to : 0..n]
MCNumbers == {-130, -129, -128, -9, -8, -3, -2, -1, 0, 1, 2, 3, 4, 7, 8, 15, 16, 27, 127, 128, 198, 255, 256}

-----------------------------------------------------------------------------
(* A part that a behaviour is not about stays in one state. *)

Unused7And8 == s7 = None /\ s8 = None

MCInit ==
    /\ Init
    /\ \/ subject = "runs" /\ s1 = None /\ s2 = None /\ s3 = None /\ s4 = None /\ s5 = None /\ s6 = None
            /\ Unused7And8
       \/ subject = "bytecode" /\ Bytecode!Init /\ s6 = None /\ Unused7And8
       \/ subject = "scripts" /\ Scripts!Init /\ s5 = None /\ s6 = None /\ Unused7And8
       \/ subject = "console" /\ Console!Init /\ Unused7And8
       \/ subject = "methods" /\ Methods!Init /\ s6 = None /\ Unused7And8
       \/ subject = "globals" /\ Globals!Init /\ s4 = None /\ s5 = None /\ s6 = None /\ Unused7And8
       \/ subject = "modules" /\ Natives!Init /\ s6 = None /\ Unused7And8
       \/ subject = "buffers" /\ Bytes!Init /\ s5 = None /\ s6 = None /\ Unused7And8
       \/ subject = "text" /\ Text!Init
       \/ subject = "lists" /\ Lists!Init
            /\ Unused7And8
       \/ subject = "paths" /\ s1 \in PathsUpTo(4) /\ s2 \in PathsUpTo(1)
            /\ s3 = None /\ s4 = None /\ s5 = None /\ s6 = None
            /\ Unused7And8
       \/ subject = "paths" /\ s1 \in PathsUpTo(2) /\ s2 \in PathsUpTo(3)
            /\ s3 = None /\ s4 = None /\ s5 = None /\ s6 = None
            /\ Unused7And8
       \/ subject = "values"
            /\ (\E a \in MCObjects(2), b \in MCObjects(1) : s1 = [v \in {"a", "b"} |-> IF v = "a" THEN a ELSE b])
            /\ s2 = None /\ s3 = None /\ s4 = None /\ s5 = None /\ s6 = None
            /\ Unused7And8
       \/ subject = "looks"
            /\ s1 \in {h \in [{"a", "b"} -> MCContainers] : Looks!IsHeap(h)}
            /\ s2 = None /\ s3 = None /\ s4 = None /\ s5 = None /\ s6 = None
            /\ Unused7And8
       \/ subject = "formats"
            /\ s1 \in MCFormats /\ s2 \in {<<>>, <<"x">>, <<"x", "y">>, <<"x", "y", "z">>}
            /\ s3 = None /\ s4 = None /\ s5 = None /\ s6 = None
            /\ Unused7And8
       \/ subject = "handle" /\ Handle!Init
            /\ Unused7And8
       \/ subject = "timeline" /\ Performance!Init
            /\ s4 = None /\ s5 = None /\ s6 = None /\ Unused7And8
       \/ subject = "requires"
            /\ s1 \in MCTrees /\ s2 \in {<<>>, <<SegD>>} /\ s3 \in MCSpecifiers
            /\ s4 = None /\ s5 = None /\ s6 = None /\ Unused7And8
       \/ subject = "numbers"
            /\ s1 \in {<<3>>, <<0, 2>>, <<1, 2, 3>>, <<3, 0, 2, 1>>, <<1, 3, 0, 2, 2>>}
            /\ s2 \in MCNumbers /\ s3 \in 0..5 /\ s4 = None
            /\ s5 = None /\ s6 = None /\ Unused7And8
       \/ subject = "searches"
            /\ s1 \in Seqs({0, 1}, 5) /\ s2 \in Seqs({0, 1}, 2) /\ s3 \in {None} \union -6..6 /\ s4 \in {1, 2}
            /\ s5 = None /\ s6 = None /\ Unused7And8
       \/ subject = "orders"
            /\ s1 \in Seqs({0, 1}, 2) /\ s2 \in Seqs({0, 1}, 2) /\ s3 \in Ends(3) /\ s4 \in Ends(3)
            /\ s5 = None /\ s6 = None /\ Unused7And8
       \/ subject = "fits"
            /\ s1 \in 0..4 /\ s2 \in Seqs(1..3, 3) /\ s3 \in {None} \union -5..5 /\ s4 \in {None} \union -5..5
            /\ s5 = None /\ s6 = None /\ Unused7And8
       \/ subject = "endings" /\ s1 \in Seqs({"CR", "LF", "x"}, 6)
            /\ s2 = None /\ s3 = None /\ s4 = None /\ s5 = None /\ s6 = None
            /\ Unused7And8

RunsStep == subject = "runs" /\ Next /\ UNCHANGED <<subject, slots>>
BytecodeStep ==
    subject = "bytecode" /\ Bytecode!Next /\ UNCHANGED <<subject, vars, s6, s7, s8>>
ScriptsStep ==
    subject = "scripts" /\ Scripts!Next /\ UNCHANGED <<subject, vars, s5, s6, s7, s8>>
ConsoleStep ==
    subject = "console" /\ Console!Next /\ UNCHANGED <<subject, vars, s7, s8>>
MethodsStep ==
    subject = "methods" /\ Methods!Next /\ UNCHANGED <<subject, vars, s6, s7, s8>>
GlobalsStep ==
    subject = "globals" /\ Globals!Next /\ UNCHANGED <<subject, vars, s4, s5, s6, s7, s8>>
ModulesStep ==
    subject = "modules" /\ Natives!Next /\ UNCHANGED <<subject, vars, s6, s7, s8>>
BuffersStep ==
    subject = "buffers" /\ Bytes!Next /\ UNCHANGED <<subject, vars, s5, s6, s7, s8>>

TextStep == subject = "text" /\ Text!Next /\ UNCHANGED <<subject, vars>>
ListsStep ==
    subject = "lists" /\ Lists!Next /\ UNCHANGED <<subject, vars, s7, s8>>
HandleStep ==
    subject = "handle" /\ Handle!Next /\ UNCHANGED <<subject, vars, s7, s8>>
TimelineStep ==
    subject = "timeline" /\ Performance!Next /\ UNCHANGED <<subject, vars, s4, s5, s6, s7, s8>>

MCNext ==
    \/ RunsStep \/ BytecodeStep \/ ScriptsStep \/ ConsoleStep \/ MethodsStep
    \/ GlobalsStep \/ ModulesStep \/ BuffersStep
    \/ TextStep \/ ListsStep \/ HandleStep \/ TimelineStep

MCSpec == MCInit /\ [][MCNext]_realmAndSlots

-----------------------------------------------------------------------------
(* Properties, each stated in its subject's module *)

\* What was compiled before is what would be compiled now; a console keeps what was
\* logged up to its limits and starts each run clean; a realm's modules and lazy
\* globals are what its tables and its script say, and a blob what it was made of
\* (cache.rs, script_cache.rs, console.rs, console_fmt.rs, modules/registry.rs, lazy.rs,
\* buffer/blob.rs).
KeptIsRight ==
    /\ subject = "bytecode" => Bytecode!CacheIsSound
    /\ subject = "scripts" => Scripts!RightScript /\ Scripts!LeastRecentGoes
    /\ subject = "console" => Console!PrefixThenNotice
    /\ subject = "methods" => Methods!RunsStartClean
    /\ subject = "globals" => Globals!GlobalsAreTheScripts
    /\ subject = "modules" => Natives!ModulesAreTheTables
    /\ subject = "buffers" => Bytes!BuffersAreSound

\* What a script puts into the library comes back out of it (text, string_decoder, url,
\* form_data.rs, headers.rs).
DataComesBack ==
    /\ subject = "text" => Text!TextSurvivesCuts
    /\ subject = "lists" => Lists!ListsKeepTheirNames
    /\ subject = "paths" => Paths!PathsLeadRight(MCWorkingDir, s1, s2)
    /\ subject = "values" => Walks!ValuesComeOut(s1, "a")
    /\ subject = "looks" =>
          /\ Looks!LookingEnds(s1, "a")
          /\ \A mode \in {"loose", "strict"} : Looks!EqualIsTheSame(s1, "a", "b", mode)
          /\ Looks!Class(s1, "a") \in {"array", "object"}
               => Looks!CellsAreInPlace(s1, "a", {"k", "0", "1", "constructor"})
    /\ subject = "formats" => Looks!ArgumentsShownOnce(s1, s2)
    /\ subject = "requires" => Paths!ResolvesToAFile(s1, s2, s3)
    /\ subject = "numbers" => Calls!NumbersComeBack(s1, s2, s3)
    /\ subject = "searches" =>
          \A forward \in BOOLEAN : Calls!FoundWhereItIs(s1, s2, s3, s4, forward)
    /\ subject = "orders" => Calls!OrderIsByBytes(s1, s3, s2, s4)
    /\ subject = "fits" => Calls!TextFits(s1, s2, s3, s4) /\ Calls!PartsAreMeant(s1, s3, s4)
    /\ subject = "endings" => Calls!EndingsAreNative(s1) /\ Calls!LengthsAreRight(Len(s1))
    /\ subject = "handle" => Handle!FileIsWhatWasWritten
    /\ subject = "timeline" => Performance!TimelineIsTrue
=============================================================================
