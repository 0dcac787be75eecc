-------------------------------- MODULE Paths --------------------------------
(***************************************************************************)
(* node:path (node/path.rs), and how the file system module resolves a     *)
(* path (pathutil.rs), against what a path means: the place one comes to   *)
(* by walking it.                                                          *)
(*                                                                         *)
(* A path is the sequence of what its slashes separate: "/a" is <<"", "a">>*)
(* and "" is <<"">>.  Symbolic links are not followed, as in the code.     *)
(*                                                                         *)
(* Below them node's require.resolve (node/require_resolve.rs): the file a *)
(* specifier names, from the directory it was written in.                  *)
(***************************************************************************)
EXTENDS Naturals, Sequences, SequencesExt, FiniteSetsExt

CONSTANTS
    Names,      \* of files, neither "", "." nor ".."
    ExtOf,      \* what follows the last dot of a name, with it; "" for none
    Nothing,
    Extensions, \* require.resolve tries them in this order
    PathMax     \* the longest path the system takes, in segments

Segments == Names \union {"", ".", ".."}

Empty == <<"">>
Root == <<"", "">>
IsAbsolute(path) == Head(path) = "" /\ Len(path) > 1
EndsWithSlash(path) == Last(path) = "" /\ Len(path) > 1

-----------------------------------------------------------------------------
(* What a path means *)

Go(place, segment) ==
    CASE segment \in {"", "."} -> place
      [] segment = ".." -> IF place = <<>> THEN <<>> ELSE Front(place)
      [] OTHER -> Append(place, segment)

\* The place it leads to from another.
Walk(place, path) == FoldLeft(Go, IF IsAbsolute(path) THEN <<>> ELSE place, path)

-----------------------------------------------------------------------------
(* node:path *)

\* One segment more of a normal path; a relative one keeps the ".." it cannot resolve.
Keep(absolute, stack, segment) ==
    CASE segment \in {"", "."} -> stack
      [] segment = ".." /\ stack # <<>> /\ Last(stack) # ".." -> Front(stack)
      [] segment = ".." -> IF absolute THEN stack ELSE Append(stack, "..")
      [] OTHER -> Append(stack, segment)

NormalizeInto(parts, absolute, trailing) ==
    LET kept == FoldLeft(LAMBDA stack, segment : Keep(absolute, stack, segment), <<>>, parts)
    IN  IF kept = <<>> THEN IF absolute THEN Root ELSE <<".">>
        ELSE (IF absolute THEN <<"">> ELSE <<>>) \o kept \o (IF trailing THEN <<"">> ELSE <<>>)

Normalize(path) == NormalizeInto(path, IsAbsolute(path), path # Root /\ EndsWithSlash(path))

Given(paths) == SelectSeq(paths, LAMBDA path : path # Empty)

Join(paths) ==
    LET given == Given(paths)
    IN  IF given = <<>> THEN <<".">>
        ELSE NormalizeInto(FlattenSeq(given), IsAbsolute(Head(given)),
                           Last(given) # Root /\ EndsWithSlash(Last(given)))

\* From the last that is absolute; before the first comes the working directory.
Resolve(cwd, paths) ==
    LET all == <<cwd>> \o Given(paths)
        from == Max({1} \union {i \in DOMAIN all : IsAbsolute(all[i])})
    IN  NormalizeInto(FlattenSeq(SubSeq(all, from, Len(all))), IsAbsolute(all[from]), FALSE)

NamesIn(path) == SelectSeq(Normalize(path), LAMBDA segment : segment # "")

Relative(cwd, from, to) ==
    LET f == NamesIn(Resolve(cwd, <<from>>))
        t == NamesIn(Resolve(cwd, <<to>>))
        common == Len(LongestCommonPrefix({f, t}))
        out == [i \in 1..(Len(f) - common) |-> ".."] \o SubSeq(t, common + 1, Len(t))
    IN  IF out = <<>> THEN Empty ELSE out

\* Without the slashes at its end.
Trimmed(path) ==
    LET kept == {i \in DOMAIN path : \E j \in i..Len(path) : path[j] # ""}
    IN  IF kept = {} THEN Empty ELSE SubSeq(path, 1, CHOOSE n \in kept : n + 1 \notin kept)

\* What is before the last slash of a path that has one.
Parent(path) ==
    LET t == Trimmed(path)
    IN  IF Len(t) = 1 THEN Empty ELSE IF Len(t) = 2 /\ t[1] = "" THEN Root ELSE Front(t)

Dirname(path) ==
    IF Parent(path) # Empty THEN Parent(path) ELSE IF IsAbsolute(path) THEN Root ELSE <<".">>

Basename(path) == Last(Trimmed(path))

Parse(path) ==
    [root |-> IsAbsolute(path), dir |-> Parent(path), base |-> Basename(path),
     ext |-> ExtOf[Basename(path)]]

\* The directory goes before the root.
Format(parsed) ==
    IF parsed.dir = Empty THEN IF parsed.root THEN <<"", parsed.base>> ELSE <<parsed.base>>
    ELSE IF parsed.dir = Root THEN <<"", parsed.base>>
    ELSE parsed.dir \o <<parsed.base>>

-----------------------------------------------------------------------------
(* pathutil.rs: the result is cut back to where the last name was put, or,  *)
(* with none, to its last slash - which takes the root of "/a" with it.    *)

Resolving(state, segment) ==
    CASE segment \in {"", "."} -> state
      [] segment = ".." ->
           IF state.names # <<>> THEN [state EXCEPT !.names = Front(@)]
           ELSE IF state.anchored \/ state.result = Empty THEN state
           ELSE [state EXCEPT !.result = IF Len(@) <= 2 THEN Empty ELSE Front(@)]
      [] OTHER -> [state EXCEPT !.names = Append(@, segment)]

ResolvePart(state, path) ==
    FoldLeft(Resolving,
             IF IsAbsolute(path) THEN [names |-> <<>>, anchored |-> TRUE, result |-> Root] ELSE state,
             path)

ResolvePath(cwd, paths) ==
    LET end == FoldLeft(ResolvePart, [names |-> <<>>, anchored |-> FALSE, result |-> cwd], paths)
        names == IF end.names = <<>> THEN Empty ELSE end.names
    IN  IF end.result = Empty THEN names
        ELSE IF end.result = Root THEN IF end.names = <<>> THEN Root ELSE <<"">> \o end.names
        ELSE end.result \o end.names

-----------------------------------------------------------------------------
(* require.resolve.  A path is the sequence of its segments, from the root  *)
(* or the directory; a segment is a stem and the extensions after it,       *)
(* <<"x", "js">>.  A tree maps the paths there are to a file or a directory *)
(* with its manifest: what is under `exports', `module' and `main' is a     *)
(* path or Nothing, for `exports' by condition.                             *)

Here == <<".">>
Up == <<"..">>
IndexFile == <<"index">>

\* The system's own walk: a directory for every segment, the name of what is there.
Real(path) ==
    FoldLeft(LAMBDA acc, s : CASE s = Here -> acc
                               [] s = Up -> IF acc = <<>> THEN acc ELSE Front(acc)
                               [] OTHER -> Append(acc, s),
             <<>>, path)
Walks(tree, path) ==
    /\ Len(path) <= PathMax
    /\ \A i \in 1..(Len(path) - 1) :
           Real(SubSeq(path, 1, i)) \in DOMAIN tree /\ tree[Real(SubSeq(path, 1, i))].kind = "dir"

Exists(tree, path) == Walks(tree, path) /\ Real(path) \in DOMAIN tree
IsFile(tree, path) == Exists(tree, path) /\ tree[Real(path)].kind = "file"
IsDir(tree, path) == Exists(tree, path) /\ tree[Real(path)].kind = "dir"

WithExtension(path, ext) == Append(Front(path), Append(Last(path), ext))

\* The first of two that there is.
Or(first, second) == IF first # Nothing THEN first ELSE second

\* as_file: the path itself, then with each extension appended.
AsFile(tree, path) ==
    LET found == SelectSeq([i \in DOMAIN Extensions |-> WithExtension(path, Extensions[i])],
                           LAMBDA p : IsFile(tree, p))
    IN  CASE IsFile(tree, path) -> Real(path)
          [] ~IsFile(tree, path) /\ found # <<>> -> Real(found[1])
          [] OTHER -> Nothing

\* export_target: the condition this runtime takes first.
ExportTarget(exports) ==
    LET known == SelectSeq(<<"import", "require", "default">>, LAMBDA c : c \in DOMAIN exports)
    IN  IF known = <<>> THEN Nothing ELSE exports[known[1]]

\* manifest_entry
ManifestEntry(manifest) ==
    LET target == ExportTarget(manifest.exports)
    IN  IF target # Nothing THEN target
        ELSE IF manifest.module # Nothing THEN manifest.module ELSE manifest.main

\* as_file_or_directory.  An entry that leads back to a directory it came from is
\* followed until the path is too long.
RECURSIVE AsFileOrDirectory(_, _)
AsDirectory(tree, path) ==
    LET Through(entry) ==
            IF entry = Nothing THEN Nothing ELSE AsFileOrDirectory(tree, path \o entry)
    IN  IF ~IsDir(tree, path) THEN Nothing
        ELSE Or(Through(ManifestEntry(tree[Real(path)])), AsFile(tree, Append(path, IndexFile)))
AsFileOrDirectory(tree, path) == Or(AsFile(tree, path), AsDirectory(tree, path))

Modules == <<"node_modules">>

\* from_node_modules: upward from the directory, the first package that answers.
FromNodeModules(tree, base, package, subpath) ==
    LET Candidate(n) == Append(SubSeq(base, 1, n), Modules) \o package
        Found(n) == CASE ~IsDir(tree, Candidate(n)) -> Nothing
                      [] IsDir(tree, Candidate(n)) /\ subpath # <<>> ->
                             AsFileOrDirectory(tree, Candidate(n) \o subpath)
                      [] OTHER -> AsDirectory(tree, Candidate(n))
    IN  FoldLeft(LAMBDA outer, n : Or(Found(n), outer), Nothing, [k \in 1..(Len(base) + 1) |-> k - 1])

\* resolve, for a path specifier and for a package's name.
RequireResolve(tree, base, specifier) ==
    CASE specifier.kind = "path" -> AsFileOrDirectory(tree, base \o specifier.path)
      [] specifier.kind = "absolute" -> AsFileOrDirectory(tree, specifier.path)
      [] OTHER -> FromNodeModules(tree, base, specifier.path, specifier.subpath)

-----------------------------------------------------------------------------
(* Properties *)

\* A normal path leads where the path does, from anywhere, and is its own normal form
\* (normalize_into).
NormalLeadsThere(cwd, p) ==
    LET n == Normalize(p)
    IN  /\ Walk(Walk(<<>>, cwd), n) = Walk(Walk(<<>>, cwd), p) /\ IsAbsolute(n) = IsAbsolute(p)
        /\ Normalize(n) = n

\* Joined paths are walked one after the other, resolved ones from the last that is
\* absolute; what is relative leads from one to the other (join, resolve, relative).
PathsCompose(cwd, p, q) ==
    LET here == Walk(<<>>, cwd)
        after == FoldLeft(Go, Walk(here, p), q)
    IN  /\ Walk(here, Join(<<p, q>>)) = IF p = Empty THEN Walk(here, q) ELSE after
        /\ Resolve(cwd, <<p, q>>) = NormalizeInto(Walk(Walk(here, p), q), TRUE, FALSE)
        /\ Walk(Walk(here, p), Relative(cwd, p, q)) = Walk(here, q)

\* What a path is taken apart into makes it up again (parse, format, dirname, basename).
PartsMakeThePath(cwd, p) ==
    LET here == Walk(<<>>, cwd)
    IN  /\ Walk(here, Format(Parse(p))) = Walk(here, p)
        /\ FoldLeft(Go, Walk(here, Dirname(p)), <<Basename(p)>>) = Walk(here, p)

\* The file system module comes to the same place, or has lost the root on the way: it
\* does when ".." takes it there from the working directory (join_resolve_path).
ResolvesAlike(cwd, p, q) ==
    LET r == ResolvePath(cwd, <<p, q>>)
    IN  IF IsAbsolute(r) THEN r = Resolve(cwd, <<p, q>>)
        ELSE \E n \in 1..(Len(p) + Len(q)) : Walk(Walk(<<>>, cwd), SubSeq(p \o q, 1, n)) = <<>>

PathsLeadRight(cwd, p, q) ==
    NormalLeadsThere(cwd, p) /\ PathsCompose(cwd, p, q) /\ PartsMakeThePath(cwd, p)
      /\ ResolvesAlike(cwd, p, q)

\* What is asked for is found if it is there, and what is found is a file that the
\* specifier can mean: itself or with one extension, or below the directory it names;
\* a file goes before a directory of its name, an extension never replaces one, and
\* of two packages of one name the nearer answers (resolve, as_file, as_directory).
ResolvesToAFile(tree, base, specifier) ==
    LET asked == CASE specifier.kind = "path" -> Real(base \o specifier.path)
                   [] specifier.kind = "absolute" -> Real(specifier.path)
                   [] OTHER -> <<>>
        exact == {asked} \union {WithExtension(asked, e) : e \in IF asked = <<>> THEN {} ELSE ToSet(Extensions)}
        there == {p \in exact : IsFile(tree, p)}
        At(n) == Append(SubSeq(base, 1, n), Modules) \o specifier.path
        IsRight(found) ==
            /\ found # Nothing => IsFile(tree, found)
            /\ specifier.kind # "package" =>
                  /\ there # {} => found \in there /\ (asked \in there => found = asked)
                  /\ there = {} /\ found # Nothing => IsDir(tree, asked)
                  /\ there = {} /\ IsDir(tree, asked) /\ IsFile(tree, Append(asked, Append(IndexFile, "js")))
                        => found # Nothing
            /\ specifier.kind = "package" /\ specifier.subpath = <<>> /\ found # Nothing =>
                  \E n \in 0..Len(base) :
                     /\ found = AsDirectory(tree, At(n))
                     /\ \A m \in (n + 1)..Len(base) : ~IsFile(tree, Append(At(m), Append(IndexFile, "js")))
    IN  IsRight(RequireResolve(tree, base, specifier))
=============================================================================
