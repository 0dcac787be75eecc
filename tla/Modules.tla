------------------------------ MODULE Modules -------------------------------
(***************************************************************************)
(* The modules of a realm (modules/registry.rs, mod.rs, file.rs,           *)
(* require.rs): the table of native ones, built before the realm and read  *)
(* through an index that is kept beside it; then what import and require   *)
(* hand back, and which files an import reaches.                           *)
(*                                                                         *)
(* A specifier is a sequence: <<"node:", "fs">> and its bare twin          *)
(* <<"fs">>.  A path is the sequence of its segments from the root.        *)
(***************************************************************************)
EXTENDS Naturals, Sequences, FiniteSets, SequencesExt

CONSTANTS
    Std,            \* the standard library's modules: names, and kind "kept"
                    \* (one object per realm), "built" (anew when asked) or
                    \* "default" (the default export of an evaluated module)
    Extra,          \* modules and aliases that extensions offer
    Aliases,
    Keeps,          \* sets of canonical names a policy may keep
    Tree,           \* canonical path -> "file", "dir" or a link's target
    Root, Cwd,      \* directories
    Imports,        \* relative and absolute names a program imports
    MaxUses, MaxChanges

VARIABLES
    table,
    phase,          \* "std", "extend" or "run"
    realm,          \* the modules loaded, the objects kept, the objects made
    uses,           \* what was imported and required, with the object (ghost)
    files           \* the importers: files that were loaded, and inline scripts

vars == <<table, phase, realm, uses, files>>

-----------------------------------------------------------------------------
(* The table *)

Bare(names) == {Tail(n) : n \in {m \in ToSet(names) : Len(m) > 1 /\ m[1] = "node:"}}
With(f, n, i) == [m \in DOMAIN f \union {n} |-> IF m = n THEN i ELSE f[m]]
WithNames(index, names, i) == FoldLeft(LAMBDA acc, n : With(acc, n, i), index, names)

Reindex(t) ==
    LET own == FoldLeft(LAMBDA acc, i : WithNames(acc, t.modules[i].names, i),
                        [n \in {} |-> 0], [i \in DOMAIN t.modules |-> i])
    IN  [t EXCEPT !.twins = UNION {Bare(t.modules[i].names) : i \in DOMAIN t.modules},
                  !.index = FoldLeft(LAMBDA acc, a : With(acc, a[1], acc[a[2]]), own, t.aliases)]

NewTable(modules) ==
    Reindex([modules |-> modules, aliases |-> <<>>, index |-> [n \in {} |-> 0], twins |-> {}])

Serves(t, n) == n \in DOMAIN t.index
AnswersTo(module, n) == n \in ToSet(module.names)
Canonical(module) == module.names[1]
ModuleFor(t, n) == t.modules[t.index[n]]
IsReserved(t, n) == Serves(t, n) \/ n[1] = "node:" \/ n \in t.twins

\* The index is added to, not rebuilt.
Register(t, module) ==
    IF \E n \in ToSet(module.names) : Serves(t, n) THEN t
    ELSE [t EXCEPT !.modules = Append(@, module),
                   !.index = WithNames(@, module.names, Len(t.modules) + 1),
                   !.twins = @ \union Bare(module.names)]

\* A name that is already an alias is pointed elsewhere.
Alias(t, from, to) ==
    LET Answered(n) == \E m \in ToSet(t.modules) : AnswersTo(m, n)
        known == {i \in DOMAIN t.aliases : t.aliases[i][1] = from}
    IN  CASE Answered(from) \/ ~Answered(to) -> t
          [] ~Answered(from) /\ Answered(to) /\ known = {} ->
                 Reindex([t EXCEPT !.aliases = Append(@, <<from, to>>)])
          [] OTHER -> Reindex([t EXCEPT !.aliases =
                          [i \in DOMAIN @ |-> IF i \in known THEN <<from, to>> ELSE @[i]]])

Retain(t, keep) ==
    LET kept == SelectSeq(t.modules, LAMBDA m : Canonical(m) \in keep)
        aliases == SelectSeq(t.aliases, LAMBDA a : \E m \in ToSet(kept) : AnswersTo(m, a[2]))
    IN  IF kept = t.modules /\ aliases = t.aliases THEN t
        ELSE Reindex([t EXCEPT !.modules = kept, !.aliases = aliases])

-----------------------------------------------------------------------------
(* Objects *)

\* built, and fs_object or events_namespace: the realm's one object.
ObjectOf(r, module) ==
    LET c == Canonical(module)
        made == [r EXCEPT !.made = @ + 1]
    IN  CASE module.kind = "kept" /\ c \in DOMAIN r.kept -> [r EXCEPT !.last = r.kept[c]]
          [] module.kind = "kept" /\ c \notin DOMAIN r.kept ->
                 [made EXCEPT !.kept = With(@, c, made.made), !.last = made.made]
          [] OTHER -> [made EXCEPT !.last = made.made]

\* The engine has one instance per name, the first it was given.
LoadedAs(r, n) == {i \in DOMAIN r.loaded : r.loaded[i].name = n}
Load(r, module, n) ==
    LET r2 == ObjectOf(r, module)
    IN  [r2 EXCEPT !.loaded = Append(@, [name |-> n, object |-> r2.last])]

\* NativeLoader::load, once per spelling.
ImportNative(r, module, n) ==
    IF LoadedAs(r, n) = {} THEN Load(r, module, n)
    ELSE [r EXCEPT !.last = r.loaded[CHOOSE i \in LoadedAs(r, n) : \A j \in LoadedAs(r, n) : i <= j].object]

\* The namespace of module_default_object is that of a module evaluated under the
\* canonical name, which an import of that name finds afterwards.
RequireNative(r, module) ==
    IF module.kind = "default" THEN Load(r, module, Canonical(module)) ELSE ObjectOf(r, module)

-----------------------------------------------------------------------------
(* Files *)

\* canonicalize: through links, or nothing.
Follow(path, segment) ==
    LET next == Append(path, segment)
    IN  CASE path = <<"none">> \/ segment = "." -> path
          [] segment = ".." -> IF Len(path) <= 1 THEN <<"/">> ELSE Front(path)
          [] segment \notin {".", ".."} /\ next \notin DOMAIN Tree -> <<"none">>
          [] OTHER -> IF Tree[next].kind = "link" THEN Tree[next].to ELSE next

Canonicalize(path) == FoldLeft(Follow, <<"/">>, path)
Within(path, dir) == Len(path) >= Len(dir) /\ SubSeq(path, 1, Len(dir)) = dir

\* A name with no directory, as an inline script's, means the root; one that is not
\* absolute, of a host's module, is taken from the working directory.
DirectoryOf(importer) ==
    CASE Len(importer) = 1 -> Root
      [] Len(importer) > 1 /\ importer[1] = "/" -> Front(importer)
      [] OTHER -> Cwd \o Front(importer)

\* FileResolver::resolve
FileFor(importer, name, jail) ==
    LET joined == IF name[1] = "/" THEN name ELSE DirectoryOf(importer) \o name
        resolved == Canonicalize(Tail(joined))
    IN  IF resolved = <<"none">> \/ (jail /\ ~Within(resolved, Root)) THEN <<"none">> ELSE resolved

-----------------------------------------------------------------------------
Init ==
    /\ table = NewTable(Std) /\ phase = "std"
    /\ realm = [loaded |-> <<>>, kept |-> [n \in {} |-> 0], made |-> 0, last |-> 0, changes |-> 0]
    /\ uses = <<>>
    /\ files = {<<"inline">>, <<"hosted", "module">>}

KeepOnly ==
    \E keep \in Keeps :
        /\ phase = "std" /\ phase' = "extend"
        /\ table' = Retain(table, keep)
        /\ UNCHANGED <<realm, uses, files>>

Extend(t) ==
    /\ phase = "extend" /\ realm.changes < MaxChanges
    /\ realm' = [realm EXCEPT !.changes = @ + 1]
    /\ table' = t
    /\ UNCHANGED <<phase, uses, files>>

RegisterOne == \E m \in Extra : Extend(Register(table, m))
AliasOne == \E a \in Aliases : Extend(Alias(table, a[1], a[2]))
Start == phase = "extend" /\ phase' = "run" /\ UNCHANGED <<table, realm, uses, files>>

Use(how, n, r) ==
    /\ phase = "run" /\ Len(uses) < MaxUses
    /\ realm' = r
    /\ uses' = Append(uses, [how |-> how, name |-> n, object |-> r.last])
    /\ UNCHANGED <<table, phase, files>>

Import == \E n \in DOMAIN table.index : Use("import", n, ImportNative(realm, ModuleFor(table, n), n))
Require == \E n \in DOMAIN table.index : Use("require", n, RequireNative(realm, ModuleFor(table, n)))

\* In a realm whose modules are jailed; what a file imports is resolved from it.
ImportFile ==
    \E importer \in files, name \in Imports :
        LET path == FileFor(importer, name, TRUE)
        IN  /\ phase = "run" /\ uses = <<>>
            /\ path # <<"none">> /\ Tree[path].kind = "file"
            /\ files' = files \union {path}
            /\ UNCHANGED <<table, phase, realm, uses>>

Next == KeepOnly \/ RegisterOne \/ AliasOne \/ Start \/ Import \/ Require \/ ImportFile

Spec == Init /\ [][Next]_vars

-----------------------------------------------------------------------------
(* Properties *)

\* The index that is added to answers as the table does: every name of a module, and
\* every alias, by the one module it names; twins are those of what is served
\* (register, alias, retain, reindex).
IndexIsTheTable ==
    LET Own(n) == {i \in DOMAIN table.modules : AnswersTo(table.modules[i], n)}
        To(n) == {a[2] : a \in {b \in ToSet(table.aliases) : b[1] = n}}
        names == UNION {ToSet(m.names) : m \in ToSet(table.modules)} \union {a[1] : a \in ToSet(table.aliases)}
    IN  /\ DOMAIN table.index = names
        /\ \A n \in names :
              {table.index[n]} = IF Own(n) # {} THEN Own(n) ELSE UNION {Own(m) : m \in To(n)}
        /\ \A n \in names : n[1] # "node:" => IsReserved(table, <<"node:">> \o n)
        /\ \A m \in ToSet(table.modules) : \A n \in Bare(m.names) : IsReserved(table, n)

\* "Built once per realm, so `import` and `require` see the same values", whatever
\* the spelling; and one spelling is imported once.
SameObjects ==
    \A i, j \in DOMAIN uses :
        LET a == uses[i] b == uses[j]
            same == table.index[a.name] = table.index[b.name]
        IN  /\ (same /\ ModuleFor(table, a.name).kind = "kept") => a.object = b.object
            /\ ~same => a.object # b.object
            /\ (a.how = "import" /\ b.how = "import" /\ a.name = b.name) => a.object = b.object

\* "A script confined to a directory cannot pull code from beyond it": not through
\* "..", an absolute path, a link, or a file that was let in before (resolve).
ImportsStayInside == \A path \in files : path[1] = "/" => Within(path, Root)

ModulesAreTheTables == IndexIsTheTable /\ SameObjects /\ ImportsStayInside
=============================================================================
