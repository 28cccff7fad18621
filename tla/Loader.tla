------------------------------- MODULE Loader -------------------------------
(***************************************************************************)
(* The files a program is made of (load.rs): the root file, everything it  *)
(* reaches through its imports in the order the files are reached, the     *)
(* packages the project around it has installed, and the library modules   *)
(* any of them names.                                                      *)
(*                                                                         *)
(* A path is the sequence of its components, "/" first when it is          *)
(* absolute. A project is what is on disk (the text of each file, the      *)
(* environment beside each ingot.toml, the directory the program is run    *)
(* in), the root file as it was named, and the library's modules; a text   *)
(* is the file's declarations, of which an import is one. There are no     *)
(* symbolic links.                                                         *)
(***************************************************************************)
EXTENDS Integers, Sequences, FiniteSets, SequencesExt

Import(name, spec) ==
  [item |-> "import", name |-> name, spec |-> spec, public |-> FALSE]
SourceImports(items) == SelectSeq(items, LAMBDA item : item.item = "import")

Main == <<"main">>
Nowhere == <<>>
LIBRARY_ROOTS == {<<"std">>, <<"ingot">>}

(***************************************************************************)
(* Paths.                                                                  *)
(***************************************************************************)
Joined(dir, path) ==
  IF path # <<>> /\ path[1] = "/" THEN path ELSE dir \o path

\* What the file system makes of a path that names something.
Normal(prj, path) ==
  FoldLeft(LAMBDA at, step : CASE step = "." -> at
                               [] step = ".." -> Front(at)
                               [] OTHER -> Append(at, step),
           <<>>, Joined(prj.cwd, path))
Exists(prj, at) ==
  \E known \in DOMAIN prj.text \cup DOMAIN prj.env \cup {prj.cwd} :
    IsPrefix(at, known)
Canonical(prj, path) ==
  IF Exists(prj, Normal(prj, path)) THEN Normal(prj, path) ELSE path

DirectoryOf(file) == IF Len(file) > 1 THEN Front(file) ELSE <<".">>

(***************************************************************************)
(* Packages: what ingot left beside the project's manifest.                *)
(***************************************************************************)
NoPackages == <<>>

\* A line without its first three fields spoils the file, and a project whose
\* file is spoilt or missing has no packages to name.
ParseEnv(prj, lines, project) ==
  IF \E line \in Range(lines) : line.name = "" \/ line.dir = <<>> \/ line.root = <<>>
  THEN NoPackages
  ELSE [i \in DOMAIN lines |->
          [lines[i] EXCEPT !.dir = Canonical(prj, Joined(project, @))]]

RECURSIVE FoundFrom(_, _)
FoundFrom(prj, at) ==
  IF at \in DOMAIN prj.env
  THEN ParseEnv(prj, prj.env[at], at)
  ELSE IF Len(at) <= 1 THEN NoPackages ELSE FoundFrom(prj, Front(at))

Find(pkgs, spec) ==
  {i \in DOMAIN pkgs : <<pkgs[i].name>> = spec
     /\ \A j \in 1 .. i - 1 : pkgs[j].name # pkgs[i].name}

\* The last entry that beats those before it, the root package when none is
\* around the file; 0 for no packages at all.
OwnerOf(pkgs, file) ==
  LET Better(best, i) ==
        /\ IsPrefix(pkgs[i].dir, file)
        /\ best = 0 \/ Len(pkgs[i].dir) > Len(pkgs[best].dir)
      found == FoldLeft(LAMBDA best, i : IF Better(best, i) THEN i ELSE best,
                        0, [i \in DOMAIN pkgs |-> i])
  IN IF found = 0 /\ pkgs # <<>> THEN 1 ELSE found

IsLibrary(spec) == \E root \in LIBRARY_ROOTS : IsPrefix(root, spec)

(***************************************************************************)
(* Reading: a module takes its place before its imports are followed, and  *)
(* is on the chain while they are.                                         *)
(***************************************************************************)
RECURSIVE Add(_, _, _, _)

Said(ld, file, spec, what) ==
  [ld EXCEPT !.diags = @ \cup {[file |-> file, spec |-> spec, what |-> what]}]
Answer(ld, target) == [ld |-> ld, target |-> target]

\* A file that was read before closes a cycle, whoever read it.
ReadBefore(ld, file) == file \in DOMAIN ld.files
ClosesACycle(ld, file) == file \in Range(ld.loading)

FollowFile(ld, prj, from, target, spec) ==
  LET resolved == Canonical(prj, target)
      read == Add(ld, prj, target, resolved)
  IN CASE ClosesACycle(ld, resolved) ->
            Answer(Said(ld, from, spec, "cycle"), Nowhere)
       [] resolved \in DOMAIN ld.files -> Answer(ld, ld.files[resolved])
       [] resolved \notin DOMAIN prj.text ->
            Answer(Said(ld, from, spec, "unread"), Nowhere)
       [] OTHER -> Answer(read, resolved)

FollowPackage(ld, prj, from, index, spec) ==
  LET owner == OwnerOf(ld.packages, from)
      entry == ld.packages[index]
  IN IF owner # 0 /\ entry.name \notin ld.packages[owner].deps
     THEN Answer(Said(ld, from, spec, "scope"), Nowhere)
     ELSE FollowFile(ld, prj, from, entry.dir \o entry.root, spec)

\* The library, then a package, then a file beside the one that wrote it.
Follow(ld, prj, from, spec) ==
  CASE IsLibrary(spec) -> Answer(ld, spec)
    [] Find(ld.packages, spec) # {} ->
         FollowPackage(ld, prj, from, CHOOSE i \in Find(ld.packages, spec) : TRUE, spec)
    [] OTHER -> FollowFile(ld, prj, from, Front(from) \o spec, spec)

Bound(module, spec, target) ==
  [module EXCEPT !.imports = (spec :> target) @@ @]

Add(ld, prj, file, path) ==
  LET at == Canonical(prj, file)
      slot == Len(ld.modules) + 1
      opened == [ld EXCEPT
                   !.files = (at :> path) @@ @,
                   !.loading = Append(@, at),
                   !.modules = Append(@, [path |-> path, items |-> prj.text[at],
                                          imports |-> <<>>])]
      One(l, item) ==
        LET found == Follow(l, prj, file, item.spec)
        IN IF found.target = Nowhere THEN found.ld
           ELSE [found.ld EXCEPT
                   !.modules[slot] = Bound(@, item.spec, found.target)]
      followed == FoldLeft(One, opened, SourceImports(prj.text[at]))
  IN [followed EXCEPT !.loading = Front(@)]

(***************************************************************************)
(* The library: what is imported, all of a namespace whose root is, and    *)
(* what those import; in the table's order.                                *)
(***************************************************************************)
Specs(items) == {item.spec : item \in Range(SourceImports(items))}
Under(prj, root) ==
  {lib.path : lib \in {l \in Range(prj.library) : IsStrictPrefix(root, l.path)}}
InTable(prj, spec) == \E lib \in Range(prj.library) : lib.path = spec

RECURSIVE Wanted(_, _)
Wanted(prj, paths) ==
  LET next == paths \cup
        UNION {{s \in Specs(lib.items) : IsLibrary(s) /\ InTable(prj, s)} :
                 lib \in {l \in Range(prj.library) : l.path \in paths}}
  IN IF next = paths THEN paths ELSE Wanted(prj, next)

Itself(specs) == [s \in specs |-> s]

AddLibrary(ld, prj) ==
  LET named == UNION {Range(m.imports) : m \in Range(ld.modules)}
      first == {p \in named : InTable(prj, p)}
               \cup UNION {Under(prj, r) : r \in named \cap LIBRARY_ROOTS}
      already == {m.path : m \in Range(ld.modules)}
      wanted == SelectSeq(prj.library, LAMBDA lib :
                  lib.path \in Wanted(prj, first) \ already)
  IN [ld EXCEPT !.modules =
        @ \o [i \in DOMAIN wanted |->
               [path |-> wanted[i].path, items |-> wanted[i].items,
                imports |-> Itself(Specs(wanted[i].items))]]]

(***************************************************************************)
(* What a module is called where two machines have to agree.               *)
(***************************************************************************)
CommonLength(a, b) ==
  Cardinality({n \in 1 .. Len(a) : n <= Len(b) /\ SubSeq(a, 1, n) = SubSeq(b, 1, n)})

PortableName(ld, file, path) ==
  LET owner == OwnerOf(ld.packages, file)
      dir == ld.packages[owner].dir
      common == CommonLength(ld.rootDir, file)
      Rest(from) == SubSeq(file, from + 1, Len(file))
  IN CASE owner > 1 /\ IsPrefix(dir, file) ->
            <<"pkg+", ld.packages[owner].name>> \o Rest(Len(dir))
       [] ld.rootDir = Nowhere \/ common = 0 -> path
       [] OTHER -> [i \in 1 .. Len(ld.rootDir) - common |-> ".."] \o Rest(common)

Portable(ld) ==
  [i \in DOMAIN ld.modules |->
     LET path == ld.modules[i].path
         at == {f \in DOMAIN ld.files : ld.files[f] = path}
     IN IF path = Main \/ at = {} THEN path
        ELSE PortableName(ld, CHOOSE f \in at : TRUE, path)]

(***************************************************************************)
(* A program whose root is a file, and one whose root is the library's.    *)
(***************************************************************************)
Unread == [modules |-> <<>>, files |-> <<>>, loading |-> <<>>, diags |-> {},
           packages |-> NoPackages, rootDir |-> Nowhere]

Load(prj) ==
  LET dir == Canonical(prj, DirectoryOf(prj.root))
      ready == [Unread EXCEPT !.packages = FoundFrom(prj, dir), !.rootDir = dir]
  IN AddLibrary(Add(ready, prj, prj.root, Main), prj)

LoadLibraryModule(prj, path) ==
  LET lib == CHOOSE l \in Range(prj.library) : l.path = path
  IN AddLibrary([Unread EXCEPT !.modules =
                   <<[path |-> path, items |-> lib.items,
                      imports |-> Itself(Specs(lib.items))]>>], prj)

(***************************************************************************)
(* What a program is made of, said of the graph its imports make.          *)
(***************************************************************************)
\* The packages a file's own may import: that of the deepest directory with an
\* entry, and the project's for a file in none.
Asked(pkgs, file) ==
  LET around == {i \in DOMAIN pkgs : IsPrefix(pkgs[i].dir, file)}
  IN IF around = {} THEN pkgs[1].deps
     ELSE UNION {pkgs[i].deps : i \in {j \in around :
                   \A k \in around : IsPrefix(pkgs[k].dir, pkgs[j].dir)}}

\* Where an import leads: a file's place, a library's path, or what is wrong.
Leads(prj, pkgs, file, spec) ==
  LET pkg == Find(pkgs, spec)
      entry == pkgs[CHOOSE i \in pkg : TRUE]
      at == IF pkg # {} THEN Normal(prj, entry.dir \o entry.root)
            ELSE Normal(prj, Front(file) \o spec)
  IN CASE IsLibrary(spec) -> <<"library", spec>>
       [] pkg # {} /\ entry.name \notin Asked(pkgs, file) ->
            <<"scope", spec>>
       [] at \notin DOMAIN prj.text -> <<"unread", spec>>
       [] OTHER -> <<"file", at>>

FilesNamed(prj, pkgs, file) ==
  {to[2] : to \in {t \in {Leads(prj, pkgs, file, s) : s \in Specs(prj.text[file])} :
                     t[1] = "file"}}

RECURSIVE ReachedFrom(_, _, _)
ReachedFrom(prj, pkgs, files) ==
  LET next == files \cup UNION {FilesNamed(prj, pkgs, f) : f \in files}
  IN IF next = files THEN files ELSE ReachedFrom(prj, pkgs, next)

\* Every file reached is read once, under one name, after the root; an import
\* means the module of the file it leads to; each that leads nowhere is
\* reported, and a cycle is reported when there is one; and a module's
\* portable name is its own.
ReadsWhatIsReached(prj) ==
  LET ld == Load(prj)
      root == Canonical(prj, prj.root)
      pkgs == ld.packages
      reached == ReachedFrom(prj, pkgs, {root})
      Path(f) == IF f = root THEN Main ELSE f
      wrong == {[file |-> f, spec |-> s, what |-> Leads(prj, pkgs, f, s)[1]] :
                  f \in reached,
                  s \in UNION {Specs(prj.text[f]) : f \in reached}}
      Bad == {w \in wrong : w.what \in {"scope", "unread"}
                            /\ w.spec \in Specs(prj.text[w.file])}
      cyclic == \E f \in reached :
                  f \in ReachedFrom(prj, pkgs, FilesNamed(prj, pkgs, f))
      At(from) == Canonical(prj, from)
      Ready(l, first) ==
        /\ l.modules[1].path = first
        /\ IsInjective([i \in DOMAIN l.modules |-> l.modules[i].path])
        /\ \A m \in Range(l.modules) : \A p \in Range(m.imports) :
             InTable(prj, p) => \E n \in Range(l.modules) : n.path = p
  IN /\ Ready(ld, Main)
     /\ \A lib \in Range(prj.library) : Ready(LoadLibraryModule(prj, lib.path), lib.path)
     /\ IsInjective(Portable(ld))
     /\ DOMAIN ld.files = reached
     /\ {[file |-> At(d.file), spec |-> d.spec, what |-> d.what] :
           d \in {e \in ld.diags : e.what # "cycle"}} = Bad
     /\ (\E d \in ld.diags : d.what = "cycle") <=> cyclic
     /\ ld.diags = {} =>
          \A f \in reached : \E m \in Range(ld.modules) :
            /\ m.path = Path(f) /\ m.items = prj.text[f]
            /\ DOMAIN m.imports = Specs(m.items)
            /\ \A s \in DOMAIN m.imports :
                 LET to == Leads(prj, pkgs, f, s)
                 IN m.imports[s] = IF to[1] = "file" THEN Path(to[2]) ELSE s
=============================================================================
