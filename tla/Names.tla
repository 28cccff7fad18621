------------------------------- MODULE Names --------------------------------
(***************************************************************************)
(* What a name means (infer.rs): the table of qualified names, filled from *)
(* each module's imports, types, functions, constants and aliases, and     *)
(* then by re-exports, `const x = a.y`, until a round adds nothing.        *)
(*                                                                         *)
(* A module is its path, its declarations in order, and what its imports   *)
(* resolve to; `std` is what exists without a source: module paths, and    *)
(* the builtins, those of the prelude in module Prelude. A declaration is  *)
(* known by where it is, <<path, index>>.                                  *)
(***************************************************************************)
EXTENDS Integers, Sequences, FiniteSets, SequencesExt

Prelude == <<"prelude">>
Fn(name, public) == [item |-> "fn", name |-> name, public |-> public]
Lit(name, public) == [item |-> "lit", name |-> name, public |-> public]
Struct(name, public, fields) ==
  [item |-> "struct", name |-> name, public |-> public, fields |-> fields]
Alias(name, public, of) ==
  [item |-> "alias", name |-> name, public |-> public, of |-> of, annotated |-> FALSE]
Reexport(name, public, obj, member) ==
  [item |-> "reexport", name |-> name, public |-> public, obj |-> obj,
   member |-> member, annotated |-> FALSE]

NoRef == [ref |-> "none"]
Func(ids) == [ref |-> "Func", ids |-> ids]
FuncValue(ids) == [ref |-> "FuncValue", ids |-> ids]
Ref(kind, id) == [ref |-> kind, id |-> id]

ItemAt(mods, at) ==
  LET m == CHOOSE m \in Range(mods) : m.path = at[1] IN m.items[at[2]]
PathsOf(mods, std) == {m.path : m \in Range(mods)} \cup std.paths
Private(mods) ==
  UNION {{<<m.path, item.name>> : item \in {i \in Range(m.items) : ~i.public}} :
           m \in Range(mods)}

(***************************************************************************)
(* The table.                                                              *)
(***************************************************************************)
Get(table, key, none) == IF key \in DOMAIN table THEN table[key] ELSE none
Global(st, path, name) ==
  Get(st.globals, <<path, name>>, Get(st.globals, <<Prelude, name>>, NoRef))
HasGlobal(st, path, name) == Global(st, path, name) # NoRef
DeclareGlobal(st, path, name, ref) ==
  [st EXCEPT !.globals = (<<path, name>> :> ref) @@ @]
Error(st, at, what) == [st EXCEPT !.errors = @ \cup {<<at, what>>}]

\* The module a path of names leads to: an import, then the modules under it.
ModulePathOf(st, mods, std, path, obj) ==
  LET start == Get(st.imports, <<path, obj[1]>>, <<>>)
      Under(k) == start \o SubSeq(obj, 2, k)
  IN IF start = <<>> \/ \E k \in 2 .. Len(obj) : Under(k) \notin PathsOf(mods, std)
     THEN <<>> ELSE Under(Len(obj))

CheckVisible(st, mods, path, key, at) ==
  IF key[1] # path /\ key \in Private(mods) THEN Error(st, at, "private") ELSE st

(***************************************************************************)
(* A module's own declarations.                                            *)
(***************************************************************************)
OneImport(st, mods, std, m, i) ==
  LET item == m.items[i]
      paths == PathsOf(mods, std)
      resolved == Get(m.imports, item.spec, <<>>)
      target == IF resolved \in paths THEN resolved ELSE item.spec
      key == <<m.path, item.name>>
      bound == [st EXCEPT !.imports = (key :> target) @@ @]
  IN IF target \notin paths THEN Error(st, <<m.path, i>>, "module")
     ELSE DeclareGlobal(IF key \in DOMAIN st.imports
                        THEN Error(bound, <<m.path, i>>, "twice") ELSE bound,
                        m.path, item.name, Ref("Module", <<m.path, i>>))

OneStruct(st, m, i) ==
  LET key == <<m.path, m.items[i].name>>
  IN IF key \in DOMAIN st.structs THEN Error(st, <<m.path, i>>, "twice")
     ELSE [st EXCEPT !.structs = (key :> <<m.path, i>>) @@ @]

\* A struct without fields is its own instance.
OneSingleton(st, m, i) ==
  LET key == <<m.path, m.items[i].name>>
  IN IF m.items[i].fields \/ st.structs[key] # <<m.path, i>> THEN st
     ELSE DeclareGlobal(st, m.path, m.items[i].name, Ref("Singleton", <<m.path, i>>))

\* A second function of a name joins the first; any other name is taken.
DeclareFunction(st, m, i) ==
  LET name == m.items[i].name
      have == Global(st, m.path, name)
      id == <<m.path, i>>
  IN CASE have.ref = "Func" -> DeclareGlobal(st, m.path, name, Func(have.ids \cup {id}))
       [] have = NoRef -> DeclareGlobal(st, m.path, name, Func({id}))
       [] OTHER -> Error(st, id, "twice")

DeclareConst(st, m, i) ==
  LET name == m.items[i].name
      st1 == IF HasGlobal(st, m.path, name) THEN Error(st, <<m.path, i>>, "twice") ELSE st
  IN DeclareGlobal(st1, m.path, name, Ref("Const", <<m.path, i>>))

\* A const bound to a bare name is a second name for functions, or an error.
DeclareFuncConst(st, m, i) ==
  LET item == m.items[i]
      source == Global(st, m.path, item.of)
  IN CASE source.ref # "Func" -> Error(st, <<m.path, i>>, "computed")
       [] HasGlobal(st, m.path, item.name) -> Error(st, <<m.path, i>>, "twice")
       [] OTHER -> DeclareGlobal(st, m.path, item.name,
                     IF item.annotated THEN FuncValue(source.ids) ELSE source)

\* Every declaration of a kind, by module and then by place.
Places(mods, kinds) ==
  FlattenSeq([m \in DOMAIN mods |->
    SelectSeq([i \in DOMAIN mods[m].items |-> <<m, i>>],
              LAMBDA at : mods[at[1]].items[at[2]].item \in kinds)])
Each(Op(_, _, _), st, mods, places) ==
  FoldLeft(LAMBDA s, at : Op(s, mods[at[1]], at[2]), st, places)

OneOfTheModules(st, m, i) ==
  CASE m.items[i].item = "fn" -> DeclareFunction(st, m, i)
    [] m.items[i].item = "lit" -> DeclareConst(st, m, i)
    [] OTHER -> DeclareFuncConst(st, m, i)

\* Aliases wait for the file's other declarations.
CollectModuleGlobals(st, mods, k) ==
  LET own == <<mods[k]>>
      first == Each(OneOfTheModules, st, own, Places(own, {"fn", "lit"}))
  IN Each(OneOfTheModules, first, own, Places(own, {"alias"}))

(***************************************************************************)
(* Re-exports: first of types, then of values, each to a fixpoint.         *)
(***************************************************************************)
ReexportTarget(st, mods, std, m, i) ==
  LET path == ModulePathOf(st, mods, std, m.path, m.items[i].obj)
  IN IF path = <<>> THEN <<>> ELSE <<path, m.items[i].member>>

AliasOneType(st, mods, std, m, i) ==
  LET target == ReexportTarget(st, mods, std, m, i)
      key == <<m.path, m.items[i].name>>
      at == <<m.path, i>>
  IN IF at \in st.typed \/ target \notin DOMAIN st.structs \/ key \in DOMAIN st.structs
     THEN st
     ELSE [CheckVisible(st, mods, m.path, target, at) EXCEPT
             !.structs = (key :> st.structs[target]) @@ @,
             !.reexported = @ \cup {key}, !.typed = @ \cup {at}]

RECURSIVE AliasReexportedTypes(_, _, _)
AliasReexportedTypes(st, mods, std) ==
  LET One(s, m, i) == AliasOneType(s, mods, std, m, i)
      next == Each(One, st, mods, Places(mods, {"reexport"}))
  IN IF next.typed = st.typed THEN st ELSE AliasReexportedTypes(next, mods, std)

\* Joined to whatever functions the module has under the name.
MergingWithOwn(st, key, item, found) ==
  ~item.annotated /\ found.ref = "Func" /\ Get(st.globals, key, NoRef).ref = "Func"

\* Two re-exports of one name become one overload set.
Merging(st, key, item, found) ==
  /\ ~item.annotated
  /\ key \in st.reexported
  /\ found.ref = "Func"
  /\ Get(st.globals, key, NoRef).ref = "Func"

InstallValue(st, mods, m, i, target, found) ==
  LET item == m.items[i]
      key == <<m.path, item.name>>
      at == <<m.path, i>>
      merging == Merging(st, key, item, found)
      taken == HasGlobal(st, m.path, item.name) \/ key \in DOMAIN st.structs
      seen == CheckVisible(st, mods, m.path, target, at)
      ref == CASE merging -> Func(st.globals[key].ids \cup found.ids)
               [] item.annotated /\ found.ref = "Func" -> FuncValue(found.ids)
               [] OTHER -> found
      said == IF item.annotated /\ found.ref # "Func"
              THEN Error(seen, at, "annotation") ELSE seen
  IN CASE ~merging /\ at \notin st.typed /\ taken -> Error(st, at, "twice")
       [] found = NoRef -> seen
       [] OTHER -> [DeclareGlobal(said, m.path, item.name, ref) EXCEPT
                      !.reexported = @ \cup {key}]

AliasOneValue(st, mods, std, m, i) ==
  LET target == ReexportTarget(st, mods, std, m, i)
      found == Get(st.globals, target, NoRef)
      at == <<m.path, i>>
      pending == found = NoRef /\ target \notin DOMAIN st.structs
  IN IF at \in st.settled \/ pending THEN st
     ELSE [InstallValue(st, mods, m, i, target, found) EXCEPT !.settled = @ \cup {at}]

RECURSIVE AliasReexportedValues(_, _, _)
AliasReexportedValues(st, mods, std) ==
  LET One(s, m, i) == AliasOneValue(s, mods, std, m, i)
      next == Each(One, st, mods, Places(mods, {"reexport"}))
  IN IF next.settled = st.settled THEN st ELSE AliasReexportedValues(next, mods, std)

ReportDanglingReexports(st, mods) ==
  LET One(s, m, i) == IF <<m.path, i>> \in s.settled \cup s.typed THEN s
                      ELSE Error(s, <<m.path, i>>, "dangling")
  IN Each(One, st, mods, Places(mods, {"reexport"}))

(***************************************************************************)
(* Collection, in the order the passes run.                                *)
(***************************************************************************)
Nothing == [globals |-> <<>>, structs |-> <<>>, imports |-> <<>>, reexported |-> {},
            typed |-> {}, settled |-> {}, errors |-> {}]

CollectStructs(mods, std) ==
  LET OneOfImports(st, m, i) == OneImport(st, mods, std, m, i)
      bound == Each(OneOfImports, Nothing, mods, Places(mods, {"import"}))
  IN AliasReexportedTypes(Each(OneStruct, bound, mods, Places(mods, {"struct"})),
                          mods, std)

CollectGlobals(st, mods, std) ==
  LET builtins == [st EXCEPT !.globals = [b \in std.builtins |-> Ref("Builtin", b)] @@ @]
      singles == Each(OneSingleton, builtins, mods, Places(mods, {"struct"}))
      own == FoldLeft(LAMBDA s, k : CollectModuleGlobals(s, mods, k), singles,
                      [k \in DOMAIN mods |-> k])
  IN ReportDanglingReexports(AliasReexportedValues(own, mods, std), mods)

Collect(mods, std) == CollectGlobals(CollectStructs(mods, std), mods, std)

\* A name used in a body: bare, or through a module. `locals` hide both.
Use(st, mods, std, path, obj, name, locals) ==
  LET module == ModulePathOf(st, mods, std, path, obj)
      key == <<module, name>>
      type == Get(st.structs, <<path, name>>, <<>>)
  IN CASE obj = <<>> /\ name \in locals -> [ref |-> "local"]
       [] obj = <<>> /\ HasGlobal(st, path, name) -> Global(st, path, name)
       [] obj = <<>> -> IF type # <<>> /\ ~ItemAt(mods, type).fields
                        THEN Ref("Singleton", type) ELSE NoRef
       [] obj[1] \in locals \/ module = <<>> -> [ref |-> "field"]
       [] key \in DOMAIN st.globals /\ CheckVisible(st, mods, path, key, 0) # st ->
            [ref |-> "private"]
       [] OTHER -> Get(st.globals, key, NoRef)

(***************************************************************************)
(* What the declarations say: a name stands for what is declared under it  *)
(* and for what the names it re-exports stand for, and nothing else.       *)
(***************************************************************************)
Keys(mods) == UNION {{<<m.path, item.name>> : item \in Range(m.items)} : m \in Range(mods)}
DeclaredAt(mods, key) ==
  UNION {{<<m, i>> : i \in {j \in DOMAIN m.items : m.items[j].name = key[2]}} :
           m \in {n \in Range(mods) : n.path = key[1]}}
Item(d) == d[1].items[d[2]]

\* What a declaration's name stands for, given what other names do.
StandsFor(st, mods, std, known, d) ==
  CASE Item(d).item = "alias" -> Get(known, <<d[1].path, Item(d).of>>, {})
    [] Item(d).item = "reexport" ->
         Get(known, ReexportTarget(st, mods, std, d[1], d[2]), {})
    [] OTHER -> {<<d[1].path, d[2]>>}

RECURSIVE Meanings(_, _, _, _)
Meanings(st, mods, std, known) ==
  LET next == [key \in Keys(mods) |->
                 UNION {StandsFor(st, mods, std, known, d) : d \in DeclaredAt(mods, key)}]
  IN IF next = known THEN known ELSE Meanings(st, mods, std, next)

IsType(mods, at) == ItemAt(mods, at).item = "struct"
IsValue(mods, at) == ~IsType(mods, at) \/ ~ItemAt(mods, at).fields
IsFn(mods, at) == ItemAt(mods, at).item = "fn"

\* Only functions may share a name, declared or presented; a type whose
\* instances are made is no value, and shares with a function too.
MayShare(st, mods, std, known, d, e) ==
  LET Of(x) == StandsFor(st, mods, std, known, x)
      TypeOnly(x) == \A at \in Of(x) : ~IsValue(mods, at)
      Presented(x) == /\ Item(x).item = "reexport" /\ ~Item(x).annotated
                      /\ \A at \in Of(x) : IsFn(mods, at)
  IN \/ {Item(d).item, Item(e).item} = {"fn"}
     \/ Presented(d) /\ Presented(e)
     \/ Item(d).item = "fn" /\ TypeOnly(e)
     \/ Item(e).item = "fn" /\ TypeOnly(d)

IsAtFault(st, mods, std, known, d) ==
  LET item == Item(d)
      target == ReexportTarget(st, mods, std, d[1], d[2])
      stands == StandsFor(st, mods, std, known, d)
      key == <<d[1].path, item.name>>
  IN \/ \E e \in DeclaredAt(mods, key) \ {d} : ~MayShare(st, mods, std, known, d, e)
     \/ item.item = "import" /\ key \notin DOMAIN st.imports
     \/ item.item = "alias"
          /\ (stands = {} \/ \E at \in stands : ~IsFn(mods, at) \/ at[1] # d[1].path)
     \/ item.item = "reexport"
          /\ \/ stands = {}
             \/ target \in Private(mods) /\ target[1] # d[1].path
             \/ item.annotated /\ \E at \in stands : IsValue(mods, at) /\ ~IsFn(mods, at)

Values(st, key) ==
  LET ref == Get(st.globals, key, NoRef)
  IN CASE ref.ref \in {"Func", "FuncValue"} -> ref.ids
       [] ref = NoRef -> {}
       [] OTHER -> {ref.id}

\* No re-export settles on a part of a name: what presents a name that is
\* presented again does so alone, or is a re-export of what is declared; and a type
\* with a value is not presented again, nor put over a function.
IsSettledAtOnce(st, mods, std, known, d) ==
  LET IsReexport(e) == Item(e).item = "reexport"
      Behind(e) == DeclaredAt(mods, ReexportTarget(st, mods, std, e[1], e[2]))
      again == {e \in Behind(d) : IsReexport(e)}
      beside == DeclaredAt(mods, <<d[1].path, Item(d).name>>)
      stands == StandsFor(st, mods, std, known, d)
      both == (\E at \in stands : IsType(mods, at)) /\ \E at \in stands : IsValue(mods, at)
  IN IsReexport(d) =>
       /\ Cardinality(Behind(d)) > 1 => \A e \in again : ~\E f \in Behind(e) : IsReexport(f)
       /\ both => again = {} /\ \A e \in beside : Item(e).item # "fn"

Declarations(mods) == UNION {DeclaredAt(mods, key) : key \in Keys(mods)}

\* In a program that is accepted a name stands for declarations it presents, its
\* types exactly, wherever it is met, and a private one is private.
NamesMeanWhatTheyPresent(mods, std) ==
  LET st == Collect(mods, std)
      known == Meanings(st, mods, std, [key \in Keys(mods) |-> {}])
  IN st.errors = {} => \A key \in Keys(mods) :
       /\ Values(st, key) \subseteq {at \in known[key] : IsValue(mods, at)}
       /\ (IF key \in DOMAIN st.structs THEN {st.structs[key]} ELSE {})
            = {at \in known[key] : IsType(mods, at)}
       /\ \A m \in Range(mods) : \A alias \in {k[2] : k \in DOMAIN st.imports} :
            LET used == Use(st, mods, std, m.path, <<alias>>, key[2], {})
            IN Get(st.imports, <<m.path, alias>>, <<>>) = key[1] =>
                 used = IF key \in Private(mods) /\ Values(st, key) # {}
                        THEN [ref |-> "private"] ELSE Get(st.globals, key, NoRef)

\* A program is accepted unless a declaration is at fault, and then a name
\* stands for all its declarations present.
NamesMeanWhatIsDeclared(mods, std) ==
  LET st == Collect(mods, std)
      known == Meanings(st, mods, std, [key \in Keys(mods) |-> {}])
  IN /\ st.errors = {}
          <=> \A d \in Declarations(mods) : ~IsAtFault(st, mods, std, known, d)
     /\ st.errors = {} => \A key \in Keys(mods) :
          Values(st, key) = {at \in known[key] : IsValue(mods, at)}

\* Every re-export settles at once.
NothingSettlesInParts(mods, std) ==
  LET st == Collect(mods, std)
      known == Meanings(st, mods, std, [key \in Keys(mods) |-> {}])
  IN \A d \in Declarations(mods) : IsSettledAtOnce(st, mods, std, known, d)
=============================================================================
