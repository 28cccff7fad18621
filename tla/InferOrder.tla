----------------------------- MODULE InferOrder -----------------------------
(***************************************************************************)
(* The order functions are inferred in (infer.rs): what each body may      *)
(* depend on, read off its syntax before any type is known; the strongly   *)
(* connected groups of that, in dependency order; and the type arguments   *)
(* of each call, recorded when its callee is generalised already and       *)
(* filled in afterwards when it is not.                                    *)
(*                                                                         *)
(* A program is its functions (the module each is in, how many types it    *)
(* is generic over, its body), what the names of a module mean, and what   *)
(* its imports are called. A body is a tree of the forms that name         *)
(* something; every other form is its parts.                               *)
(***************************************************************************)
EXTENDS Integers, Sequences, FiniteSets, SequencesExt

Name(n) == [kind |-> "name", name |-> n, parts |-> <<>>]
Member(alias, n) == [kind |-> "member", alias |-> alias, name |-> n, parts |-> <<>>]
Spawn(alias) == [kind |-> "spawn", alias |-> alias, parts |-> <<>>]
For(parts) == [kind |-> "for", parts |-> parts]
FnLit(parts) == [kind |-> "fn", parts |-> parts]
Form(parts) == [kind |-> "form", parts |-> parts]

PROTOCOL_NAMES == {"iter", "next"}

(***************************************************************************)
(* Names, and the functions they may stand for.                            *)
(***************************************************************************)
\* The names a body mentions; a field of a value looks like a module's.
RECURSIVE CollectDeps(_)
CollectDeps(e) ==
  UNION {CollectDeps(part) : part \in Range(e.parts)}
  \cup CASE e.kind = "name" -> {Name(e.name)}
         [] e.kind = "member" -> {Name(e.alias), e}
         [] e.kind = "spawn" -> {Name(e.alias), e}
         [] e.kind = "for" -> {Name(n) : n \in PROTOCOL_NAMES}
         [] OTHER -> {}

\* A name of a module is a sequence of overloads, a const bound to some, or
\* nothing.
Global(program, module, name) ==
  LET at == <<module, name>>
  IN IF at \in DOMAIN program.globals THEN Range(program.globals[at]) ELSE {}
Imported(program, module, alias) ==
  LET at == <<module, alias>>
  IN IF at \in DOMAIN program.imports THEN {program.imports[at]} ELSE {}
FunctionsOf(program, module) ==
  UNION {Global(program, module, at[2]) :
           at \in {k \in DOMAIN program.globals : k[1] = module}}

Protocol(program) ==
  UNION {Global(program, at[1], at[2]) :
           at \in {k \in DOMAIN program.globals : k[2] \in PROTOCOL_NAMES}}

Callees(program, module, dep) ==
  CASE dep.kind = "name" -> Global(program, module, dep.name)
    [] dep.kind = "member" ->
         UNION {Global(program, m, dep.name) :
                  m \in Imported(program, module, dep.alias)}
    [] OTHER -> UNION {FunctionsOf(program, m) :
                         m \in Imported(program, module, dep.alias)}

\* With the protocol of the module alone.
DepsInModule(program, id) ==
  LET fn == program.funcs[id]
  IN UNION {Callees(program, fn.module, dep) : dep \in CollectDeps(fn.body)}

Deps(program, id) ==
  LET fn == program.funcs[id]
      names == CollectDeps(fn.body)
  IN UNION {Callees(program, fn.module, dep) : dep \in names}
     \cup IF \E dep \in names : dep.kind = "name" /\ dep.name \in PROTOCOL_NAMES
          THEN Protocol(program) ELSE {}

(***************************************************************************)
(* Tarjan's components: one is emitted after every one it depends on.      *)
(* index is 0 where a vertex has not been met.                             *)
(***************************************************************************)
Min2(a, b) == IF a < b THEN a ELSE b

SeenIndexed(s, v, w) ==
  IF w \in Range(s.stack) THEN [s EXCEPT !.low[v] = Min2(@, s.index[w])] ELSE s

RECURSIVE StrongConnect(_, _, _)
StrongConnect(edges, s0, v) ==
  LET met == [s0 EXCEPT !.index[v] = s0.next, !.low[v] = s0.next,
                        !.next = @ + 1, !.stack = Append(@, v)]
      Edge(s, w) ==
        IF s.index[w] # 0 THEN SeenIndexed(s, v, w)
        ELSE LET below == StrongConnect(edges, s, w)
             IN [below EXCEPT !.low[v] = Min2(@, below.low[w])]
      s == FoldLeft(Edge, met, edges[v])
      at == CHOOSE i \in DOMAIN s.stack : s.stack[i] = v
      group == Reverse(SubSeq(s.stack, at, Len(s.stack)))
  IN IF s.low[v] # s.index[v] THEN s
     ELSE [s EXCEPT !.stack = SubSeq(@, 1, at - 1), !.out = Append(@, group)]

TarjanScc(edges) ==
  LET ids == DOMAIN edges
      s0 == [index |-> [v \in ids |-> 0], low |-> [v \in ids |-> 0],
             next |-> 1, stack |-> <<>>, out |-> <<>>]
      Root(s, v) == IF s.index[v] = 0 THEN StrongConnect(edges, s, v) ELSE s
  IN FoldLeftDomain(Root, s0, edges).out

(***************************************************************************)
(* A group at a time. A use is in a function or in a literal inside it, and*)
(* an overloaded one is a use of each. What a `for` calls are the `iter`   *)
(* and `next` of the module its subject's type is from, whichever it is.   *)
(***************************************************************************)
RECURSIVE UsesIn(_, _, _, _)
UsesIn(program, module, e, in) ==
  LET inside == IF e.kind = "fn" THEN "literal" ELSE in
      called == CASE e.kind = "name" -> Global(program, module, e.name)
                  [] e.kind \in {"member", "spawn"} -> Callees(program, module, e)
                  [] e.kind = "for" -> Protocol(program)
                  [] OTHER -> {}
  IN {[in |-> in, func |-> f] : f \in called}
     \cup UNION {UsesIn(program, module, part, inside) : part \in Range(e.parts)}

\* The arguments a use is recorded with: an instance, or none yet.
FuncType(program, known, f) ==
  IF f \in known THEN [i \in 1 .. program.funcs[f].generic |-> "fresh"] ELSE <<>>

InferFunction(program, known, id) ==
  {[by |-> id, in |-> use.in, func |-> use.func,
    targs |-> FuncType(program, known, use.func)] :
     use \in UsesIn(program, program.funcs[id].module, program.funcs[id].body,
                    "function")}

PatchTargs(program, group, use) ==
  IF use.targs = <<>> /\ use.func \in group
  THEN [use EXCEPT !.targs = [i \in 1 .. program.funcs[use.func].generic |-> "own"]]
  ELSE use

\* s = [known |-> the functions generalised, uses |-> those recorded]
InferGroup(program, s, group) ==
  LET members == Range(group)
      uses == UNION {InferFunction(program, s.known, id) : id \in members}
  IN [known |-> s.known \cup members,
      uses |-> s.uses \cup {PatchTargs(program, members, use) : use \in uses}]

Groups(program) ==
  TarjanScc([id \in DOMAIN program.funcs |-> SetToSeq(Deps(program, id))])

InferAll(program) ==
  FoldLeft(LAMBDA s, group : InferGroup(program, s, group),
           [known |-> {}, uses |-> {}], Groups(program))

(***************************************************************************)
(* What it is for.                                                         *)
(***************************************************************************)
RECURSIVE Reach(_, _)
Reach(program, ids) ==
  LET more == ids \cup UNION {Deps(program, id) : id \in ids}
  IN IF more = ids THEN ids ELSE Reach(program, more)
Below(program, id) == Reach(program, Deps(program, id))

\* Every use of a generic function says at which types; every function is in
\* one group, and shares it only with those it depends on and that depend on
\* it, so that nothing else holds it to one type.
OrderedByUse(program) ==
  LET groups == Groups(program)
      ids == DOMAIN program.funcs
  IN /\ \A use \in InferAll(program).uses :
          Len(use.targs) = program.funcs[use.func].generic
     /\ \A id \in ids : Cardinality({g \in DOMAIN groups : id \in Range(groups[g])}) = 1
     /\ \A g \in DOMAIN groups : \A a, b \in Range(groups[g]) :
          a = b \/ (a \in Below(program, b) /\ b \in Below(program, a))
=============================================================================
