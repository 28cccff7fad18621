------------------------------ MODULE Dispatch ------------------------------
(***************************************************************************)
(* A call to an overloaded name (infer.rs): which overloads could apply to *)
(* the arguments, in which order they are tried, whether two of them are   *)
(* ambiguous, what an argument with no type yet is pinned to, and the      *)
(* tests the generated code makes of the values (lower.rs).                *)
(*                                                                         *)
(* A type is a struct of the tree (its id), a scalar, an abstract type     *)
(* that is a set of scalars, or Open, an argument no type is known of. An  *)
(* overload is the sequence of its declared parameter types; its FuncId is *)
(* its place in the set.                                                   *)
(***************************************************************************)
EXTENDS StructTree

Scalar(name) == [kind |-> "scalar", name |-> name]
Struct(id) == [kind |-> "struct", id |-> id]
Abstract(name) == [kind |-> "abstract", name |-> name]
Open == [kind |-> "open"]

AbstractMembers == [Number |-> {"i64", "u8", "f64"}, Integer |-> {"i64", "u8"}]

\* No test is needed; the value must be of this struct; it never applies.
Always == [kind |-> "always"]
Never == [kind |-> "never"]
IfStruct(id) == [kind |-> "if", id |-> id]

IsSubTy(parent, sub, sup) ==
  CASE sub.kind = "struct" /\ sup.kind = "struct" ->
         IsSubtype(parent, sub.id, sup.id)
    [] sub.kind = "abstract" /\ sup.kind = "abstract" ->
         AbstractMembers[sub.name] \subseteq AbstractMembers[sup.name]
    [] sub.kind = "scalar" /\ sup.kind = "abstract" ->
         sub.name \in AbstractMembers[sup.name]
    [] OTHER -> sub = sup

\* Without the part of a cone that is a subtype of the argument's type.
OverlapWhole(parent, arg, decl) ==
  IF IsSubTy(parent, arg, decl) THEN Always ELSE Never

Overlap(parent, arg, decl) ==
  CASE decl.kind = "abstract" ->
         IF IsSubTy(parent, arg, decl) THEN Always ELSE Never
    [] arg = Open \/ IsSubTy(parent, arg, decl) -> Always
    [] arg.kind = "struct" /\ decl.kind = "struct" ->
         IF IsSubtype(parent, decl.id, arg.id) THEN IfStruct(decl.id) ELSE Never
    [] OTHER -> Never

Tests(parent, args, params) ==
  [i \in DOMAIN args |-> Overlap(parent, args[i], params[i])]

Candidates(parent, set, args) ==
  SelectSeq([id \in DOMAIN set |-> id],
            LAMBDA id : /\ Len(set[id]) = Len(args)
                        /\ \A i \in DOMAIN args :
                             Tests(parent, args, set[id])[i] # Never)

AtLeastAsSpecific(parent, a, b) ==
  \A i \in DOMAIN a : IsSubTy(parent, a[i], b[i])

Before(parent, set, a, b) ==
  LET ab == AtLeastAsSpecific(parent, set[a], set[b])
      ba == AtLeastAsSpecific(parent, set[b], set[a])
  IN IF ab # ba THEN ab ELSE a < b

\* The sort puts each where the one before it is not after it.
Insert(parent, set, sorted, id) ==
  LET stays == {i \in DOMAIN sorted : ~Before(parent, set, id, sorted[i])}
      at == IF stays = {} THEN 0 ELSE CHOOSE i \in stays : \A j \in stays : j <= i
  IN SubSeq(sorted, 1, at) \o <<id>> \o SubSeq(sorted, at + 1, Len(sorted))

SortCandidates(parent, set, cands) ==
  FoldLeft(LAMBDA sorted, id : Insert(parent, set, sorted, id), <<>>, cands)

\* What both accept, or nothing if no value is accepted by both.
HaveMeet(parent, a, b) ==
  \A i \in DOMAIN a : IsSubTy(parent, a[i], b[i]) \/ IsSubTy(parent, b[i], a[i])
Meet(parent, a, b) ==
  [i \in DOMAIN a |-> IF IsSubTy(parent, a[i], b[i]) THEN a[i] ELSE b[i]]

IsResolvedByAThird(parent, set, cands, a, b) ==
  \E c \in Range(cands) \ {a, b} :
    /\ AtLeastAsSpecific(parent, set[c], set[a])
    /\ AtLeastAsSpecific(parent, set[c], set[b])
    /\ AtLeastAsSpecific(parent, Meet(parent, set[a], set[b]), set[c])

Ambiguous(parent, set, cands) ==
  \E a, b \in Range(cands) :
    /\ a # b
    /\ ~AtLeastAsSpecific(parent, set[a], set[b])
    /\ ~AtLeastAsSpecific(parent, set[b], set[a])
    /\ HaveMeet(parent, set[a], set[b])
    /\ ~IsResolvedByAThird(parent, set, cands, a, b)

\* The parameter every candidate's is below, at a position.
JoinAt(parent, set, cands, i) ==
  LET Wider(w, c) == IF IsSubTy(parent, w, set[c][i]) THEN set[c][i] ELSE w
      widest == FoldLeft(Wider, set[cands[1]][i], Tail(cands))
  IN IF \A c \in Range(cands) : IsSubTy(parent, set[c][i], widest)
     THEN widest ELSE Open

Settled(parent, set, cands, args) ==
  [i \in DOMAIN args |->
     IF args[i] = Open THEN JoinAt(parent, set, cands, i) ELSE args[i]]

(***************************************************************************)
(* The call: refused, or to one function, or a table of cases. The tests   *)
(* are those of the arguments as they are settled.                         *)
(***************************************************************************)
Refused == [kind |-> "refused"]

\* Two that declare the same parameters are one declared twice.
CheckOverloads(set) == \A a, b \in DOMAIN set : set[a] = set[b] => a = b

DispatchedCall(parent, set, args) ==
  LET cands == SortCandidates(parent, set, Candidates(parent, set, args))
      settled == Settled(parent, set, cands, args)
      Case(id) == LET tests == Tests(parent, settled, set[id])
                  IN [func |-> id,
                      params |-> IF Never \in Range(tests)
                                 THEN Tests(parent, args, set[id]) ELSE tests]
  IN IF cands = <<>> \/ ~CheckOverloads(set) \/ Ambiguous(parent, set, cands)
     THEN Refused
     ELSE LET cases == [i \in DOMAIN cands |-> Case(cands[i])]
          IN IF Range(cases[1].params) \subseteq {Always}
             THEN [kind |-> "static", func |-> cases[1].func, args |-> settled]
             ELSE [kind |-> "dynamic", cases |-> cases, args |-> settled]

\* What runs for these values: the first case whose tests they pass.
NoMethod == 0
Dispatched(numbers, call, values) ==
  IF call.kind = "static" THEN call.func
  ELSE LET Passes(c) ==
             \A i \in DOMAIN values :
               c.params[i].kind = "if" =>
                 CaseMatches(numbers, numbers.tid[values[i].id], c.params[i].id)
           hits == {i \in DOMAIN call.cases : Passes(call.cases[i])}
       IN IF hits = {} THEN NoMethod
          ELSE call.cases[CHOOSE i \in hits : \A j \in hits : i <= j].func

(***************************************************************************)
(* The values a call can meet: of a struct, any below it.                  *)
(***************************************************************************)
ValuesOf(parent, ty) ==
  CASE ty.kind = "struct" -> {Struct(s) : s \in {i \in DOMAIN parent :
                                                   IsSubtype(parent, i, ty.id)}}
    [] ty.kind = "abstract" -> {Scalar(n) : n \in AbstractMembers[ty.name]}
    [] OTHER -> {ty}

Applies(parent, params, values) ==
  /\ Len(params) = Len(values)
  /\ \A i \in DOMAIN values : IsSubTy(parent, values[i], params[i])

Calls(parent, args) ==
  IF Len(args) = 1 THEN {<<v>> : v \in ValuesOf(parent, args[1])}
  ELSE {<<v, w>> : v \in ValuesOf(parent, args[1]),
                   w \in ValuesOf(parent, args[2])}

\* compare_specificity orders the candidates, as sorting by it needs.
IsAnOrder(parent, set, cands) ==
  \A a, b, c \in Range(cands) :
    Before(parent, set, a, b) /\ Before(parent, set, b, c) => Before(parent, set, a, c)

(***************************************************************************)
(* A call that is accepted runs, for whatever values its arguments may     *)
(* have, an overload that applies to them, and says there is no method     *)
(* only if there is none. Of those that apply it runs the one that is at   *)
(* least as specific as every other: that is asked where `ordered` holds.  *)
(***************************************************************************)
RunsWhatApplies(decls, set, args, ordered(_, _)) ==
  LET parent == BreakParentCycles(ResolveStructParents(decls).parent)
      numbers == NumberStructs(parent)
      call == DispatchedCall(parent, set, args)
  IN call # Refused =>
       \A values \in Calls(parent, call.args) :
         LET able == {id \in DOMAIN set : Applies(parent, set[id], values)}
             ran == Dispatched(numbers, call, values)
         IN IF able = {} THEN ran = NoMethod
            ELSE /\ ran \in able
                 /\ ordered(parent, Candidates(parent, set, args)) =>
                      \A id \in able : AtLeastAsSpecific(parent, set[ran], set[id])
=============================================================================
