----------------------------- MODULE Constraints -----------------------------
(***************************************************************************)
(* What inference asks of types beyond equality (infer.rs): fitting a      *)
(* value to the type that is wanted of it, by widening and wrapping, each  *)
(* step tried and undone; and the constraints that had to wait for a type, *)
(* solved when the binding group is done: literals take their default,     *)
(* open error sets become the union of what reaches them, and then each    *)
(* constraint is looked at once, in the order they were met.               *)
(*                                                                         *)
(* An error set is a "set" of its members in order, or a variable; an      *)
(* error is an "error" of its set, an error union a "!" of what it holds   *)
(* and its set, an optional a "?".                                         *)
(***************************************************************************)
EXTENDS TypeStore, TLC

\* name -> [up |-> name or "", params |-> names, fields |-> names -> types]
CONSTANTS Structs, Comparable

Base(con) == Con(con, <<>>)
ErrorNames == <<"A", "B", "C">>
ErrSet(members) ==
  LET listed == SelectSeq(ErrorNames, LAMBDA e : e \in members)
  IN Con("set", [i \in DOMAIN listed |-> Base(listed[i])])
Members(set) == {e.con : e \in Range(set.args)}

\* The values each type holds; f64 only some of the larger ones.
Values == [i8 |-> -2 .. 1, u8 |-> 0 .. 3, i64 |-> -8 .. 7, u64 |-> 0 .. 15,
           f64 |-> -4 .. 4 \cup {6, 8, 10, 12, 14}]
Ints == {"i8", "u8", "i64", "u64"}
SignedInts == {"i8", "i64"}
Numbers == Ints \cup {"f64"}
Abstracts == [Number |-> Numbers, Integer |-> Ints]

DefaultIntTy(value) == IF value \in Values["i64"] THEN Base("i64") ELSE Base("u64")

NeedMet(need, con) ==
  CASE need = "number" -> con \in Numbers
    [] need = "integer" -> con \in Ints
    [] need = "signed" -> con \in SignedInts \cup {"f64"}

IsStruct(ty) == ty.con \in DOMAIN Structs

RECURSIVE SubstituteParams(_, _, _)
SubstituteParams(params, args, ty) ==
  IF \E i \in DOMAIN params : params[i] = ty.con
  THEN args[CHOOSE i \in DOMAIN params : params[i] = ty.con]
  ELSE [ty EXCEPT !.args = [i \in DOMAIN @ |-> SubstituteParams(params, args, @[i])]]
FieldType(ty, field) ==
  SubstituteParams(Structs[ty.con].params, ty.args, Structs[ty.con].fields[field])

RECURSIVE IsBelow(_, _)
IsBelow(sub, sup) == sub = sup \/ (Structs[sub].up # "" /\ IsBelow(Structs[sub].up, sup))

IsSubTy(st, a, b) ==
  LET sub == ResolveDeep(st, a)
      sup == ResolveDeep(st, b)
  IN /\ ~IsVar(sub) /\ ~IsVar(sup)
     /\ IF IsStruct(sub) /\ IsStruct(sup)
        THEN IsBelow(sub.con, sup.con) /\ sub.args = sup.args
        ELSE sub = sup

(***************************************************************************)
(* Fitting an expression to a type. An expression has the type it has and  *)
(* may be an integer literal or the name of an error; it comes back as it  *)
(* is, or inside a Some, an Ok or a Raise, with the store and the          *)
(* constraints there are now.                                              *)
(***************************************************************************)
IntLit(value, ty) == [kind |-> "int", value |-> value, ty |-> ty]
ErrLit(error, ty) == [kind |-> "err", error |-> error, ty |-> ty]
Value(ty) == [kind |-> "value", ty |-> ty]
Wrapped(kind, inner, ty) == [kind |-> kind, inner |-> inner, ty |-> ty]

Done(st, cs, expr) == [ok |-> TRUE, st |-> st, cs |-> cs, expr |-> expr]

WantsANumber(st, target) ==
  LET root == Root(st, target) IN ~IsVar(root) /\ root.con \in Numbers

SettleLiteral(st, expr, target) ==
  IF expr.kind = "int" /\ IsVar(Root(st, expr.ty)) /\ ~WantsANumber(st, target)
  THEN Unify(st, expr.ty, DefaultIntTy(expr.value)).st ELSE st

ConOf(ty) == IF IsVar(ty) THEN "" ELSE ty.con

\* Asking that the errors wanted are among those there are.
NarrowerTheOtherWay(st, have, want) ==
  /\ ConOf(have) = "!" /\ ConOf(want) = "!"
  /\ LET h == Root(st, have.args[2])
         w == Root(st, want.args[2])
     IN /\ ~IsVar(h) /\ ~IsVar(w)
        /\ Members(w) \subseteq Members(h)
        /\ TryUnify(st, have.args[1], want.args[1]).ok

\* A smaller set of errors, over a payload of the same type.
Narrower(st, have, want) ==
  /\ ConOf(have) = "!" /\ ConOf(want) = "!"
  /\ LET h == Root(st, have.args[2])
         w == Root(st, want.args[2])
     IN /\ ~IsVar(h) /\ ~IsVar(w)
        /\ Members(h) \subseteq Members(w)
        /\ TryUnify(st, have.args[1], want.args[1]).ok

GiveUp(st, cs, tried, expr) ==
  [ok |-> FALSE, st |-> RollbackTo(tried.st, Snapshot(st)),
   cs |-> SubSeq(tried.cs, 1, Len(cs)), expr |-> tried.expr]

RECURSIVE TryCoerce(_, _, _, _)
TryCoerce(st0, cs, expr, target) ==
  LET st == SettleLiteral(st0, expr, target)
      direct == TryUnify(st, expr.ty, target)
      want == Root(st, target)
      have == Root(st, expr.ty)
      tried == TryCoerce(st, cs, expr, want.args[1])
      Asking(c, fitted) == Done(st, Append(cs, c), fitted)
      Check(set) == [kind |-> "has", ty |-> set, errors |-> {expr.error},
                     widens |-> FALSE]
      Covers(sub, sup) == [kind |-> "subset", ty |-> sub, sup |-> sup]
  IN IF direct.ok THEN Done(direct.st, cs, expr)
     ELSE IF IsSubTy(st, expr.ty, target) THEN Done(st, cs, expr)
     ELSE IF ConOf(want) = "error" /\ expr.kind = "err"
     THEN Asking(Check(want.args[1]), [expr EXCEPT !.ty = want])
     ELSE IF Narrower(st, have, want)
     THEN Done(TryUnify(st, have.args[1], want.args[1]).st, cs, expr)
     ELSE IF ConOf(want) = "!" /\ ConOf(have) = "error"
     THEN Asking(Covers(have.args[1], want.args[2]), Wrapped("Raise", expr, want))
     ELSE IF ConOf(want) \notin {"?", "!"}
     THEN [ok |-> FALSE, st |-> st, cs |-> cs, expr |-> expr]
     ELSE IF tried.ok
     THEN [tried EXCEPT !.expr =
             Wrapped(IF want.con = "?" THEN "Some" ELSE "Ok", @, want)]
     ELSE GiveUp(st, cs, tried, expr)

(***************************************************************************)
(* The constraints.                                                        *)
(***************************************************************************)
\* The abstract type that owns each variable; the tighter of two.
Constrained(st, cs) ==
  LET Owned(owned, c) ==
        LET root == Root(st, c.ty)
        IN IF c.kind # "member" \/ ~IsVar(root) THEN owned
           ELSE IF /\ root.var \in DOMAIN owned
                   /\ Cardinality(Abstracts[owned[root.var]])
                        <= Cardinality(Abstracts[c.id])
                THEN owned
                ELSE (root.var :> c.id) @@ owned
  IN FoldLeft(Owned, <<>>, cs)

DefaultLiterals(st0, cs, owned) ==
  LET Default(st, c) ==
        LET root == Root(st, c.ty)
        IN IF c.kind = "literal" /\ IsVar(root) /\ root.var \notin DOMAIN owned
           THEN Unify(st, c.ty, DefaultIntTy(c.value)).st ELSE st
  IN FoldLeft(Default, st0, cs)

\* What is raised directly into a set, and by which sets it is reached.
Raised(st, cs, v) ==
  UNION ({c.errors : c \in {c \in Range(cs) : /\ c.kind = "has" /\ c.widens
                                              /\ Root(st, c.ty) = Var(v)}}
         \cup {Members(Root(st, c.ty)) :
                 c \in {c \in Range(cs) : /\ c.kind = "subset"
                                          /\ ~IsVar(Root(st, c.ty))
                                          /\ Root(st, c.sup) = Var(v)}})
Edges(st, cs) ==
  {<<Root(st, c.ty).var, Root(st, c.sup).var>> :
     c \in {c \in Range(cs) : /\ c.kind = "subset" /\ IsVar(Root(st, c.ty))
                              /\ IsVar(Root(st, c.sup))}}
\* The sets something is contributed to.
Contributed(st, cs) ==
  {v \in DOMAIN st.slots :
     \E c \in Range(cs) :
       \/ c.kind = "has" /\ c.widens /\ Root(st, c.ty) = Var(v)
       \/ c.kind = "subset" /\ ~IsVar(Root(st, c.ty)) /\ Root(st, c.sup) = Var(v)}

\* Once along each edge, in the order the sets were made.
OnceAlong(edges, union) ==
  [v \in DOMAIN union \cup {e[2] : e \in {e \in edges : e[1] \in DOMAIN union}} |->
     (IF v \in DOMAIN union THEN union[v] ELSE {})
     \cup UNION {union[e[1]] : e \in {e \in edges : e[2] = v /\ e[1] \in DOMAIN union}}]

RECURSIVE ToAFixedPoint(_, _)
ToAFixedPoint(edges, union) ==
  LET next == OnceAlong(edges, union)
  IN IF next = union THEN union ELSE ToAFixedPoint(edges, next)

SolveErrorSets(st0, cs) ==
  LET union == ToAFixedPoint(Edges(st0, cs),
                             [v \in Contributed(st0, cs) |-> Raised(st0, cs, v)])
      Close(st, v) == IF IsVar(Root(st, Var(v)))
                      THEN Unify(st, Var(v), ErrSet(union[v])).st ELSE st
  IN FoldLeft(Close, st0, SetToSeq(DOMAIN union))

\* A struct being looked at answers yes.
RECURSIVE Untransferable(_, _, _)
Untransferable(st, ty, seen) ==
  LET root == Root(st, ty)
  IN CASE IsVar(root) -> FALSE
       [] ~IsVar(root) /\ root.con = "fn" -> TRUE
       [] ~IsVar(root) /\ root.con \in {"?", "!", "array"} ->
            Untransferable(st, root.args[1], seen)
       [] ~IsVar(root) /\ IsStruct(root) ->
            /\ root.con \notin seen
            /\ \E field \in DOMAIN Structs[root.con].fields :
                 Untransferable(st, FieldType(root, field), seen \cup {root.con})
       [] OTHER -> FALSE

IsHeapPointer(root) == root.con \in {"str", "array", "fn"} \/ IsStruct(root)

\* s = [st |-> the store, bad |-> the constraints reported]
Refuse(s, i) == [s EXCEPT !.bad = @ \cup {i}]
Check(s, i, holds) == IF holds THEN s ELSE Refuse(s, i)

SolveNumeric(s, owned, i, c) ==
  LET root == Root(s.st, c.ty)
  IN IF IsVar(root) /\ root.var \in DOMAIN owned
     THEN Check(s, i, \A con \in Abstracts[owned[root.var]] : NeedMet(c.need, con))
     ELSE IF IsVar(root) THEN [s EXCEPT !.st = Unify(@, c.ty, Base("i64")).st]
     ELSE Check(s, i, NeedMet(c.need, root.con))

\* Looking at the default only.
SolveLiteralOnce(s, owned, i, c) ==
  Check(s, i, c.value \in UNION {Values[con] : con \in Numbers})

SolveLiteral(s, owned, i, c) ==
  LET root == Root(s.st, c.ty)
  IN IF IsVar(root)
     THEN Check(s, i, root.var \in DOMAIN owned =>
                        \A con \in Abstracts[owned[root.var]] : c.value \in Values[con])
     ELSE Check(s, i, root.con \in Numbers /\ c.value \in Values[root.con])

\* A field compares unless it reaches an array, a function, an error union or a
\* type not known yet; a struct is looked at once, with every struct below it,
\* and the type arguments go to the one they were written for.
RECURSIVE ConeEquatable(_, _, _), FieldEquatable(_, _, _)
ConeEquatable(st, ty, acc) ==
  LET Member(a, id) ==
        IF ~a.ok \/ id \in a.seen THEN a
        ELSE FoldLeft(LAMBDA b, field :
                        FieldEquatable(st, FieldType(Con(id, IF id = ty.con THEN ty.args
                                                             ELSE <<>>), field), b),
                      [a EXCEPT !.seen = @ \cup {id}],
                      SetToSeq(DOMAIN Structs[id].fields))
  IN FoldLeft(Member, acc,
              SetToSeq({id \in DOMAIN Structs : IsBelow(id, ty.con)}))
FieldEquatable(st, ty, acc) ==
  LET root == Root(st, ty)
  IN CASE ~acc.ok \/ ConOf(root) \in Comparable -> acc
       [] acc.ok /\ ConOf(root) = "?" -> FieldEquatable(st, root.args[1], acc)
       [] acc.ok /\ ConOf(root) \in DOMAIN Structs -> ConeEquatable(st, root, acc)
       [] OTHER -> [acc EXCEPT !.ok = FALSE]
StructEquatable(st, ty) == ConeEquatable(st, ty, [ok |-> TRUE, seen |-> {}]).ok

SolveEquatable(s, owned, i, c) ==
  LET root == Root(s.st, c.ty)
  IN IF IsVar(root) /\ root.var \in DOMAIN owned
     THEN Check(s, i, Abstracts[owned[root.var]] \subseteq Comparable)
     ELSE IF IsVar(root) THEN [s EXCEPT !.st = Unify(@, c.ty, Base("i64")).st]
     ELSE IF IsStruct(root) THEN Check(s, i, StructEquatable(s.st, root))
     ELSE Check(s, i, root.con \in Comparable)

SolveIndexable(s, owned, i, c) ==
  LET root == Root(s.st, c.ty)
  IN IF ~IsVar(root) /\ root.con = "array"
     THEN [s EXCEPT !.st = Unify(@, c.elem, root.args[1]).st]
     ELSE Refuse(s, i)

\* The field's type as it is declared; and whatever comes of it.
SolveHasField(s, owned, i, c) ==
  LET root == Root(s.st, c.ty)
  IN IF ~IsVar(root) /\ IsStruct(root) /\ c.field \in DOMAIN Structs[root.con].fields
     THEN [s EXCEPT !.st = Unify(@, c.result, Structs[root.con].fields[c.field]).st]
     ELSE Refuse(s, i)

SolveMember(s, owned, i, c) ==
  LET root == Root(s.st, c.ty)
  IN Check(s, i, IsVar(root) \/ root.con \in Abstracts[c.id])

SolvePrintable(s, owned, i, c) ==
  LET root == Root(s.st, c.ty)
  IN Check(s, i, IsVar(root) \/ root.con \in Numbers \cup {"str", "bool"})

SolveTransferable(s, owned, i, c) ==
  LET root == Root(s.st, c.ty)
  IN Check(s, i, /\ ~Untransferable(s.st, c.ty, {})
                 /\ c.object => IsVar(root) \/ IsHeapPointer(root))

SolveErrorSetHas(s, owned, i, c) ==
  LET root == Root(s.st, c.ty)
  IN Check(s, i, IsVar(root) \/ c.errors \subseteq Members(root))

SolveErrorSubset(s, owned, i, c) ==
  LET sub == Root(s.st, c.ty)
      sup == Root(s.st, c.sup)
  IN Check(s, i, IsVar(sub) \/ IsVar(sup) \/ Members(sub) \subseteq Members(sup))

SolveOne(s, owned, i, c) ==
  CASE c.kind = "numeric" -> SolveNumeric(s, owned, i, c)
    [] c.kind = "literal" -> SolveLiteral(s, owned, i, c)
    [] c.kind = "equatable" -> SolveEquatable(s, owned, i, c)
    [] c.kind = "indexable" -> SolveIndexable(s, owned, i, c)
    [] c.kind = "field" -> SolveHasField(s, owned, i, c)
    [] c.kind = "member" -> SolveMember(s, owned, i, c)
    [] c.kind = "printable" -> SolvePrintable(s, owned, i, c)
    [] c.kind = "transferable" -> SolveTransferable(s, owned, i, c)
    [] c.kind = "has" -> SolveErrorSetHas(s, owned, i, c)
    [] c.kind = "subset" -> SolveErrorSubset(s, owned, i, c)

\* The first n of the constraints, once literals and error sets are settled.
SolveFirst(st, cs, n) ==
  LET owned == Constrained(st, cs)
      begun == SolveErrorSets(DefaultLiterals(st, cs, owned), cs)
      Next(s, i) == SolveOne(s, owned, i, cs[i])
  IN FoldLeft(Next, [st |-> begun, bad |-> {}], [i \in 1 .. n |-> i])
SolveConstraints(st, cs) == SolveFirst(st, cs, Len(cs))

(***************************************************************************)
(* What a constraint says of types, however it was decided.                *)
(***************************************************************************)
\* Every type met on the way through what a type is made of.
RECURSIVE Met(_, _)
Met(Step(_), types) ==
  LET more == types \cup UNION {Step(ty) : ty \in {t \in types : ~IsVar(t)}}
  IN IF more = types THEN types ELSE Met(Step, more)
FieldsOf(ty) == {FieldType(ty, f) : f \in DOMAIN Structs[ty.con].fields}
\* By parts and fields; and by what a comparison of two values would look at,
\* which may be of any type below.
Parts(ty) ==
  LET Step(t) == IF IsStruct(t) THEN FieldsOf(t)
                 ELSE IF t.con \in {"?", "!", "array"} THEN {t.args[1]} ELSE {}
  IN Met(Step, {ty})
Compared(ty) ==
  LET Below(t) == {t} \cup {Base(s) : s \in {s \in DOMAIN Structs : s # t.con /\ IsBelow(s, t.con)}}
      Step(t) == IF IsStruct(t) THEN UNION {FieldsOf(s) : s \in Below(t)}
                 ELSE IF t.con = "?" THEN {t.args[1]} ELSE {}
  IN Met(Step, {ty})
Compares(ty) ==
  /\ ty.con # "?"
  /\ \A t \in Compared(ty) : ConOf(t) \in {"?"} \cup DOMAIN Structs \cup Comparable

\* What a type may turn out to be.
Possible(owned, ty) ==
  IF ~IsVar(ty) THEN {ty.con}
  ELSE IF ty.var \in DOMAIN owned THEN Abstracts[owned[ty.var]] ELSE {}

IsTrueOf(st, owned, c) ==
  LET ty == ResolveDeep(st, c.ty)
  IN CASE c.kind = "numeric" -> \A con \in Possible(owned, ty) : NeedMet(c.need, con)
       [] c.kind = "literal" -> \A con \in Possible(owned, ty) :
                                  con \in Numbers /\ c.value \in Values[con]
       [] c.kind = "equatable" -> IF IsVar(ty) THEN Possible(owned, ty) \subseteq Comparable
                                  ELSE Compares(ty)
       [] c.kind = "indexable" -> ty = Con("array", <<ResolveDeep(st, c.elem)>>)
       [] c.kind = "field" ->
            /\ ~IsVar(ty) /\ IsStruct(ty)
            /\ c.field \in DOMAIN Structs[ty.con].fields
            /\ ResolveDeep(st, c.result) = FieldType(ty, c.field)
       [] c.kind = "member" -> IsVar(ty) \/ ty.con \in Abstracts[c.id]
       [] c.kind = "printable" -> IsVar(ty) \/ ty.con \in Numbers \cup {"str", "bool"}
       [] c.kind = "transferable" ->
            /\ \A part \in Parts(ty) : ConOf(part) # "fn"
            /\ c.object => IsVar(ty) \/ IsHeapPointer(ty)
       [] c.kind = "has" -> IsVar(ty) \/ c.errors \subseteq Members(ty)
       [] c.kind = "subset" ->
            LET sup == ResolveDeep(st, c.sup)
            IN IsVar(ty) \/ IsVar(sup) \/ Members(ty) \subseteq Members(sup)

\* The errors that reach an open set along the calls that pass them on.
RECURSIVE Reaching(_, _, _)
Reaching(st, cs, vs) ==
  LET more == vs \cup {e[1] : e \in {e \in Edges(st, cs) : e[2] \in vs}}
  IN IF more = vs THEN UNION {Raised(st, cs, v) : v \in vs} ELSE Reaching(st, cs, more)



Found(c) == IF c.kind = "field" THEN c.result ELSE c.elem

\* Looked at when its type was what it ends as.
IsDecided(st, cs, i) ==
  ResolveDeep(SolveFirst(st, cs, i).st, cs[i].ty)
    = ResolveDeep(SolveConstraints(st, cs).st, cs[i].ty)
\* A lookup whose result had been given a type before, or is of a type that is
\* declared in terms of its struct's parameters; and one struct met at two types.
IsPassedOver(st, cs, i) ==
  LET before == SolveFirst(st, cs, i - 1).st
      ty == ResolveDeep(before, cs[i].ty)
      Twice(types) == \E t, u \in types :
                        ConOf(t) \in DOMAIN Structs /\ ConOf(t) = ConOf(u) /\ t # u
  IN CASE cs[i].kind \in {"field", "indexable"} ->
            \/ ~IsVar(Root(before, Found(cs[i])))
            \/ cs[i].kind = "field" /\ ~IsVar(ty) /\ ty.args # <<>>
       [] cs[i].kind = "equatable" -> Twice(Compared(ty))
       [] cs[i].kind = "transferable" -> Twice(Parts(ty))
       [] OTHER -> FALSE

\* Of a type that is decided, what is reported does not hold, and what is not
\* reported holds, unless it is passed over. An error set is exactly what is raised
\* into it; and a parameter held to an abstract type, unless it is what a field
\* holds, is still what callers make it.
SolvedAsStated(st, cs) ==
  LET r == SolveConstraints(st, cs)
      owned == Constrained(st, cs)
      Sets == {Root(st, c.ty) : c \in {c \in Range(cs) : c.kind \in {"has", "subset"}}}
              \cup {Root(st, c.sup) : c \in {c \in Range(cs) : c.kind = "subset"}}
  IN /\ \A i \in DOMAIN cs : IsDecided(st, cs, i) =>
          IF i \in r.bad THEN ~IsTrueOf(r.st, owned, cs[i])
          ELSE IsTrueOf(r.st, owned, cs[i]) \/ IsPassedOver(st, cs, i)
     /\ \A set \in {s \in Sets : IsVar(s)} :
          LET is == ResolveDeep(r.st, set)
          IN IF IsVar(is) THEN Reaching(st, cs, {set.var}) = {}
             ELSE Members(is) = Reaching(st, cs, {set.var})
     /\ \A v \in DOMAIN owned :
          \/ IsVar(ResolveDeep(r.st, Var(v)))
          \/ \E c \in Range(cs) : c.kind \in {"field", "indexable"}
                                   /\ Root(st, Found(c)) = Var(v)

\* Whatever the order, and whatever is looked up.
HoldsInTheEnd(st, cs) ==
  LET r == SolveConstraints(st, cs)
  IN r.bad = {} => \A c \in Range(cs) : IsTrueOf(r.st, Constrained(st, cs), c)

(***************************************************************************)
(* Fitting, said of types: as it is, as a supertype, with more errors, or  *)
(* inside a wrapper.                                                       *)
(***************************************************************************)
RECURSIVE Fits(_, _)
Fits(have, want) ==
  \/ have = want
  \/ IsStruct(have) /\ IsStruct(want) /\ IsBelow(have.con, want.con)
     /\ have.args = want.args
  \/ /\ have.con = "!" /\ want.con = "!" /\ have.args[1] = want.args[1]
     /\ Members(have.args[2]) \subseteq Members(want.args[2])

RECURSIVE Reaches(_, _)
Reaches(have, want) ==
  \/ Fits(have, want)
  \/ have.con = "error" /\ want.con = "!"
  \/ want.con \in {"?", "!"} /\ Reaches(have, want.args[1])

RECURSIVE Typed(_, _)
Typed(st, expr) ==
  LET ty == ResolveDeep(st, expr.ty)
      inner == ResolveDeep(st, expr.inner.ty)
  IN CASE expr.kind \in {"Some", "Ok"} ->
            /\ ty.con = (IF expr.kind = "Some" THEN "?" ELSE "!")
            /\ Fits(inner, ty.args[1]) /\ Typed(st, expr.inner)
       [] expr.kind = "Raise" -> ty.con = "!" /\ inner.con = "error"
       [] expr.kind = "int" -> ty.con \in Numbers
       [] OTHER -> TRUE

\* What comes back has the type that was asked for, made of steps that each
\* fit; it comes back whenever some steps would do; and a failure leaves no
\* trace of what was tried.
CoercedSoundly(st, expr, target) ==
  LET r == TryCoerce(st, <<>>, expr, target)
      settled == SettleLiteral(st, expr, target)
  IN IF r.ok
     THEN Typed(r.st, r.expr) /\ Fits(ResolveDeep(r.st, r.expr.ty), ResolveDeep(r.st, target))
     ELSE /\ r.cs = <<>>
          /\ \A v \in DOMAIN st.slots :
               ResolveDeep(r.st, Var(v)) = ResolveDeep(settled, Var(v))
          /\ expr.kind = "value" /\ VarsOf(ResolveDeep(st, expr.ty)) = {}
             /\ VarsOf(ResolveDeep(st, target)) = {}
             => ~Reaches(ResolveDeep(st, expr.ty), ResolveDeep(st, target))
=============================================================================
