------------------------------ MODULE Equality ------------------------------
(***************************************************************************)
(* Structural equality: which structs `==` accepts (infer.rs), which       *)
(* comparisons are generated for a program (equality.rs), and what the     *)
(* generated functions answer (lower.rs).                                  *)
(*                                                                         *)
(* A program is its structs, and the body its comparisons are written in.  *)
(* A struct has a name, the struct it is below, whether it is generic, and *)
(* the fields it declares; a generic one stands outside the tree.          *)
(***************************************************************************)
EXTENDS Naturals, Sequences, FiniteSets, SequencesExt

CONSTANT EQ_MAX_DEPTH   \* how deep a comparison goes before it gives up

Scalar(name) == [con |-> name, args |-> <<>>]
Param == [con |-> "T", args |-> <<>>]
Optional(ty) == [con |-> "?", args |-> <<ty>>]
Array(ty) == [con |-> "[]", args |-> <<ty>>]
Strukt(id, args) == [con |-> "struct", id |-> id, args |-> args]
IsStruct(ty) == ty.con = "struct"

RECURSIVE AllFields(_, _)
AllFields(structs, id) ==
  IF id = 0 THEN <<>>
  ELSE AllFields(structs, structs[id].up) \o structs[id].fields

RECURSIVE SubstituteParams(_, _)
SubstituteParams(ty, args) ==
  IF ty = Param THEN args[1]
  ELSE [ty EXCEPT !.args = [i \in DOMAIN @ |-> SubstituteParams(@[i], args)]]

FieldTypes(structs, ty) ==
  LET declared == AllFields(structs, ty.id)
  IN [i \in DOMAIN declared |->
        IF structs[ty.id].generic THEN SubstituteParams(declared[i], ty.args)
        ELSE declared[i]]

RECURSIVE IsWithin(_, _, _)
IsWithin(structs, sub, sup) ==
  sub # 0 /\ (sub = sup \/ IsWithin(structs, structs[sub].up, sup))

Cone(structs, id) ==
  SelectSeq([i \in DOMAIN structs |-> i], LAMBDA m : IsWithin(structs, m, id))

(***************************************************************************)
(* What inference accepts: a walk over the cone and its fields, which goes *)
(* into each struct once.                                                  *)
(***************************************************************************)
RECURSIVE FieldEquatable(_, _, _), ConeEquatable(_, _, _, _)
FieldEquatable(structs, walk, ty) ==
  CASE ty.con \in {"i64", "f64", "bool", "str", "error"} -> walk
    [] ty.con = "?" -> FieldEquatable(structs, walk, ty.args[1])
    [] IsStruct(ty) -> ConeEquatable(structs, walk, ty.id, ty.args)
    [] OTHER -> [walk EXCEPT !.bad = TRUE]

ConeEquatable(structs, walk, id, args) ==
  LET Field(acc, ty) == IF acc.bad THEN acc ELSE FieldEquatable(structs, acc, ty)
      Member(acc, member) ==
        IF acc.bad \/ member \in acc.seen THEN acc
        ELSE FoldLeft(Field, [acc EXCEPT !.seen = @ \cup {member}],
                      FieldTypes(structs,
                                 Strukt(member, IF member = id THEN args
                                                ELSE <<>>)))
  IN FoldLeft(Member, walk, Cone(structs, id))

StructEquatable(structs, ty) ==
  ~ConeEquatable(structs, [bad |-> FALSE, seen |-> {}], ty.id, ty.args).bad

(***************************************************************************)
(* What is generated. The comparisons of a body are found by a walk over   *)
(* every expression in it; the plan is closed under the fields and the     *)
(* subtypes of each, and a type is known by how it is shown.               *)
(***************************************************************************)
RECURSIVE CollectExpr(_)
CollectExpr(e) ==
  (IF e.kind \in {"==", "!="} /\ IsStruct(e.ty) THEN <<e.ty>> ELSE <<>>)
  \o FlattenSeq([i \in DOMAIN e.parts |-> CollectExpr(e.parts[i])])

RECURSIVE Show(_, _)
Show(structs, ty) ==
  <<IF IsStruct(ty) THEN structs[ty.id].name ELSE ty.con>>
  \o FlattenSeq([i \in DOMAIN ty.args |-> Show(structs, ty.args[i])])

Shown(structs, plan) == {Show(structs, plan[i]) : i \in DOMAIN plan}
Add(structs, plan, ty) ==
  IF Show(structs, ty) \in Shown(structs, plan) THEN plan ELSE Append(plan, ty)

RECURSIVE Close(_, _, _), CloseField(_, _, _)
CloseField(structs, plan, ty) ==
  CASE ty.con = "?" -> CloseField(structs, plan, ty.args[1])
    [] IsStruct(ty) -> Close(structs, plan, ty)
    [] OTHER -> plan

Close(structs, plan, ty) ==
  LET cone == IF ty.args = <<>> THEN Cone(structs, ty.id) ELSE <<ty.id>>
      Member(acc, m) ==
        LET member == IF m = ty.id THEN ty ELSE Strukt(m, <<>>)
        IN FoldLeft(LAMBDA p, field : CloseField(structs, p, field),
                    Add(structs, acc, member), FieldTypes(structs, member))
  IN IF Show(structs, ty) \in Shown(structs, plan) THEN plan
     ELSE FoldLeft(Member, Append(plan, ty), cone)

Plan(structs, body) ==
  FoldLeft(LAMBDA plan, ty : Close(structs, plan, ty), <<>>, CollectExpr(body))

(***************************************************************************)
(* What the generated functions answer: "yes", "no", "deep" where they     *)
(* panic past the limit, "missing" where one was never generated. A value  *)
(* is one word, a scalar or an object's place in the heap (0 is null); an  *)
(* optional is at most one. An object has the type it was made at and the  *)
(* words of each field.                                                    *)
(***************************************************************************)
TypeId(structs, ty) == IF ty.args = <<>> THEN <<ty.id>> ELSE Show(structs, ty)

EqualityCone(structs, ty) ==
  IF ty.args # <<>> THEN <<ty>>
  ELSE LET below == SelectSeq(Cone(structs, ty.id),
                              LAMBDA m : m # ty.id /\ ~structs[m].generic)
       IN Append([i \in DOMAIN below |-> Strukt(below[i], <<>>)], ty)

EqualityFns(structs, plan, ty) ==
  LET known == SelectSeq(plan, LAMBDA p : Show(structs, p) = Show(structs, ty))
  IN IF known = <<>> THEN [kind |-> "none"] ELSE [kind |-> "fns", ty |-> known[1]]

Truth(b) == IF b THEN "yes" ELSE "no"
NaN == <<0>>
SameScalar(ty, a, b) == a = b /\ (ty.con = "f64" => a # NaN)

\* Two references to one object as equal, whatever it holds.
SameObject(a, b) == a = b

BothNull(a, b) == a = 0 /\ b = 0

RECURSIVE DispatchEquality(_, _, _, _, _, _, _)
RECURSIVE ExactEquality(_, _, _, _, _, _, _), SlotsEqual(_, _, _, _, _, _, _)
DispatchEquality(structs, plan, heap, ty, a, b, depth) ==
  LET fns == EqualityFns(structs, plan, ty)
      id == TypeId(structs, heap[a].ty)
      cone == EqualityCone(structs, fns.ty)
      hits == SelectSeq(cone, LAMBDA m : TypeId(structs, m) = id)
  IN CASE fns.kind = "none" -> "missing"
       [] BothNull(a, b) -> "yes"
       [] a = 0 \/ b = 0 \/ id # TypeId(structs, heap[b].ty) -> "no"
       [] OTHER -> ExactEquality(structs, plan, heap,
                                 IF hits = <<>> THEN Last(cone) ELSE hits[1],
                                 a, b, depth)

ExactEquality(structs, plan, heap, ty, a, b, depth) ==
  LET fns == EqualityFns(structs, plan, ty)
      types == FieldTypes(structs, fns.ty)
      Field(answer, i) ==
        IF answer # "yes" THEN answer
        ELSE SlotsEqual(structs, plan, heap, types[i],
                        heap[a].fields[i], heap[b].fields[i], depth)
  IN CASE fns.kind = "none" -> "missing"
       [] depth >= EQ_MAX_DEPTH -> "deep"
       [] OTHER -> FoldLeft(Field, "yes", [i \in DOMAIN types |-> i])

SlotsEqual(structs, plan, heap, ty, a, b, depth) ==
  CASE ty.con = "?" ->
         IF Len(a) = Len(b) /\ a # <<>>
         THEN SlotsEqual(structs, plan, heap, ty.args[1], a, b, depth)
         ELSE Truth(Len(a) = Len(b))
    [] IsStruct(ty) ->
         DispatchEquality(structs, plan, heap, ty, a[1], b[1], depth + 1)
    [] OTHER -> Truth(SameScalar(ty, a, b))

(***************************************************************************)
(* What `==` means: two objects are equal when they are of one type and    *)
(* nothing reached along the same fields of both tells them apart. Round n *)
(* of Alike holds the pairs that nothing n fields away does.               *)
(***************************************************************************)
RECURSIVE ValuesAlike(_, _, _, _)
ValuesAlike(alike, ty, a, b) ==
  CASE ty.con = "?" -> Len(a) = Len(b)
                       /\ (a # <<>> => ValuesAlike(alike, ty.args[1], a, b))
    [] IsStruct(ty) -> <<a[1], b[1]>> \in alike
    [] OTHER -> SameScalar(ty, a, b)

RECURSIVE Alike(_, _, _)
Alike(structs, heap, n) ==
  LET before == Alike(structs, heap, n - 1)
      types(a) == FieldTypes(structs, heap[a].ty)
  IN IF n = 0 THEN (DOMAIN heap) \X (DOMAIN heap)
     ELSE {p \in before :
             /\ heap[p[1]].ty = heap[p[2]].ty
             /\ \A i \in DOMAIN types(p[1]) :
                  ValuesAlike(before, types(p[1])[i], heap[p[1]].fields[i],
                              heap[p[2]].fields[i])}

\* The objects an object's fields hold.
HeldBy(structs, heap, a) ==
  LET types == FieldTypes(structs, heap[a].ty)
      Held(ty, v) == CASE IsStruct(ty) -> Range(v)
                       [] ty.con = "?" /\ IsStruct(ty.args[1]) -> Range(v)
                       [] OTHER -> {}
  IN UNION {Held(types[i], heap[a].fields[i]) : i \in DOMAIN types}

RECURSIVE Within(_, _, _, _)
Within(structs, heap, from, n) ==
  IF n = 0 THEN {}
  ELSE LET held == UNION {HeldBy(structs, heap, a) : a \in from}
       IN held \cup Within(structs, heap, held, n - 1)

OnACycle(structs, heap, a) ==
  \E b \in {a} \cup Within(structs, heap, {a}, Len(heap)) :
    b \in Within(structs, heap, {b}, Len(heap))

RECURSIVE Comparable(_)
Comparable(ty) == CASE ty.con = "?" -> Comparable(ty.args[1])
                    [] OTHER -> ty.con # "[]"

(***************************************************************************)
(* A comparison inference accepted compares values, never the place an     *)
(* array lives; it finds every function it needs; and it answers what `==` *)
(* means, or gives up, which it does only on a value that reaches itself.  *)
(***************************************************************************)
EqualityIsStructural(structs, body, heap) ==
  LET roots == CollectExpr(body)
      plan == Plan(structs, body)
      alike == Alike(structs, heap, Len(heap) * Len(heap) + 1)
      At(ty) == {a \in DOMAIN heap :
                   IF ty.args = <<>> THEN IsWithin(structs, heap[a].ty.id, ty.id)
                   ELSE heap[a].ty = ty}
  IN (\A i \in DOMAIN roots : StructEquatable(structs, roots[i])) =>
       /\ \A i \in DOMAIN plan :
            \A ty \in Range(FieldTypes(structs, plan[i])) : Comparable(ty)
       /\ \A i \in DOMAIN roots : \A a, b \in At(roots[i]) :
            LET answer == DispatchEquality(structs, plan, heap, roots[i], a, b, 0)
            IN IF answer = "deep"
               THEN OnACycle(structs, heap, a) /\ OnACycle(structs, heap, b)
               ELSE answer = Truth(<<a, b>> \in alike)
=============================================================================
