------------------------------ MODULE MCTypes -------------------------------
(***************************************************************************)
(* What inference is given of Constraints: pairs of a value and a type it  *)
(* is to fit, and lists of constraints over a few variables.               *)
(***************************************************************************)
EXTENDS Constraints

Of(con, ty) == Con(con, <<ty>>)
Union(ty, set) == Con("!", <<ty, set>>)
Fn == Base("fn")

\* Four variables, the first ones bound to these.
StoreOf(types) ==
  LET Step(st, i) == IF types[i] = Var(i) THEN st
                     ELSE TryUnify(st, Var(i), types[i]).st
  IN FoldLeft(Step, Fresh(Fresh(Fresh(Fresh(New)))), [i \in DOMAIN types |-> i])

Numeric(v, need) == [kind |-> "numeric", ty |-> Var(v), need |-> need]
Literal(v, value) == [kind |-> "literal", ty |-> Var(v), value |-> value]
OfKind(k, v) == [kind |-> k, ty |-> Var(v)]
MemberOf(v, id) == [kind |-> "member", ty |-> Var(v), id |-> id]
Sent(v, object) == [kind |-> "transferable", ty |-> Var(v), object |-> object]
Field(v, field, w) ==
  [kind |-> "field", ty |-> Var(v), field |-> field, result |-> Var(w)]
Indexed(v, w) == [kind |-> "indexable", ty |-> Var(v), elem |-> Var(w)]
Has(set, errors, widens) ==
  [kind |-> "has", ty |-> set, errors |-> errors, widens |-> widens]
Subset(sub, sup) == [kind |-> "subset", ty |-> sub, sup |-> sup]

Asked1(v) ==
  {Numeric(v, need) : need \in {"number", "integer", "signed"}}
  \cup {Literal(v, value) : value \in {3, 9}}
  \cup {OfKind(k, v) : k \in {"equatable", "printable"}}
  \cup {MemberOf(v, id) : id \in {"Number", "Integer"}}
  \cup {Sent(v, object) : object \in BOOLEAN}
Looked == {Field(1, "x", 2), Field(1, "items", 2), Field(1, "go", 2), Indexed(1, 2)}
Given1 == {Var(1), Base("i8"), Base("f64"), Base("str"), Of("error", ErrSet({"A"})),
           Of("array", Base("f64")), Of("?", Base("i8")),
           Base("Point"), Base("Act"), Base("Shade"), Base("Tag"),
           Of("Box", Base("u8")), Of("Box", Base("Act")),
           Of("Box", Of("Box", Base("f64"))), Of("Box", Of("Box", Fn))}
\* The lookup before, between and after what is asked of its result.
InAnyOrder(look, c, d) == {<<look, c, d>>, <<c, look, d>>, <<c, d, look>>}
Lists ==
  {[types |-> <<ty>>, cs |-> <<c, d>>] :
     ty \in Given1, c \in Asked1(1), d \in Asked1(1)}
  \cup {[types |-> <<Var(1)>>, cs |-> <<c, d, e>>] :
          c \in Asked1(1), d \in Asked1(1), e \in Asked1(1)}
  \cup UNION {{[types |-> <<ty>>, cs |-> cs] : cs \in InAnyOrder(look, c, d)} :
                ty \in Given1, look \in Looked, c \in Asked1(2), d \in Asked1(2)}
  \cup {[types |-> <<ty, of>>, cs |-> <<look, c>>] :
          ty \in Given1, of \in {Var(2), Base("i64"), Of("Box", Var(3))},
          look \in Looked, c \in Asked1(2)}

OpenSets == {Var(v) : v \in 1 .. 3}
Raising ==
  {Has(set, {e}, TRUE) : set \in OpenSets, e \in {"A", "B"}}
  \cup {Has(set, {"A"}, FALSE) : set \in OpenSets}
  \cup {Subset(a, b) : a \in OpenSets, b \in OpenSets}
  \cup {Subset(ErrSet({"A", "C"}), Var(1)), Subset(Var(2), ErrSet({"A"}))}
ErrorLists ==
  {[types |-> <<>>, cs |-> cs] :
     cs \in {<<c, d, e>> : c \in Raising, d \in Raising, e \in Raising}}

Errors == {ErrSet({"A"}), ErrSet({"A", "B"})}
Bases == {Base("i64"), Base("u8"), Base("str"), Base("Point"), Base("Sub"), Var(1)}
         \cup {Of("error", set) : set \in Errors}
Wrap(types) == {Of("?", ty) : ty \in types}
               \cup {Union(ty, set) : ty \in types, set \in Errors \cup {Var(2)}}
Targets == Bases \cup Wrap(Bases) \cup Wrap(Wrap(Bases \ Errors))
Exprs == {Value(ty) : ty \in Bases \cup Wrap(Bases)}
         \cup {IntLit(value, Var(3)) : value \in {1, 9}}
         \cup {ErrLit("A", Union(Var(3), Var(4)))}
Coercions == {[expr |-> expr, target |-> target] : expr \in Exprs, target \in Targets}
=============================================================================
