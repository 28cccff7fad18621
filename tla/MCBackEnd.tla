------------------------------ MODULE MCBackEnd ------------------------------
(***************************************************************************)
(* What the passes behind inference are given: bodies of statements, each  *)
(* form inside another, and functions inside functions.                    *)
(***************************************************************************)
EXTENDS Lowering

CL == INSTANCE Closures

X == <<"x", 0>>
Y == <<"y", 0>>
V == <<"v", 0>>
I == <<"i", 0>>
A == <<"a", 0>>
Z == <<"z", 0>>
Names == {X, Y, V, I, A, Z}
x == Local(X)
Break == [k |-> "break"]
Continue == [k |-> "continue"]
Do(e) == [k |-> "expr", e |-> e]
Return(e) == [k |-> "return", e |-> e]
BlockOf(stmts, value) == [k |-> "block", stmts |-> stmts, value |-> value]
Orelse(e, alt) == [k |-> "orelse", e |-> e, alt |-> alt]
Catch(e, cap, alt) == [k |-> "catch", e |-> e, cap |-> cap, alt |-> alt]
Of(k, e) == [k |-> k, e |-> e]
If(cond, cap, then, els) ==
  [k |-> "if", cond |-> cond, cap |-> cap, then |-> then, els |-> els]
Say(e) == Call("say", e)
More == Call("more", Lit(0))
Find(e) == Call("find", e)
May(e) == Call("may", e)

\* What a function that returns so many words returns.
ReturnIn(ret) == Return(IF ret < 2 THEN None ELSE x)
AltsIn(ret) ==
  {Say(Lit(6)), BlockOf(<<Assign(x, Lit(1)), Do(Say(x))>>, Lit(2))}
  \cup {BlockOf(<<s>>, None) : s \in {ReturnIn(ret), Break, Continue}}
  \cup {BlockOf(<<If(More, None, <<Break>>, <<ReturnIn(ret)>>)>>, None)}
\* With something after a jump, and leaving a loop from where it cannot be left.
AfterAJumpIn(ret) ==
  {BlockOf(<<ReturnIn(ret), Assign(x, Lit(1))>>, None), BlockOf(<<ReturnIn(ret)>>, Lit(2))}

ExprsIn(ret) ==
  {Orelse(Find(x), alt) : alt \in AltsIn(ret)}
  \cup {Catch(May(x), Local(V), alt) : alt \in AltsIn(ret) \cup {Local(V)}}
  \cup {Op(op, More, Orelse(Find(x), Say(Lit(1)))) : op \in {"and", "or", "+", "<"}}
  \cup {Op("+", x, BlockOf(<<Assign(x, Lit(1))>>, Lit(1)))}
  \cup {If(Find(x), Local(V), Say(Local(V)), Say(Lit(7))), If(More, None, Lit(1), x)}
  \cup {Of("try", May(x)), Of("unwrap", Find(x)), Index(Local(A), x), Index(Local(Z), Lit(0)),
        Index(Local(A), Op("+", x, Lit(-1)))}

\* Changing the variables of the place while the value is computed.
Moving == BlockOf(<<Assign(x, Lit(1)), Assign(Local(A), Lit(2))>>, Lit(5))
PlacesOf == {Index(Local(A), x), Index(Say(Local(A)), Say(x))}
StmtsIn(ret) ==
  {Do(e) : e \in ExprsIn(ret)}
  \cup {Update(p, "+", e) : p \in PlacesOf \cup {x}, e \in {Moving, Say(Lit(1))}}
  \cup {Assign(p, Moving) : p \in PlacesOf}
  \cup {If(More, None, <<s>>, <<Do(Say(Lit(3)))>>) : s \in {Break, Continue, ReturnIn(ret)}}
  \cup {If(Find(x), Local(V), <<Assign(x, Local(V)), Break>>, <<>>),
        If(More, None, <<Continue>>, <<Break>>)}
LoopsOf(ret, body) ==
  {While(More, None, <<Update(x, "+", Lit(1))>>, body),
   While(Call("next", Lit(0)), Local(V), <<Do(Say(Local(V)))>>, body),
   [k |-> "for", x |-> V, i |-> I, e |-> Local(A), body |-> body],
   [k |-> "for", x |-> V, i |-> I, e |-> Local(Z), body |-> body],
   [k |-> "walk", x |-> V, i |-> I, e |-> x, body |-> body]}
LeftFromWithin ==
  {While(More, None, <<Do(Orelse(Find(x), BlockOf(<<Break>>, None)))>>, <<Do(Say(x))>>),
   While(More, None, <<>>, <<Let(V, [k |-> "fn", body |-> <<Break>>])>>),
   While(More, None, <<>>, <<While(More, None, <<Break>>, <<>>)>>)}

Ends(ret) == {<<ReturnIn(ret)>>, <<Return(Of("err", 0) @@ [n |-> 1])>>}
             \cup IF ret = 0 THEN {<<>>} ELSE {}
Bodies(ret) ==
  {<<s>> \o end : s \in StmtsIn(ret), end \in Ends(ret)}
  \cup UNION {{<<loop, ReturnIn(ret)>> : loop \in LoopsOf(ret, <<s, t>>)} :
                s \in StmtsIn(ret),
                t \in {Do(Say(Local(V))), If(More, None, <<Break>>, <<>>),
                       Nest(<<While(More, None, <<>>, <<Break>>)>>)}}
  \cup {<<Do(Orelse(Find(x), alt)), ReturnIn(ret)>> : alt \in AfterAJumpIn(ret)}
  \cup {<<loop, ReturnIn(ret)>> : loop \in LeftFromWithin}
Funcs ==
  UNION {{[ret |-> ret, body |-> body, heap |-> <<<<3, 4>>, <<8, 9>>>>,
           env |-> [name \in Names |-> Num(IF name = A THEN 1 ELSE 0)]] :
            body \in Bodies(ret)} : ret \in 1 .. 3}

\* A function that may use what is around it, call itself, hide a name or hold
\* another function; one more that calls it; and names changed in between.
Aa == CL!Var("a")
Bb == CL!Var("b")
Xx == CL!Var("x")
Ff(arg) == CL!Call(CL!Var("f"), <<arg>>)
Give(e) == <<CL!Return(e)>>
Inner(mutable, generic, body, e) ==
  <<CL!Let("y", mutable, CL!Lit(<<"b">>, generic, body))>> \o Give(e)
CallY(arg) == CL!Call(CL!Var("y"), <<arg>>)
LitBodies ==
  {Give(Aa), Give(CL!Sum(Aa, Xx)),
   Give(CL!IfPositive(Aa, CL!Sum(Ff(CL!Sum(Aa, CL!Num(0 - 1))), Xx), Xx)),
   <<CL!Assign("x", Aa)>> \o Give(Xx)}
  \cup {Inner(FALSE, g, Give(CL!Sum(CL!Sum(Aa, Bb), Xx)), CL!Sum(CallY(Xx), Xx)) : g \in BOOLEAN}
  \cup {Inner(FALSE, g, Give(CL!IfPositive(Bb, Ff(CL!Sum(Aa, CL!Num(0 - 3))), Xx)), CallY(Aa)) :
          g \in BOOLEAN}
  \cup {<<CL!Let("y", m, CL!Lit(<<"b">>, g, Give(CL!Sum(Xx, Bb)))),
          CL!Let("x", FALSE, CL!Sum(Aa, CL!Num(10)))>> \o Give(CL!Sum(CallY(Xx), Xx)) :
          m \in BOOLEAN, g \in BOOLEAN}
Between ==
  {<<>>, <<CL!Assign("x", CL!Num(5))>>,
   <<CL!Block(<<CL!Let("x", TRUE, CL!Num(7)), CL!Assign("x", CL!Sum(Xx, Ff(Xx)))>>)>>,
   <<CL!Block(<<CL!Let("f", FALSE, CL!Lit(<<"b">>, TRUE, Give(CL!Sum(Bb, Xx)))),
                CL!Assign("x", Ff(CL!Num(4)))>>)>>,
   <<CL!Let("x", FALSE, CL!Num(8))>>}
Second ==
  {CL!Var("f"), CL!Var("h"), CL!Var("k"), CL!Lit(<<"b">>, FALSE, Give(Ff(CL!Sum(Bb, Xx))))}
  \cup {CL!Lit(<<"b">>, g, Inner(FALSE, g, Give(CL!Sum(Ff(Bb), Xx)), CallY(Bb))) : g \in BOOLEAN}
Nested ==
  {[globals |-> [h |-> <<CL!Lit(<<"a">>, FALSE, Give(CL!Sum(Aa, CL!Num(100)))),
                         CL!Lit(<<"a", "b">>, FALSE, Give(Bb))>>,
                 k |-> <<CL!Lit(<<"a">>, FALSE, Give(Aa))>>],
    main |-> <<CL!Let("x", TRUE, CL!Num(1)), CL!Let("f", m, CL!Lit(<<"a">>, g, body))>>
             \o between
             \o <<CL!Let("g", FALSE, second)>>
             \o Give(CL!Sum(CL!Call(CL!Var("g"), <<CL!Num(2)>>),
                            CL!Sum(Ff(CL!Num(3)), Xx)))] :
     m \in BOOLEAN, g \in BOOLEAN, body \in LitBodies, between \in Between,
     second \in Second}
==============================================================================
