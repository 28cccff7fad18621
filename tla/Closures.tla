------------------------------ MODULE Closures ------------------------------
(***************************************************************************)
(* Function literals: what a name in one is bound to, and the captures     *)
(* that takes (infer.rs: frames, scopes, lookup_at, definitions); then the *)
(* closures that hold them and the prologue that reads them back           *)
(* (lower.rs). Values are integers and functions; what a literal's type    *)
(* would say is part of it: whether it generalises.                        *)
(*                                                                         *)
(* A program is what its top-level names are (sequences of literals, an    *)
(* overload set when there are two) and the body of its main function.     *)
(***************************************************************************)
EXTENDS Integers, Sequences, FiniteSets, SequencesExt, TLC

Num(v) == [kind |-> "num", value |-> v]
Var(n) == [kind |-> "var", name |-> n]
Sum(a, b) == [kind |-> "sum", left |-> a, right |-> b]
IfPositive(c, a, b) == [kind |-> "if", cond |-> c, left |-> a, right |-> b]
Call(f, args) == [kind |-> "call", callee |-> f, args |-> args]
Lit(params, generic, body) ==
  [kind |-> "fn", params |-> params, generic |-> generic, body |-> body]
Let(n, mutable, init) == [kind |-> "let", name |-> n, mutable |-> mutable, init |-> init]
Assign(n, e) == [kind |-> "assign", name |-> n, value |-> e]
Return(e) == [kind |-> "return", value |-> e]
Block(stmts) == [kind |-> "block", stmts |-> stmts]

(***************************************************************************)
(* Frames: one for each literal being inferred, the innermost last.        *)
(***************************************************************************)
Local(id) == [kind |-> "Local", id |-> id]
Overloads(ids) == [kind |-> "Overloads", ids |-> ids]
Definition(func, captures) ==
  [kind |-> "Definition", func |-> func, captures |-> captures]
Unbound == [kind |-> "none"]

NewFrame == [locals |-> <<>>, params |-> <<>>, captures |-> <<>>, sources |-> <<>>,
             captured |-> <<>>, scopes |-> <<<<>>>>, selfLocal |-> 0, selfUsed |-> FALSE]

\* The latest binding of a name in the innermost scope that has one.
FindIn(frame, name) ==
  LET all == SelectSeq(FlattenSeq(frame.scopes), LAMBDA b : b[1] = name)
  IN IF all = <<>> THEN Unbound ELSE Last(all)[2]

AddLocal(frame, name, mutable) ==
  [frame EXCEPT !.locals = Append(@, [name |-> name, mutable |-> mutable])]
Bind(frame, name, binding) ==
  [frame EXCEPT !.scopes[Len(frame.scopes)] = Append(@, <<name, binding>>)]
BindLocal(frame, name, mutable) ==
  LET added == AddLocal(frame, name, mutable)
  IN Bind(added, name, Local(Len(added.locals)))

Depth(st) == Len(st.frames)
Frame(st) == st.frames[Depth(st)]
InFrame(st, frame) == [st EXCEPT !.frames[Depth(st)] = frame]
Error(st) == [st EXCEPT !.errors = @ + 1]
Got(st, binding) == [st |-> st, binding |-> binding]

\* A local of the frame outside becomes one of this frame's own, read-only,
\* and the frame remembers where it is copied from.
Captured(frame, name, source) ==
  LET added == AddLocal(frame, name, FALSE)
      id == Len(added.locals)
  IN [added EXCEPT !.captures = Append(@, id), !.sources = Append(@, source),
                   !.captured = (name :> id) @@ @]

\* A capture is threaded through every literal between; an overload set and a
\* definition are not values, and are reached without one.
RECURSIVE LookupAt(_, _, _)
LookupAt(st, depth, name) ==
  LET frame == st.frames[depth]
      own == FindIn(frame, name)
      outer == LookupAt(st, depth - 1, name)
      itself == own = Local(frame.selfLocal)
  IN CASE own # Unbound -> Got([st EXCEPT !.frames[depth].selfUsed = @ \/ itself], own)
       [] name \in DOMAIN frame.captured -> Got(st, Local(frame.captured[name]))
       [] depth = 1 -> Got(st, Unbound)
       [] outer.binding.kind # "Local" -> outer
       [] OTHER ->
            LET new == Captured(outer.st.frames[depth], name, outer.binding.id)
            IN Got([outer.st EXCEPT !.frames[depth] = new], Local(Len(new.locals)))

LookupBinding(st, name) == LookupAt(st, Depth(st), name)

\* The functions a name stands for, when it stands for functions alone.
OverloadSet(st, name) ==
  LET b == LookupBinding(st, name).binding
  IN CASE b.kind = "Overloads" -> b.ids
       [] b = Unbound /\ name \in DOMAIN st.globals -> st.globals[name]
       [] OTHER -> <<>>

(***************************************************************************)
(* Expressions: each returns the state and what it became.                 *)
(***************************************************************************)
Made(st, e) == [st |-> st, e |-> e]
LocalE(id) == [kind |-> "local", id |-> id]
ClosureE(func, captures) == [kind |-> "closure", func |-> func, captures |-> captures]
NullE == [kind |-> "null"]

\* The captures of a definition, looked up by the names it keeps them under.
DefinitionUse(st, def) ==
  LET One(acc, name) ==
        LET got == LookupBinding(acc.st, name)
        IN Made(got.st, Append(acc.e, LocalE(got.binding.id)))
      all == FoldLeft(One, Made(st, <<>>), def.captures)
  IN Made(all.st, ClosureE(def.func, all.e))

InferIdent(st, name) ==
  LET got == LookupBinding(st, name)
      ids == OverloadSet(st, name)
  IN CASE got.binding.kind = "Local" -> Made(got.st, LocalE(got.binding.id))
       [] got.binding.kind = "Definition" -> DefinitionUse(got.st, got.binding)
       [] Len(ids) = 1 -> Made(st, ClosureE(ids[1], <<>>))
       [] OTHER -> Made(Error(st), NullE)

\* What Op makes of v, once v is known (TLC would put v off to its first use).
Then(v, Op(_)) == CHOOSE r \in {Op(w) : w \in {v}} : TRUE

RECURSIVE InferExpr(_, _), InferAll(_, _), InferStmts(_, _)
InferAll(st, es) ==
  LET Go(first) == LET rest == InferAll(first.st, Tail(es))
                   IN Made(rest.st, <<first.e>> \o rest.e)
  IN IF es = <<>> THEN Made(st, <<>>) ELSE Then(InferExpr(st, Head(es)), Go)

\* A literal is known to itself by its name, under its parameters.
InferFunction(st, lit, selfName) ==
  LET id == Len(st.funcs) + 1
      itself == IF selfName = "" THEN NewFrame
                ELSE [BindLocal(NewFrame, selfName, FALSE) EXCEPT !.selfLocal = 1]
      One(frame, p) == [BindLocal(frame, p, FALSE) EXCEPT
                          !.params = Append(@, Len(frame.locals) + 1)]
      ready == FoldLeft(One, itself, lit.params)
      body == InferStmts([st EXCEPT !.funcs = Append(@, <<>>),
                                    !.frames = Append(@, ready)], lit.body)
      frame == Frame(body.st)
      def == [params |-> frame.params, captures |-> frame.captures,
              locals |-> Len(frame.locals), body |-> body.e,
              selfLocal |-> IF frame.selfUsed THEN frame.selfLocal ELSE 0]
  IN [st |-> [body.st EXCEPT !.frames = Front(@), !.funcs[id] = def],
      id |-> id, sources |-> frame.sources]

ClosureValue(id, sources) ==
  ClosureE(id, [i \in DOMAIN sources |-> LocalE(sources[i])])

\* The member of a set is chosen by how many arguments there are.
InferCall(st, callee, args) ==
  LET ids == IF callee.kind = "var" THEN OverloadSet(st, callee.name) ELSE <<>>
      fits == SelectSeq(ids, LAMBDA id : st.arities[id] = Len(args))
      target == InferExpr(st, callee)
      static == InferAll(st, args)
      rest == InferAll(target.st, args)
  IN CASE ids # <<>> /\ fits = <<>> -> Made(Error(st), NullE)
       [] ids # <<>> -> Made(static.st, [kind |-> "static", func |-> fits[1],
                                         args |-> static.e])
       [] OTHER -> Made(rest.st, [kind |-> "indirect", callee |-> target.e,
                                  args |-> rest.e])

InferExpr(st, e) ==
  CASE e.kind = "num" -> Made(st, e)
    [] e.kind = "var" -> InferIdent(st, e.name)
    [] e.kind = "sum" ->
         LET two == InferAll(st, <<e.left, e.right>>)
         IN Made(two.st, [kind |-> "sum", left |-> two.e[1], right |-> two.e[2]])
    [] e.kind = "if" ->
         LET three == InferAll(st, <<e.cond, e.left, e.right>>)
         IN Made(three.st, [kind |-> "if", cond |-> three.e[1], left |-> three.e[2],
                            right |-> three.e[3]])
    [] e.kind = "call" -> InferCall(st, e.callee, e.args)
    [] OTHER -> LET f == InferFunction(st, e, "")
                IN Made(f.st, ClosureValue(f.id, f.sources))

(***************************************************************************)
(* Statements. A `let` of a set binds the set; one of a literal that       *)
(* generalises copies its captures and binds a definition over the copies. *)
(***************************************************************************)
LetE(id, init) == [kind |-> "let", id |-> id, init |-> init]

InferLetOfOverloads(st, s, ids) ==
  Made(InFrame(st, Bind(Frame(st), s.name, Overloads(ids))), <<>>)

LetLocal(st, name, mutable, e) ==
  LET frame == BindLocal(Frame(st), name, mutable)
  IN Made(InFrame(st, frame), <<LetE(Len(frame.locals), e)>>)

\* No source name can be one of these.
Hidden(name, i) == "[" \o name \o "#" \o ToString(i) \o "]"

\* A definition whose captures are the locals themselves.
NoSnapshot(st, s, f) ==
  LET names == [i \in DOMAIN f.sources |-> Frame(st).locals[f.sources[i]].name]
  IN Made(InFrame(st, Bind(Frame(st), s.name, Definition(f.id, names))), <<>>)

Snapshot(st, s, f) ==
  LET One(acc, i) ==
        LET r == LetLocal(acc.st, Hidden(s.name, i), FALSE, LocalE(f.sources[i]))
        IN Made(r.st, acc.e \o r.e)
      all == FoldLeft(One, Made(st, <<>>), [i \in DOMAIN f.sources |-> i])
      names == [i \in DOMAIN f.sources |-> Hidden(s.name, i)]
  IN Made(InFrame(all.st, Bind(Frame(all.st), s.name, Definition(f.id, names))), all.e)

InferLetOfFnLiteral(st, s) ==
  LET f == InferFunction(st, s.init, s.name)
  IN IF s.init.generic THEN Snapshot(f.st, s, f)
     ELSE LetLocal(f.st, s.name, FALSE, ClosureValue(f.id, f.sources))

InferLet(st, s) ==
  LET ids == IF s.init.kind = "var" THEN OverloadSet(st, s.init.name) ELSE <<>>
      init == InferExpr(st, s.init)
  IN CASE ~s.mutable /\ Len(ids) > 1 -> InferLetOfOverloads(st, s, ids)
       [] ~s.mutable /\ s.init.kind = "fn" -> InferLetOfFnLiteral(st, s)
       [] OTHER -> LetLocal(init.st, s.name, s.mutable, init.e)

\* What is captured, and what is const, is not assigned.
InferAssign(st, s) ==
  LET got == LookupBinding(st, s.name)
      value == InferExpr(got.st, s.value)
      mutable == Frame(got.st).locals[got.binding.id].mutable
  IN IF got.binding.kind # "Local" THEN Made(Error(st), <<>>)
     ELSE Made(IF mutable THEN value.st ELSE Error(value.st),
               <<LetE(got.binding.id, value.e)>>)

InferStmt(st, s) ==
  CASE s.kind = "let" -> InferLet(st, s)
    [] s.kind = "assign" -> InferAssign(st, s)
    [] s.kind = "return" ->
         LET r == InferExpr(st, s.value)
         IN Made(r.st, <<[kind |-> "return", value |-> r.e]>>)
    [] OTHER ->
         LET r == InferStmts([st EXCEPT !.frames[Depth(st)].scopes = Append(@, <<>>)],
                             s.stmts)
         IN Made([r.st EXCEPT !.frames[Depth(st)].scopes = Front(@)], r.e)

InferStmts(st, stmts) ==
  LET Go(first) == LET rest == InferStmts(first.st, Tail(stmts))
                   IN Made(rest.st, first.e \o rest.e)
  IN IF stmts = <<>> THEN Made(st, <<>>) ELSE Then(InferStmt(st, Head(stmts)), Go)

\* The top-level functions take their numbers first.
Compile(program) ==
  LET names == SetToSeq(DOMAIN program.globals)
      lits == FlattenSeq([k \in DOMAIN names |-> program.globals[names[k]]])
      Before(k) == Len(FlattenSeq([j \in 1 .. k - 1 |-> program.globals[names[j]]]))
      ready == [frames |-> <<>>, funcs |-> <<>>, errors |-> 0,
                arities |-> [i \in DOMAIN lits |-> Len(lits[i].params)],
                globals |-> [n \in DOMAIN program.globals |->
                  LET k == CHOOSE k \in DOMAIN names : names[k] = n
                  IN [i \in DOMAIN program.globals[n] |-> Before(k) + i]]]
      all == FoldLeft(LAMBDA st, lit : InferFunction(st, lit, "").st, ready, lits)
  IN InferFunction(all, Lit(<<>>, FALSE, program.main), "")

(***************************************************************************)
(* The machine: a closure object is its function and the captured values   *)
(* in order, and its function finds them there when it is entered.         *)
(***************************************************************************)
Unset == [func |-> 0]
Object(func, captures) == [func |-> func, captures |-> captures]
NullEnv == Object(0, <<>>)

\* Parameters, then the closure itself, then the captures out of it.
Prologue(def, env, args) ==
  [id \in 1 .. def.locals |->
     LET p == SelectInSeq(def.params, LAMBDA x : x = id)
         c == SelectInSeq(def.captures, LAMBDA x : x = id)
     IN CASE p # 0 -> args[p]
          [] id = def.selfLocal -> env
          [] c # 0 -> env.captures[c]
          [] OTHER -> Unset]

RECURSIVE Eval(_, _, _), EvalAll(_, _, _), Enter(_, _, _)
EvalAll(funcs, slots, es) ==
  IF es = <<>> THEN <<>>
  ELSE <<Eval(funcs, slots, Head(es))>> \o EvalAll(funcs, slots, Tail(es))

Eval(funcs, slots, e) ==
  CASE e.kind = "num" -> e.value
    [] e.kind = "local" -> slots[e.id]
    [] e.kind = "closure" -> Object(e.func, EvalAll(funcs, slots, e.captures))
    [] e.kind = "sum" -> Eval(funcs, slots, e.left) + Eval(funcs, slots, e.right)
    [] e.kind = "if" -> IF Eval(funcs, slots, e.cond) > 0 THEN Eval(funcs, slots, e.left)
                        ELSE Eval(funcs, slots, e.right)
    [] OTHER ->
         LET env == IF e.kind = "static" THEN NullEnv ELSE Eval(funcs, slots, e.callee)
             func == IF e.kind = "static" THEN e.func ELSE env.func
         IN Enter(funcs, funcs[func].body,
                  Prologue(funcs[func], env, EvalAll(funcs, slots, e.args)))

\* Statements up to the one that returns.
Enter(funcs, stmts, slots) ==
  LET s == Head(stmts)
      Go(v) == Enter(funcs, Tail(stmts), [slots EXCEPT ![s.id] = v])
  IN IF s.kind = "return" THEN Eval(funcs, slots, s.value)
     ELSE Then(Eval(funcs, slots, s.init), Go)

(***************************************************************************)
(* What the program says: a function is its text and the values its names  *)
(* had where it was written.                                               *)
(***************************************************************************)
Written(lit, env, name) == [lit |-> lit, env |-> env, name |-> name]

\* Names to the values they stand for (several functions, or one value), a
\* scope at a time.
ScopeOf(env, name) ==
  LET in == {k \in DOMAIN env : name \in DOMAIN env[k]}
  IN CHOOSE k \in in : \A j \in in : j <= k
Stand(env, name) == env[ScopeOf(env, name)][name]
Put(env, k, name, values) == [env EXCEPT ![k] = (name :> values) @@ @]

RECURSIVE Means(_, _), Ran(_, _)
Called(f, args) ==
  LET own == [p \in Range(f.lit.params) |-> <<args[SelectInSeq(f.lit.params, LAMBDA q : q = p)]>>]
      itself == IF f.name = "" THEN <<>> ELSE f.name :> <<f>>
  IN Ran(f.env \o <<own @@ itself>>, f.lit.body).value

Means(env, e) ==
  CASE e.kind = "num" -> e.value
    [] e.kind = "var" -> Stand(env, e.name)[1]
    [] e.kind = "fn" -> Written(e, env, "")
    [] e.kind = "sum" -> Means(env, e.left) + Means(env, e.right)
    [] e.kind = "if" -> IF Means(env, e.cond) > 0 THEN Means(env, e.left)
                        ELSE Means(env, e.right)
    [] OTHER ->
         LET args == [i \in DOMAIN e.args |-> Means(env, e.args[i])]
             all == IF e.callee.kind = "var" THEN Stand(env, e.callee.name)
                    ELSE <<Means(env, e.callee)>>
         IN Called(SelectSeq(all, LAMBDA f : Len(f.lit.params) = Len(args))[1], args)

\* A name bound to a name stands for all that one does; a literal bound to a
\* name may call itself by it.
Initial(env, s) ==
  CASE s.init.kind = "var" -> Stand(env, s.init.name)
    [] s.init.kind = "fn" /\ ~s.mutable -> <<Written(s.init, env, s.name)>>
    [] OTHER -> <<Means(env, s.init)>>

Ran(env, stmts) ==
  IF stmts = <<>> THEN [env |-> env, done |-> FALSE, value |-> 0]
  ELSE
    LET s == Head(stmts)
        inner == Ran(Append(env, <<>>), s.stmts)
        Go(now) == Ran(now, Tail(stmts))
        now == CASE s.kind = "let" -> Put(env, Len(env), s.name, Initial(env, s))
                 [] s.kind = "assign" ->
                      Put(env, ScopeOf(env, s.name), s.name, <<Means(env, s.value)>>)
                 [] OTHER -> Front(inner.env)
    IN IF s.kind = "return" THEN [env |-> env, done |-> TRUE, value |-> Means(env, s.value)]
       ELSE IF s.kind = "block" /\ inner.done THEN inner
       ELSE Then(now, Go)

\* A program that is accepted returns what its text says: every function sees
\* the values its names had where it was written, however deep it is and
\* whenever it is called; and it captures a local once.
CapturesAreWhatWasSeen(program) ==
  LET main == Compile(program)
      globals == [n \in DOMAIN program.globals |->
                    [i \in DOMAIN program.globals[n] |->
                       Written(program.globals[n][i], <<>>, "")]]
  IN main.st.errors = 0 =>
       /\ Eval(main.st.funcs, <<>>, [kind |-> "static", func |-> main.id, args |-> <<>>])
            = Ran(<<globals, <<>>>>, program.main).value
       /\ \A f \in Range(main.st.funcs) :
            IsInjective(f.captures) /\ f.selfLocal \notin Range(f.captures)
=============================================================================
