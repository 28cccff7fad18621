----------------------------- MODULE Statements -----------------------------
(***************************************************************************)
(* A function's body as it is written, what inference makes of its         *)
(* statements (infer.rs), and what the language means by them.             *)
(*                                                                         *)
(* Inference refuses a body that could fall off its end without a value, a *)
(* block standing for a value that neither produces one nor leaves, and a  *)
(* `break` outside of a loop; it turns `for` into `while`, and evaluates   *)
(* the place of an assignment into hidden locals before the value.         *)
(*                                                                         *)
(* A name is a pair, so that hidden locals are no one else's: <<"x", 0>>   *)
(* is written in the program, <<"[index]", 3>> is hidden.                  *)
(***************************************************************************)
EXTENDS Integers, Sequences, SequencesExt, TLC

None == [k |-> "none"]
Lit(n) == [k |-> "int", n |-> n]
Local(x) == [k |-> "local", x |-> x]
Op(op, l, r) == [k |-> "binary", op |-> op, l |-> l, r |-> r]
Index(arr, i) == [k |-> "index", arr |-> arr, i |-> i]
ArrayLen(arr) == [k |-> "len", arr |-> arr]
Call(f, arg) == [k |-> "call", f |-> f, arg |-> arg]
Let(x, e) == [k |-> "let", x |-> x, e |-> e]
Assign(place, e) == [k |-> "assign", place |-> place, op |-> "", e |-> e]
Update(place, op, e) == [k |-> "assign", place |-> place, op |-> op, e |-> e]
Nest(stmts) == [k |-> "nest", stmts |-> stmts]
While(cond, cap, cont, body) ==
  [k |-> "while", cond |-> cond, cap |-> cap, cont |-> cont, body |-> body]

(***************************************************************************)
(* What leaves.                                                            *)
(***************************************************************************)
RECURSIVE StmtTerminates(_)
StmtsTerminate(stmts) == \E i \in DOMAIN stmts : StmtTerminates(stmts[i])
StmtTerminates(stmt) ==
  \/ stmt.k \in {"return", "break", "continue"}
  \/ stmt.k = "nest" /\ StmtsTerminate(stmt.stmts)
  \/ stmt.k = "if" /\ StmtsTerminate(stmt.then) /\ StmtsTerminate(stmt.els)

RECURSIVE ExprOk(_, _, _), StmtOk(_, _, _)
StmtsOk(stmts, depth, strictly) == \A i \in DOMAIN stmts : StmtOk(stmts[i], depth, strictly)

\* Leaving a loop from the function literals in it as well, and from its continue
\* expression. With `strictly` neither is allowed, nor anything that follows a jump in
\* a block that stands for a value.
ExprOk(e, depth, strictly) ==
  CASE e.k \in {"none", "int", "local", "null", "err"} -> TRUE
    [] e.k = "binary" -> ExprOk(e.l, depth, strictly) /\ ExprOk(e.r, depth, strictly)
    [] e.k = "index" -> ExprOk(e.arr, depth, strictly) /\ ExprOk(e.i, depth, strictly)
    [] e.k = "len" -> ExprOk(e.arr, depth, strictly)
    [] e.k = "call" -> ExprOk(e.arg, depth, strictly)
    [] e.k = "if" -> /\ ExprOk(e.cond, depth, strictly) /\ ExprOk(e.then, depth, strictly)
                     /\ ExprOk(e.els, depth, strictly)
    [] e.k \in {"orelse", "catch"} -> ExprOk(e.e, depth, strictly) /\ ExprOk(e.alt, depth, strictly)
    [] e.k \in {"some", "ok", "try", "unwrap"} -> ExprOk(e.e, depth, strictly)
    [] e.k = "block" ->
         /\ StmtsOk(e.stmts, depth, strictly)
         /\ ExprOk(e.value, depth, strictly)
         /\ e.value # None \/ StmtsTerminate(e.stmts)
         /\ strictly => \A i \in DOMAIN e.stmts : StmtTerminates(e.stmts[i]) =>
                      i = Len(e.stmts) /\ e.value = None
    [] e.k = "fn" -> StmtsOk(e.body, IF strictly THEN 0 ELSE depth, strictly)

StmtOk(stmt, depth, strictly) ==
  CASE stmt.k \in {"break", "continue"} -> depth > 0
    [] stmt.k \in {"let", "expr", "return"} -> ExprOk(stmt.e, depth, strictly)
    [] stmt.k = "assign" -> ExprOk(stmt.place, depth, strictly) /\ ExprOk(stmt.e, depth, strictly)
    [] stmt.k = "nest" -> StmtsOk(stmt.stmts, depth, strictly)
    [] stmt.k = "if" -> /\ ExprOk(stmt.cond, depth, strictly)
                        /\ StmtsOk(stmt.then, depth, strictly) /\ StmtsOk(stmt.els, depth, strictly)
    [] stmt.k = "while" -> /\ ExprOk(stmt.cond, depth, strictly)
                           /\ StmtsOk(stmt.body, depth + 1, strictly)
                           /\ StmtsOk(stmt.cont, IF strictly THEN 0 ELSE depth + 1, strictly)
    [] stmt.k \in {"for", "walk"} -> /\ ExprOk(stmt.e, depth, strictly)
                                     /\ StmtsOk(stmt.body, depth + 1, strictly)

\* ret is how many slots the function returns, and 0 for `void`.
Accepted(func) ==
  StmtsOk(func.body, 0, FALSE) /\ (func.ret = 0 \/ StmtsTerminate(func.body))

\* What lowering needs of a body besides, and inference does not ask.
LeavesLast(func) == StmtsOk(func.body, 0, TRUE)

(***************************************************************************)
(* What inference makes of the statements. d numbers the hidden locals.    *)
(***************************************************************************)
RECURSIVE InferExpr(_, _, _), InferStmt(_, _, _)
InferBlock(func, stmts, d) == [i \in DOMAIN stmts |-> InferStmt(func, stmts[i], d)]

InferExpr(func, e, d) ==
  LET In(sub) == InferExpr(func, sub, d + 1)
  IN CASE e.k \in {"none", "int", "local", "null", "err"} -> e
       [] e.k = "binary" -> [e EXCEPT !.l = In(@), !.r = In(@)]
       [] e.k = "index" -> [e EXCEPT !.arr = In(@), !.i = In(@)]
       [] e.k = "len" -> [e EXCEPT !.arr = In(@)]
       [] e.k = "call" -> [e EXCEPT !.arg = In(@)]
       [] e.k = "if" -> [e EXCEPT !.cond = In(@), !.then = In(@), !.els = In(@)]
       [] e.k \in {"orelse", "catch"} -> [e EXCEPT !.e = In(@), !.alt = In(@)]
       [] e.k \in {"some", "ok", "try", "unwrap"} -> [e EXCEPT !.e = In(@)]
       [] e.k = "block" -> [e EXCEPT !.stmts = InferBlock(func, @, d + 1), !.value = In(@)]
       [] e.k = "fn" -> [e EXCEPT !.body = InferBlock(func, @, d + 1)]

\* Reading what a write goes to whenever it is needed.
ReadWhereItIs(d, place) ==
  [stmts |-> <<>>, place |-> place]

\* The array and the index into hidden locals, in the order they are written.
InferPlace(d, place) ==
  IF place.k = "local" THEN [stmts |-> <<>>, place |-> place]
  ELSE LET arr == <<"[place]", 2 * d>>
           i == <<"[place]", 2 * d + 1>>
       IN [stmts |-> <<Let(arr, place.arr), Let(i, place.i)>>,
           place |-> Index(Local(arr), Local(i))]

InferAssign(func, stmt, d) ==
  LET hoisted == InferPlace(d, InferExpr(func, stmt.place, d + 1))
      right == InferExpr(func, stmt.e, d + 1)
      value == IF stmt.op = "" THEN right ELSE Op(stmt.op, hoisted.place, right)
      assign == Assign(hoisted.place, value)
  IN IF hoisted.stmts = <<>> THEN assign ELSE Nest(Append(hoisted.stmts, assign))

\* { [array] = e; [index] = 0;
\*   while ([index] < len([array])) : ([index] += 1)
\*     { x = [array][[index]]; i = [index]; .. } }
InferForStmt(func, stmt, d) ==
  LET arr == <<"[array]", d>>
      at == <<"[index]", d>>
      step == Assign(Local(at), Op("+", Local(at), Lit(1)))
      bound == <<Let(stmt.x, Index(Local(arr), Local(at))), Let(stmt.i, Local(at))>>
  IN Nest(<<Let(arr, InferExpr(func, stmt.e, d + 1)), Let(at, Lit(0)),
            While(Op("<", Local(at), ArrayLen(Local(arr))), None, <<step>>,
                  bound \o InferBlock(func, stmt.body, d + 1))>>)

\* { [iter] = iter(e); [index] = 0;
\*   while (next([iter])) |x| : ([index] += 1) { i = [index]; .. } }
InferForProtocol(func, stmt, d) ==
  LET iter == <<"[iter]", d>>
      at == <<"[index]", d>>
      step == Assign(Local(at), Op("+", Local(at), Lit(1)))
  IN Nest(<<Let(iter, Call("iter", InferExpr(func, stmt.e, d + 1))), Let(at, Lit(0)),
            While(Call("next", Local(iter)), Local(stmt.x), <<step>>,
                  <<Let(stmt.i, Local(at))>> \o InferBlock(func, stmt.body, d + 1))>>)

\* What is returned from a fallible function is made an Ok, and its payload a
\* Some where that is what the function returns.
Coerce(func, e) ==
  IF e.k \in {"err", "ok", "none"} THEN e
  ELSE IF func.ret = 3 /\ e.k \notin {"some", "null"}
  THEN [k |-> "ok", e |-> [k |-> "some", e |-> e]]
  ELSE [k |-> "ok", e |-> e]

InferStmt(func, stmt, d) ==
  LET In(e) == InferExpr(func, e, d + 1)
      Body(stmts) == InferBlock(func, stmts, d + 1)
  IN CASE stmt.k \in {"break", "continue"} -> stmt
       [] stmt.k \in {"let", "expr"} -> [stmt EXCEPT !.e = In(@)]
       [] stmt.k = "return" -> [stmt EXCEPT !.e = Coerce(func, In(@))]
       [] stmt.k = "assign" -> InferAssign(func, stmt, d)
       [] stmt.k = "nest" -> [stmt EXCEPT !.stmts = Body(@)]
       [] stmt.k = "if" -> [stmt EXCEPT !.cond = In(@), !.then = Body(@), !.els = Body(@)]
       [] stmt.k = "while" -> [stmt EXCEPT !.cond = In(@), !.body = Body(@), !.cont = Body(@)]
       [] stmt.k = "for" -> InferForStmt(func, stmt, d)
       [] stmt.k = "walk" -> InferForProtocol(func, stmt, d)

(***************************************************************************)
(* What the statements mean, as they are written. A run has the locals,    *)
(* the arrays, what it did that could be seen, how it is going on, and the *)
(* value it has last: a number, a Null, Some, Ok or Err. An array is the   *)
(* number of its elements' sequence, and 0 is no array.                    *)
(*                                                                         *)
(* What is called answers from how often it was called: `more` is true and *)
(* `next` something twice, `find` is something and `may` an Ok unless its  *)
(* argument is 0, `say` and `iter` give their argument back.               *)
(***************************************************************************)
Num(n) == [t |-> "num", n |-> n]
Null == [t |-> "null"]
Some(v) == [t |-> "some", v |-> v]
Ok(v) == [t |-> "ok", v |-> v]
Err(n) == [t |-> "err", n |-> n]
Bool(holds) == Num(IF holds THEN 1 ELSE 0)

Times(trace, f) == Len(SelectSeq(trace, LAMBDA event : event[1] = f))
Answer(trace, f, n) ==
  CASE f = "more" -> Bool(Times(trace, f) <= 2)
    [] f = "next" -> IF Times(trace, f) <= 2 THEN Some(Num(Times(trace, f))) ELSE Null
    [] f = "find" -> IF n = 0 THEN Null ELSE Some(Num(n))
    [] f = "may" -> IF n = 0 THEN Err(2) ELSE Ok(Num(n))
    [] f \in {"say", "iter"} -> Num(n)
Compute(op, l, r) == IF op = "+" THEN l + r ELSE IF l < r THEN 1 ELSE 0

Going(s) == s.out = "go"
With(s, v) == [s EXCEPT !.val = v]
Leave(s, out) == [s EXCEPT !.out = out]
Bind(s, x, v) == [s EXCEPT !.env = (x :> v) @@ @]
Saw(s, event) == [s EXCEPT !.trace = Append(@, event)]
InRange(s, arr, i) == arr # 0 /\ i \in 0 .. Len(s.heap[arr]) - 1

RECURSIVE Eval(_, _), Exec(_, _), Repeat(_, _), EachOf(_, _, _, _), Walk(_, _, _, _)
ExecAll(s, stmts) == FoldLeft(Exec, s, stmts)

EvalAlt(s, e, payload, caught) ==
  IF Going(s) THEN Eval(IF e.k = "catch" /\ e.cap # None
                        THEN Bind(s, e.cap.x, caught) ELSE s, e.alt)
  ELSE s

Eval(s, e) ==
  IF ~Going(s) THEN s
  ELSE CASE e.k = "none" -> With(s, Num(0))
         [] e.k = "int" -> With(s, Num(e.n))
         [] e.k = "local" -> With(s, s.env[e.x])
         [] e.k = "null" -> With(s, Null)
         [] e.k = "err" -> With(s, Err(e.n))
         [] e.k = "fn" -> With(s, Num(0))
         [] e.k = "call" ->
              LET s1 == Eval(s, e.arg)
                  s2 == Saw(s1, <<e.f, s1.val.n>>)
              IN IF ~Going(s1) THEN s1
                 ELSE With(s2, Answer(s2.trace, e.f, s1.val.n))
         [] e.k = "binary" ->
              LET s1 == Eval(s, e.l)
                  s2 == Eval(s1, e.r)
              IN IF ~Going(s1) THEN s1
                 ELSE IF (e.op = "and" /\ s1.val.n = 0) \/ (e.op = "or" /\ s1.val.n # 0)
                 THEN s1
                 ELSE IF e.op \in {"and", "or"} \/ ~Going(s2) THEN s2
                 ELSE With(s2, Num(Compute(e.op, s1.val.n, s2.val.n)))
         [] e.k = "len" ->
              LET s1 == Eval(s, e.arr)
              IN IF ~Going(s1) THEN s1
                 ELSE With(s1, Num(IF s1.val.n = 0 THEN 0 ELSE Len(s1.heap[s1.val.n])))
         [] e.k = "index" ->
              LET s1 == Eval(s, e.arr)
                  s2 == Eval(s1, e.i)
              IN IF ~Going(s2) THEN s2
                 ELSE IF ~InRange(s2, s1.val.n, s2.val.n) THEN Leave(s2, "panic")
                 ELSE With(s2, Num(s2.heap[s1.val.n][s2.val.n + 1]))
         [] e.k = "if" ->
              LET s1 == Eval(s, e.cond)
              IN IF ~Going(s1) THEN s1
                 ELSE IF e.cap = None
                 THEN Eval(s1, IF s1.val.n # 0 THEN e.then ELSE e.els)
                 ELSE IF s1.val = Null THEN Eval(s1, e.els)
                 ELSE Eval(Bind(s1, e.cap.x, s1.val.v), e.then)
         [] e.k \in {"some", "ok"} ->
              LET s1 == Eval(s, e.e)
              IN IF Going(s1) THEN With(s1, IF e.k = "some" THEN Some(s1.val) ELSE Ok(s1.val))
                 ELSE s1
         [] e.k \in {"orelse", "catch", "try", "unwrap"} ->
              LET s1 == Eval(s, e.e)
              IN IF ~Going(s1) THEN s1
                 ELSE IF s1.val.t \in {"some", "ok"} THEN With(s1, s1.val.v)
                 ELSE IF e.k = "try" THEN Leave(s1, "return")
                 ELSE IF e.k = "unwrap" THEN Leave(s1, "panic")
                 ELSE EvalAlt(s1, e, s1.val, IF s1.val.t = "err" THEN Num(s1.val.n) ELSE Num(0))
         [] e.k = "block" -> Eval(ExecAll(s, e.stmts), e.value)

\* A value handed to the caller is what the function's type makes of it.
Returned(s, e) ==
  IF ~Going(s) THEN s
  ELSE Leave(IF e = None THEN With(s, IF s.ret = 0 THEN Num(0) ELSE Ok(Num(0)))
             ELSE IF s.val.t = "err" \/ s.val.t = "ok" THEN s
             ELSE IF s.ret = 3 /\ s.val.t = "num" THEN With(s, Ok(Some(s.val)))
             ELSE With(s, Ok(s.val)), "return")

Exec(s, stmt) ==
  IF ~Going(s) THEN s
  ELSE CASE stmt.k \in {"break", "continue"} -> Leave(s, stmt.k)
         [] stmt.k = "expr" -> Eval(s, stmt.e)
         [] stmt.k = "return" -> Returned(Eval(s, stmt.e), stmt.e)
         [] stmt.k = "nest" -> ExecAll(s, stmt.stmts)
         [] stmt.k = "let" ->
              LET s1 == Eval(s, stmt.e) IN IF Going(s1) THEN Bind(s1, stmt.x, s1.val) ELSE s1
         [] stmt.k = "assign" ->
              LET s1 == IF stmt.place.k = "local" THEN s ELSE Eval(s, stmt.place.arr)
                  s2 == IF stmt.place.k = "local" THEN s ELSE Eval(s1, stmt.place.i)
                  arr == s1.val.n
                  i == s2.val.n
                  \* What is there before the value is computed.
                  old == IF stmt.op = "" THEN Num(0)
                         ELSE IF stmt.place.k = "local" THEN s.env[stmt.place.x]
                         ELSE Num(s2.heap[arr][i + 1])
                  s3 == Eval(s2, stmt.e)
                  new == IF stmt.op = "" THEN s3.val.n
                         ELSE Compute(stmt.op, old.n, s3.val.n)
              IN IF ~Going(s2) THEN s2
                 ELSE IF stmt.place.k # "local" /\ stmt.op # "" /\ ~InRange(s2, arr, i)
                 THEN Leave(s2, "panic")
                 ELSE IF ~Going(s3) THEN s3
                 ELSE IF stmt.place.k = "local" THEN Bind(s3, stmt.place.x, Num(new))
                 ELSE IF ~InRange(s3, arr, i) THEN Leave(s3, "panic")
                 ELSE [s3 EXCEPT !.heap[arr][i + 1] = new]
         [] stmt.k = "if" ->
              LET s1 == Eval(s, stmt.cond)
              IN IF ~Going(s1) THEN s1
                 ELSE IF stmt.cap = None
                 THEN ExecAll(s1, IF s1.val.n # 0 THEN stmt.then ELSE stmt.els)
                 ELSE IF s1.val = Null THEN ExecAll(s1, stmt.els)
                 ELSE ExecAll(Bind(s1, stmt.cap.x, s1.val.v), stmt.then)
         [] stmt.k = "while" -> Repeat(s, stmt)
         [] stmt.k = "for" ->
              LET s1 == Eval(s, stmt.e)
              IN IF Going(s1) THEN EachOf(s1, stmt, s1.val.n, 0) ELSE s1
         [] stmt.k = "walk" ->
              LET s1 == Eval(s, Call("iter", stmt.e))
              IN IF Going(s1) THEN Walk(s1, stmt, s1.val.n, 0) ELSE s1

\* After a turn of a loop: `continue` goes on, `break` is done.
AfterBody(s) == IF s.out = "continue" THEN Leave(s, "go") ELSE s
AfterLoop(s) == IF s.out = "break" THEN Leave(s, "go") ELSE s
Polled(s) == IF Going(s) THEN Saw(s, <<"poll", 0>>) ELSE s

Repeat(s, w) ==
  LET s1 == Eval(s, w.cond)
      over == IF w.cap = None THEN s1.val = Num(0) ELSE s1.val = Null
      begun == IF w.cap = None THEN s1 ELSE Bind(s1, w.cap.x, s1.val.v)
      s2 == Polled(AfterBody(ExecAll(AfterBody(ExecAll(begun, w.body)), w.cont)))
  IN IF ~Going(s1) \/ over THEN s1
     ELSE IF Going(s2) THEN Repeat(s2, w) ELSE AfterLoop(s2)

\* An array is walked as long as it is, whatever happens to the variable.
EachOf(s, f, arr, at) ==
  LET begun == Bind(Bind(s, f.x, Num(s.heap[arr][at + 1])), f.i, Num(at))
      s1 == Polled(AfterBody(ExecAll(begun, f.body)))
  IN IF ~InRange(s, arr, at) THEN s
     ELSE IF Going(s1) THEN EachOf(s1, f, arr, at + 1) ELSE AfterLoop(s1)

Walk(s, f, iter, at) ==
  LET s1 == Eval(s, Call("next", Lit(iter)))
      begun == Bind(Bind(s1, f.x, s1.val.v), f.i, Num(at))
      s2 == Polled(AfterBody(ExecAll(begun, f.body)))
  IN IF s1.val = Null THEN s1
     ELSE IF Going(s2) THEN Walk(s2, f, iter, at + 1) ELSE AfterLoop(s2)

Meaning(func) ==
  ExecAll([env |-> func.env, heap |-> func.heap, trace |-> <<>>, out |-> "go",
           val |-> Num(0), ret |-> func.ret], func.body)
=============================================================================
