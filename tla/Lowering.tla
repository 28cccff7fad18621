------------------------------- MODULE Lowering -------------------------------
(***************************************************************************)
(* From a function's statements to blocks of instructions (lower.rs), and  *)
(* what the machine does with those. A value is a sequence of words: an    *)
(* optional has 1 or 0 before what it holds, an error union 0 or its       *)
(* error's tag. Nothing may be added to a block that has ended, so what is *)
(* being built remembers whether the block it is in has.                   *)
(***************************************************************************)
EXTENDS Statements

Word == 16
UnsignedLess(i, len) == i % Word < len

Block(params) == [params |-> params, code |-> <<>>, end |-> [k |-> "open"]]
NewBuilder == [blocks |-> <<Block(<<>>)>>, at |-> 1, terminated |-> FALSE,
               loops |-> <<>>, ids |-> 0, faults |-> {}]

\* n new blocks, the last of them with w parameters; their numbers follow.
CreateBlocks(b, n, w) ==
  [b EXCEPT !.blocks = @ \o [i \in 1 .. n - 1 |-> Block(<<>>)]
                         \o <<Block([i \in 1 .. w |-> b.ids + i])>>,
            !.ids = @ + w]
Switch(b, block) == [b EXCEPT !.at = block, !.terminated = FALSE]

Ended(b) == b.blocks[b.at].end.k # "open"
Add(b, instr) ==
  IF Ended(b) THEN [b EXCEPT !.faults = @ \cup {"added to a block that has ended"}]
  ELSE [b EXCEPT !.blocks[b.at].code = Append(@, instr)]
EndWith(b, end) ==
  IF Ended(b) THEN [b EXCEPT !.faults = @ \cup {"added to a block that has ended"}]
  ELSE [b EXCEPT !.blocks[b.at].end = end, !.terminated = TRUE]

JumpTo(b, block, args) ==
  IF b.terminated THEN b ELSE EndWith(b, [k |-> "jump", to |-> block, args |-> args])
Brif(b, test, then, thenArgs, els, elsArgs) ==
  IF b.terminated THEN b
  ELSE EndWith(b, [k |-> "brif", test |-> test, then |-> then, thenArgs |-> thenArgs,
                   els |-> els, elsArgs |-> elsArgs])
EmitReturn(b, values) == EndWith(b, [k |-> "return", values |-> values])

\* What was lowered: the builder now and the words of the value.
Got(b, v) == [b |-> b, v |-> v]
Ins(b, instr, n) ==
  LET outs == [i \in 1 .. n |-> b.ids + i]
  IN Got(Add([b EXCEPT !.ids = @ + n],
              [outs |-> outs] @@ instr @@ [args |-> <<>>]), outs)
Const(b, n) == Ins(b, [op |-> "const", n |-> n], 1)
RECURSIVE Zeros(_, _)
Zeros(b, w) ==
  IF w = 0 THEN Got(b, <<>>)
  ELSE LET first == Const(b, 0)
           rest == Zeros(first.b, w - 1)
       IN Got(rest.b, first.v \o rest.v)
DefLocal(b, x, values) == Add(b, [op |-> "set", outs |-> <<>>, x |-> x, args |-> values])
Params(b, block) == b.blocks[block].params
Payload(value) == Tail(value)

PanicWith(b, block) ==
  Add(Switch(b, block), [op |-> "panic", outs |-> <<>>, args |-> <<>>])

(***************************************************************************)
(* Expressions. w is how many words the type takes that is wanted.         *)
(***************************************************************************)
RECURSIVE LowerExpr(_, _, _), LowerStmt(_, _, _)
LowerBlock(b, stmts, w) ==
  LET Next(acc, stmt) == IF acc.terminated THEN acc ELSE LowerStmt(acc, stmt, w)
  IN FoldLeft(Next, b, stmts)

ArrayLength(b, arr) ==
  LET zero == Const(b, 0)
      load == Len(b.blocks) + 1
      done == load + 1
      b1 == Brif(CreateBlocks(zero.b, 2, 1), arr, load, <<>>, done, zero.v)
      len == Ins(Switch(b1, load), [op |-> "length", args |-> <<arr>>], 1)
      b2 == Switch(JumpTo(len.b, done, len.v), done)
  IN Got(b2, Params(b2, done))

CheckBounds(b, arr, i) ==
  LET len == ArrayLength(b, arr)
      ok == Ins(len.b, [op |-> "unsigned <", args |-> <<i, len.v[1]>>], 1)
      inside == Len(ok.b.blocks) + 1
      outside == inside + 1
      b1 == Brif(CreateBlocks(ok.b, 2, 0), ok.v[1], inside, <<>>, outside, <<>>)
  IN Switch(JumpTo(PanicWith(b1, outside), inside, <<>>), inside)

Logical(b, e) ==
  LET l == LowerExpr(b, e.l, 1)
      right == Len(l.b.blocks) + 1
      merge == right + 1
      short == Const(CreateBlocks(l.b, 2, 1), IF e.op = "or" THEN 1 ELSE 0)
      b1 == IF e.op = "and" THEN Brif(short.b, l.v[1], right, <<>>, merge, short.v)
            ELSE Brif(short.b, l.v[1], merge, short.v, right, <<>>)
      r == LowerExpr(Switch(b1, right), e.r, 1)
      b2 == Switch(JumpTo(r.b, merge, r.v), merge)
  IN Got(b2, Params(b2, merge))

\* With a capture the test is an optional's tag, and what it holds is bound.
Test(b, cond, cap) ==
  LET value == LowerExpr(b, cond, IF cap = None THEN 1 ELSE 2)
  IN [b |-> value.b, test |-> value.v[1], payload |-> Payload(value.v)]
BindCapture(b, cap, values) == IF cap = None THEN b ELSE DefLocal(b, cap.x, values)

IfExpr(b, e, w) ==
  LET test == Test(b, e.cond, e.cap)
      then == Len(test.b.blocks) + 1
      els == then + 1
      merge == then + 2
      b1 == Brif(CreateBlocks(test.b, 3, w), test.test, then, <<>>, els, <<>>)
      yes == LowerExpr(BindCapture(Switch(b1, then), e.cap, test.payload), e.then, w)
      no == LowerExpr(Switch(JumpTo(yes.b, merge, yes.v), els), e.els, w)
      b2 == Switch(JumpTo(no.b, merge, no.v), merge)
  IN Got(b2, Params(b2, merge))

\* The payload as it is, or the other expression: an optional holds something
\* when its tag is not 0, an error union when it is.
TaggedOrElse(b, value, takenWhenNonzero, cap, alt, w) ==
  LET other == Len(b.blocks) + 1
      merge == other + 1
      b0 == CreateBlocks(b, 2, w)
      b1 == IF takenWhenNonzero
            THEN Brif(b0, value[1], merge, Payload(value), other, <<>>)
            ELSE Brif(b0, value[1], other, <<>>, merge, Payload(value))
      else == LowerExpr(BindCapture(Switch(b1, other), cap, <<value[1]>>), alt, w)
      b2 == Switch(JumpTo(else.b, merge, else.v), merge)
  IN Got(b2, Params(b2, merge))

\* The statements one after the other; where they leave, what is needed of
\* the value goes into a block that nothing reaches.
ValueBlock(b, e, w) ==
  LET b1 == FoldLeft(LAMBDA acc, stmt : LowerStmt(acc, stmt, acc.ret), b, e.stmts)
      dead == Len(b1.blocks) + 1
  IN IF e.value # None THEN LowerExpr(b1, e.value, w)
     ELSE Zeros(IF b1.terminated THEN Switch(CreateBlocks(b1, 1, 0), dead) ELSE b1, w)

TryExpr(b, e, w) ==
  LET value == LowerExpr(b, e.e, w + 1)
      err == Len(value.b.blocks) + 1
      ok == err + 1
      b1 == Brif(CreateBlocks(value.b, 2, w), value.v[1], err, <<>>, ok, Payload(value.v))
      rest == Zeros(Switch(b1, err), b.ret - 1)
      b2 == Switch(EmitReturn(rest.b, <<value.v[1]>> \o rest.v), ok)
  IN Got(b2, Params(b2, ok))

Unwrap(b, e, w) ==
  LET value == LowerExpr(b, e.e, w + 1)
      null == Len(value.b.blocks) + 1
      ok == null + 1
      b1 == Brif(CreateBlocks(value.b, 2, w), value.v[1], ok, Payload(value.v), null, <<>>)
      dead == Zeros(PanicWith(b1, null), w)
      b2 == Switch(JumpTo(dead.b, ok, dead.v), ok)
  IN Got(b2, Params(b2, ok))

Tagged(b, tag, e, w) ==
  LET inner == LowerExpr(b, e, w - 1)
      t == Const(inner.b, tag)
  IN Got(t.b, t.v \o inner.v)
TagAlone(b, tag, w) ==
  LET t == Const(b, tag)
      rest == Zeros(t.b, w - 1)
  IN Got(rest.b, t.v \o rest.v)

WordsOf(f) == IF f \in {"find", "may", "next"} THEN 2 ELSE 1
LowerExpr(b, e, w) ==
  CASE e.k = "int" -> Const(b, e.n)
    [] e.k = "local" -> Ins(b, [op |-> "get", x |-> e.x], w)
    [] e.k = "null" -> TagAlone(b, 0, w)
    [] e.k = "err" -> TagAlone(b, e.n, w)
    [] e.k = "some" -> Tagged(b, 1, e.e, w)
    [] e.k = "ok" -> Tagged(b, 0, e.e, w)
    [] e.k = "fn" -> Const(b, 0)
    [] e.k = "call" ->
         LET arg == LowerExpr(b, e.arg, 1)
         IN Ins(arg.b, [op |-> "call", f |-> e.f, args |-> arg.v], WordsOf(e.f))
    [] e.k = "binary" /\ e.op \in {"and", "or"} -> Logical(b, e)
    [] e.k = "binary" /\ e.op \notin {"and", "or"} ->
         LET l == LowerExpr(b, e.l, 1)
             r == LowerExpr(l.b, e.r, 1)
         IN Ins(r.b, [op |-> e.op, args |-> l.v \o r.v], 1)
    [] e.k = "len" ->
         LET arr == LowerExpr(b, e.arr, 1) IN ArrayLength(arr.b, arr.v[1])
    [] e.k = "index" ->
         LET arr == LowerExpr(b, e.arr, 1)
             i == LowerExpr(arr.b, e.i, 1)
         IN Ins(CheckBounds(i.b, arr.v[1], i.v[1]),
                [op |-> "load", args |-> arr.v \o i.v], 1)
    [] e.k = "if" -> IfExpr(b, e, w)
    [] e.k = "orelse" ->
         LET value == LowerExpr(b, e.e, w + 1)
         IN TaggedOrElse(value.b, value.v, TRUE, None, e.alt, w)
    [] e.k = "catch" ->
         LET value == LowerExpr(b, e.e, w + 1)
         IN TaggedOrElse(value.b, value.v, FALSE, e.cap, e.alt, w)
    [] e.k = "try" -> TryExpr(b, e, w)
    [] e.k = "unwrap" -> Unwrap(b, e, w)
    [] e.k = "block" -> ValueBlock(b, e, w)

(***************************************************************************)
(* Statements, in a function that returns w words.                         *)
(***************************************************************************)
LowerAssign(b, stmt) ==
  LET value == LowerExpr(b, stmt.e, 1)
      arr == LowerExpr(value.b, stmt.place.arr, 1)
      i == LowerExpr(arr.b, stmt.place.i, 1)
  IN IF stmt.place.k = "local" THEN DefLocal(value.b, stmt.place.x, value.v)
     ELSE Add(CheckBounds(i.b, arr.v[1], i.v[1]),
              [op |-> "store", outs |-> <<>>, args |-> arr.v \o i.v \o value.v])

LowerReturn(b, e, w) ==
  LET value == IF e = None THEN Zeros(b, w) ELSE LowerExpr(b, e, w)
  IN IF value.b.terminated THEN value.b ELSE EmitReturn(value.b, value.v)

LowerIf(b, stmt, w) ==
  LET test == Test(b, stmt.cond, stmt.cap)
      then == Len(test.b.blocks) + 1
      els == then + 1
      merge == then + 2
      b1 == Brif(CreateBlocks(test.b, 3, 0), test.test, then, <<>>, els, <<>>)
      yes == LowerBlock(BindCapture(Switch(b1, then), stmt.cap, test.payload), stmt.then, w)
      no == LowerBlock(Switch(JumpTo(yes, merge, <<>>), els), stmt.els, w)
      b2 == JumpTo(no, merge, <<>>)
  IN IF yes.terminated /\ no.terminated THEN b2 ELSE Switch(b2, merge)

ContinueTo(header, latch) == latch

LowerWhile(b, stmt, w) ==
  LET header == Len(b.blocks) + 1
      body == header + 1
      latch == header + 2
      exit == header + 3
      start == Switch(JumpTo(CreateBlocks(b, 4, 0), header, <<>>), header)
      test == Test(start, stmt.cond, stmt.cap)
      b1 == Brif(test.b, test.test, body, <<>>, exit, <<>>)
      b2 == BindCapture(Switch(b1, body), stmt.cap, test.payload)
      loop == [continueTo |-> ContinueTo(header, latch), breakTo |-> exit]
      b3 == LowerBlock([b2 EXCEPT !.loops = Append(@, loop)], stmt.body, w)
      b4 == JumpTo([b3 EXCEPT !.loops = b2.loops], latch, <<>>)
      b5 == FoldLeft(LAMBDA acc, s : LowerStmt(acc, s, w), Switch(b4, latch), stmt.cont)
      b6 == Add(b5, [op |-> "poll", outs |-> <<>>, args |-> <<>>])
  IN Switch(JumpTo(b6, header, <<>>), exit)

Leaving(b, stmt) ==
  IF b.loops = <<>> THEN [b EXCEPT !.faults = @ \cup {"left a loop outside of any"}]
  ELSE JumpTo(b, IF stmt.k = "break" THEN Last(b.loops).breakTo
                 ELSE Last(b.loops).continueTo, <<>>)

LowerStmt(b, stmt, w) ==
  CASE stmt.k = "let" ->
         LET value == LowerExpr(b, stmt.e, 1) IN DefLocal(value.b, stmt.x, value.v)
    [] stmt.k = "assign" -> LowerAssign(b, stmt)
    [] stmt.k = "expr" -> LowerExpr(b, stmt.e, 1).b
    [] stmt.k = "return" -> LowerReturn(b, stmt.e, w)
    [] stmt.k = "if" -> LowerIf(b, stmt, w)
    [] stmt.k = "while" -> LowerWhile(b, stmt, w)
    [] stmt.k = "nest" -> LowerBlock(b, stmt.stmts, w)
    [] stmt.k \in {"break", "continue"} -> Leaving(b, stmt)

\* A function literal is a function of its own, in no loop.
RECURSIVE LiteralsIn(_)
LiteralsIn(stmts) ==
  UNION {LET stmt == stmts[i]
         IN CASE stmt.k \in {"let", "expr"} /\ stmt.e.k = "fn" ->
                   {stmt.e.body} \cup LiteralsIn(stmt.e.body)
              [] stmt.k = "while" -> LiteralsIn(stmt.body)
              [] stmt.k = "nest" -> LiteralsIn(stmt.stmts)
              [] stmt.k = "if" -> LiteralsIn(stmt.then) \cup LiteralsIn(stmt.els)
              [] OTHER -> {}
         : i \in DOMAIN stmts}

Build(func, stmts) ==
  LET b == LowerBlock([ret |-> func.ret] @@ NewBuilder, stmts, func.ret)
  IN IF b.terminated THEN b ELSE EmitReturn(b, <<>>)
Lowered(func) ==
  LET stmts == InferBlock(func, func.body, 1)
  IN [main |-> Build(func, stmts),
      faults |-> Build(func, stmts).faults
                 \cup UNION {Build([func EXCEPT !.ret = 0], lit).faults :
                               lit \in LiteralsIn(stmts)}]

(***************************************************************************)
(* The machine.                                                            *)
(***************************************************************************)
RECURSIVE Words(_, _)
Words(v, w) ==
  CASE v.t = "num" -> IF w = 0 THEN <<>> ELSE <<v.n>>
    [] v.t = "null" -> [i \in 1 .. w |-> 0]
    [] v.t = "err" -> [i \in 1 .. w |-> IF i = 1 THEN v.n ELSE 0]
    [] v.t = "some" -> <<1>> \o Words(v.v, w - 1)
    [] v.t = "ok" -> <<0>> \o Words(v.v, w - 1)

Out(r, instr, words) ==
  [r EXCEPT !.vals = [i \in Range(instr.outs) |->
                        words[CHOOSE at \in DOMAIN words : instr.outs[at] = i]] @@ @]
Step(r, instr) ==
  LET arg == [i \in DOMAIN instr.args |-> r.vals[instr.args[i]]]
      saw == Append(r.trace, <<instr.f, arg[1]>>)
  IN IF r.out # "go" THEN r
     ELSE CASE instr.op = "const" -> Out(r, instr, <<instr.n>>)
            [] instr.op = "get" -> Out(r, instr, r.vars[instr.x])
            [] instr.op = "set" -> [r EXCEPT !.vars = (instr.x :> arg) @@ @]
            [] instr.op \in {"+", "<"} -> Out(r, instr, <<Compute(instr.op, arg[1], arg[2])>>)
            [] instr.op = "unsigned <" ->
                 Out(r, instr, <<IF UnsignedLess(arg[1], arg[2]) THEN 1 ELSE 0>>)
            [] instr.op = "call" ->
                 Out([r EXCEPT !.trace = saw], instr,
                     Words(Answer(saw, instr.f, arg[1]), WordsOf(instr.f)))
            [] instr.op = "poll" -> [r EXCEPT !.trace = Append(@, <<"poll", 0>>)]
            [] instr.op = "panic" -> [r EXCEPT !.out = "panic"]
            [] instr.op = "length" -> Out(r, instr, <<Len(r.heap[arg[1]])>>)
            [] instr.op = "load" -> Out(r, instr, <<r.heap[arg[1]][arg[2] + 1]>>)
            [] instr.op = "store" -> [r EXCEPT !.heap[arg[1]][arg[2] + 1] = arg[3]]

\* A run that enters more blocks than this is lost.
MaxBlocks == 150

RECURSIVE RunFrom(_, _, _, _)
RunFrom(r, blocks, block, args) ==
  LET at == blocks[block]
      begun == [r EXCEPT !.entered = @ + 1,
                         !.vals = [i \in Range(at.params) |->
                                     args[CHOOSE p \in DOMAIN args : at.params[p] = i]] @@ @]
      r1 == FoldLeft(Step, begun, at.code)
      Of(ids) == [i \in DOMAIN ids |-> r1.vals[ids[i]]]
  IN IF r1.out # "go" THEN r1
     ELSE IF r1.entered > MaxBlocks THEN [r1 EXCEPT !.out = "lost"]
     ELSE CASE at.end.k = "jump" -> RunFrom(r1, blocks, at.end.to, Of(at.end.args))
            [] at.end.k = "brif" ->
                 IF r1.vals[at.end.test] # 0
                 THEN RunFrom(r1, blocks, at.end.then, Of(at.end.thenArgs))
                 ELSE RunFrom(r1, blocks, at.end.els, Of(at.end.elsArgs))
            [] at.end.k = "return" -> [r1 EXCEPT !.out = "return", !.words = Of(at.end.values)]

RunCode(func) ==
  RunFrom([vals |-> <<>>, vars |-> [x \in DOMAIN func.env |-> Words(func.env[x], 1)],
           heap |-> func.heap, trace |-> <<>>, out |-> "go", words |-> <<>>, entered |-> 0],
          Lowered(func).main.blocks, 1, <<>>)

(***************************************************************************)
(* A body that was accepted is lowered to blocks that each end once, in    *)
(* loops that are there; and what they do is what the statements mean.     *)
(***************************************************************************)
EachEndsOnce(func) == Accepted(func) => Lowered(func).faults = {}

RunsAsWritten(func) ==
  LET r == RunCode(func)
      s == Meaning(func)
  IN Accepted(func) /\ Lowered(func).faults = {}
     => /\ r.trace = s.trace
        /\ r.heap = s.heap
        /\ r.out = IF s.out = "panic" THEN "panic" ELSE "return"
        /\ s.out = "return" => r.words = Words(s.val, func.ret)
        /\ s.out = "go" => r.words = <<>>
===============================================================================
