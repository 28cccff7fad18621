------------------------------- MODULE Parser -------------------------------
(***************************************************************************)
(* The parser (parser.rs): recursive descent over a sequence of tokens,    *)
(* with a nesting limit, errors that are recovered from, and diagnostics   *)
(* of which only the first at a place is kept.                             *)
(*                                                                         *)
(* Every function of the parser is a rule, which says what it expects of   *)
(* the tokens, in order; Run is what the plumbing makes of a rule. A token *)
(* is its kind. What is parsed is kept with its tokens: a tree is a node   *)
(* and its parts, a token is a node without parts.                         *)
(***************************************************************************)
EXTENDS Integers, Sequences, FiniteSets, SequencesExt

CONSTANT MAX_DEPTH    \* how deeply expressions, types and blocks may nest

Builtins == {"import", "spawn", "join"}
Idents == {"x"} \cup Builtins
AssignOps == {"=", "+=", "-=", "*=", "/=", "%=", "&=", "|=", "^=", "<<=", ">>="}
CmpOps == {"==", "!=", "<", "<=", ">", ">="}

Leaf(tok) == [node |-> tok, parts |-> <<>>]
Tree(node, parts) == [node |-> node, parts |-> parts]

\* What a rule is made of.
Tok(kinds) == [op |-> "token", kinds |-> kinds]
T(kind) == Tok({kind})
Ident == Tok(Idents)
Rule(name) == [op |-> "rule", name |-> name]
Seq1(parts) == [op |-> "seq", parts |-> parts]
Opt(first, body) == [op |-> "opt", first |-> first, body |-> body]
Comma(item, close) == [op |-> "list", item |-> item, close |-> close]
Enter(body) == [op |-> "enter", body |-> body]
Made(node, body) == [op |-> "made", node |-> node, body |-> body]
Nothing == Seq1(<<>>)
\* The body's rule by the token it starts with, or `other`.
Choose(cases, other) == [op |-> "choose", cases |-> cases, other |-> other]
Case(first, body) == [first |-> first, body |-> body]
Refuse == [op |-> "refuse"]
\* An error that stops nothing: all these are written, and `next` follows.
Complain(written, next) ==
  [op |-> "complain", written |-> written, next |-> next]
\* `sub`, and then, as long as a link starts, what it adds on the right.
Chain(sub, links) == [op |-> "chain", sub |-> sub, links |-> links]
Operators(ops, rhs) == <<Case(ops, Seq1(<<Tok(ops), rhs>>))>>

(***************************************************************************)
(* Declarations.                                                           *)
(***************************************************************************)
Item == Choose(<<Case({"pub"},
                      Seq1(<<T("pub"),
                             Choose(<<Case({"fn"}, Rule("fn_decl")),
                                      Case({"const"}, Rule("const_or_struct"))>>,
                                    Refuse)>>)),
                 Case({"fn"}, Rule("fn_decl")),
                 Case({"const"}, Rule("const_or_struct"))>>, Refuse)

FnDecl == Made("fn", Seq1(<<T("fn"), Ident, Rule("generic_params"),
                            Rule("func_rest")>>))

GenericParams ==
  Opt({"["}, Enter(Seq1(<<T("["), Comma(Ident, "]"), T("]"),
                          [op |-> "not_empty"]>>)))

Annotation == Opt({":"}, Seq1(<<T(":"), Rule("type_expr")>>))

FuncRest ==
  Seq1(<<T("("), Comma(Seq1(<<Ident, Annotation>>), ")"), T(")"),
         Choose(<<Case({"{"}, Nothing)>>, Rule("type_expr")),
         Rule("block")>>)

StructBody ==
  Seq1(<<T("{"), Comma(Seq1(<<Ident, T(":"), Rule("type_expr")>>), "}"),
         T("}")>>)

ConstOrStruct ==
  Seq1(<<T("const"), Ident, Annotation, T("="), Complain({":"}, "struct"),
         Choose(<<Case({"struct"},
                       Made("struct",
                            Seq1(<<T("struct"), Rule("generic_params"),
                                   Annotation, Complain({"[", ":"}, "{"),
                                   Rule("struct_body"), T(";")>>)))>>,
                Made("const", Seq1(<<Rule("expr"), T(";")>>)))>>)

(***************************************************************************)
(* Types.                                                                  *)
(***************************************************************************)
TypeExpr == Enter(Rule("type_inner"))

ErrorNames == Opt({"{"}, Seq1(<<T("{"), Comma(Ident, "}"), T("}")>>))

TypeExprInner ==
  Choose(<<Case({"["}, Made("[]", Seq1(<<T("["), T("]"), Rule("type_expr")>>))),
           Case({"?"}, Made("optional", Seq1(<<T("?"), Rule("type_expr")>>))),
           Case({"!"}, Made("err_union", Seq1(<<T("!"), ErrorNames,
                                                Rule("type_expr")>>))),
           Case({"fn"}, Made("fn_type",
                             Seq1(<<T("fn"), T("("),
                                    Comma(Rule("type_expr"), ")"), T(")"),
                                    Rule("type_expr")>>))),
           Case(Idents, Made("named",
                             Seq1(<<Ident, Rule("segments"),
                                    Opt({"["}, Seq1(<<T("["),
                                                      Comma(Rule("type_expr"), "]"),
                                                      T("]")>>))>>)))>>,
         Refuse)
Segments == Opt({"."}, Seq1(<<T("."), Ident, Rule("segments")>>))

(***************************************************************************)
(* Statements.                                                             *)
(***************************************************************************)
Block == Enter(Made("block", Seq1(<<T("{"), [op |-> "statements"], T("}")>>)))

Stmt ==
  Choose(<<Case({"const", "var"},
                Made("let", Seq1(<<Tok({"const", "var"}), Ident, Annotation,
                                   T("="), Rule("expr"), T(";")>>))),
           Case({"return"},
                Made("return", Seq1(<<T("return"),
                                      Choose(<<Case({";"}, Nothing)>>, Rule("expr")),
                                      T(";")>>))),
           Case({"break", "continue"},
                Made("leave", Seq1(<<Tok({"break", "continue"}), T(";")>>))),
           Case({"if"}, Rule("if_stmt")),
           Case({"while"}, Rule("while_stmt")),
           Case({"for"}, Rule("for_stmt")),
           Case({"{"}, Rule("block"))>>,
         Seq1(<<Rule("expr"), [op |-> "finish"]>>))

FinishExprStmt ==
  Choose(<<Case(AssignOps, Seq1(<<Tok(AssignOps), Rule("expr"), T(";")>>))>>,
         T(";"))

OptCapture == Opt({"|"}, Seq1(<<T("|"), Ident, T("|")>>))
Header(word) == Seq1(<<T(word), T("("), Rule("expr"), T(")"), OptCapture>>)

IfStmtOrExpr ==
  Made("if",
       Seq1(<<Header("if"),
              Choose(<<Case({"{"}, Seq1(<<Rule("block"), Rule("else_stmt")>>))>>,
                     Seq1(<<Rule("if_expr_tail"), T(";")>>))>>))
ElseStmt ==
  Opt({"else"},
      Seq1(<<T("else"),
             Choose(<<Case({"if"}, Enter(Seq1(<<Rule("if_stmt"),
                                                [op |-> "block_form"]>>)))>>,
                    Rule("block"))>>))

ContinueExpr ==
  Opt({":"}, Seq1(<<T(":"), T("("), Rule("expr"),
                    Opt(AssignOps, Seq1(<<Tok(AssignOps), Rule("expr")>>)),
                    T(")")>>))
WhileStmt ==
  Made("while", Seq1(<<Header("while"), ContinueExpr, Rule("block")>>))

ForStmt ==
  Made("for",
       Seq1(<<T("for"), T("("), Rule("expr"), T(")"), T("|"), Ident,
              Opt({","}, Seq1(<<T(","), Ident>>)), T("|"), Rule("block")>>))

(***************************************************************************)
(* Expressions, loosest first.                                             *)
(***************************************************************************)
Expr == Enter(Rule("or"))
OrExpr == Chain(Rule("and"), Operators({"or"}, Rule("and")))
AndExpr == Chain(Rule("cmp"), Operators({"and"}, Rule("cmp")))
CmpExpr == [op |-> "compare", sub |-> Rule("catch")]
CatchExpr ==
  Chain(Rule("bitor"),
        <<Case({"orelse"}, Seq1(<<T("orelse"), Rule("alternative")>>)),
          Case({"catch"}, Seq1(<<T("catch"), OptCapture,
                                 Rule("alternative")>>))>>)
BitOrExpr == Chain(Rule("bitxor"), Operators({"|"}, Rule("bitxor")))
BitXorExpr == Chain(Rule("bitand"), Operators({"^"}, Rule("bitand")))
BitAndExpr == Chain(Rule("shift"), Operators({"&"}, Rule("shift")))
ShiftExpr == Chain(Rule("add"), Operators({"<<", ">>"}, Rule("add")))
AddExpr == Chain(Rule("mul"), Operators({"+", "-"}, Rule("mul")))

MulExpr == Chain(Rule("unary"), Operators({"*", "/", "%"}, Rule("unary")))

UnaryExpr ==
  Choose(<<Case({"-", "!", "~", "try"},
                Made("unary", Seq1(<<Tok({"-", "!", "~", "try"}),
                                     Rule("operand")>>)))>>, Rule("postfix"))
UnaryOperand == Enter(Rule("unary"))

Alternative ==
  Choose(<<Case({"{"}, Rule("value_block")),
           Case({"return", "break", "continue"}, Made("leaving", Rule("leaving")))>>,
         Rule("bitor"))
ValueEnd == {";", "}", ")", "]", ",", "eof"}
LeavingStmt ==
  Choose(<<Case({"break", "continue"}, Tok({"break", "continue"}))>>,
         Seq1(<<T("return"), Choose(<<Case(ValueEnd, Nothing)>>, Rule("expr"))>>))
ValueBlock ==
  Enter(Made("block", Seq1(<<T("{"), [op |-> "valued"], T("}")>>)))

StartsStatement ==
  {"const", "var", "return", "break", "continue", "if", "while", "for", "{"}

Args(close) == Comma(Rule("expr"), close)
PostfixExpr ==
  Chain(Rule("primary"),
        <<Case({"("}, Seq1(<<T("("), Args(")"), T(")")>>)),
          Case({"."}, Seq1(<<T("."), Ident>>)),
          Case({"["}, Seq1(<<T("["), Rule("expr"), T("]")>>)),
          Case({".?"}, T(".?"))>>)

PrimaryExpr ==
  Choose(<<Case({"["}, Rule("array_lit")),
           Case({"@"}, Rule("builtin")),
           Case({"int", "str", "true", "null"}, Tok({"int", "str", "true", "null"})),
           Case({"error"}, Made("error_lit", Seq1(<<T("error"), T("."), Ident>>))),
           Case({"("}, Made("paren", Seq1(<<T("("), Rule("expr"), T(")")>>))),
           Case({"fn"}, Made("fn_lit", Seq1(<<T("fn"), Rule("generic_params"),
                                              Rule("func_rest")>>))),
           Case({"if"}, Made("if_expr", Seq1(<<Header("if"),
                                               Rule("if_expr_tail")>>))),
           Case(Idents, Seq1(<<Ident, Opt({"{"}, Rule("struct_lit"))>>))>>,
         Refuse)

IfExprTail == Seq1(<<Rule("expr"), T("else"), Rule("expr")>>)
BuiltinForm ==
  Made("builtin",
       Seq1(<<T("@"),
              Choose(<<Case({"spawn"}, Seq1(<<T("spawn"), Rule("spawn")>>)),
                       Case({"join"}, Seq1(<<T("join"), Rule("join")>>))>>,
                     Seq1(<<T("import"), T("("), T("str"), T(")")>>))>>))
SpawnForm == Enter(Seq1(<<T("("), Rule("expr"),
                          Opt({","}, Seq1(<<T(","), Args(")")>>)), T(")")>>))
JoinForm == Enter(Seq1(<<T("("), Rule("expr"), T(")")>>))
ArrayLit == Enter(Made("array_lit", Seq1(<<Rule("type_inner"), T("{"), Args("}"),
                                           T("}")>>)))
StructLit ==
  Made("struct_lit",
       Seq1(<<T("{"),
              Comma(Seq1(<<T("."), Ident, T("="), Rule("expr")>>), "}"), T("}")>>))

RuleOf(name) ==
  CASE name = "fn_decl" -> FnDecl [] name = "generic_params" -> GenericParams
    [] name = "func_rest" -> FuncRest [] name = "struct_body" -> StructBody
    [] name = "const_or_struct" -> ConstOrStruct
    [] name = "type_expr" -> TypeExpr [] name = "type_inner" -> TypeExprInner
    [] name = "segments" -> Segments [] name = "block" -> Block
    [] name = "stmt" -> Stmt
    [] name = "if_stmt" -> IfStmtOrExpr [] name = "else_stmt" -> ElseStmt
    [] name = "while_stmt" -> WhileStmt [] name = "for_stmt" -> ForStmt
    [] name = "expr" -> Expr [] name = "or" -> OrExpr [] name = "and" -> AndExpr
    [] name = "cmp" -> CmpExpr [] name = "catch" -> CatchExpr
    [] name = "bitor" -> BitOrExpr [] name = "bitxor" -> BitXorExpr
    [] name = "bitand" -> BitAndExpr [] name = "shift" -> ShiftExpr
    [] name = "add" -> AddExpr [] name = "mul" -> MulExpr
    [] name = "unary" -> UnaryExpr [] name = "operand" -> UnaryOperand
    [] name = "alternative" -> Alternative [] name = "leaving" -> LeavingStmt
    [] name = "value_block" -> ValueBlock [] name = "postfix" -> PostfixExpr
    [] name = "primary" -> PrimaryExpr [] name = "if_expr_tail" -> IfExprTail
    [] name = "builtin" -> BuiltinForm [] name = "spawn" -> SpawnForm
    [] name = "join" -> JoinForm [] name = "array_lit" -> ArrayLit
    [] name = "struct_lit" -> StructLit [] name = "item" -> Item

(***************************************************************************)
(* The plumbing. A parser is its tokens, which end with `eof`, where it    *)
(* is, the nesting it is at, whether that was reported as too deep, where  *)
(* it reported anything, and, after a rule, whether that went well and the *)
(* trees it made.                                                          *)
(***************************************************************************)
Peek(p) == p.tokens[p.pos]
AtEof(p) == Peek(p) = "eof"
Bump(p) == [p EXCEPT !.pos = IF AtEof(p) THEN @ ELSE @ + 1]
Took(p) == [Bump(p) EXCEPT !.got = <<Leaf(Peek(p))>>]

Report(p, at) ==
  IF p.diags # <<>> /\ Last(p.diags) = at THEN p
  ELSE [p EXCEPT !.diags = Append(@, at)]

Failed(p, at) == [Report(p, at) EXCEPT !.ok = FALSE, !.got = <<>>]

Entered(p) ==
  IF p.depth < MAX_DEPTH THEN [p EXCEPT !.depth = @ + 1]
  ELSE IF p.tooDeep THEN [p EXCEPT !.ok = FALSE, !.got = <<>>]
  ELSE [Failed(p, p.pos) EXCEPT !.tooDeep = TRUE]

\* After a rule, at the nesting it started at.
Scoped(p, after) == [after EXCEPT !.depth = p.depth]

RECURSIVE RecoverToItem(_, _)
RecoverToItem(p, depth) ==
  LET tok == Peek(p)
      closed == IF tok = "}" /\ depth > 0 THEN depth - 1 ELSE depth
  IN CASE tok = "eof" -> p
       [] tok = "}" /\ closed = 0 -> Bump(p)
       [] tok \in {"pub", "fn", "const", "var"} /\ depth = 0 -> p
       [] OTHER -> RecoverToItem(Bump(p), IF tok = "{" THEN depth + 1 ELSE closed)

RECURSIVE RecoverToStmt(_, _)
RecoverToStmt(p, depth) ==
  LET tok == Peek(p)
  IN CASE tok = "eof" -> p
       [] tok = ";" /\ depth = 0 -> Bump(p)
       [] tok = "}" /\ depth = 0 -> p
       [] OTHER -> RecoverToStmt(Bump(p),
                                 CASE tok = "{" -> depth + 1
                                   [] tok = "}" -> depth - 1
                                   [] OTHER -> depth)

\* Going on after an item or a statement that may have been given up.
Resumed(before, p) ==
  [(IF p.pos = before.pos THEN Bump(p) ELSE p)
     EXCEPT !.ok = TRUE, !.got = before.got \o p.got]

RECURSIVE Yield(_), Bare(_), IsPath(_)
Yield(tree) ==
  IF tree.parts = <<>> THEN <<tree.node>>
  ELSE FlattenSeq([i \in DOMAIN tree.parts |-> Yield(tree.parts[i])])
Bare(tree) == IF tree.node = "paren" THEN Bare(tree.parts[2]) ELSE tree
IsPlace(tree) == Bare(tree).node \in Idents \cup {".", "["}
IsPath(tree) ==
  LET bare == Bare(tree)
  IN bare.node \in Idents \/ (bare.node = "." /\ IsPath(bare.parts[1]))

Unwrapped(parts) == IF Len(parts) = 1 THEN parts[1] ELSE Tree("lit", parts)

RECURSIVE Run(_, _), Listed(_, _, _), Linked(_, _, _), Stmts(_), Valued(_)
Run(p, rule) ==
  CASE rule.op = "token" ->
         IF Peek(p) \in rule.kinds THEN Took(p) ELSE Failed(p, p.pos)
    [] rule.op = "rule" -> Run(p, RuleOf(rule.name))
    [] rule.op = "seq" ->
         FoldLeft(LAMBDA q, part :
                    IF ~q.ok THEN q
                    ELSE LET after == Run(q, part)
                         IN [after EXCEPT !.got = IF after.ok THEN q.got \o @
                                                  ELSE <<>>],
                  [p EXCEPT !.got = <<>>], rule.parts)
    [] rule.op = "opt" ->
         IF Peek(p) \in rule.first THEN Run(p, rule.body)
         ELSE [p EXCEPT !.got = <<>>]
    [] rule.op = "choose" ->
         LET fits == SelectSeq(rule.cases, LAMBDA c : Peek(p) \in c.first)
         IN Run(p, IF fits = <<>> THEN rule.other ELSE fits[1].body)
    [] rule.op = "refuse" -> Failed(p, p.pos)
    [] rule.op = "made" ->
         LET after == Run(p, rule.body)
         IN [after EXCEPT !.got = IF after.ok THEN <<Tree(rule.node, @)>> ELSE @]
    [] rule.op = "enter" ->
         LET entered == Entered(p)
         IN IF entered.ok THEN Scoped(p, Run(entered, rule.body)) ELSE entered
    [] rule.op = "list" -> Listed([p EXCEPT !.got = <<>>], rule.item, rule.close)
    [] rule.op = "chain" ->
         LET first == Run(p, rule.sub)
         IN IF first.ok
            THEN Scoped(p, Linked([first EXCEPT !.got = <<Unwrapped(@)>>],
                                  rule.links, FALSE))
            ELSE first
    [] rule.op = "compare" ->
         LET first == Run(p, rule.sub)
             both == Linked(first, Operators(CmpOps, rule.sub), TRUE)
         IN CASE ~first.ok \/ Peek(first) \notin CmpOps -> first
              [] both.ok /\ Peek(both) \in CmpOps ->
                   Scoped(p, Failed(both, both.pos))
              [] OTHER -> Scoped(p, both)
    [] rule.op = "not_empty" ->
         [(IF p.tokens[p.pos - 2] = "[" THEN Report(p, p.pos - 1) ELSE p)
            EXCEPT !.got = <<>>]
    [] rule.op = "complain" ->
         [(IF Peek(p) = rule.next
              /\ rule.written \subseteq {p.got[i].node : i \in DOMAIN p.got}
           THEN Report(p, p.pos - 1) ELSE p) EXCEPT !.got = <<>>]
    [] rule.op = "finish" ->
         Run(IF Peek(p) \in AssignOps /\ ~IsPlace(Last(p.got))
             THEN Report(p, p.pos - Len(Yield(Last(p.got)))) ELSE p,
             FinishExprStmt)
    [] rule.op = "block_form" ->
         [(IF \E i \in DOMAIN p.got[1].parts : p.got[1].parts[i].node = "block"
           THEN p ELSE Report(p, p.pos - Len(Yield(p.got[1]))))
            EXCEPT !.got = <<>>]
    [] rule.op = "statements" -> Stmts([p EXCEPT !.got = <<>>])
    [] rule.op = "valued" -> Valued([p EXCEPT !.got = <<>>])

Listed(p, item, close) ==
  LET after == Run(p, item)
      all == p.got \o after.got
  IN CASE Peek(p) \in {close, "eof"} -> p
       [] ~after.ok -> after
       [] Peek(after) = "," ->
            Listed([Bump(after) EXCEPT !.got = Append(all, Leaf(","))], item, close)
       [] OTHER -> [after EXCEPT !.got = all]

\* p.got is the tree so far, and a link makes it the left part of a new one.
Linked(p, links, once) ==
  LET fits == SelectSeq(links, LAMBDA c : Peek(p) \in c.first)
      entered == Entered(p)
      after == Run(entered, fits[1].body)
      literal == Run(after, Rule("struct_lit"))
      joined == [after EXCEPT !.got = <<Tree(Peek(p), p.got \o @)>>]
  IN CASE fits = <<>> -> p
       [] ~entered.ok -> entered
       [] ~after.ok -> after
       [] Peek(p) = "." /\ Peek(after) = "{" /\ IsPath(p.got[1]) ->
            [literal EXCEPT !.got =
               IF literal.ok THEN <<Tree("lit", p.got \o after.got \o @)>> ELSE @]
       [] OTHER -> IF once THEN joined ELSE Linked(joined, links, once)

Stmts(p) ==
  LET after == Run(p, Rule("stmt"))
  IN IF Peek(p) \in {"}", "eof"} THEN p
     ELSE Stmts(Resumed(p, IF after.ok THEN after ELSE RecoverToStmt(after, 0)))

\* As Stmts, but an expression that `}` follows is the block's value.
Valued(p) ==
  LET first == Run(p, Rule("expr"))
      rest == Run(first, [op |-> "finish"])
      whole == IF ~first.ok THEN first
               ELSE [rest EXCEPT !.got = IF rest.ok THEN first.got \o @ ELSE <<>>]
      stmt == IF Peek(p) \in StartsStatement THEN Run(p, Rule("stmt")) ELSE whole
  IN CASE Peek(p) \in {"}", "eof"} -> p
       [] Peek(p) \notin StartsStatement /\ first.ok /\ Peek(first) = "}" ->
            [first EXCEPT !.got = p.got \o @]
       [] OTHER -> Valued(Resumed(p, IF stmt.ok THEN stmt
                                     ELSE RecoverToStmt(stmt, 0)))

RECURSIVE Module(_)
Module(p) ==
  LET after == Run(p, Item)
  IN IF AtEof(p) THEN p
     ELSE Module(Resumed(p, IF after.ok THEN after ELSE RecoverToItem(after, 0)))

Parse(tokens) ==
  Module([tokens |-> Append(tokens, "eof"), pos |-> 1, depth |-> 0,
          tooDeep |-> FALSE, diags |-> <<>>, ok |-> TRUE, got |-> <<>>])

(***************************************************************************)
(* How tightly things bind, as the head of parser.rs lists it.             *)
(***************************************************************************)
Looseness == <<{"or"}, {"and"}, CmpOps, {"orelse", "catch"}, {"|"}, {"^"}, {"&"},
               {"<<", ">>"}, {"+", "-"}, {"*", "/", "%"}, {"unary"},
               {"(", ".", "[", ".?"}>>
Tightness(tree) ==
  IF tree.parts = <<>> \/ \A n \in DOMAIN Looseness : tree.node \notin Looseness[n]
  THEN Len(Looseness) + 1
  ELSE CHOOSE n \in DOMAIN Looseness : tree.node \in Looseness[n]

RECURSIVE WellBound(_)
WellBound(tree) ==
  LET n == Tightness(tree)
      left == Tightness(tree.parts[1])
      right == Tightness(Last(tree.parts))
  IN tree.parts = <<>> \/
     /\ \A i \in DOMAIN tree.parts : WellBound(tree.parts[i])
     /\ n \in 1 .. 10 => left >= n /\ right > n
     /\ tree.node \in CmpOps => left > n
     /\ n = 11 => right >= n
     /\ n = 12 => left >= n

\* A file no error is reported of has all of it in the tree, in order, and
\* every operator has what binds at least as tightly on its sides.
NothingIsLost(tokens) ==
  LET p == Parse(tokens)
  IN p.diags = <<>> =>
       /\ FlattenSeq([i \in DOMAIN p.got |-> Yield(p.got[i])]) = tokens
       /\ \A i \in DOMAIN p.got : WellBound(p.got[i])

\* How deep expressions, types and blocks nest in a tree.
Uncounted == {"fn", "struct", "const", "let", "return", "leave", "leaving",
              "if", "while", "for", "paren"}
RECURSIVE Nesting(_)
Nesting(tree) ==
  (IF tree.parts = <<>> \/ tree.node \in Uncounted THEN 0 ELSE 1)
  + Max({0} \cup {Nesting(tree.parts[i]) : i \in DOMAIN tree.parts})

NestingIsBounded(tokens) ==
  LET p == Parse(tokens)
  IN p.diags = <<>> => \A i \in DOMAIN p.got : Nesting(p.got[i]) <= MAX_DEPTH
=============================================================================
