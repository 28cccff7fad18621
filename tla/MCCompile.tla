----------------------------- MODULE MCCompile -----------------------------
(***************************************************************************)
(* The compiler's own algorithms, each given every input of a bounded      *)
(* kind: texts, projects, trees and calls here, values and constraints in  *)
(* MCTypes, bodies and functions in MCBackEnd. A step hands one input to   *)
(* one pass, and the properties say what the pass makes of it.             *)
(***************************************************************************)
EXTENDS Layout, Dispatch

TS == INSTANCE TypeStore
MN == INSTANCE Mono
EQ == INSTANCE Equality WITH EQ_MAX_DEPTH <- 4
LX == INSTANCE Lexer WITH U64_MAX <- 99
PS == INSTANCE Parser WITH MAX_DEPTH <- 6
IO == INSTANCE InferOrder
LD == INSTANCE Loader
NM == INSTANCE Names

CONSTANTS
  Kinds,    \* the algorithms tried
  Rough     \* with two structs of one name, and a generic struct compared at two types

VARIABLES kind, input
vars == <<kind, input>>

BE == INSTANCE MCBackEnd

\* What the constraints know of structs, and the scalars that compare.
Ty(con) == TS!Con(con, <<>>)
Each(con, ty) == TS!Con(con, <<ty>>)
PointFields == [x |-> Ty("i64"), items |-> Each("array", Ty("i64"))]
ShadeFields == [x |-> Ty("i64"), of |-> Each("?", Ty("Shade")), why |-> Ty("error")]
PlainStruct(up, fields) == [up |-> up, params |-> <<>>, fields |-> fields]
CheckedStructs ==
  [Point |-> PlainStruct("", PointFields),
   Sub |-> PlainStruct("Point", PointFields),
   Act |-> PlainStruct("", [go |-> Ty("fn"), x |-> Ty("u8")]),
   Shade |-> PlainStruct("", ShadeFields),
   Tint |-> PlainStruct("Shade", ShadeFields @@ [tag |-> Ty("str")]),
   Tag |-> PlainStruct("", [x |-> Ty("u8")]),
   Note |-> PlainStruct("Tag", [x |-> Ty("u8"), in |-> Each("?", Ty("Act"))]),
   Box |-> [up |-> "", params |-> <<"T">>,
            fields |-> [x |-> Ty("T"), next |-> Each("?", Each("Box", Ty("T")))]]]
CheckedScalars == {"i8", "u8", "i64", "u64", "f64", "bool", "str", "error"}

CT == INSTANCE MCTypes WITH Structs <- CheckedStructs, Comparable <- CheckedScalars

Decl(name, up) == [name |-> name, up |-> up]

\* Structs, each below nothing, any struct of them, itself, or a status.
Names(n) == SubSeq(<<"A", "B", "C", "D">>, 1, n)
TreesOf(n, ups) ==
  {[i \in 1 .. n |-> Decl(Names(n)[i], up[i])] : up \in [1 .. n -> ups]}
Trees == TreesOf(3, {"", "A", "B", "C", "NotFound404", "Status"})
         \cup TreesOf(4, {"", "A", "B", "C", "D"})

\* Overloads of one parameter over a tree of three or four, and of two over a
\* chain and a fork.
Chain == <<Decl("A", ""), Decl("B", "A"), Decl("C", "B")>>
Fork == <<Decl("A", ""), Decl("B", "A"), Decl("C", "A")>>
Bush == <<Decl("A", ""), Decl("B", "A"), Decl("C", "B"), Decl("D", "A")>>
Call(decls, set, args) == [decls |-> decls, set |-> set, args |-> args]
Structs(n) == {Struct(i) : i \in 1 .. n}
One(types) == {<<t>> : t \in types}
Two(types) == {<<t, u>> : t \in types, u \in types}
SetsOf(params) == UNION {[1 .. k -> params] : k \in 2 .. 3}
Ordinary == {Scalar("i64"), Abstract("Integer"), Abstract("Number")}
DispatchCalls ==
  {Call(d, s, a) : d \in {Bush}, s \in SetsOf(One(Structs(4) \cup Ordinary)),
                   a \in One(Structs(2) \cup {Scalar("i64"), Scalar("f64"), Open})}
  \cup {Call(d, s, a) : d \in {Chain, Fork}, s \in SetsOf(Two(Structs(3))),
                        a \in {<<Struct(1), Struct(1)>>, <<Struct(2), Open>>}}
  \cup {Call(Fork, s, a) :
          s \in SetsOf({<<Struct(i), t>> : i \in 1 .. 2, t \in Ordinary}),
          a \in {<<Struct(1), Scalar("i64")>>, <<Struct(2), Scalar("f64")>>}}

\* Structs on top of one another, instantiations, closures and arrays, over
\* every width, both tags and references behind them.
Plain == {Int8, Int32, Int64, Bool, Void, Error, Text}
Fields == Plain \cup {Optional(Text), ErrUnion(Int8), Optional(ErrUnion(Text)),
                      Array(Int64)}
Runs(types, n) == UNION {[1 .. k -> types] : k \in 0 .. n}
Laid(up, own) == LayoutStruct(LayoutStruct(NoFields, up), own)
Instance(ty) ==
  LET fields == <<Int8, Param("T"), Optional(Param("T")), Array(Param("T"))>>
      args == [T |-> ty]
  IN StructObject(StructShape(fields, args), InstanceLayout(fields, args))
Objects ==
  {StructObject(Laid(up, own), StructLayout(Laid(up, own))) :
     up \in Runs(Fields, 1), own \in Runs(Fields, 2)}
  \cup {Instance(ty) : ty \in Fields}
  \cup {ClosureObject(captures) : captures \in Runs(Fields, 3)}
  \cup {ArrayObject(elem, n) : elem \in Fields \ {Void}, n \in 0 .. 3}

\* Types, code and services with names, roots and methods of several lengths,
\* so that padding falls every way.
Bytes(n) == SubSeq(<<"n", "a", "m", "e", "s">>, 1, n)
Tables ==
  {[types |-> [i \in 1 .. n |->
                 [id |-> i, name |-> Bytes(a),
                  info |-> IF i = 1 THEN Fixed(32, [j \in 1 .. b |-> 8 * j])
                           ELSE Elements(16, [j \in 1 .. b |-> 8])]],
    codes |-> [i \in 1 .. n |->
                 [base |-> i, len |-> 9,
                  points |-> [j \in 1 .. b |->
                                [at |-> j, frame |-> 5,
                                 roots |-> Bytes(a)]]]],
    services |-> [i \in 1 .. n |->
                    [init |-> i, args |-> Bytes(a), name |-> Bytes(b),
                     methods |-> [j \in 1 .. c |->
                                    [call |-> j, args |-> Bytes(b),
                                     ret |-> Bytes(a), name |-> Bytes(n)]]]]] :
     n \in 0 .. 2, a \in 0 .. 5, b \in 0 .. 5, c \in 0 .. 2}

\* Equations between three variables and what can be made of them.
Ground == {TS!Con("i64", <<>>), TS!Con("?", <<TS!Con("i64", <<>>)>>),
           TS!Con("?", <<TS!Con("?", <<TS!Con("i64", <<>>)>>)>>)}
Vars == {TS!Var(v) : v \in 1 .. 3}
Terms == Vars \cup {TS!Con("i64", <<>>)} \cup {TS!Con("?", <<v>>) : v \in Vars}
Equations == {[a |-> a, b |-> b, keep |-> keep] :
                a \in Vars, b \in Terms, keep \in BOOLEAN}
Asks == UNION {[1 .. n -> Equations] : n \in 1 .. 2}

\* A program of an entry, a generic function and a literal in it, and a
\* generic function that may call itself at a type or at more of it.
Uses(func, targs) == [kind |-> "call", func |-> func, targs |-> targs]
Spawns(service) == [kind |-> "spawn", service |-> service]
Ints == MN!Base("i64")
PointA == MN!Strukt(1, "Point")
PointB == MN!Strukt(2, "Point")
ProgramOf(first, second, inner, again, service) ==
  <<[vars |-> <<>>, closure |-> FALSE, types |-> <<>>,
     uses |-> <<Uses(2, <<first>>), Uses(2, <<second>>), Spawns(service)>>],
    [vars |-> <<"T">>, closure |-> FALSE, types |-> <<MN!Variable("T")>>,
     uses |-> <<Uses(3, inner), Uses(4, <<MN!Variable("T")>>)>>],
    [vars |-> <<"U">>, closure |-> TRUE,
     types |-> <<MN!Variable("T"), MN!Variable("U")>>, uses |-> <<>>],
    [vars |-> <<"V">>, closure |-> FALSE,
     types |-> <<MN!Of("?", MN!Variable("V")), MN!Variable("errors")>>,
     uses |-> again],
    [vars |-> <<>>, closure |-> FALSE, types |-> <<Ints>>,
     uses |-> <<Uses(4, <<Ints>>)>>]>>
ProgramsAt(types) ==
  {ProgramOf(first, second, <<inner>>, again, service) :
     first \in types, second \in types,
     inner \in {Ints, MN!Variable("T"), MN!Of("?", MN!Variable("T")),
               MN!Variable("loose")},
     again \in {<<>>, <<Uses(4, <<MN!Variable("V")>>)>>, <<Uses(2, <<Ints>>)>>},
     service \in {<<5>>, <<5, 1>>}}
ProgramTypes == {Ints, MN!Of("?", Ints), PointA}
                \cup IF Rough THEN {PointB} ELSE {}

\* Comparisons at A and at what is in it, for B below A and a generic Box;
\* heaps of two objects, which may hold each other or themselves.
Real == EQ!Scalar("f64")
Boxed(ty) == EQ!Strukt(3, <<ty>>)
AnA == EQ!Strukt(1, <<>>)
AB == EQ!Strukt(2, <<>>)
EqStruct(name, up, generic, fields) ==
  [name |-> name, up |-> up, generic |-> generic, fields |-> fields]
EqStructs(ofA, ofB) ==
  <<EqStruct("A", 0, FALSE, ofA), EqStruct("B", 1, FALSE, ofB),
    EqStruct("Box", 0, TRUE, <<EQ!Param>>)>>
Compares(ty) ==
  [kind |-> "if", ty |-> Real,
   parts |-> <<[kind |-> "==", ty |-> ty, parts |-> <<>>]>>]

Placed(ty) == CASE ty.con = "f64" -> {<<1>>, EQ!NaN}
                [] ty.con = "?" -> {<<>>, <<1>>, <<2>>}
                [] OTHER -> {<<1>>, <<2>>}
Made(structs, ty) ==
  LET types == EQ!FieldTypes(structs, ty)
  IN {[ty |-> ty, fields |-> f] :
        f \in IF types = <<>> THEN {<<>>}
              ELSE IF Len(types) = 1 THEN {<<v>> : v \in Placed(types[1])}
              ELSE Placed(types[1]) \X Placed(types[2])}
\* Every reference is to an object of its type or below.
WellTyped(structs, heap) ==
  \A a \in DOMAIN heap :
    LET types == EQ!FieldTypes(structs, heap[a].ty)
        Fits(ty, v) == IF ty.args # <<>> THEN heap[v].ty = ty
                       ELSE EQ!IsWithin(structs, heap[v].ty.id, ty.id)
        Held(ty, v) == CASE EQ!IsStruct(ty) -> Fits(ty, v[1])
                         [] ty.con = "?" -> \A w \in Range(v) : Fits(ty.args[1], w)
                         [] OTHER -> TRUE
    IN \A i \in DOMAIN types : Held(types[i], heap[a].fields[i])
ComparisonsOf(structs, objects) ==
  {[structs |-> structs, body |-> Compares(ty), heap |-> heap] :
     ty \in {AnA, AB},
     heap \in {h \in UNION {Made(structs, o) \X Made(structs, p) :
                            o \in objects, p \in objects} :
               WellTyped(structs, h)}}
Comparisons(fields, objects) ==
  UNION {ComparisonsOf(EqStructs(<<ofA>>, ofB), objects) :
           ofA \in fields, ofB \in Runs(fields, 1)}
EqFields == {Real, EQ!Optional(AnA), EQ!Optional(Boxed(Real)), EQ!Optional(Boxed(AB)), AB,
             EQ!Array(Real)}
            \cup IF Rough THEN {Boxed(EQ!Array(Real))} ELSE {}

\* Files: short runs of tokens where an expression, a statement or an item is
\* due; operators against one another; and programs that use every form, as
\* they are and with a token missing or another in its place.
Const(e) == <<"const", "x", "=">> \o e \o <<";">>
Body(stmts) == <<"fn", "x", "(", ")", "{">> \o stmts \o <<"}">>
Operands(ops) == <<"x">> \o FlattenSeq([i \in DOMAIN ops |-> <<ops[i], "x">>])
BinaryOps == {"or", "and", "==", "orelse", "|", "^", "&", "<<", "+", "*"}
Programs ==
  {<<"pub", "fn", "x", "[", "x", "]", "(", "x", ":", "[", "]", "x", ",", ")",
     "!", "{", "x", "}", "?", "x", "{", "return", ";", "}">>,
   <<"const", "x", "=", "struct", ":", "x", ".", "x", "{", "x", ":", "x", "[",
     "x", "]", ",", "}", ";", "const", "x", ":", "fn", "(", "x", ")", "x", "=",
     "fn", "(", "x", ")", "{", "x", "+=", "int", ";", "}", ";">>,
   Body(<<"for", "(", "x", ")", "|", "x", ",", "x", "|", "{", "break", ";", "}",
          "while", "(", "x", ")", "|", "x", "|", ":", "(", "x", "=", "x", ")",
          "{", "continue", ";", "}">>),
   Body(<<"if", "(", "x", ")", "{", "}", "else", "if", "(", "x", ")", "{", "}",
          "else", "{", "}", "if", "(", "x", ")", "x", "else", "x", ";">>),
   Body(<<"const", "x", "=", "x", "catch", "|", "x", "|", "{", "x", ";", "x",
          "}", ";", "x", "(", "x", ",", "x", ")", "[", "x", "]", ".", "x", "=",
          "x", ".?", ";", "{", "}">>),
   Const(<<"x", ".", "x", "{", ".", "x", "=", "x", ",", "}", "orelse", "return",
           "x">>),
   Const(<<"@", "spawn", "(", "x", ",", "x", ")", "==", "@", "join", "(", "x",
           ")">>),
   Const(<<"[", "]", "x", "{", "x", ",", "-", "x", "}", ".", "x", "+", "try",
           "@", "import", "(", "str", ")">>),
   Const(<<"error", ".", "x", "orelse", "if", "(", "x", ")", "null", "else",
           "x", "{", "}">>)}
Changed(program) ==
  {program} \cup {RemoveAt(program, i) : i \in DOMAIN program}
  \cup {[program EXCEPT ![i] = tok] :
          i \in DOMAIN program,
          tok \in {"x", ";", "{", "}", "(", ")", "else", "|", "const"}}
Deep(n) == Const([i \in 1 .. n |-> "("] \o <<"x">> \o [i \in 1 .. n |-> ")"])
Files ==
  {Const(e) : e \in Runs({"x", "+", "(", ")", "-", "catch", "|", "."}, 4)}
  \cup {Const(Operands(ops)) : ops \in Runs(BinaryOps, 3)}
  \cup {Body(b) : b \in Runs({"x", ";", "{", "}", "if", "else", "return", "="}, 4)}
  \cup Runs({"pub", "fn", "const", "struct", "x", ";", "{", "}"}, 4)
  \cup UNION {Changed(program) : program \in Programs}
  \cup {Deep(n) : n \in 1 .. 8}
  \cup {Const(Operands([i \in 1 .. m + n |-> IF i <= m THEN "*" ELSE "+"])) :
          m \in 0 .. 6, n \in 0 .. 6}

\* Sources: short runs of bytes of a few groups, wide characters among them;
\* and programs of up to three files.
Wide == <<"lead", "trail">>
Chars(runs) == {FlattenSeq(r) : r \in runs}
Sources ==
  Chars(Runs({<<"/">>, <<"=">>, <<"<">>, <<".">>, <<"?">>, <<" ">>, <<"newline">>,
              Wide}, 5))
  \cup Runs({"0", "1", "b", "x", "_", "."}, 5)
  \cup Chars(Runs({<<"\"">>, <<"\\">>, <<"n">>, <<"newline">>, Wide}, 5))
  \cup Runs({"o", "r", "f", "n", "9", "<"}, 3)
FileSets ==
  UNION {[1 .. n -> Chars(Runs({<<"x">>, <<"newline">>, Wide}, 3 - n + 1))] :
           n \in 1 .. 3}

\* Two modules of two functions each, one of them an iterator or one imported
\* from the other, each using one or two things.
Mentions == {IO!Name("f"), IO!Name("g"), IO!Name("iter"), IO!Member("lib", "iter"),
             IO!Member("lib", "g"), IO!Spawn("lib"), IO!Form(<<>>)}
Bodies == {IO!FnLit(<<m>>) : m \in Mentions}
          \cup {IO!For(<<m>>) : m \in Mentions}
          \cup {IO!Form(<<m, IO!Name("f")>>) : m \in Mentions}
Defn(module, generic, body) ==
  [module |-> module, generic |-> generic, body |-> body]
\* n functions of one module, each mentioning up to k of them.
Graph(n, k) ==
  LET names == SubSeq(<<"f", "g", "h", "k">>, 1, n)
      all == {IO!Name(name) : name \in Range(names)}
      mentioned == {SetToSeq(m) : m \in {m \in SUBSET all : Cardinality(m) <= k}}
  IN {[funcs |-> [i \in 1 .. n |-> Defn("main", 1, IO!Form(uses[i]))],
       globals |-> [at \in {<<"main", nm>> : nm \in Range(names)} |->
                      <<CHOOSE i \in 1 .. n : names[i] = at[2]>>],
       imports |-> <<>>] : uses \in [1 .. n -> mentioned]}
InferPrograms ==
  {[funcs |-> <<Defn("main", 1, a), Defn("main", 1, b), Defn("lib", 1, c),
                Defn("lib", n, IO!Form(<<IO!Name("g")>>))>>,
    globals |-> (<<"main", "f">> :> <<1, 2>> @@ <<"lib", "iter">> :> <<3>>
                 @@ <<"lib", "g">> :> <<4>> @@ <<"main", n2>> :> <<2>>),
    imports |-> (<<"main", "lib">> :> "lib")] :
     a \in Bodies, b \in Bodies, c \in {IO!Form(<<m>>) : m \in Mentions},
     n \in 0 .. 1, n2 \in {"g", "next"}}
  \cup
  Graph(3, 3) \cup Graph(4, 1)

\* Files that import one another, by more than one spelling of a path; and a
\* project with two packages installed, one of them under the project itself.
Std == <<"std", "x">>
App == <<"/", "app">>
FileAt(dir, name) == App \o dir \o <<name>>
Wants(specs) == [i \in DOMAIN specs |-> LD!Import("m", specs[i])]
Library ==
  <<[path |-> Std, items |-> Wants(<<<<"std", "y">>>>)],
    [path |-> <<"std", "y">>, items |-> <<>>], [path |-> <<"std", "z">>, items |-> <<>>]>>
Package(name, dir, file, deps) ==
  [name |-> name, dir |-> dir, root |-> <<file>>, deps |-> deps]
Near(name) == <<".", name>>
Up(dir, name) == <<"..", dir, name>>
OnDisk(text, env, root) ==
  [text |-> text, env |-> env, cwd |-> App \o <<"src">>, root |-> root,
   library |-> Library]
FileGraphs ==
  {OnDisk(FileAt(<<"src">>, "main") :> Wants(main) @@ FileAt(<<"src">>, "a") :> Wants(a)
          @@ FileAt(<<"src">>, "b") :> Wants(b) @@ FileAt(<<"lib">>, "c") :> Wants(c),
          <<>>, root) :
     main \in {<<Near("a")>>, <<Near("a"), Near("b")>>, <<Near("b"), Near("a")>>,
               <<Near("a"), Near("gone")>>, <<Near("b"), Std>>, <<<<"std">>>>},
     a \in {<<>>, <<Up("src", "b")>>, <<Near("b"), Near("main")>>, <<Std>>},
     b \in {<<>>, <<Near("a")>>, <<Up("lib", "c")>>, <<Up("src", "a"), Up("lib", "c")>>},
     c \in {<<>>, <<Up("src", "b")>>},
     root \in {<<"main">>, App \o <<"src", "main">>}}
Installed ==
  {OnDisk(FileAt(<<"src">>, "main") :> Wants(main) @@ FileAt(<<"src">>, "a") :> Wants(a)
          @@ FileAt(<<"store", "util">>, "u") :> Wants(u) @@ <<"/", "json", "j">> :> Wants(j),
          App :> <<Package("app", App, "main", deps),
                   Package("util", App \o <<"store", "util">>, root, its),
                   Package("json", <<"/", "json">>, "j", {"util"})>>,
          <<"main">>) :
     main \in {<<<<"util">>>>, <<<<"util">>, <<"json">>>>, <<Near("a"), <<"util">>>>,
               <<<<"json">>>>},
     a \in {<<>>, <<<<"json">>>>}, u \in {<<>>, <<<<"json">>>>, <<Std>>},
     j \in {<<>>, <<<<"util">>>>}, deps \in {{}, {"util"}, {"util", "json"}},
     its \in {{}, {"json"}}, root \in {"u", "gone"}}
Projects == FileGraphs \cup Installed

\* A facade over two files, one of them by way of another facade, and a module
\* that presents the facade's name again.
Existing == [paths |-> {Std}, builtins |-> {<<NM!Prelude, "print">>, <<Std, "r">>}]
Leaf == {<<NM!Fn("r", TRUE)>>, <<NM!Fn("r", TRUE), NM!Fn("r", TRUE)>>, <<NM!Fn("r", FALSE)>>,
         <<NM!Struct("r", TRUE, FALSE)>>, <<NM!Struct("r", TRUE, TRUE)>>,
         <<NM!Lit("r", TRUE)>>, <<>>}
FromA == NM!Reexport("r", TRUE, <<"a">>, "r")
FromH == NM!Reexport("r", TRUE, <<"h">>, "r")
FromF(public) == NM!Reexport("r", public, <<"f">>, "r")
Facades ==
  {<<FromA>>, <<FromA, FromA>>, <<FromH>>, <<FromA, FromH>>, <<FromH, FromA>>,
   <<NM!Fn("r", TRUE), FromA>>, <<NM!Fn("q", TRUE), NM!Alias("r", TRUE, "q")>>,
   <<[FromA EXCEPT !.annotated = TRUE]>>, <<FromA, NM!Alias("q", TRUE, "r")>>,
   <<[FromA EXCEPT !.public = FALSE]>>,
   <<NM!Reexport("r", TRUE, <<"s">>, "r"), NM!Fn("print", TRUE)>>}
Tops == {<<FromF(TRUE)>>, <<NM!Fn("r", FALSE), FromF(FALSE)>>, <<NM!Lit("r", FALSE)>>}
NamedProjects ==
  {OnDisk(App \o <<"src", "main">> :> Wants(<<>>) \o <<LD!Import("f", Near("f"))>> \o top
          @@ App \o <<"src", "f">> :>
               (<<LD!Import("a", Near("a")), LD!Import("h", Near("h")),
                  LD!Import("s", <<"std", "x">>)>> \o f)
          @@ App \o <<"src", "a">> :> a
          @@ App \o <<"src", "h">> :>
               <<LD!Import("b", Near("b")), NM!Reexport("r", TRUE, <<"b">>, "r")>>
          @@ App \o <<"src", "b">> :> b,
          <<>>, <<"main">>) :
     top \in Tops, f \in Facades, a \in Leaf, b \in Leaf}

Init == kind \in Kinds /\ input = <<>>

Handed(k, inputs) ==
  /\ kind = k /\ input = <<>>
  /\ input' \in inputs
  /\ UNCHANGED kind

NumberATree == Handed("tree", Trees)
CallAnOverload == Handed("dispatch", DispatchCalls)

LayOutAnObject == Handed("object", Objects)
EmitTables == Handed("tables", Tables)
SolveEquations == Handed("types", Asks)
SpecialiseAProgram == Handed("mono", ProgramsAt(ProgramTypes))
ParseAFile == Handed("file", Files)
LexASource == Handed("source", Sources)
FindSpans == Handed("files", FileSets)
InferAProgram == Handed("order", InferPrograms)
ReadAProject == Handed("project", Projects)
CollectNames == Handed("names", NamedProjects)
CoerceAValue == Handed("coerce", CT!Coercions)
SolveAGroup == Handed("constraints", CT!Lists)
SolveErrors == Handed("errors", CT!ErrorLists)
LowerABody == Handed("body", BE!Funcs)
NestFunctions == Handed("nested", BE!Nested)
CompareStructs ==
  Handed("equality", Comparisons(EqFields, {AnA, AB, Boxed(Real), Boxed(AB)}))

Next ==
  \/ NumberATree \/ CallAnOverload
  \/ LayOutAnObject \/ EmitTables
  \/ SolveEquations \/ SpecialiseAProgram
  \/ CompareStructs \/ ParseAFile \/ LexASource \/ FindSpans
  \/ InferAProgram \/ ReadAProject \/ CollectNames
  \/ CoerceAValue \/ SolveAGroup \/ SolveErrors
  \/ LowerABody \/ NestFunctions

Spec == Init /\ [][Next]_vars

\* The numbers given to a tree of structs answer "is this below that" with one
\* unsigned comparison, for every pair and for every set of parents, cyclic ones
\* included (number_structs, break_parent_cycles, ws_is_subtype).
TreesAreSound == [][kind = "tree" => TreeIsSound(input')]_vars

Accepted(c) ==
  LET parent == BreakParentCycles(ResolveStructParents(c.decls).parent)
      cands == SortCandidates(parent, c.set, Candidates(parent, c.set, c.args))
  IN cands # <<>> /\ Open \notin Range(Settled(parent, c.set, cands, c.args))

\* A call to an overload set that is accepted runs an overload that applies to the
\* values it gets, whichever tests the call was compiled to, and reports that there
\* is no method only if there is none; and where the comparison orders the
\* candidates, as sort_by requires of it, what runs is the most specific of them
\* (dispatched_call, compare_specificity, first_ambiguous_pair, Trans::dispatch).
TheMostSpecificRuns ==
  [][kind = "dispatch" /\ Accepted(input') =>
       RunsWhatApplies(input'.decls, input'.set, input'.args,
                       LAMBDA parent, cands : IsAnOrder(parent, input'.set, cands))]_vars

\* Fields do not overlap and fit the object's size, the collector is told of every
\* word of it that is a reference and of no other (layout_struct, for_each_ptr_offset,
\* slot_types), and the tables written beside a program are read back as they
\* were (write_types, read_tables).
ObjectsAreTraceable ==
  [][/\ kind = "object" => Traceable(input')
     /\ kind = "tables" => RoundTrips(input')]_vars

\* Unification finds a solution whenever there is one, the most general; a trial
\* that fails leaves no trace; and what is generalised is what no outer variable
\* holds on to (unify, rollback, generalize, instantiate).
TypesAreSolved == [][kind = "types" => TS!StoreIsSound(input', Ground)]_vars

\* A use of a generic function gets the copy made for its types, and every copy
\* is without variables (Mono::require, key_of, build).
CopiesFitTheirUses ==
  [][kind = "mono" => MN!SpecialisedAtItsTypes(input')]_vars

\* `==` on structs is true exactly when everything they reach by their fields is
\* the same, cyclic objects included (Equality::plan, Emitter).
StructsCompareByValue ==
  [][kind = "equality"
     => EQ!EqualityIsStructural(input'.structs, input'.body, input'.heap)]_vars

\* A function is inferred after those it uses, together with those that use it
\* back, wherever the source puts them; and a use inside the group gets the type
\* arguments the group was generalised over (collect_deps, tarjan_scc,
\* record_in_group_targs).
FunctionsAreOrdered == [][kind = "order" => IO!OrderedByUse(input')]_vars

\* A program is the modules reached from its root, each read once and under one
\* name; cycles, missing files and undeclared packages are reported (Loader::add,
\* follow).
ProjectsAreRead == [][kind = "project" => LD!ReadsWhatIsReached(input')]_vars

\* In a program that is accepted a name of a module stands for nothing but what is
\* declared under it there, or presented by any chain of re-exports, and a private
\* name is no one else's. It stands for all of that, and a program in which it would
\* stand for nothing or for too much is refused, unless a re-export settles on a
\* part: of a name that is itself re-exported beside something else or is a type
\* with a value, or of such a type over a function (collect_structs,
\* collect_globals, alias_reexported_values).
NamesMeanOneThing ==
  [][kind = "names" => \A read \in {LD!Load(input')} :
       /\ NM!NamesMeanWhatTheyPresent(read.modules, Existing)
       /\ NM!NothingSettlesInParts(read.modules, Existing) =>
            NM!NamesMeanWhatIsDeclared(read.modules, Existing)]_vars

\* The same of every program: a round that adds nothing is the end.
RoundsReachTheEnd ==
  [][kind = "names" => \A read \in {LD!Load(input')} :
       NM!NamesMeanWhatIsDeclared(read.modules, Existing)]_vars

\* Every text comes to its end: a token, a declaration or a diagnostic for each
\* part of it, in order and without overlap, and none reported in a text that is
\* right (lex, parse_program, recover); and a place in several files is found
\* again from its number alone (SourceMap).
TextsAreRead ==
  [][/\ kind = "file" =>
          /\ PS!NothingIsLost(input')
          /\ input' \in Programs => PS!Parse(input').diags = <<>>
     /\ kind = "source" => LX!ReadsWhole(input')
     /\ kind = "files" => LX!SpansAreFound(input')]_vars

\* Nesting beyond the parser's limit is reported, and no more than the limit is
\* on its stack (Parser::enter).
NestingIsLimited == [][kind = "file" => PS!NestingIsBounded(input')]_vars

\* The same of any overload set: however its members compare, sorting puts the
\* most specific first (dispatched_call).
AnyOrderWillDo ==
  [][kind = "dispatch" /\ Accepted(input') =>
       RunsWhatApplies(input'.decls, input'.set, input'.args,
                       LAMBDA parent, cands : TRUE)]_vars

\* A value accepted where a type is wanted is one of that type: what is wrapped
\* around it makes the wanted type, and a coercion that is refused leaves the
\* types as they were (try_coerce).
ValuesFit ==
  [][kind = "coerce"
     => CT!CoercedSoundly(CT!StoreOf(<<>>), input'.expr, input'.target)]_vars

\* In a group of constraints, one that is refused does not hold of the type it is
\* asked of, and one that is accepted does: for every constraint whose type was
\* decided when it was looked at, but for a lookup whose result had a type before
\* or is declared in its struct's parameters, and for a comparison or a message
\* that meets one generic struct at two types, which are accepted unseen. The error
\* sets are the least that hold, whatever the order (solve_constraints,
\* cone_equatable, first_untransferable, solve_error_sets).
WhatHoldsIsAccepted ==
  [][kind = "constraints" \/ kind = "errors"
     => CT!SolvedAsStated(CT!StoreOf(input'.types), input'.cs)]_vars

\* The same of what is accepted, without conditions.
WhatIsAcceptedHolds ==
  [][kind = "constraints" => CT!HoldsInTheEnd(CT!StoreOf(input'.types), input'.cs)]_vars

\* A body that inference accepts becomes blocks that each end once, and they do
\* what the statements say, in the order they say it: the place before the
\* value, the continue expression after each turn, one exit for each jump. That
\* is, if nothing follows a jump in a block that stands for a value and no loop is
\* left from its continue expression or from a literal in it, which inference does
\* not ask (infer_stmt, Trans::stmt, value_block).
BodiesRunAsWritten ==
  [][kind = "body" /\ BE!LeavesLast(input') =>
       BE!EachEndsOnce(input') /\ BE!RunsAsWritten(input')]_vars

\* A function literal sees the values its names had where it was written, at
\* whatever depth and through whatever definition it is reached, and captures
\* each once (lookup_at, infer_let_of_fn_literal, Trans::closure and build).
FunctionsSeeWhatWasThere ==
  [][kind = "nested" => BE!CL!CapturesAreWhatWasSeen(input')]_vars

\* Of every body that is accepted, the blocks alone: nothing follows the jump or
\* the return that ends one (value_block).
EachBlockEndsOnce == [][kind = "body" => BE!EachEndsOnce(input')]_vars
=============================================================================
