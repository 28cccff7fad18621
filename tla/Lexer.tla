------------------------------- MODULE Lexer -------------------------------
(***************************************************************************)
(* The lexer (lexer.rs), over a file as its bytes, and where a span is     *)
(* found again: a line and a column of one of the files of a program laid  *)
(* end to end (diag.rs).                                                   *)
(*                                                                         *)
(* A byte is a string of one character; a character of two bytes is its    *)
(* LEAD and its TRAIL. Positions count from 0, as spans do.                *)
(***************************************************************************)
EXTENDS Integers, Sequences, FiniteSets, SequencesExt

CONSTANT U64_MAX    \* the largest integer a literal may be

LEAD == "lead"
TRAIL == "trail"
NEWLINE == "newline"
QUOTE == "\""
BACKSLASH == "\\"

Digits == <<"0", "1", "2", "3", "4", "5", "6", "7", "8", "9",
            "a", "b", "c", "d", "e", "f">>
DigitsOf(radix) == {Digits[i] : i \in 1 .. radix}
ValueOf(digit) == (CHOOSE i \in DOMAIN Digits : Digits[i] = digit) - 1
Letters == {"a", "b", "c", "d", "e", "f", "n", "o", "r", "x", "_"}
Words == {<<"o", "r">>, <<"f", "n">>}

\* The byte at a position, or "" past the end.
At(src, pos) == IF pos < Len(src) THEN src[pos + 1] ELSE ""
Text(src, start, end) == SubSeq(src, start + 1, IF end < Len(src) THEN end
                                               ELSE Len(src))

\* By a byte, whatever it is the first of.
StepByte(src, pos) == IF pos < Len(src) THEN pos + 1 ELSE pos

Step(src, pos) ==
  CASE pos >= Len(src) -> pos
    [] At(src, pos) = LEAD -> pos + 2
    [] OTHER -> pos + 1

RECURSIVE While(_, _, _)
While(src, pos, set) ==
  IF At(src, pos) \in set THEN While(src, pos + 1, set) ELSE pos

RECURSIVE ToNewline(_, _)
ToNewline(src, pos) ==
  IF pos >= Len(src) \/ At(src, pos) = NEWLINE THEN pos
  ELSE ToNewline(src, pos + 1)

RECURSIVE SkipTrivia(_, _)
SkipTrivia(src, pos) ==
  CASE At(src, pos) \in {" ", NEWLINE} -> SkipTrivia(src, pos + 1)
    [] At(src, pos) = "/" /\ At(src, pos + 1) = "/" ->
         SkipTrivia(src, ToNewline(src, pos))
    [] OTHER -> pos

\* A token, where it starts and ends, and the spans it is wrong at.
Token(kind, value, start, end, wrong) ==
  [kind |-> kind, value |-> value, start |-> start, end |-> end, wrong |-> wrong]
Span(start, end) == <<start, end>>

Fixed == {"(", ")", "{", "}", "[", "]", ",", ";", ":", "~", "?", "@"}
MaybeEq == {"|", "&", "^", "+", "-", "*", "/", "%", "=", "!"}
Doubled == {"<", ">"}

\* How many bytes of an operator stand here: none where no operator starts.
OperatorLength(src, pos) ==
  LET first == At(src, pos)
      Eq(at) == IF At(src, at) = "=" THEN 1 ELSE 0
  IN CASE first \in Fixed -> 1
       [] first \in MaybeEq -> 1 + Eq(pos + 1)
       [] first = "." -> IF At(src, pos + 1) = "?" THEN 2 ELSE 1
       [] first \in Doubled ->
            IF At(src, pos + 1) = first THEN 2 + Eq(pos + 2) ELSE 1 + Eq(pos + 1)
       [] OTHER -> 0

IdentToken(src, start) ==
  LET end == While(src, start, Letters \cup DigitsOf(10))
      word == Text(src, start, end)
  IN Token(IF word \in Words THEN "keyword" ELSE "ident", word, start, end, {})

(***************************************************************************)
(* A number takes what looks like its digits, one point, and the digits of *)
(* wider radices, of which the first is reported.                          *)
(***************************************************************************)
Radix(src, start) ==
  CASE At(src, start) = "0" /\ At(src, start + 1) = "x" -> 16
    [] At(src, start) = "0" /\ At(src, start + 1) = "b" -> 2
    [] At(src, start) = "0" /\ At(src, start + 1) = "o" -> 8
    [] OTHER -> 10

RECURSIVE NumberRun(_, _, _)
NumberRun(src, radix, run) ==
  LET b == At(src, run.pos)
      On(r) == NumberRun(src, radix, [r EXCEPT !.pos = @ + 1])
  IN CASE b = "_" -> On(run)
       [] b = "." /\ radix = 10 /\ ~run.float ->
            IF At(src, run.pos + 1) \in DigitsOf(10)
            THEN On([run EXCEPT !.float = TRUE]) ELSE run
       [] b \in DigitsOf(radix) -> On(run)
       [] b \in DigitsOf(16) \ DigitsOf(radix) /\ radix # 10 ->
            On([run EXCEPT !.bad = IF @ = -1 THEN run.pos ELSE @])
       [] OTHER -> run

Horner(digits, radix) ==
  FoldLeft(LAMBDA acc, d : acc * radix + ValueOf(d), 0, digits)

Number(src, start) ==
  LET radix == Radix(src, start)
      from == IF radix = 10 THEN start ELSE start + 2
      run == NumberRun(src, radix, [pos |-> from, float |-> FALSE, bad |-> -1])
      cleaned == SelectSeq(Text(src, from, run.pos), LAMBDA b : b # "_")
      Whole(value, wrong) == Token("int", value, start, run.pos, wrong)
  IN CASE run.bad # -1 -> Whole(0, {Span(run.bad, run.bad + 1)})
       [] run.bad = -1 /\ cleaned = <<>> -> Whole(0, {Span(start, run.pos)})
       [] run.bad = -1 /\ cleaned # <<>> /\ run.float ->
            Token("float", cleaned, start, run.pos, {})
       [] OTHER -> IF Horner(cleaned, radix) <= U64_MAX
                   THEN Whole(Horner(cleaned, radix), {})
                   ELSE Whole(0, {Span(start, run.pos)})

\* A string ends at a quote, or, wrongly, at the end of its line.
Escapes == {"n", "r", "0", BACKSLASH, QUOTE}
RECURSIVE StringRun(_, _, _)
StringRun(src, start, run) ==
  LET b == At(src, run.pos)
      next == At(src, run.pos + 1)
      after == Step(src, run.pos)
  IN CASE b \in {"", NEWLINE} ->
            Token("str", run.value, start, run.pos,
                  run.wrong \cup {Span(start, run.pos)})
       [] b = QUOTE -> Token("str", run.value, start, run.pos + 1, run.wrong)
       [] b = BACKSLASH /\ next \in Escapes ->
            StringRun(src, start,
                      [run EXCEPT !.pos = @ + 2,
                                  !.value = Append(@, <<BACKSLASH, next>>)])
       [] b = BACKSLASH /\ next \notin Escapes ->
            LET end == Step(src, run.pos + 1)
            IN StringRun(src, start,
                         [run EXCEPT !.pos = end,
                                     !.wrong = @ \cup {Span(run.pos, end)}])
       [] OTHER ->
            StringRun(src, start,
                      [run EXCEPT !.pos = after,
                                  !.value = Append(@, Text(src, run.pos, after))])

String(src, start) ==
  StringRun(src, start, [pos |-> start + 1, value |-> <<>>, wrong |-> {}])

\* The next token from here, past what no token starts with.
RECURSIVE NextToken(_, _, _)
NextToken(src, pos, wrong) ==
  LET start == SkipTrivia(src, pos)
      b == At(src, start)
      n == OperatorLength(src, start)
      token == CASE b = "" -> Token("eof", <<>>, start, start, {})
                 [] b \in DigitsOf(10) -> Number(src, start)
                 [] b = QUOTE -> String(src, start)
                 [] b \in Letters -> IdentToken(src, start)
                 [] OTHER -> Token("op", Text(src, start, start + n), start,
                                   start + n, {})
  IN IF b \in {"", QUOTE} \cup Letters \cup DigitsOf(10) \/ n > 0
     THEN [token EXCEPT !.wrong = @ \cup wrong]
     ELSE NextToken(src, Step(src, start),
                    wrong \cup {Span(start, Step(src, start))})

RECURSIVE Scan(_, _)
Scan(src, pos) ==
  LET token == NextToken(src, pos, {})
  IN IF token.kind = "eof" THEN <<token>> ELSE <<token>> \o Scan(src, token.end)

(***************************************************************************)
(* The files of a program, end to end from 1, and a position found again.  *)
(***************************************************************************)

Bases(files) ==
  LET Next(bases, i) == Append(bases, IF i = 1 THEN 1
                                      ELSE bases[i - 1] + Len(files[i - 1]) + 1)
  IN FoldLeft(Next, <<>>, [i \in DOMAIN files |-> i])

LineStarts(src) ==
  <<0>> \o SelectSeq([i \in DOMAIN src |-> i], LAMBDA i : src[i] = NEWLINE)

\* The first file that covers an offset; 0 when none does.
FileOf(files, offset) ==
  LET bases == Bases(files)
      covering == {i \in DOMAIN files :
                     /\ offset >= bases[i]
                     /\ offset <= bases[i] + Len(files[i])}
  IN IF covering = {} THEN 0
     ELSE CHOOSE i \in covering : \A j \in covering : i <= j

Characters(bytes) == Len(SelectSeq(bytes, LAMBDA b : b # TRAIL))

LineCol(src, base, offset) ==
  LET at == IF offset >= base THEN offset - base ELSE 0
      starts == LineStarts(src)
      line == CHOOSE n \in DOMAIN starts :
                starts[n] <= at /\ \A m \in DOMAIN starts :
                                     starts[m] <= at => m <= n
      end == IF at < Len(src) THEN at ELSE Len(src)
  IN [line |-> line, col |-> Characters(Text(src, starts[line], end)) + 1]

LineText(src, line) ==
  LET starts == LineStarts(src)
      end == IF line < Len(starts) THEN starts[line + 1] ELSE Len(src)
      whole == Text(src, starts[line], end)
  IN IF whole # <<>> /\ Last(whole) = NEWLINE THEN Front(whole) ELSE whole

\* The line a snippet prints and the columns its carets stand under.
Snippet(src, base, span) ==
  LET from == LineCol(src, base, span[1])
      to == LineCol(src, base, span[2])
      lineEnd == Characters(LineText(src, from.line)) + 1
      end == IF to.line = from.line THEN to.col ELSE lineEnd
  IN [line |-> from.line, col |-> from.col,
      width |-> IF end > from.col THEN end - from.col ELSE 1]

(***************************************************************************)
(* Lexing reads all of a file: the tokens follow one another, on whole     *)
(* characters; what is between them is blank, a comment or reported; a     *)
(* token is the longest that starts where it does; and a token lexed by    *)
(* itself is itself.                                                       *)
(***************************************************************************)
LongOperators ==
  {<<".", "?">>, <<"<", "<">>, <<">", ">">>, <<"<", "<", "=">>, <<">", ">", "=">>,
   <<"<", "=">>, <<">", "=">>} \cup {<<o, "=">> : o \in MaybeEq}

OnBoundary(src, pos) == At(src, pos) # TRAIL

Blank(src, from, to) == SkipTrivia(Text(src, from, to), 0) = to - from

ReadsWhole(src) ==
  LET tokens == Scan(src, 0)
      End(i) == IF i = 0 THEN 0 ELSE tokens[i].end
      reported == UNION {tokens[i].wrong : i \in DOMAIN tokens}
      Inside(t) == Scan(Text(src, t.start, t.end), 0)
  IN \A i \in DOMAIN tokens :
       LET t == tokens[i]
       IN /\ End(i - 1) <= t.start /\ t.start <= t.end
          /\ OnBoundary(src, t.start) /\ OnBoundary(src, t.end)
          /\ \A s \in t.wrong : OnBoundary(src, s[1]) /\ OnBoundary(src, s[2])
          /\ Blank(src, End(i - 1), t.start)
             \/ \E s \in reported : s[1] >= End(i - 1) /\ s[2] <= t.start
          /\ t.kind # "eof" => t.start < t.end
          /\ t.kind = "op" =>
               \A o \in LongOperators :
                 Text(src, t.start, t.start + Len(o)) = o => t.end >= t.start + Len(o)
          /\ t.kind # "eof" /\ t.wrong = {} =>
               /\ Len(Inside(t)) = 2
               /\ Inside(t)[1] = [t EXCEPT !.start = 0, !.end = t.end - t.start]

\* A span of any file of a program is found again in that file, on the line
\* and at the column it was written, and its carets stay on that line.
SpansAreFound(files) ==
  \A f \in DOMAIN files : \A from \in 0 .. Len(files[f]) :
    LET base == Bases(files)[f]
        src == files[f]
        before == Text(src, 0, from)
        breaks == {i \in DOMAIN before : before[i] = NEWLINE}
        found == LineCol(src, base, base + from)
    IN OnBoundary(src, from) =>
         /\ FileOf(files, base + from) = f
         /\ found.line = Cardinality(breaks) + 1
         /\ found.col = Characters(SubSeq(before,
                          (IF breaks = {} THEN 0
                           ELSE CHOOSE i \in breaks : \A j \in breaks : j <= i) + 1,
                          Len(before))) + 1
         /\ \A to \in from .. Len(src) :
              LET snippet == Snippet(src, base, Span(base + from, base + to))
              IN snippet.col + snippet.width
                   <= Characters(LineText(src, found.line)) + 2
=============================================================================
