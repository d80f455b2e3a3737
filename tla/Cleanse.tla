------------------------------- MODULE Cleanse -------------------------------
(***************************************************************************)
(* What cpplint.py takes comments and strings for: RemoveMultiLineComments, *)
(* CleansedLines and CheckForMultilineCommentsAndStrings, on a whole file,  *)
(* and CheckForFunctionLengths(), which counts the lines that are left.     *)
(***************************************************************************)
EXTENDS Integers, Sequences, FiniteSetsExt

CONSTANTS
  Files,                      \* the files, each a sequence of lines
  NormalTrigger, TestTrigger, \* _NORMAL_TRIGGER and _TEST_TRIGGER
  Verbosity                   \* --verbose

\* A line is a sequence of lexemes: white space that begins it, the head of a function
\* or a test up to its parenthesis, what ends or opens a body, other text, and what
\* begins or ends a string, a raw string and a comment: " R"( )" // /* */.  They are
\* apart from each other; there are no characters in quotes, and no escapes.
Texts == {"f(", "TEST(", "{", "}", ";", "x"}
Quotes == {"quote", "raw(", "raw)"}
Lexeme == Texts \cup Quotes \cup {"indent", "//", "/*", "*/"}

ASSUME FilesAssumption == Files \subseteq Seq(Seq(Lexeme))
ASSUME TriggerAssumption == {NormalTrigger, TestTrigger} \subseteq Nat \ {0}
ASSUME VerbosityAssumption == Verbosity \in 0..5

VARIABLES
  raw,       \* the file
  phase, n,  \* the function that runs, and the line it is at
  lines,     \* raw_lines, then lines_without_raw_strings, then lines
  pending,   \* CleanseRawStrings() is inside a raw string
  elided,    \* the lines without strings
  function,  \* _FunctionState
  begun,     \* history: the line of the last Begin()
  reports    \* the errors, as pairs of a kind and a line

vars == <<raw, phase, n, lines, pending, elided, function, begun, reports>>

\* One past the file there is a line that ProcessFileData() appends.
Errors ==
  ({"comment", "string", "no body", "long"} \X (1..Len(raw)) \X (0..5))
    \cup ({"unended"} \X (2..(Len(raw) + 1)) \X {5})

TypeOK ==
  /\ raw \in Seq(Seq(Lexeme))
  /\ phase \in {"comments", "raw", "cleanse", "lengths", "strings", "end"}
  /\ n \in 1..(Len(raw) + 1)
  /\ lines \in Seq(Seq(Lexeme)) /\ Len(lines) = Len(raw)
  /\ pending \in BOOLEAN
  /\ elided \in Seq(Seq(Lexeme))
  /\ function \in [inside : BOOLEAN, lines : Nat, test : BOOLEAN]
  /\ begun \in 0..Len(raw)
  /\ reports \subseteq Errors

Init ==
  /\ raw \in Files
  /\ phase = "comments" /\ n = 1
  /\ lines = raw /\ elided = <<>>
  /\ pending = FALSE
  /\ function = [inside |-> FALSE, lines |-> 0, test |-> FALSE]
  /\ begun = 0
  /\ reports = {}

Has(line, lexeme) == \E i \in DOMAIN line : line[i] = lexeme
First(line, lexeme) == Min({i \in DOMAIN line : line[i] = lexeme})
Upto(line, i) == SubSeq(line, 1, i)
From(line, i) == SubSeq(line, i, Len(line))
Indent(line) == IF line # <<>> /\ Head(line) = "indent" THEN <<"indent">> ELSE <<>>
Strip(line) == From(line, Len(Indent(line)) + 1)
CountOf(line, lexemes) == Cardinality({i \in DOMAIN line : line[i] \in lexemes})
QuotesIn(line) == CountOf(line, Quotes)

Report(kind, level) == reports' = reports \cup {<<kind, n, level>>}
----------------------------------------------------------------------------
(* RemoveMultiLineComments().                                              *)

\* A comment is seen that begins its line, goes beyond it, and ends a line.
BeginsComment(line) ==
  LET s == Strip(line) IN s # <<>> /\ Head(s) = "/*" /\ ~Has(s, "*/")
EndsComment(line) == line # <<>> /\ line[Len(line)] = "*/"

Begins == {i \in n..Len(lines) : BeginsComment(lines[i])}
Ends == {i \in DOMAIN lines : EndsComment(lines[i]) /\ \E j \in Begins : j <= i}

\* Mutation: the lines of a comment are dropped.
Without(from, to) == Upto(lines, from - 1) \o From(lines, to + 1)

\* The lines of a comment are kept, so that the numbers of the others stay.
Cleared(from, to) ==
  [i \in DOMAIN lines |-> IF i \in from..to THEN <<"/*", "*/">> ELSE lines[i]]

RemovesComment ==
  /\ phase = "comments" /\ Begins # {} /\ Ends # {}
  /\ lines' = Cleared(Min(Begins), Min(Ends))
  /\ n' = Min(Ends) + 1
  /\ UNCHANGED <<raw, phase, pending, elided, function, begun, reports>>

\* A comment without an end is reported at lineix_begin + 1, the line after the one it
\* begins on: the index of a line is its number, for ProcessFileData()'s first marker.
LeavesComments ==
  /\ phase = "comments" /\ (Begins = {} \/ Ends = {})
  /\ reports' = IF Begins = {} THEN reports ELSE {<<"unended", Min(Begins) + 1, 5>>}
  /\ phase' = "raw" /\ n' = 1
  /\ UNCHANGED <<raw, lines, pending, elided, function, begun>>

----------------------------------------------------------------------------
(* CleanseRawStrings().                                                    *)

Str == <<"quote", "quote">>
Line == lines[n]

\* A // outside of the strings before it makes it a comment.
InComment(prefix) ==
  \E i \in DOMAIN prefix : prefix[i] = "//" /\ QuotesIn(Upto(prefix, i - 1)) % 2 = 0

FindsRaw(line) == Has(line, "raw(") /\ ~InComment(Upto(line, First(line, "raw(") - 1))

InRaw == phase = "raw" /\ n <= Len(lines)

\* The line it was begun on is behind: what is before its end goes.
EndsRaw ==
  /\ InRaw /\ pending /\ Has(Line, "raw)")
  /\ lines' = [lines EXCEPT ![n] =
       Indent(@) \o Str \o From(@, First(@, "raw)") + 1)]
  /\ pending' = FALSE
  /\ UNCHANGED <<raw, phase, n, elided, function, begun, reports>>

IsInRaw ==
  /\ InRaw /\ pending /\ ~Has(Line, "raw)")
  /\ lines' = [lines EXCEPT ![n] = Str]
  /\ n' = n + 1
  /\ UNCHANGED <<raw, phase, pending, elided, function, begun, reports>>

\* One that ends on its line makes the search begin again.
TakesRaw ==
  /\ InRaw /\ ~pending /\ FindsRaw(Line)
  /\ LET start == First(Line, "raw(")
         rest == From(Line, start + 1)
     IN  IF Has(rest, "raw)")
         THEN /\ lines' = [lines EXCEPT ![n] =
                   Upto(@, start - 1) \o Str \o From(rest, First(rest, "raw)") + 1)]
              /\ UNCHANGED <<n, pending>>
         ELSE /\ lines' = [lines EXCEPT ![n] = Upto(@, start - 1) \o Str]
              /\ pending' = TRUE /\ n' = n + 1
  /\ UNCHANGED <<raw, phase, elided, function, begun, reports>>

PassesLine ==
  /\ InRaw /\ ~pending /\ ~FindsRaw(Line)
  /\ n' = n + 1
  /\ UNCHANGED <<raw, phase, lines, pending, elided, function, begun, reports>>

LeavesRaw ==
  /\ phase = "raw" /\ n > Len(lines)
  /\ phase' = "cleanse" /\ n' = 1
  /\ UNCHANGED <<raw, lines, pending, elided, function, begun, reports>>

----------------------------------------------------------------------------
(* CleansedLines: CleanseComments() and _CollapseStrings().                 *)

\* The line with each part from one of opens to the next of closes replaced; one that
\* does not end stays.
Cuts(s, l, opens, closes, by) ==
  IF s.held = <<>>
  THEN IF l \in opens THEN [s EXCEPT !.held = <<l>>] ELSE [s EXCEPT !.kept = Append(@, l)]
  ELSE IF l \in closes THEN [kept |-> s.kept \o by, held |-> <<>>]
  ELSE [s EXCEPT !.held = Append(@, l)]

CutUpTo(line, opens, closes, by) ==
  LET s[i \in 0..Len(line)] ==
        IF i = 0 THEN [kept |-> <<>>, held |-> <<>>]
        ELSE Cuts(s[i - 1], line[i], opens, closes, by)
  IN  s[Len(line)]

Cut(line, opens, closes, by) ==
  LET end == CutUpTo(line, opens, closes, by) IN end.kept \o end.held

\* IsCppString() of what is before the first //.
IsCppString(prefix) == QuotesIn(prefix) % 2 = 1

CleanseComments(line) ==
  LET pos == First(line, "//")
      cut == IF Has(line, "//") /\ ~IsCppString(Upto(line, pos - 1))
             THEN Upto(line, pos - 1) ELSE line
  IN  Cut(cut, {"/*"}, {"*/"}, <<>>)

CollapseStrings(line) == Cut(line, Quotes, Quotes, Str)

\* Mutation: comments go before strings.
ElideSwapped(line) == CollapseStrings(CleanseComments(line))

Elide(line) == CleanseComments(CollapseStrings(line))

Cleanses ==
  /\ phase = "cleanse"
  /\ lines' = [i \in DOMAIN lines |-> CleanseComments(lines[i])]
  /\ elided' = [i \in DOMAIN lines |-> Elide(lines[i])]
  /\ phase' = "lengths"
  /\ UNCHANGED <<raw, n, pending, function, begun, reports>>

----------------------------------------------------------------------------
(* ProcessLine(): CheckForFunctionLengths().                                *)

Checking == phase = "lengths" /\ n <= Len(lines)
NextCheck == phase' = "strings" /\ UNCHANGED <<raw, n, lines, pending, elided>>

\* It begins with the head of a function, of whatever type.
StartingFunc(line) ==
  \E i \in DOMAIN line : line[i] \in {"f(", "TEST("} /\ \A j \in 1..(i - 1) : line[j] = "x"

\* The first line from here on with a semicolon or brace.
Decides(line) == \E i \in DOMAIN line : line[i] \in {"{", "}", ";"}
Deciding == {i \in n..Len(lines) : Decides(lines[i])}
HasBody == LET line == lines[Min(Deciding)] IN ~Has(line, ";") /\ ~Has(line, "}")

BeginsFunction ==
  /\ Checking /\ StartingFunc(Line) /\ Deciding # {} /\ HasBody
  /\ function' = [inside |-> TRUE, lines |-> 0,
                  test |-> \E i \in DOMAIN Line : Line[i] = "TEST(" /\ ~Has(Upto(Line, i), "f(")]
  /\ begun' = n
  /\ NextCheck /\ UNCHANGED reports

\* A declaration, or a function on one line.
PassesDeclaration ==
  /\ Checking /\ StartingFunc(Line) /\ Deciding # {} /\ ~HasBody
  /\ NextCheck /\ UNCHANGED <<function, begun, reports>>

FindsNoBody ==
  /\ Checking /\ StartingFunc(Line) /\ Deciding = {}
  /\ Report("no body", 5)
  /\ NextCheck /\ UNCHANGED <<function, begun>>

Base == IF function.test THEN TestTrigger ELSE NormalTrigger
Trigger == Base * 2^Verbosity

\* int(log2(lines / base)), at most 5.
Level(count) == Max({k \in 0..5 : k = 0 \/ Base * 2^k <= count})

EndsFunction ==
  /\ Checking /\ Line = <<"}">>
  /\ IF function.inside /\ function.lines > Trigger
     THEN Report("long", Level(function.lines)) ELSE reports' = reports
  /\ function' = [function EXCEPT !.inside = FALSE]
  /\ NextCheck /\ UNCHANGED begun

Blank(line) == \A i \in DOMAIN line : line[i] = "indent"

\* Mutation: a blank line counts.
CountedAny(line) == TRUE

Counted(line) == ~Blank(line)

CountsLine ==
  /\ Checking /\ ~StartingFunc(Line) /\ Line # <<"}">>
  /\ function' = IF function.inside /\ Counted(Line)
                 THEN [function EXCEPT !.lines = @ + 1] ELSE function
  /\ NextCheck /\ UNCHANGED <<begun, reports>>

----------------------------------------------------------------------------
(* ProcessLine(): CheckForMultilineCommentsAndStrings().                    *)

ChecksStrings ==
  /\ phase = "strings"
  /\ reports' = reports
       \cup (IF CountOf(elided[n], {"/*"}) > CountOf(elided[n], {"*/"})
             THEN {<<"comment", n, 5>>} ELSE {})
       \cup (IF QuotesIn(elided[n]) % 2 = 1 THEN {<<"string", n, 5>>} ELSE {})
  /\ n' = n + 1
  /\ phase' = "lengths"
  /\ UNCHANGED <<raw, lines, pending, elided, function, begun>>

CompletesFile ==
  /\ phase = "lengths" /\ n > Len(lines)
  /\ phase' = "end"
  /\ UNCHANGED <<raw, n, lines, pending, elided, function, begun, reports>>

Next ==
  \/ RemovesComment \/ LeavesComments
  \/ EndsRaw \/ IsInRaw \/ TakesRaw \/ PassesLine \/ LeavesRaw
  \/ Cleanses
  \/ BeginsFunction \/ PassesDeclaration \/ FindsNoBody \/ EndsFunction \/ CountsLine
  \/ ChecksStrings \/ CompletesFile

Spec == Init /\ [][Next]_vars
----------------------------------------------------------------------------
(* Properties.                                                             *)

\* How C++ reads a file: where each lexeme is, and what of a line is code.  A string
\* goes on in the next line (after a backslash), a // comment does not.
Then(mode, l) ==
  CASE mode = "code" /\ l = "//" -> "line"
    [] mode = "code" /\ l = "/*" -> "comment"
    [] mode = "code" /\ l = "raw(" -> "raw"
    [] mode = "code" /\ l \in {"quote", "raw)"} -> "string"
    [] mode = "comment" /\ l = "*/" -> "code"
    [] mode = "string" /\ l \in Quotes -> "code"
    [] mode = "raw" /\ l = "raw)" -> "code"
    [] OTHER -> mode

Reads(s, l) ==
  [mode |-> Then(s.mode, l),
   code |-> IF s.mode = "code" /\ l \in Texts THEN Append(s.code, l) ELSE s.code]

Read(mode, line) ==
  LET s[k \in 0..Len(line)] ==
        IF k = 0 THEN [mode |-> mode, code |-> <<>>] ELSE Reads(s[k - 1], line[k])
  IN  s[Len(line)]

\* Where line i begins, and where its lexeme k is.
Mode(i) ==
  LET mode[j \in 1..i] ==
        IF j = 1 THEN "code"
        ELSE LET end == Read(mode[j - 1], raw[j - 1]).mode
             IN  IF end = "line" THEN "code" ELSE end
  IN  mode[i]
At(i, k) == Read(Mode(i), Upto(raw[i], k - 1)).mode

\* What is misread without a warning: a quote in a comment on a line of code, an R"( in
\* a string, a */ in code, code that follows the end of a comment of several lines, and a
\* line in a raw string that looks like the first of such a comment.
Clear(mode, line) ==
  \A k \in DOMAIN line :
    LET at == Read(mode, Upto(line, k - 1)).mode
    IN  /\ at = "comment" => line[k] \notin Quotes
        /\ at = "string" => line[k] # "raw("
        /\ at = "code" => line[k] # "*/"
Understood ==
  \A i \in DOMAIN raw :
    /\ Mode(i) = "comment" => \A k \in DOMAIN raw[i] : At(i, k) = "comment"
    /\ Mode(i) = "raw" => ~BeginsComment(raw[i])
    /\ Mode(i) # "comment" /\ ~BeginsComment(raw[i]) => Clear(Mode(i), raw[i])

NoWarning == \A r \in reports : r[1] \notin {"unended", "comment", "string"}
CodeOf(line) ==
  LET code[k \in 0..Len(line)] ==
        IF k = 0 THEN <<>>
        ELSE IF line[k] \in Texts THEN Append(code[k - 1], line[k]) ELSE code[k - 1]
  IN  code[Len(line)]

\* Of a file without a warning of a multi-line comment or string, the code of each
\* elided line is what C++ takes for code: no comment, string or raw string hides any
\* of it or is taken for it ("We don't do well with either in this lint program, so we
\* warn about both", CheckForMultilineCommentsAndStrings()).
NothingMisread ==
  phase = "end" /\ NoWarning /\ Understood =>
    \A i \in DOMAIN raw : CodeOf(elided[i]) = Read(Mode(i), raw[i]).code

\* A line has code if C++ reads some there, a part of a string included.
HasCode(i) ==
  \/ Read(Mode(i), raw[i]).code # <<>>
  \/ Mode(i) \in {"string", "raw"}
  \/ \E k \in DOMAIN raw[i] : At(i, k) = "code" /\ raw[i][k] \in Quotes
BodyLines == {i \in (begun + 1)..(n - 1) : HasCode(i) /\ ~StartingFunc(lines[i])}

\* At the } that ends a function, an error is reported exactly when more lines than its
\* trigger have code and are counted: those after the last line that was taken for the
\* head of a function with a body, but for the lines that begin as a head does, with
\* names and a parenthesis at the margin: a call there is no head, yet has code and is
\* not counted either.  Blank lines and lines in comments of whatever kind have no code.
\* The error then has a confidence that gets it printed (CheckForFunctionLengths(),
\* _FunctionState.Check()).
LongReported ==
  [][phase = "lengths" /\ function.inside /\ ~function'.inside /\ NoWarning /\ Understood =>
       ((\E level \in Verbosity..5 : <<"long", n, level>> \in reports')
          <=> Cardinality(BodyLines) > Trigger)]_vars
=============================================================================
