------------------------------- MODULE Brackets -------------------------------
(***************************************************************************)
(* CloseExpression() and ReverseCloseExpression() of cpplint.py: where the  *)
(* expression ends that begins with a bracket, and back from there to where *)
(* it begins.  The text is any; a character of it is chosen when it is      *)
(* first read.                                                             *)
(***************************************************************************)
EXTENDS Integers, Sequences

CONSTANTS
  Char,      \* the characters that are used, of those below
  MaxText    \* bound on the length of the text

\* "operator" stands for the word, "ge" for a " >= ", "x" for whatever is not looked
\* at, "newline" for the end of a line.
AllChars == {"(", ")", "[", "]", "{", "}", "<", ">", ";", "-", "operator", "ge", "x",
             "newline"}
Opens == {"(", "[", "{"}
Closes == {")", "]", "}"}
Pair == {<<"(", ")">>, <<"[", "]">>, <<"{", "}">>}

ASSUME CharAssumption == Char \subseteq AllChars
ASSUME MaxTextAssumption == MaxText \in Nat \ {0}

VARIABLES
  text,     \* what was read, from the bracket on
  phase,    \* "forward", "backward", or the outcome: "start", "unclosed", "lost"
  stack,    \* the brackets that are open, the innermost first
  i,        \* backward: the place of the next character
  plain,    \* history: the stack of ( [ and { alone
  legal     \* history: each of them was closed by its like

vars == <<text, phase, stack, i, plain, legal>>

TypeOK ==
  /\ text \in Seq(Char) /\ Len(text) \in 1..MaxText
  /\ phase \in {"forward", "backward", "start", "unclosed", "lost"}
  /\ stack \in Seq(Opens \cup Closes \cup {"<", ">"})
  /\ i \in 0..Len(text)
  /\ plain \in Seq(Opens)
  /\ legal \in BOOLEAN

Init ==
  /\ \E c \in (Opens \cup {"<"}) \cap Char : text = <<c>> /\ stack = <<c>>
  /\ phase = "forward"
  /\ i = 0
  /\ plain = IF text[1] = "<" THEN <<>> ELSE text
  /\ legal = TRUE

----------------------------------------------------------------------------
\* The stack from its first bracket that is not of the kind on.
Without(s, kind) ==
  LET from == {k \in DOMAIN s : s[k] # kind}
  IN  IF from = {} THEN <<>>
      ELSE SubSeq(s, CHOOSE k \in from : \A j \in from : k <= j, Len(s))

On(s, c) == s # <<>> /\ Head(s) = c

(* FindEndOfExpressionInLine(), of one character.                          *)

Last(k) == IF Len(text) >= k THEN text[Len(text) + 1 - k] ELSE "newline"

Nothing == {"-", "x", "operator", "newline"}
Words == {"operator", "ge", "newline"}

\* It is no bracket here: the > of ->, and the > that is one character away from the
\* word operator.
Passes(c) ==
  \/ c \in Nothing
  \/ c = "<" /\ Last(1) = "operator"
  \/ c = ">" /\ (Last(1) = "-" \/ (Last(1) \notin Words /\ Last(2) = "operator"))
  \/ c = "ge" /\ Last(1) = "operator"
  \/ c \in {">", "ge"} /\ ~On(stack, "<")

\* Mutation: a bracket is closed while a < is pending.
PendingKept(s, kind) == s

\* A < that is pending when a bracket or a statement ends was an operator.
Pending(s, kind) == Without(s, kind)

After(c) ==
  LET s == Pending(stack, "<")
  IN  CASE Passes(c) -> stack
        [] c = "<" /\ ~Passes(c) ->
             IF Last(1) # "<" THEN <<c>> \o stack
             ELSE IF On(stack, "<") THEN Tail(stack) ELSE stack
        [] c \in {">", "ge"} /\ ~Passes(c) -> Tail(stack)
        [] c \in Opens -> <<c>> \o stack
        [] c \in Closes -> IF s # <<>> /\ <<Head(s), c>> \in Pair THEN Tail(s) ELSE <<>>
        [] c = ";" -> s

\* An empty stack is the end of the expression, or of the search.
Finds(c) ==
  /\ After(c) = <<>>
  /\ \/ c \in {">", "ge"}
     \/ LET s == Pending(stack, "<") IN c \in Closes /\ s # <<>> /\ <<Head(s), c>> \in Pair

PlainAfter(c) ==
  IF c \in Opens THEN <<c>> \o plain
  ELSE IF c \in Closes /\ plain # <<>> THEN Tail(plain)
  ELSE plain

\* ReverseCloseExpression() of the place that is found begins with an empty stack.
ReadsOn ==
  /\ phase = "forward" /\ Len(text) < MaxText
  /\ \E c \in Char :
       /\ text' = Append(text, c)
       /\ stack' = IF Finds(c) THEN <<>> ELSE After(c)
       /\ phase' = IF Finds(c) THEN "backward"
                   ELSE IF After(c) = <<>> THEN "unclosed" ELSE "forward"
       /\ i' = IF Finds(c) THEN Len(text') ELSE 0
       /\ plain' = PlainAfter(c)
       /\ legal' = (legal /\ (c \in Closes => plain # <<>> /\ <<Head(plain), c>> \in Pair))

\* The end of the file.
GivesUp ==
  /\ phase = "forward"
  /\ phase' = "unclosed"
  /\ UNCHANGED <<text, stack, i, plain, legal>>

----------------------------------------------------------------------------
(* FindStartOfExpressionInLine(), of one character.                        *)

At(k) == IF k \in DOMAIN text THEN text[k] ELSE "newline"

\* Mutation: the first < of a shift is read again.
ShiftReadTwice(c) == c = ">" /\ At(i - 1) \in {"-", "operator"}

\* Mutation: whatever is before a <, both are passed over.
ShiftAlways(c) == c = "<" \/ (c = ">" /\ At(i - 1) \in {"-", "operator"})

\* With the character before it, it is a ->, a << or an operator: both are passed over.
Shift(c) ==
  \/ c = ">" /\ At(i - 1) \in {"-", "operator"}
  \/ c = "<" /\ At(i - 1) = "<"

\* A bracket that begins something: it finds its like, or the search ends.
Begins(c) ==
  LET s == Without(stack, ">")
  IN  IF c = "<" THEN On(stack, ">") ELSE s # <<>> /\ <<c, Head(s)>> \in Pair

Before(c) ==
  CASE c \in Closes \cup {">"} -> <<c>> \o stack
    [] c = "<" -> IF Begins(c) THEN Tail(stack) ELSE stack
    [] c \in Opens -> IF Begins(c) THEN Tail(Without(stack, ">")) ELSE <<>>
    [] c = ";" -> Without(stack, ">")
    [] c \in Nothing \cup {"ge"} -> stack

PassesOver ==
  /\ phase = "backward" /\ i > 0
  /\ Shift(text[i])
  /\ i' = i - 2
  /\ UNCHANGED <<text, phase, stack, plain, legal>>

ReadsBack ==
  /\ phase = "backward" /\ i > 0
  /\ ~Shift(text[i])
  /\ LET c == text[i]
         ends == Before(c) = <<>> /\ c \in Opens \cup {"<", ";", "newline"}
     IN  /\ stack' = Before(c)
         /\ phase' = IF ~ends \/ (c = "<" /\ ~Begins(c)) THEN "backward"
                     ELSE IF c \in Opens \cup {"<"} /\ Begins(c) THEN "start" ELSE "lost"
         /\ i' = IF phase' = "backward" THEN i - 1 ELSE i
  /\ UNCHANGED <<text, plain, legal>>

\* It goes on before the place where it should have ended.
GoesPast ==
  /\ phase = "backward" /\ i = 0
  /\ phase' = "lost"
  /\ UNCHANGED <<text, stack, i, plain, legal>>

Next == ReadsOn \/ GivesUp \/ PassesOver \/ ReadsBack \/ GoesPast

Spec == Init /\ [][Next]_vars
----------------------------------------------------------------------------
(* Properties.                                                             *)

Found == {"backward", "start", "lost"}

\* Whatever < and > are among them, a bracket ( [ or { ends where counting those
\* alone ends it: at the first place where each that was opened is closed by its like,
\* and nowhere if one is closed by another (CloseExpression()).
EndsAsCounted ==
  text[1] \in Opens =>
    /\ phase = "forward" => legal /\ plain # <<>>
    /\ phase \in Found => legal /\ plain = <<>>
    /\ phase = "unclosed" => ~legal \/ plain # <<>>

\* What the two scans read alike: brackets always, and for a < a text without the word
\* operator, a spaced >=, or three < in a row, of which each takes other two for a shift.
ReadAlike ==
  text[1] \in Opens \/
    \A k \in DOMAIN text :
      /\ text[k] \notin {"operator", "ge"}
      /\ text[k] = "<" => At(k + 1) # "<" \/ At(k + 2) # "<"

\* Back from where an expression ends is where it begins, however its lines are
\* broken (ReverseCloseExpression()).
GoesBack ==
  ReadAlike =>
    /\ phase # "lost"
    /\ phase = "start" => i = 1
=============================================================================
