-------------------------------- MODULE Blocks --------------------------------
(***************************************************************************)
(* The blocks that cpplint.py keeps on NestingState.stack, and what one     *)
(* part of a line does to that stack.                                      *)
(*                                                                         *)
(* A line is what NestingState.Update() looks for in it: a preprocessor     *)
(* directive, the change in parentheses, declarations of namespaces at its  *)
(* beginning, one of a class, an access keyword, and the braces, semicolons *)
(* and closed parentheses in what is left.                                 *)
(***************************************************************************)
EXTENDS Integers, Sequences

CONSTANTS
  Lines,        \* the lines a file may have
  Names,        \* the names of classes and namespaces, "" for an anonymous one
  LongNamespace \* the lines of a namespace whose end has to have a comment: 10

Token == {"{", "extern {", "asm {", "}", ";", ")"}
Access == {"public", "protected", "private"}
Line ==
  [directive : {"none", "if", "else", "endif"},
   parens : Int,             \* "(" minus ")"
   asm : BOOLEAN,            \* whether the line begins with asm ( or asm {
   namespaces : Seq([name : Names, opens : BOOLEAN]),
   class : {"none", "class", "struct"}, name : Names,
   argument : BOOLEAN,       \* the class is an argument of a template
   access : Access \cup {"none"},
   tokens : Seq(Token),
   comment : Names \cup {"none", "other"},  \* the namespace named by a comment after }
   disallow : BOOLEAN,       \* whether it is a DISALLOW macro
   indented : BOOLEAN,       \* whether it begins with a space
   macro : BOOLEAN,          \* whether it is part of a #define
   forward : BOOLEAN]        \* whether it is a forward declaration of a class

ASSUME LinesAssumption == Lines \subseteq Line
ASSUME LongAssumption == LongNamespace \in Nat

Block ==
  [kind : {"block", "extern", "class", "namespace"},
   name : Names \cup {"none"},
   start : Nat,              \* starting_linenum
   open : BOOLEAN,           \* seen_open_brace
   parens : Int,             \* open_parentheses
   asm : {"no", "inside", "end", "block"},   \* inline_asm
   access : Access \cup {"none"}]

\* Mutation: an anonymous namespace has the name None.
NewBlockNone(kind, name, n, open) ==
  [kind |-> kind, name |-> IF name = "" THEN "None" ELSE name, start |-> n, open |-> open,
   parens |-> 0, asm |-> "no", access |-> "none"]

NewBlock(kind, name, n, open) ==
  [kind |-> kind, name |-> name, start |-> n, open |-> open,
   parens |-> 0, asm |-> "no", access |-> "none"]

\* The innermost block comes first.
SeenOpenBrace(stack) == stack = <<>> \/ Head(stack).open
InAsmBlock(stack) == stack # <<>> /\ Head(stack).asm # "no"
InClass(stack) == stack # <<>> /\ Head(stack).kind = "class"

ReplaceTop(stack, block) == <<block>> \o Tail(stack)

\* Parentheses are counted in the innermost block, and an asm ( ) begins and
\* ends in it.
AsmAfter(block, l) ==
  CASE block.asm \in {"no", "end"} ->
         IF l.parens # 0 /\ block.parens + l.parens = 1 /\ l.asm THEN "inside" ELSE "no"
    [] block.asm = "inside" -> IF block.parens + l.parens = 0 THEN "end" ELSE "inside"
    [] block.asm = "block" -> "block"

CountParens(stack, l) ==
  IF stack = <<>> THEN stack
  ELSE ReplaceTop(stack, [Head(stack) EXCEPT
         !.parens = @ + l.parens, !.asm = AsmAfter(Head(stack), l)])

\* A declaration of a namespace, with or without its brace on the same line.
PushNamespace(stack, space, n) ==
  <<NewBlock("namespace", space.name, n, space.opens)>> \o stack

\* A declaration of a class, unless it is an argument of a function or template.
Declares(stack, l) ==
  l.class # "none" /\ ~l.argument /\ (stack # <<>> => Head(stack).parens = 0)

PushClass(stack, l, n) ==
  IF Declares(stack, l)
  THEN <<[NewBlock("class", l.name, n, FALSE) EXCEPT
            !.access = IF l.class = "struct" THEN "public" ELSE "private"]>> \o stack
  ELSE stack

SetAccess(stack, l) ==
  IF InClass(stack) /\ l.access # "none"
  THEN ReplaceTop(stack, [Head(stack) EXCEPT !.access = l.access])
  ELSE stack

\* An opening brace completes the head of a namespace or class, or opens a
\* block of its own.
Opens(stack, token, n) ==
  CASE ~SeenOpenBrace(stack) -> ReplaceTop(stack, [Head(stack) EXCEPT !.open = TRUE])
    [] SeenOpenBrace(stack) /\ token = "extern {" ->
         <<NewBlock("extern", "none", n, TRUE)>> \o stack
    [] SeenOpenBrace(stack) /\ token = "asm {" ->
         <<[NewBlock("block", "none", n, TRUE) EXCEPT !.asm = "block"]>> \o stack
    [] OTHER -> <<NewBlock("block", "none", n, TRUE)>> \o stack

\* Mutation: whatever is on top is popped.
AbandonsAny(stack) == IF stack = <<>> THEN stack ELSE Tail(stack)

\* A semicolon or a closed parenthesis ends a declaration without a body.
Abandons(stack) == IF SeenOpenBrace(stack) THEN stack ELSE Tail(stack)

Closes(stack) == IF stack = <<>> THEN stack ELSE Tail(stack)

AfterToken(stack, token, n) ==
  CASE token \in {"{", "extern {", "asm {"} -> Opens(stack, token, n)
    [] token \in {";", ")"} -> Abandons(stack)
    [] token = "}" -> Closes(stack)

\* _NamespaceInfo.CheckEnd(): a long namespace needs a comment with its name, a
\* short one may be without.
BadNamespaceEnd(block, l, n) ==
  /\ block.kind = "namespace"
  /\ n - block.start >= LongNamespace \/ l.comment # "none"
  /\ l.comment # block.name
=============================================================================
