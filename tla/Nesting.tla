-------------------------------- MODULE Nesting --------------------------------
(***************************************************************************)
(* NestingState of cpplint.py, for one file: Update() on each line, with    *)
(* the checks of ProcessLine() that read nothing but its state, and         *)
(* CheckCompletedBlocks() at the end.                                      *)
(***************************************************************************)
EXTENDS Blocks, FiniteSets

CONSTANT MaxLines   \* bound on the lines of a file
ASSUME MaxLinesAssumption == MaxLines \in Nat

VARIABLES
  linenum,
  stack,       \* NestingState.stack, the innermost block first
  pp_stack,    \* NestingState.pp_stack, the innermost conditional first
  previous,    \* previous_stack_top: its depth, and whether it is there yet
  pc, rest,    \* the place in Update(), and what is left of the line
  reports,     \* the errors the last step reported
  braces,      \* history of the lines that count: the braces opened and not closed,
  matched,     \*   whether each brace closed was one that had been opened,
  declared,    \*   whether the last of their declarations and tokens is a declaration,
  complete     \*   and whether each declaration was followed by { ; or )

history == <<braces, matched, declared, complete>>
vars == <<linenum, stack, pp_stack, previous, pc, rest, reports, history>>

Conditional == [before : Seq(Block), seenElse : BOOLEAN, upToElse : Seq(Block)]

TypeOK ==
  /\ linenum \in 0..MaxLines
  /\ stack \in Seq(Block)
  /\ pp_stack \in Seq(Conditional)
  /\ previous \in [depth : Nat, kept : BOOLEAN]
  /\ pc \in {"line", "namespaces", "tokens", "end"}
  /\ \A l \in rest : l \in Line
  /\ reports \subseteq {"namespace", "indentation", "access", "incomplete"}
  /\ braces \in Int /\ {matched, declared, complete} \subseteq BOOLEAN

Init ==
  /\ linenum = 0
  /\ stack = <<>> /\ pp_stack = <<>>
  /\ previous = [depth |-> 0, kept |-> FALSE]
  /\ pc = "line" /\ rest = {}
  /\ reports = {}
  /\ braces = 0 /\ matched = TRUE /\ declared = FALSE /\ complete = TRUE

\* The conditionals of which an #else has been met.
Skipped == {i \in DOMAIN pp_stack : pp_stack[i].seenElse}
Outermost == CHOOSE i \in Skipped : \A j \in Skipped : j <= i
----------------------------------------------------------------------------
(* UpdatePreprocessor().                                                   *)

SavesCopy(l) ==
  /\ l.directive = "if"
  /\ pp_stack' = <<[before |-> stack, seenElse |-> FALSE, upToElse |-> <<>>]>> \o pp_stack
  /\ stack' = CountParens(stack, l)

\* Mutation: the blocks up to an #elif replace those up to the first.
RestoresLast(l) ==
  /\ l.directive = "else" /\ pp_stack # <<>>
  /\ pp_stack' = [pp_stack EXCEPT ![1] = [@ EXCEPT !.seenElse = TRUE, !.upToElse = stack]]
  /\ stack' = CountParens(Head(pp_stack).before, l)

\* The first #else or #elif saves what is kept after #endif; each goes back to
\* what was before #if.
Restores(l) ==
  /\ l.directive = "else" /\ pp_stack # <<>>
  /\ pp_stack' = IF Head(pp_stack).seenElse THEN pp_stack
                 ELSE [pp_stack EXCEPT ![1] = [@ EXCEPT !.seenElse = TRUE, !.upToElse = stack]]
  /\ stack' = CountParens(Head(pp_stack).before, l)

\* Mutation: the stack of the last branch is kept.
DropsLast(l) ==
  /\ l.directive = "endif" /\ pp_stack # <<>>
  /\ pp_stack' = Tail(pp_stack)
  /\ stack' = CountParens(stack, l)

Drops(l) ==
  /\ l.directive = "endif" /\ pp_stack # <<>>
  /\ pp_stack' = Tail(pp_stack)
  /\ stack' = CountParens(IF Head(pp_stack).seenElse THEN Head(pp_stack).upToElse ELSE stack, l)

\* An #else or #endif without #if does nothing.
Passes(l) ==
  /\ l.directive = "none" \/ (l.directive \in {"else", "endif"} /\ pp_stack = <<>>)
  /\ pp_stack' = pp_stack
  /\ stack' = CountParens(stack, l)
----------------------------------------------------------------------------
(* Update().                                                               *)

\* Whether the block that was on top is the same object after the directive.
Replaced(l) ==
  pp_stack # <<>> /\ (l.directive = "else" \/ (l.directive = "endif" /\ Head(pp_stack).seenElse))

BeginsLine(l) ==
  /\ pc = "line" /\ linenum < MaxLines
  /\ linenum' = linenum + 1
  /\ previous' = [depth |-> Len(stack), kept |-> stack # <<>> /\ ~Replaced(l)]
  /\ SavesCopy(l) \/ Restores(l) \/ Drops(l) \/ Passes(l)
  /\ pc' = "namespaces" /\ rest' = {l}
  /\ reports' = {}
  /\ UNCHANGED history

\* The text is read unless the line is skipped, and whatever is on the stack.
CountBraces(change) == braces' = IF Skipped = {} THEN braces + change ELSE braces
ReadsDeclaration(headless) ==
  IF Skipped = {} THEN declared' = headless /\ complete' = (complete /\ ~declared)
  ELSE UNCHANGED <<declared, complete>>
ReadsToken(token) ==
  IF Skipped = {}
  THEN /\ matched' = (matched /\ (token = "}" => braces > 0))
       /\ declared' = FALSE
       /\ complete' = (complete /\ ~(token = "}" /\ declared))
  ELSE UNCHANGED <<matched, declared, complete>>

TakesNamespace ==
  /\ pc = "namespaces"
  /\ \E l \in rest :
       /\ l.namespaces # <<>>
       /\ stack' = PushNamespace(stack, Head(l.namespaces), linenum)
       /\ rest' = {[l EXCEPT !.namespaces = Tail(@)]}
       /\ CountBraces(IF Head(l.namespaces).opens THEN 1 ELSE 0)
       /\ ReadsDeclaration(~Head(l.namespaces).opens)
  /\ UNCHANGED <<linenum, pp_stack, previous, pc, reports, matched>>

TakesClass ==
  /\ pc = "namespaces"
  /\ \E l \in rest :
       /\ l.namespaces = <<>>
       /\ stack' = SetAccess(PushClass(stack, l, linenum), l)
       /\ IF l.class # "none" /\ ~l.argument THEN ReadsDeclaration(TRUE)
          ELSE UNCHANGED <<declared, complete>>
  /\ pc' = "tokens"
  /\ UNCHANGED <<linenum, pp_stack, previous, rest, reports, braces, matched>>

Change(token) == IF token = "}" THEN -1 ELSE IF token \in {";", ")"} THEN 0 ELSE 1

TakesToken ==
  /\ pc = "tokens"
  /\ \E l \in rest :
       /\ l.tokens # <<>>
       /\ LET token == Head(l.tokens)
          IN  /\ stack' = AfterToken(stack, token, linenum)
              /\ rest' = {[l EXCEPT !.tokens = Tail(@)]}
              /\ reports' = IF token = "}" /\ stack # <<>>
                               /\ BadNamespaceEnd(Head(stack), l, linenum)
                            THEN {"namespace"} ELSE {}
              /\ CountBraces(Change(token))
              /\ ReadsToken(token)
  /\ previous' = [previous EXCEPT !.kept = @ /\ Len(stack') >= previous.depth]
  /\ UNCHANGED <<linenum, pp_stack, pc>>

----------------------------------------------------------------------------
(* The rest of ProcessLine().                                              *)

\* CheckForNamespaceIndentation(): the line opened a class or namespace in the
\* namespace that was innermost before it, or declares a class in one.
InNamespace(l) ==
  IF l.forward THEN stack # <<>> /\ Head(stack).kind = "namespace"
  ELSE /\ Len(stack) > 1
       /\ Head(stack).kind \in {"class", "namespace"}
       /\ stack[2].kind = "namespace"
       /\ previous.kept /\ previous.depth = Len(stack) - 1

BadIndentation(l) ==
  IF InNamespace(l) /\ ~l.macro /\ l.indented THEN {"indentation"} ELSE {}

\* CheckAccess(): a DISALLOW macro of a class is in its private section.
BadAccess(l) ==
  IF ~InAsmBlock(stack) /\ l.disallow /\ InClass(stack) /\ Head(stack).access # "private"
  THEN {"access"} ELSE {}

EndsLine ==
  /\ pc = "tokens"
  /\ \E l \in rest : l.tokens = <<>> /\ reports' = BadIndentation(l) \cup BadAccess(l)
  /\ pc' = "line" /\ rest' = {}
  /\ UNCHANGED <<linenum, stack, pp_stack, previous, history>>

Incomplete == \E i \in DOMAIN stack : stack[i].kind \in {"class", "namespace"}

CompletesFile ==
  /\ pc = "line"
  /\ pc' = "end"
  /\ reports' = IF Incomplete THEN {"incomplete"} ELSE {}
  /\ UNCHANGED <<linenum, stack, pp_stack, previous, rest, history>>

Next ==
  \/ \E l \in Lines : BeginsLine(l)
  \/ TakesNamespace \/ TakesClass \/ TakesToken \/ EndsLine
  \/ CompletesFile

Spec == Init /\ [][Next]_vars
----------------------------------------------------------------------------
(* Properties.                                                             *)

\* The blocks that count: those before the outermost #else in progress.
CountingStack == IF Skipped = {} THEN stack ELSE pp_stack[Outermost].upToElse

\* However conditionals nest, and whatever the branches after an #else open or
\* close, the blocks are those of the other lines alone: what is said in
\* UpdatePreprocessor(), lines 2397-2403.
Plain == INSTANCE PlainNesting WITH
  stack <- CountingStack,
  conds <- IF Skipped = {} THEN Len(pp_stack) ELSE Len(pp_stack) - Outermost,
  skipping <- IF Skipped = {} THEN 0 ELSE Outermost,
  pc <- IF Skipped # {} \/ pc = "end" THEN "line" ELSE pc,
  rest <- IF Skipped = {} THEN rest ELSE {}
SkipsElse == Plain!Spec

OpenBlocks == Cardinality({i \in DOMAIN CountingStack : CountingStack[i].open})

\* In a text whose braces match, and in which each declaration of a class or namespace is
\* followed by { ; or ) before the next or a }, the blocks whose brace was seen are as many
\* as the braces that are open: no declaration that is abandoned, or has its brace lines
\* later, loses or adds one (NestingState.Update()).  Both conditions are of the text.
EveryBraceCounted == matched /\ complete => OpenBlocks = braces
=============================================================================
