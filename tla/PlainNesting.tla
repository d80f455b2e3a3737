----------------------------- MODULE PlainNesting -----------------------------
(***************************************************************************)
(* What NestingState promises of files with conditionals: the lines from an *)
(* #else or #elif to its #endif, with all that is nested there, leave the   *)
(* blocks alone.  There are no saved copies here: a conditional is a count. *)
(***************************************************************************)
EXTENDS Blocks

VARIABLES
  linenum,
  stack,      \* the blocks that are open
  conds,      \* the conditionals in progress whose first branch this is
  skipping,   \* 0, or the conditionals in progress since an #else was met
  pc,         \* what of the line comes next
  rest        \* what is left of the line

vars == <<linenum, stack, conds, skipping, pc, rest>>

Init ==
  /\ linenum = 0
  /\ stack = <<>>
  /\ conds = 0 /\ skipping = 0
  /\ pc = "line" /\ rest = {}

Conditional(l) ==
  CASE l.directive = "if" ->
         IF skipping > 0 THEN skipping' = skipping + 1 /\ conds' = conds
         ELSE conds' = conds + 1 /\ skipping' = 0
    [] l.directive = "else" ->
         IF skipping = 0 /\ conds > 0 THEN skipping' = 1 /\ conds' = conds - 1
         ELSE UNCHANGED <<conds, skipping>>
    [] l.directive = "endif" ->
         IF skipping > 0 THEN skipping' = skipping - 1 /\ conds' = conds
         ELSE conds' = (IF conds > 0 THEN conds - 1 ELSE 0) /\ skipping' = 0
    [] OTHER -> UNCHANGED <<conds, skipping>>

BeginsLine(l) ==
  /\ pc = "line"
  /\ linenum' = linenum + 1
  /\ Conditional(l)
  /\ \/ skipping' > 0 /\ UNCHANGED <<stack, pc, rest>>
     \/ /\ skipping' = 0
        /\ stack' = CountParens(stack, l)
        /\ pc' = "namespaces" /\ rest' = {l}

TakesNamespace ==
  /\ pc = "namespaces"
  /\ \E l \in rest :
       /\ l.namespaces # <<>>
       /\ stack' = PushNamespace(stack, Head(l.namespaces), linenum)
       /\ rest' = {[l EXCEPT !.namespaces = Tail(@)]}
  /\ UNCHANGED <<linenum, conds, skipping, pc>>

TakesClass ==
  /\ pc = "namespaces"
  /\ \E l \in rest :
       /\ l.namespaces = <<>>
       /\ stack' = SetAccess(PushClass(stack, l, linenum), l)
  /\ pc' = "tokens"
  /\ UNCHANGED <<linenum, conds, skipping, rest>>

TakesToken ==
  /\ pc = "tokens"
  /\ \E l \in rest :
       /\ l.tokens # <<>>
       /\ stack' = AfterToken(stack, Head(l.tokens), linenum)
       /\ rest' = {[l EXCEPT !.tokens = Tail(@)]}
  /\ UNCHANGED <<linenum, conds, skipping, pc>>

EndsLine ==
  /\ pc = "tokens"
  /\ \E l \in rest : l.tokens = <<>>
  /\ pc' = "line" /\ rest' = {}
  /\ UNCHANGED <<linenum, stack, conds, skipping>>

Next ==
  \/ \E l \in Lines : BeginsLine(l)
  \/ TakesNamespace \/ TakesClass \/ TakesToken \/ EndsLine

Spec == Init /\ [][Next]_vars
=============================================================================
