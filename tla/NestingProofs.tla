----------------------------- MODULE NestingProofs -----------------------------
(***************************************************************************)
(* Proofs about Nesting, for any lines, any number of them and any depth of *)
(* conditionals and blocks: that NestingState does what PlainNesting says.  *)
(***************************************************************************)
EXTENDS Nesting, SequenceTheorems, FiniteSetTheorems, TLAPS

----------------------------------------------------------------------------
(* The conditionals of which an #else has been met, in any pp_stack.       *)

SkippedIn(p) == {i \in DOMAIN p : p[i].seenElse}
OutermostIn(p) == CHOOSE i \in SkippedIn(p) : \A j \in SkippedIn(p) : j <= i
IsOutermost(p, m) == m \in SkippedIn(p) /\ \A j \in SkippedIn(p) : j <= m

LEMMA OutermostIs ==
  ASSUME NEW p \in Seq(Conditional), NEW m, IsOutermost(p, m)
  PROVE  OutermostIn(p) = m
<1>1. SkippedIn(p) \subseteq Nat
  BY DEF SkippedIn
<1>2. \A i \in SkippedIn(p) : (\A j \in SkippedIn(p) : j <= i) => i = m
  BY <1>1 DEF IsOutermost
<1> QED
  BY <1>2 DEF IsOutermost, OutermostIn

\* #if: the conditionals move down by one.
LEMMA Pushed ==
  ASSUME NEW p \in Seq(Conditional), NEW c \in Conditional, ~c.seenElse,
         NEW q, q = <<c>> \o p
  PROVE  /\ q \in Seq(Conditional) /\ Len(q) = Len(p) + 1
         /\ SkippedIn(p) = {} => SkippedIn(q) = {}
         /\ \A m : IsOutermost(p, m) => IsOutermost(q, m + 1) /\ q[m + 1] = p[m]
<1>1. <<c>> \in Seq(Conditional) /\ Len(<<c>>) = 1 /\ <<c>>[1] = c
  OBVIOUS
<1>2. /\ q \in Seq(Conditional) /\ Len(q) = Len(p) + 1
      /\ q[1] = c /\ \A i \in 1..Len(p) : q[i + 1] = p[i]
  BY <1>1, ConcatProperties
<1>3. DOMAIN p = 1..Len(p) /\ DOMAIN q = 1..(Len(p) + 1) /\ Len(p) \in Nat
  BY <1>2
<1>4. \A i : i \in SkippedIn(p) => i + 1 \in SkippedIn(q) /\ q[i + 1] = p[i]
  BY <1>2, <1>3 DEF SkippedIn
<1>5. \A i \in SkippedIn(q) : i \in Nat /\ i - 1 \in SkippedIn(p)
  <2> TAKE i \in SkippedIn(q)
  <2>1. i \in 1..(Len(p) + 1) /\ q[i].seenElse
    BY <1>3 DEF SkippedIn
  <2>2. i # 1
    BY <2>1, <1>2
  <2>3. i - 1 \in 1..Len(p) /\ q[(i - 1) + 1] = p[i - 1] /\ (i - 1) + 1 = i
    BY <2>1, <2>2, <1>2, <1>3
  <2> QED
    BY <2>1, <2>3, <1>3 DEF SkippedIn
<1>6. SkippedIn(p) \subseteq Nat
  BY <1>3 DEF SkippedIn
<1>7. ASSUME NEW m, IsOutermost(p, m)
      PROVE  IsOutermost(q, m + 1) /\ q[m + 1] = p[m]
  <2>1. m \in SkippedIn(p) /\ m \in Nat
    BY <1>6, <1>7 DEF IsOutermost
  <2>2. m + 1 \in SkippedIn(q) /\ q[m + 1] = p[m]
    BY <2>1, <1>4
  <2>3. ASSUME NEW j \in SkippedIn(q) PROVE j <= m + 1
    <3>1. j \in Nat /\ j - 1 \in SkippedIn(p)
      BY <1>5
    <3>2. j - 1 <= m
      BY <3>1, <1>7 DEF IsOutermost
    <3> QED
      BY <2>1, <3>1, <3>2
  <2> QED
    BY <2>2, <2>3 DEF IsOutermost
<1>8. SkippedIn(p) = {} => SkippedIn(q) = {}
  BY <1>5
<1> QED
  BY <1>2, <1>7, <1>8

\* #endif: they move up by one, and the innermost goes.
LEMMA Popped ==
  ASSUME NEW p \in Seq(Conditional), p # <<>>, NEW q, q = Tail(p)
  PROVE  /\ q \in Seq(Conditional) /\ Len(q) = Len(p) - 1
         /\ SkippedIn(p) = {} => SkippedIn(q) = {}
         /\ IsOutermost(p, 1) => SkippedIn(q) = {}
         /\ \A m : IsOutermost(p, m) /\ m # 1 => IsOutermost(q, m - 1) /\ q[m - 1] = p[m]
<1>1. /\ q \in Seq(Conditional) /\ Len(q) = Len(p) - 1
      /\ \A i \in 1..Len(q) : q[i] = p[i + 1]
  BY HeadTailProperties
<1>2. DOMAIN p = 1..Len(p) /\ DOMAIN q = 1..Len(q) /\ Len(p) \in Nat
  BY <1>1
<1>3. \A i \in SkippedIn(q) : i \in Nat /\ i >= 1 /\ i + 1 \in SkippedIn(p)
  BY <1>1, <1>2 DEF SkippedIn
<1>4. \A i \in SkippedIn(p) : i \in Nat
  BY <1>2 DEF SkippedIn
<1>5. \A i \in SkippedIn(p) : i # 1 => i - 1 \in SkippedIn(q) /\ q[i - 1] = p[i]
  <2> TAKE i \in SkippedIn(p)
  <2> HAVE i # 1
  <2>1. i \in 1..Len(p) /\ p[i].seenElse
    BY <1>2 DEF SkippedIn
  <2>2. i - 1 \in 1..Len(q) /\ q[i - 1] = p[(i - 1) + 1] /\ (i - 1) + 1 = i
    BY <2>1, <1>1, <1>2
  <2> QED
    BY <2>1, <2>2, <1>2 DEF SkippedIn
<1>6. IsOutermost(p, 1) => SkippedIn(q) = {}
  BY <1>3 DEF IsOutermost
<1>7. ASSUME NEW m, IsOutermost(p, m), m # 1
      PROVE  IsOutermost(q, m - 1) /\ q[m - 1] = p[m]
  <2>1. m \in SkippedIn(p) /\ m \in Nat
    BY <1>4, <1>7 DEF IsOutermost
  <2>2. m - 1 \in SkippedIn(q) /\ q[m - 1] = p[m]
    BY <2>1, <1>5, <1>7
  <2>3. ASSUME NEW j \in SkippedIn(q) PROVE j <= m - 1
    <3>1. j \in Nat /\ j + 1 \in SkippedIn(p)
      BY <1>3
    <3>2. j + 1 <= m
      BY <3>1, <1>7 DEF IsOutermost
    <3> QED
      BY <2>1, <3>1, <3>2
  <2> QED
    BY <2>2, <2>3 DEF IsOutermost
<1>8. SkippedIn(p) = {} => SkippedIn(q) = {}
  BY <1>3
<1> QED
  BY <1>1, <1>6, <1>7, <1>8

LEMMA OnlyFirst == \A q : SkippedIn(q) = {1} => IsOutermost(q, 1)
  BY DEF IsOutermost

\* The first #else of the innermost conditional.
LEMMA MarkedType ==
  ASSUME NEW c \in Conditional, NEW s \in Seq(Block)
  PROVE  LET d == [c EXCEPT !.seenElse = TRUE, !.upToElse = s]
         IN  d \in Conditional /\ d.seenElse /\ d.upToElse = s
  BY DEF Conditional

LEMMA Marked ==
  ASSUME NEW p \in Seq(Conditional), p # <<>>, ~p[1].seenElse,
         NEW q \in Seq(Conditional), Len(q) = Len(p), q[1].seenElse,
         \A j \in 1..Len(p) : j # 1 => q[j] = p[j]
  PROVE  /\ SkippedIn(p) = {} => IsOutermost(q, 1)
         /\ \A m : IsOutermost(p, m) => IsOutermost(q, m) /\ q[m] = p[m]
<1>1. DOMAIN p = 1..Len(p) /\ DOMAIN q = 1..Len(p) /\ 1 \in 1..Len(p) /\ Len(p) \in Nat
  BY EmptySeq
<1>2. SkippedIn(q) = SkippedIn(p) \cup {1} /\ 1 \notin SkippedIn(p)
  BY <1>1 DEF SkippedIn
<1>3. \A m \in SkippedIn(p) : m \in 1..Len(p) /\ q[m] = p[m]
  BY <1>1, <1>2 DEF SkippedIn
<1>4. ASSUME NEW m, IsOutermost(p, m) PROVE IsOutermost(q, m) /\ q[m] = p[m]
  BY <1>2, <1>3, <1>4 DEF IsOutermost
<1>5. ASSUME SkippedIn(p) = {} PROVE IsOutermost(q, 1)
  <2>1. SkippedIn(q) = {1}
    BY <1>2, <1>5
  <2> QED
    BY <2>1, OnlyFirst
<1> QED
  BY <1>4, <1>5
----------------------------------------------------------------------------
(* Types.                                                                  *)

LEMMA NewBlockType ==
  ASSUME NEW kind \in {"block", "extern", "class", "namespace"},
         NEW name \in Names \cup {"none"}, NEW n \in Nat, NEW open \in BOOLEAN
  PROVE  NewBlock(kind, name, n, open) \in Block
  BY DEF NewBlock, Block

LEMMA BlockWithParens ==
  ASSUME NEW b \in Block, NEW k \in Int, NEW a \in {"no", "inside", "end", "block"}
  PROVE  [b EXCEPT !.parens = @ + k, !.asm = a] \in Block
<1>1. b.parens + k \in Int
  BY DEF Block
<1> QED
  BY <1>1 DEF Block

LEMMA BlockWithAccess ==
  ASSUME NEW b \in Block, NEW x \in Access \cup {"none"}
  PROVE  [b EXCEPT !.access = x] \in Block
  BY DEF Block

LEMMA OnTop ==
  ASSUME NEW s \in Seq(Block), NEW b \in Block
  PROVE  <<b>> \o s \in Seq(Block) /\ (s # <<>> => ReplaceTop(s, b) \in Seq(Block))
<1>1. <<b>> \in Seq(Block)
  OBVIOUS
<1>2. s # <<>> => Tail(s) \in Seq(Block)
  BY HeadTailProperties
<1> QED
  BY <1>1, <1>2, ConcatProperties DEF ReplaceTop

LEMMA CountParensType ==
  ASSUME NEW s \in Seq(Block), NEW l \in Line
  PROVE  CountParens(s, l) \in Seq(Block)
<1>1. CASE s # <<>>
  <2> DEFINE b == [Head(s) EXCEPT !.parens = @ + l.parens, !.asm = AsmAfter(Head(s), l)]
  <2>1. Head(s) \in Block
    BY <1>1, HeadTailProperties
  <2>2. l.parens \in Int
    BY DEF Line
  <2>3. AsmAfter(Head(s), l) \in {"no", "inside", "end", "block"}
    BY <2>1 DEF AsmAfter, Block
  <2>4. b \in Block
    BY <2>1, <2>2, <2>3, BlockWithParens
  <2> HIDE DEF b
  <2>5. ReplaceTop(s, b) \in Seq(Block)
    BY <1>1, <2>4, OnTop
  <2> QED
    BY <1>1, <2>5 DEF CountParens, b
<1> QED
  BY <1>1 DEF CountParens

LEMMA TakesClassType ==
  ASSUME NEW s \in Seq(Block), NEW l \in Line, NEW n \in Nat
  PROVE  SetAccess(PushClass(s, l, n), l) \in Seq(Block)
<1> DEFINE c == [NewBlock("class", l.name, n, FALSE) EXCEPT
                   !.access = IF l.class = "struct" THEN "public" ELSE "private"]
           t == PushClass(s, l, n)
           b == [Head(t) EXCEPT !.access = l.access]
<1>1. l.name \in Names /\ l.access \in Access \cup {"none"}
  BY DEF Line
<1>2. c \in Block
  <2>1. NewBlock("class", l.name, n, FALSE) \in Block
    BY <1>1, NewBlockType
  <2>2. (IF l.class = "struct" THEN "public" ELSE "private") \in Access \cup {"none"}
    BY DEF Access
  <2> DEFINE n0 == NewBlock("class", l.name, n, FALSE)
             a == IF l.class = "struct" THEN "public" ELSE "private"
  <2> HIDE DEF n0, a
  <2>3. [n0 EXCEPT !.access = a] \in Block
    BY <2>1, <2>2, BlockWithAccess DEF n0, a
  <2> QED
    BY <2>3 DEF n0, a
<1> HIDE DEF c
<1>3. <<c>> \o s \in Seq(Block)
  BY <1>2, OnTop
<1>4. t \in Seq(Block)
  BY <1>3 DEF PushClass, c
<1> HIDE DEF t
<1>5. CASE t # <<>>
  <2>1. Head(t) \in Block
    BY <1>4, <1>5, HeadTailProperties
  <2>2. b \in Block
    BY <1>1, <2>1, BlockWithAccess
  <2> HIDE DEF b
  <2>3. ReplaceTop(t, b) \in Seq(Block)
    BY <1>4, <1>5, <2>2, OnTop
  <2> QED
    BY <1>4, <2>3 DEF SetAccess, t, b
<1> QED
  BY <1>4, <1>5 DEF SetAccess, InClass, t

LEMMA AfterTokenType ==
  ASSUME NEW s \in Seq(Block), NEW token \in Token, NEW n \in Nat
  PROVE  AfterToken(s, token, n) \in Seq(Block)
<1> DEFINE o == [Head(s) EXCEPT !.open = TRUE]
           x == NewBlock("extern", "none", n, TRUE)
           a == [NewBlock("block", "none", n, TRUE) EXCEPT !.asm = "block"]
           b == NewBlock("block", "none", n, TRUE)
<1>1. x \in Block /\ b \in Block
  BY NewBlockType
<1>2. a \in Block
  BY <1>1 DEF Block
<1>3. s # <<>> => Head(s) \in Block /\ Tail(s) \in Seq(Block)
  BY HeadTailProperties
<1>4. s # <<>> => o \in Block
  BY <1>3 DEF Block
<1> HIDE DEF o, x, a, b
<1>5. <<x>> \o s \in Seq(Block) /\ <<a>> \o s \in Seq(Block) /\ <<b>> \o s \in Seq(Block)
  BY <1>1, <1>2, OnTop
<1>6. s # <<>> => ReplaceTop(s, o) \in Seq(Block)
  BY <1>4, OnTop
<1>7. token \in {"{", "extern {", "asm {"} => Opens(s, token, n) \in Seq(Block)
  BY <1>5, <1>6 DEF Opens, SeenOpenBrace, o, x, a, b
<1>8. Abandons(s) \in Seq(Block) /\ Closes(s) \in Seq(Block)
  BY <1>3 DEF Abandons, Closes, SeenOpenBrace
<1> QED
  BY <1>7, <1>8 DEF AfterToken, Token

\* What is left of a line is one.
LEMMA RestType ==
  ASSUME NEW l \in Line
  PROVE  /\ l.namespaces # <<>> =>
              /\ Head(l.namespaces).name \in Names /\ Head(l.namespaces).opens \in BOOLEAN
              /\ [l EXCEPT !.namespaces = Tail(@)] \in Line
         /\ l.tokens # <<>> =>
              Head(l.tokens) \in Token /\ [l EXCEPT !.tokens = Tail(@)] \in Line
<1> DEFINE Spaces == [name : Names, opens : BOOLEAN]
<1>1. l.namespaces \in Seq(Spaces) /\ l.tokens \in Seq(Token)
  BY DEF Line
<1>2. l.namespaces # <<>> =>
        Head(l.namespaces) \in Spaces /\ Tail(l.namespaces) \in Seq(Spaces)
  BY <1>1, HeadTailProperties
<1>3. l.tokens # <<>> => Head(l.tokens) \in Token /\ Tail(l.tokens) \in Seq(Token)
  BY <1>1, HeadTailProperties
<1>4. l.namespaces # <<>> => [l EXCEPT !.namespaces = Tail(@)] \in Line
  BY <1>2 DEF Line
<1>5. l.tokens # <<>> => [l EXCEPT !.tokens = Tail(@)] \in Line
  BY <1>3 DEF Line
<1> QED
  BY <1>2, <1>3, <1>4, <1>5

LEMMA DirectiveType ==
  ASSUME TypeOK, NEW l \in Line,
         SavesCopy(l) \/ Restores(l) \/ Drops(l) \/ Passes(l)
  PROVE  stack' \in Seq(Block) /\ pp_stack' \in Seq(Conditional)
<1>1. stack \in Seq(Block) /\ pp_stack \in Seq(Conditional)
  BY DEF TypeOK
<1>2. pp_stack # <<>> =>
        /\ Head(pp_stack) \in Conditional /\ Head(pp_stack) = pp_stack[1]
        /\ Head(pp_stack).before \in Seq(Block) /\ Head(pp_stack).upToElse \in Seq(Block)
  <2>1. ASSUME pp_stack # <<>>
        PROVE  Head(pp_stack) \in Conditional /\ Head(pp_stack) = pp_stack[1]
    BY <1>1, <2>1, HeadTailProperties
  <2>2. \A c \in Conditional : c.before \in Seq(Block) /\ c.upToElse \in Seq(Block)
    BY DEF Conditional
  <2> QED
    BY <2>1, <2>2
<1>3. CASE SavesCopy(l)
  <2> DEFINE c == [before |-> stack, seenElse |-> FALSE, upToElse |-> <<>>]
  <2>1. c \in Conditional /\ ~c.seenElse
    BY <1>1, EmptySeq DEF Conditional
  <2> HIDE DEF c
  <2>2. <<c>> \o pp_stack \in Seq(Conditional)
    BY <1>1, <2>1, Pushed
  <2> QED
    BY <1>1, <1>3, <2>2, CountParensType DEF SavesCopy, c
<1>4. CASE Restores(l)
  <2>1. stack' \in Seq(Block) /\ pp_stack # <<>>
    BY <1>2, <1>4, CountParensType DEF Restores
  <2>2. CASE Head(pp_stack).seenElse
    BY <1>1, <1>4, <2>1, <2>2 DEF Restores
  <2>3. CASE ~Head(pp_stack).seenElse
    <3> DEFINE c == [pp_stack[1] EXCEPT !.seenElse = TRUE, !.upToElse = stack]
    <3>1. pp_stack' = [pp_stack EXCEPT ![1] = c]
      BY <1>4, <2>3 DEF Restores
    <3>2. ~pp_stack[1].seenElse /\ pp_stack[1] \in Conditional
      BY <1>2, <2>1, <2>3
    <3>3. c \in Conditional /\ c.seenElse
      BY <1>1, <3>2, MarkedType
    <3> HIDE DEF c
    <3> QED
      BY <1>1, <2>1, <3>1, <3>3, EmptySeq
  <2> QED
    BY <2>2, <2>3
<1>5. CASE Drops(l)
  <2>1. stack' \in Seq(Block) /\ pp_stack # <<>> /\ pp_stack' = Tail(pp_stack)
    BY <1>1, <1>2, <1>5, CountParensType DEF Drops
  <2> QED
    BY <1>1, <2>1, Popped
<1>6. CASE Passes(l)
  BY <1>1, <1>6, CountParensType DEF Passes
<1> QED
  BY <1>3, <1>4, <1>5, <1>6

LEMMA TypeNext == TypeOK /\ [Next]_vars => TypeOK'
<1> SUFFICES ASSUME TypeOK, [Next]_vars PROVE TypeOK'
  OBVIOUS
<1>1. /\ linenum \in Nat /\ linenum \in 0..MaxLines /\ stack \in Seq(Block)
      /\ pp_stack \in Seq(Conditional) /\ \A l \in rest : l \in Line
  BY MaxLinesAssumption DEF TypeOK
<1>2. ASSUME NEW l \in Lines, BeginsLine(l) PROVE TypeOK'
  <2>1. l \in Line
    BY LinesAssumption
  <2>2. stack' \in Seq(Block) /\ pp_stack' \in Seq(Conditional)
    BY <1>2, <2>1, DirectiveType DEF BeginsLine
  <2>3. previous' \in [depth : Nat, kept : BOOLEAN]
    BY <1>1, <1>2, LenProperties DEF BeginsLine
  <2>4. linenum' \in 0..MaxLines
    BY <1>1, <1>2, MaxLinesAssumption DEF BeginsLine
  <2> QED
    BY <1>2, <2>1, <2>2, <2>3, <2>4 DEF BeginsLine, history, TypeOK
<1>3. CASE TakesNamespace
  <2>1. PICK l \in rest :
          /\ l.namespaces # <<>>
          /\ stack' = PushNamespace(stack, Head(l.namespaces), linenum)
          /\ rest' = {[l EXCEPT !.namespaces = Tail(@)]}
          /\ CountBraces(IF Head(l.namespaces).opens THEN 1 ELSE 0)
          /\ ReadsDeclaration(~Head(l.namespaces).opens)
    BY <1>3 DEF TakesNamespace
  <2>5. {declared', complete'} \subseteq BOOLEAN
    BY <2>1 DEF ReadsDeclaration, TypeOK
  <2>2. stack' \in Seq(Block)
    BY <1>1, <2>1, RestType, NewBlockType, OnTop DEF PushNamespace
  <2>3. \A m \in rest' : m \in Line
    BY <1>1, <2>1, RestType
  <2>4. braces' \in Int
    BY <2>1 DEF CountBraces, TypeOK
  <2> QED
    BY <1>3, <2>2, <2>3, <2>4, <2>5 DEF TakesNamespace, TypeOK
<1>4. CASE TakesClass
  <2>1. stack' \in Seq(Block)
    BY <1>1, <1>4, TakesClassType DEF TakesClass
  <2> QED
    BY <1>4, <2>1 DEF TakesClass, ReadsDeclaration, TypeOK
<1>5. CASE TakesToken
  <2>1. PICK l \in rest :
          /\ l.tokens # <<>>
          /\ stack' = AfterToken(stack, Head(l.tokens), linenum)
          /\ rest' = {[l EXCEPT !.tokens = Tail(@)]}
          /\ reports' \subseteq {"namespace"}
          /\ CountBraces(Change(Head(l.tokens)))
          /\ {matched', declared', complete'} \subseteq BOOLEAN
    BY <1>5 DEF TakesToken, ReadsToken, TypeOK
  <2>2. stack' \in Seq(Block)
    BY <1>1, <2>1, RestType, AfterTokenType
  <2>3. \A m \in rest' : m \in Line
    BY <1>1, <2>1, RestType
  <2>4. braces' \in Int
    <3>1. Change(Head(l.tokens)) \in Int /\ braces \in Int
      BY DEF Change, TypeOK
    <3> QED
      BY <2>1, <3>1 DEF CountBraces
  <2>5. previous' \in [depth : Nat, kept : BOOLEAN]
    BY <1>5 DEF TakesToken, TypeOK
  <2> QED
    BY <1>5, <2>1, <2>2, <2>3, <2>4, <2>5 DEF TakesToken, TypeOK
<1>6. CASE EndsLine
  BY <1>6 DEF EndsLine, BadIndentation, BadAccess, history, TypeOK
<1>7. CASE CompletesFile
  BY <1>7 DEF CompletesFile, history, TypeOK
<1>8. CASE UNCHANGED vars
  BY <1>8 DEF vars, history, TypeOK
<1> QED
  BY <1>2, <1>3, <1>4, <1>5, <1>6, <1>7, <1>8 DEF Next

LEMMA TypeInit == Init => TypeOK
<1> SUFFICES ASSUME Init PROVE TypeOK
  OBVIOUS
<1>1. /\ linenum \in 0..MaxLines /\ stack \in Seq(Block) /\ pp_stack \in Seq(Conditional)
      /\ previous \in [depth : Nat, kept : BOOLEAN]
  BY MaxLinesAssumption, EmptySeq DEF Init
<1>2. {matched, declared, complete} \subseteq BOOLEAN
  BY DEF Init
<1>3. /\ pc \in {"line", "namespaces", "tokens", "end"} /\ \A l \in rest : l \in Line
      /\ reports \subseteq {"namespace", "indentation", "access", "incomplete"}
      /\ braces \in Int
  BY DEF Init
<1> QED BY <1>1, <1>2, <1>3 DEF TypeOK

\* Every variable keeps its type, whatever the lines of the file.
THEOREM TypeCorrect == Spec => []TypeOK
  BY TypeInit, TypeNext, PTL DEF Spec
----------------------------------------------------------------------------
(* The refinement.                                                         *)

\* Of the conditionals of which an #else has been met, one is the outermost; and
\* between two lines nothing is left of one.
Inv ==
  /\ TypeOK
  /\ pc = "line" => rest = {}
  /\ SkippedIn(pp_stack) # {} => \E m : IsOutermost(pp_stack, m)

\* The state of PlainNesting, by what was met of the outermost #else.
View(s, p, k, conds, counting) ==
  \/ /\ SkippedIn(p) = {} /\ k = 0
     /\ conds = Len(p) /\ counting = s
  \/ /\ SkippedIn(p) # {} /\ IsOutermost(p, k)
     /\ conds = Len(p) - k /\ counting = p[k].upToElse

Conds == IF Skipped = {} THEN Len(pp_stack) ELSE Len(pp_stack) - Outermost
Skipping == IF Skipped = {} THEN 0 ELSE Outermost

LEMMA ViewIs ==
  ASSUME NEW s, NEW p \in Seq(Conditional), NEW k, NEW conds, NEW counting,
         View(s, p, k, conds, counting)
  PROVE  LET m == OutermostIn(p)
         IN  /\ k = IF SkippedIn(p) = {} THEN 0 ELSE m
             /\ conds = IF SkippedIn(p) = {} THEN Len(p) ELSE Len(p) - m
             /\ counting = IF SkippedIn(p) = {} THEN s ELSE p[m].upToElse
<1>1. CASE SkippedIn(p) = {}
  BY <1>1 DEF View
<1>2. CASE SkippedIn(p) # {}
  BY <1>2, OutermostIs DEF View
<1> QED
  BY <1>1, <1>2

LEMMA HasView ==
  ASSUME NEW s, NEW p \in Seq(Conditional),
         SkippedIn(p) # {} => \E m : IsOutermost(p, m)
  PROVE  \E k, conds, counting : k \in 0..Len(p) /\ View(s, p, k, conds, counting)
<1>1. CASE SkippedIn(p) = {}
  <2>1. View(s, p, 0, Len(p), s)
    BY <1>1 DEF View
  <2> QED
    BY <2>1
<1>2. CASE SkippedIn(p) # {}
  <2>1. PICK m : IsOutermost(p, m)
    BY <1>2
  <2>2. m \in 0..Len(p)
    BY <2>1 DEF IsOutermost, SkippedIn
  <2>3. View(s, p, m, Len(p) - m, p[m].upToElse)
    BY <1>2, <2>1 DEF View
  <2> QED
    BY <2>2, <2>3
<1> QED
  BY <1>1, <1>2

\* What UpdatePreprocessor() does, in terms of the view: what PlainNesting does.
LEMMA DirectiveView ==
  ASSUME TypeOK, NEW l \in Line, NEW k, NEW conds, NEW counting,
         View(stack, pp_stack, k, conds, counting),
         SavesCopy(l) \/ Restores(l) \/ Drops(l) \/ Passes(l)
  PROVE  \E k2, conds2, counting2 :
           /\ View(stack', pp_stack', k2, conds2, counting2)
           /\ CASE l.directive = "if" ->
                     IF k > 0 THEN k2 = k + 1 /\ conds2 = conds
                     ELSE conds2 = conds + 1 /\ k2 = 0
                [] l.directive = "else" ->
                     IF k = 0 /\ conds > 0 THEN k2 = 1 /\ conds2 = conds - 1
                     ELSE k2 = k /\ conds2 = conds
                [] l.directive = "endif" ->
                     IF k > 0 THEN k2 = k - 1 /\ conds2 = conds
                     ELSE conds2 = (IF conds > 0 THEN conds - 1 ELSE 0) /\ k2 = 0
                [] OTHER -> k2 = k /\ conds2 = conds
           /\ k2 > 0 => counting2 = counting
           /\ k2 = 0 => counting2 = stack' /\ stack' = CountParens(counting, l)
<1> DEFINE p == pp_stack
           q == pp_stack'
<1>1. stack \in Seq(Block) /\ p \in Seq(Conditional) /\ Len(p) \in Nat
  BY DEF TypeOK
<1>2. p # <<>> => Head(p) = p[1] /\ 1 \in DOMAIN p /\ Len(p) > 0
  BY <1>1, EmptySeq
<1>3. \A m : IsOutermost(p, m) => m \in 1..Len(p) /\ SkippedIn(p) # {}
  BY <1>1 DEF IsOutermost, SkippedIn
<1>4. \/ SkippedIn(p) = {} /\ k = 0 /\ conds = Len(p) /\ counting = stack
      \/ /\ SkippedIn(p) # {} /\ IsOutermost(p, k) /\ k > 0
         /\ conds = Len(p) - k /\ counting = p[k].upToElse
  BY <1>3 DEF View
<1>5. CASE SavesCopy(l)
  <2> DEFINE c == [before |-> stack, seenElse |-> FALSE, upToElse |-> <<>>]
  <2>1. c \in Conditional /\ ~c.seenElse
    BY <1>1, EmptySeq DEF Conditional
  <2>2. q = <<c>> \o p /\ l.directive = "if" /\ stack' = CountParens(stack, l)
    BY <1>5 DEF SavesCopy
  <2> HIDE DEF c
  <2>3. /\ Len(q) = Len(p) + 1
        /\ SkippedIn(p) = {} => SkippedIn(q) = {}
        /\ \A m : IsOutermost(p, m) => IsOutermost(q, m + 1) /\ q[m + 1] = p[m]
    BY <1>1, <2>1, <2>2, Pushed
  <2>4. CASE SkippedIn(p) = {}
    <3>1. k = 0 /\ conds = Len(p) /\ counting = stack
      BY <1>4, <2>4
    <3>2. View(stack', q, 0, conds + 1, stack')
      BY <2>3, <2>4, <3>1 DEF View
    <3>3. stack' = CountParens(counting, l)
      BY <2>2, <3>1
    <3> WITNESS 0, conds + 1, stack'
    <3> QED
      BY <2>2, <3>1, <3>2, <3>3
  <2>5. CASE SkippedIn(p) # {}
    <3>1. IsOutermost(q, k + 1) /\ q[k + 1] = p[k] /\ k \in 1..Len(p)
      BY <1>3, <1>4, <2>3, <2>5
    <3>2. View(stack', q, k + 1, conds, counting)
      BY <1>1, <1>4, <2>3, <2>5, <3>1 DEF View, IsOutermost
    <3>3. k > 0 /\ k + 1 > 0 /\ k + 1 # 0
      BY <3>1
    <3> WITNESS k + 1, conds, counting
    <3> QED
      BY <2>2, <3>1, <3>2, <3>3
  <2> QED
    BY <2>4, <2>5
<1>6. CASE Restores(l)
  <2>1. /\ l.directive = "else" /\ p # <<>>
        /\ q = IF p[1].seenElse THEN p
               ELSE [p EXCEPT ![1] = [p[1] EXCEPT !.seenElse = TRUE, !.upToElse = stack]]
    BY <1>2, <1>6 DEF Restores
  <2>2. CASE p[1].seenElse
    <3>1. 1 \in SkippedIn(p) /\ q = p
      BY <1>2, <2>1, <2>2 DEF SkippedIn
    <3>2. SkippedIn(p) # {} /\ k > 0 /\ k \in 1..Len(p)
      BY <1>3, <1>4, <3>1
    <3>3. View(stack', q, k, conds, counting)
      BY <1>4, <3>1, <3>2 DEF View
    <3> QED
      BY <2>1, <3>2, <3>3
  <2>3. CASE ~p[1].seenElse
    <3>1. /\ Len(q) = Len(p)
          /\ SkippedIn(p) = {} => IsOutermost(q, 1) /\ q[1].upToElse = stack
          /\ \A m : IsOutermost(p, m) => IsOutermost(q, m) /\ q[m] = p[m]
      <4> DEFINE c == [p[1] EXCEPT !.seenElse = TRUE, !.upToElse = stack]
      <4>1. p # <<>> /\ q = [p EXCEPT ![1] = c] /\ p[1] \in Conditional
        BY <1>1, <1>2, <2>1, <2>3, ElementOfSeq
      <4>2. c \in Conditional /\ c.seenElse /\ c.upToElse = stack
        BY <1>1, <4>1, MarkedType
      <4> HIDE DEF c
      <4> DEFINE t == [p EXCEPT ![1] = c]
      <4>3. /\ t \in Seq(Conditional) /\ Len(t) = Len(p) /\ t[1] = c
            /\ \A j \in 1..Len(p) : j # 1 => t[j] = p[j]
        BY <1>1, <4>1, <4>2, EmptySeq
      <4>4. q = t
        BY <4>1
      <4> HIDE DEF t
      <4>5. /\ SkippedIn(p) = {} => IsOutermost(t, 1)
            /\ \A m : IsOutermost(p, m) => IsOutermost(t, m) /\ t[m] = p[m]
        BY <1>1, <2>3, <4>1, <4>2, <4>3, Marked
      <4> QED
        BY <4>2, <4>3, <4>4, <4>5
    <3>2. CASE SkippedIn(p) = {}
      <4>1. View(stack', q, 1, conds - 1, counting) /\ k = 0 /\ conds > 0
        BY <1>2, <1>4, <2>1, <3>1, <3>2 DEF View, IsOutermost
      <4> QED
        BY <2>1, <4>1
    <3>3. CASE SkippedIn(p) # {}
      <4>1. k > 0 /\ k \in 1..Len(p)
        BY <1>3, <1>4, <3>3
      <4>2. View(stack', q, k, conds, counting)
        BY <1>4, <3>1, <3>3 DEF View, IsOutermost
      <4> QED
        BY <2>1, <4>1, <4>2
    <3> QED
      BY <3>2, <3>3
  <2> QED
    BY <2>2, <2>3
<1>7. CASE Drops(l)
  <2>1. /\ l.directive = "endif" /\ p # <<>> /\ q = Tail(p)
        /\ stack' = CountParens(IF p[1].seenElse THEN p[1].upToElse ELSE stack, l)
    BY <1>2, <1>7 DEF Drops
  <2>2. /\ Len(q) = Len(p) - 1
        /\ SkippedIn(p) = {} => SkippedIn(q) = {}
        /\ IsOutermost(p, 1) => SkippedIn(q) = {}
        /\ \A m : IsOutermost(p, m) /\ m # 1 => IsOutermost(q, m - 1) /\ q[m - 1] = p[m]
    BY <1>1, <2>1, Popped
  <2>3. CASE SkippedIn(p) = {}
    <3>1. ~p[1].seenElse /\ k = 0 /\ conds = Len(p) /\ counting = stack
      BY <1>2, <1>4, <2>1, <2>3 DEF SkippedIn
    <3>2. View(stack', q, 0, conds - 1, stack') /\ conds > 0
      BY <1>2, <2>1, <2>2, <2>3, <3>1 DEF View
    <3> QED
      BY <2>1, <3>1, <3>2
  <2>4. CASE SkippedIn(p) # {} /\ k = 1
    <3>1. IsOutermost(p, 1) /\ conds = Len(p) - 1 /\ counting = p[1].upToElse
      BY <1>4, <2>4
    <3>2. p[1].seenElse
      BY <3>1 DEF IsOutermost, SkippedIn
    <3>3. View(stack', q, 0, conds, stack')
      BY <2>2, <3>1 DEF View
    <3> QED
      BY <2>1, <2>4, <3>1, <3>2, <3>3
  <2>5. CASE SkippedIn(p) # {} /\ k # 1
    <3>1. IsOutermost(q, k - 1) /\ q[k - 1] = p[k] /\ k \in 1..Len(p)
          /\ conds = Len(p) - k /\ counting = p[k].upToElse
      BY <1>3, <1>4, <2>2, <2>5
    <3>2. View(stack', q, k - 1, conds, counting) /\ k - 1 > 0
      BY <1>1, <2>2, <2>5, <3>1 DEF View, IsOutermost
    <3> QED
      BY <2>1, <3>1, <3>2
  <2> QED
    BY <2>3, <2>4, <2>5
<1>8. CASE Passes(l)
  <2>1. /\ q = p /\ stack' = CountParens(stack, l)
        /\ l.directive = "none" \/ (l.directive \in {"else", "endif"} /\ p = <<>>)
    BY <1>8 DEF Passes
  <2>2. CASE SkippedIn(p) = {}
    <3>1. View(stack', q, 0, conds, stack') /\ k = 0 /\ counting = stack
      BY <1>4, <2>1, <2>2 DEF View
    <3>2. l.directive # "none" => conds = 0
      BY <1>4, <2>1, <2>2
    <3> QED
      BY <2>1, <3>1, <3>2
  <2>3. CASE SkippedIn(p) # {}
    <3>1. p # <<>>
      BY <1>3, <1>4, <2>3, EmptySeq
    <3>2. l.directive = "none" /\ k > 0 /\ k \in 1..Len(p)
      BY <1>3, <1>4, <2>1, <2>3, <3>1
    <3>3. View(stack', q, k, conds, counting)
      BY <1>4, <2>1, <2>3 DEF View
    <3> QED
      BY <3>2, <3>3
  <2> QED
    BY <2>2, <2>3
<1> QED
  BY <1>5, <1>6, <1>7, <1>8

LEMMA InvInit == Init => Inv
<1>1. Init => SkippedIn(pp_stack) = {}
  BY DEF Init, SkippedIn
<1> QED
  BY <1>1, TypeInit DEF Init, Inv

LEMMA InvNext == Inv /\ [Next]_vars => Inv'
<1> SUFFICES ASSUME Inv, [Next]_vars PROVE Inv'
  OBVIOUS
<1>1. TypeOK /\ TypeOK' /\ pp_stack \in Seq(Conditional)
  BY TypeNext DEF Inv, TypeOK
<1>2. ASSUME NEW l \in Lines, BeginsLine(l) PROVE Inv'
  <2>1. PICK k, conds, counting : View(stack, pp_stack, k, conds, counting)
    BY <1>1, HasView DEF Inv
  <2>2. PICK k2, conds2, counting2 : View(stack', pp_stack', k2, conds2, counting2)
    BY <1>1, <1>2, <2>1, LinesAssumption, DirectiveView DEF BeginsLine
  <2>3. SkippedIn(pp_stack') # {} => \E m : IsOutermost(pp_stack', m)
    BY <2>2 DEF View
  <2>4. pc' # "line"
    BY <1>2 DEF BeginsLine
  <2> QED
    BY <1>1, <2>3, <2>4 DEF Inv
<1>3. CASE UNCHANGED pp_stack /\ (pc' = "line" => rest' = {})
  BY <1>1, <1>3 DEF Inv
<1>4. CASE TakesNamespace \/ TakesClass \/ TakesToken \/ EndsLine \/ CompletesFile
           \/ UNCHANGED vars
  <2>1. UNCHANGED pp_stack /\ (pc' = "line" => rest' = {})
    BY <1>4 DEF TakesNamespace, TakesClass, TakesToken, EndsLine, CompletesFile, vars, Inv
  <2> QED
    BY <1>3, <2>1
<1> QED
  BY <1>2, <1>4 DEF Next

\* The operators of Blocks are the same in both modules.
LEMMA SameBlocks ==
  /\ \A s, l : Plain!CountParens(s, l) = CountParens(s, l)
  /\ \A s, space, n : Plain!PushNamespace(s, space, n) = PushNamespace(s, space, n)
  /\ \A s, l, n : Plain!PushClass(s, l, n) = PushClass(s, l, n)
  /\ \A s, l : Plain!SetAccess(s, l) = SetAccess(s, l)
  /\ \A s, token, n : Plain!AfterToken(s, token, n) = AfterToken(s, token, n)
<1> USE DEF Plain!NewBlock, NewBlock, Plain!SeenOpenBrace, SeenOpenBrace, Plain!InClass,
          InClass, Plain!ReplaceTop, ReplaceTop, Plain!AsmAfter, AsmAfter,
          Plain!Declares, Declares, Plain!Opens, Opens, Plain!Abandons, Abandons,
          Plain!Closes, Closes
<1>1. \A s, l : Plain!CountParens(s, l) = CountParens(s, l)
  BY DEF Plain!CountParens, CountParens
<1>2. \A s, space, n : Plain!PushNamespace(s, space, n) = PushNamespace(s, space, n)
  BY DEF Plain!PushNamespace, PushNamespace
<1>3. \A s, l, n : Plain!PushClass(s, l, n) = PushClass(s, l, n)
  BY DEF Plain!PushClass, PushClass
<1>4. \A s, l : Plain!SetAccess(s, l) = SetAccess(s, l)
  BY DEF Plain!SetAccess, SetAccess
<1>5. \A s, token, n : Plain!AfterToken(s, token, n) = AfterToken(s, token, n)
  BY DEF Plain!AfterToken, AfterToken
<1> QED
  BY <1>1, <1>2, <1>3, <1>4, <1>5

\* The state of PlainNesting, before and after a step.
LEMMA PlainState ==
  /\ Plain!vars = <<linenum, CountingStack, Conds, Skipping,
                    IF Skipped # {} \/ pc = "end" THEN "line" ELSE pc,
                    IF Skipped = {} THEN rest ELSE {}>>
  BY DEF Plain!vars, Conds, Skipping

\* A line that is not skipped, or that is.
LEMMA PlainLine ==
  ASSUME Inv, NEW l \in Lines, BeginsLine(l)
  PROVE  Plain!BeginsLine(l)
<1>0. /\ Skipped = SkippedIn(pp_stack) /\ Outermost = OutermostIn(pp_stack)
      /\ Skipped' = SkippedIn(pp_stack') /\ Outermost' = OutermostIn(pp_stack')
  BY Zenon DEF Skipped, SkippedIn, Outermost, OutermostIn
<1>1. TypeOK /\ TypeOK' /\ pp_stack \in Seq(Conditional) /\ pp_stack' \in Seq(Conditional)
  BY TypeNext DEF Inv, TypeOK, Next
<1>2. /\ pc = "line" /\ rest = {} /\ linenum' = linenum + 1
      /\ pc' = "namespaces" /\ rest' = {l}
      /\ SavesCopy(l) \/ Restores(l) \/ Drops(l) \/ Passes(l)
  BY DEF BeginsLine, Inv
<1>3. PICK k, conds, counting :
             k \in 0..Len(pp_stack) /\ View(stack, pp_stack, k, conds, counting)
  BY <1>1, HasView DEF Inv
<1>4. l \in Line
  BY LinesAssumption
<1>5. PICK k2, conds2, counting2 :
           /\ View(stack', pp_stack', k2, conds2, counting2)
           /\ CASE l.directive = "if" ->
                     IF k > 0 THEN k2 = k + 1 /\ conds2 = conds
                     ELSE conds2 = conds + 1 /\ k2 = 0
                [] l.directive = "else" ->
                     IF k = 0 /\ conds > 0 THEN k2 = 1 /\ conds2 = conds - 1
                     ELSE k2 = k /\ conds2 = conds
                [] l.directive = "endif" ->
                     IF k > 0 THEN k2 = k - 1 /\ conds2 = conds
                     ELSE conds2 = (IF conds > 0 THEN conds - 1 ELSE 0) /\ k2 = 0
                [] OTHER -> k2 = k /\ conds2 = conds
           /\ k2 > 0 => counting2 = counting
           /\ k2 = 0 => counting2 = stack' /\ stack' = CountParens(counting, l)
  BY <1>1, <1>2, <1>3, <1>4, DirectiveView
<1>6. Skipping = k /\ Conds = conds /\ CountingStack = counting
  <2>1. LET m == OutermostIn(pp_stack)
        IN  /\ k = IF SkippedIn(pp_stack) = {} THEN 0 ELSE m
            /\ conds = IF SkippedIn(pp_stack) = {} THEN Len(pp_stack) ELSE Len(pp_stack) - m
            /\ counting = IF SkippedIn(pp_stack) = {} THEN stack ELSE pp_stack[m].upToElse
    BY <1>1, <1>3, ViewIs
  <2> QED
    BY <1>0, <2>1, Zenon DEF Skipping, Conds, CountingStack
<1>7. Skipping' = k2 /\ Conds' = conds2 /\ CountingStack' = counting2
      /\ (Skipped' = {} <=> SkippedIn(pp_stack') = {})
  <2>1. LET m == OutermostIn(pp_stack')
        IN  /\ k2 = IF SkippedIn(pp_stack') = {} THEN 0 ELSE m
            /\ conds2 = IF SkippedIn(pp_stack') = {} THEN Len(pp_stack')
                        ELSE Len(pp_stack') - m
            /\ counting2 = IF SkippedIn(pp_stack') = {} THEN stack'
                           ELSE pp_stack'[m].upToElse
    BY <1>1, <1>5, ViewIs
  <2> QED
    BY <1>0, <2>1, Zenon DEF Skipping, Conds, CountingStack
<1>8. \/ k2 = 0 /\ Skipped' = {}
      \/ k2 \in Nat /\ k2 > 0 /\ Skipped' # {}
  <2>1. DOMAIN pp_stack' \subseteq 1..Len(pp_stack')
    BY <1>1
  <2> QED
    BY <1>5, <1>7, <2>1 DEF View, IsOutermost, SkippedIn
<1>9. Plain!Conditional(l)
  <2>1. k \in Nat
    BY <1>3
  <2>2. l.directive \in {"none", "if", "else", "endif"}
    BY <1>4 DEF Line
  <2> QED
    BY <1>5, <1>6, <1>7, <2>1, <2>2 DEF Plain!Conditional, Conds, Skipping
<1>10. CASE k2 = 0
  BY <1>2, <1>5, <1>6, <1>7, <1>8, <1>9, <1>10, SameBlocks DEF Plain!BeginsLine, Conds, Skipping
<1>11. CASE k2 # 0
  BY <1>2, <1>5, <1>6, <1>7, <1>8, <1>9, <1>11, SameBlocks DEF Plain!BeginsLine, Conds, Skipping
<1> QED
  BY <1>10, <1>11

\* Of a line that is skipped PlainNesting knows nothing; the others go the same way.
LEMMA PlainStep ==
  ASSUME Inv, Next
  PROVE  Plain!Next \/ UNCHANGED Plain!vars
<1>1. CASE \E l \in Lines : BeginsLine(l)
  BY <1>1, PlainLine DEF Plain!Next
<1>2. ASSUME UNCHANGED pp_stack
      PROVE  Skipped' = Skipped /\ Outermost' = Outermost
  BY <1>2 DEF Skipped, Outermost
<1>3. ASSUME UNCHANGED <<pp_stack, linenum>>, Skipped # {}
      PROVE  UNCHANGED Plain!vars
  BY <1>2, <1>3 DEF Plain!vars, CountingStack
<1>4. CASE TakesNamespace
  <2>1. CASE Skipped = {}
    <3>1. Plain!TakesNamespace
      BY <1>2, <1>4, <2>1, SameBlocks DEF TakesNamespace, Plain!TakesNamespace, CountingStack
    <3> QED
      BY <3>1 DEF Plain!Next
  <2> QED
    BY <1>3, <1>4, <2>1 DEF TakesNamespace
<1>5. CASE TakesClass
  <2>1. CASE Skipped = {}
    <3>1. Plain!TakesClass
      BY <1>2, <1>5, <2>1, SameBlocks DEF TakesClass, Plain!TakesClass, CountingStack
    <3> QED
      BY <3>1 DEF Plain!Next
  <2> QED
    BY <1>3, <1>5, <2>1 DEF TakesClass
<1>6. CASE TakesToken
  <2>1. CASE Skipped = {}
    <3>1. Plain!TakesToken
      BY <1>2, <1>6, <2>1, SameBlocks DEF TakesToken, Plain!TakesToken, CountingStack
    <3> QED
      BY <3>1 DEF Plain!Next
  <2> QED
    BY <1>3, <1>6, <2>1 DEF TakesToken
<1>7. CASE EndsLine
  <2>1. CASE Skipped = {}
    <3>1. Plain!EndsLine
      BY <1>2, <1>7, <2>1 DEF EndsLine, Plain!EndsLine, CountingStack
    <3> QED
      BY <3>1 DEF Plain!Next
  <2> QED
    BY <1>3, <1>7, <2>1 DEF EndsLine
<1>8. CASE CompletesFile
  <2>1. UNCHANGED <<pp_stack, stack, linenum, rest>> /\ pc = "line" /\ pc' = "end"
    BY <1>8 DEF CompletesFile
  <2> QED
    BY <1>2, <2>1 DEF Plain!vars, CountingStack
<1> QED
  BY <1>1, <1>4, <1>5, <1>6, <1>7, <1>8 DEF Next

LEMMA PlainStutter == UNCHANGED vars => UNCHANGED Plain!vars
  BY DEF vars, history, Plain!vars, CountingStack, Skipped, Outermost

LEMMA PlainInit == Init => Plain!Init
<1> SUFFICES ASSUME Init PROVE Plain!Init
  OBVIOUS
<1>1. Skipped = {}
  BY DEF Init, Skipped
<1> QED
  BY <1>1 DEF Init, Plain!Init, CountingStack

\* However conditionals nest and whatever their branches open or close, NestingState
\* sees the blocks of the lines outside of every #else alone (UpdatePreprocessor()).
THEOREM ElseIsSkipped == Spec => SkipsElse
<1>1. Inv /\ [Next]_vars => [Plain!Next]_Plain!vars
  BY PlainStep, PlainStutter
<1> QED
  BY <1>1, InvInit, InvNext, PlainInit, PTL DEF Spec, SkipsElse, Plain!Spec
----------------------------------------------------------------------------
(* The blocks of which the brace was seen: EveryBraceCounted.              *)

OpenIn(s) == {i \in DOMAIN s : s[i].open}
Depth(s) == Cardinality(OpenIn(s))
One(open) == IF open THEN 1 ELSE 0

LEMMA DepthType ==
  ASSUME NEW s \in Seq(Block)
  PROVE  IsFiniteSet(OpenIn(s)) /\ Depth(s) \in Nat
<1>1. IsFiniteSet(1..Len(s)) /\ OpenIn(s) \in SUBSET (1..Len(s))
  <2> DEFINE n == Len(s)
  <2>1. 1 \in Int /\ n \in Int /\ DOMAIN s = 1..n
    BY LenProperties
  <2> HIDE DEF n
  <2>2. IsFiniteSet(1..n)
    BY <2>1, FS_Interval
  <2> QED
    BY <2>1, <2>2 DEF OpenIn, n
<1>2. IsFiniteSet(OpenIn(s))
  BY <1>1, FS_Subset
<1> QED
  BY <1>2, FS_CardinalityType DEF Depth

\* The others move down by one.
LEMMA DepthPush ==
  ASSUME NEW s \in Seq(Block), NEW b \in Block
  PROVE  Depth(<<b>> \o s) = Depth(s) + One(b.open)
<1> DEFINE t == <<b>> \o s
           Moved == {i + 1 : i \in OpenIn(s)}
<1>1. /\ t \in Seq(Block) /\ Len(t) = Len(s) + 1 /\ Len(s) \in Nat
      /\ t[1] = b /\ \A i \in 1..Len(s) : t[i + 1] = s[i]
  BY ConcatProperties
<1> HIDE DEF t
<1>2. DOMAIN s = 1..Len(s) /\ DOMAIN t = 1..(Len(s) + 1)
  BY <1>1
<1>3. OpenIn(t) = IF b.open THEN Moved \cup {1} ELSE Moved
  <2>1. \A i \in OpenIn(s) : i \in 1..Len(s) /\ i + 1 \in OpenIn(t) /\ i + 1 # 1
    BY <1>1, <1>2 DEF OpenIn
  <2>2. ASSUME NEW j \in OpenIn(t), j # 1 PROVE j \in Moved
    <3>1. j \in 1..(Len(s) + 1) /\ t[j].open
      BY <1>2 DEF OpenIn
    <3>2. j - 1 \in 1..Len(s) /\ (j - 1) + 1 = j
      BY <1>1, <2>2, <3>1
    <3>3. t[(j - 1) + 1] = s[j - 1]
      BY <1>1, <3>2
    <3>4. j - 1 \in OpenIn(s)
      BY <1>2, <3>1, <3>2, <3>3 DEF OpenIn
    <3> QED BY <3>2, <3>4
  <2>3. 1 \in OpenIn(t) <=> b.open
    BY <1>1, <1>2 DEF OpenIn
  <2>4. Moved \subseteq OpenIn(t)
    BY <2>1
  <2> QED BY <2>2, <2>3, <2>4
<1>4. IsFiniteSet(Moved) /\ Cardinality(Moved) = Depth(s) /\ 1 \notin Moved
  <2>1. \A i \in OpenIn(s) : i \in 1..Len(s)
    BY <1>2 DEF OpenIn
  <2> DEFINE f == [i \in OpenIn(s) |-> i + 1]
  <2>2. f \in Bijection(OpenIn(s), Moved)
    <3>1. f \in [OpenIn(s) -> Moved]
      OBVIOUS
    <3>2. \A i, j \in OpenIn(s) : f[i] = f[j] => i = j
      BY <2>1
    <3>3. \A j \in Moved : \E i \in OpenIn(s) : f[i] = j
      OBVIOUS
    <3> QED BY <3>1, <3>2, <3>3 DEF Bijection, Injection, Surjection, IsInjective
  <2>3. ExistsBijection(OpenIn(s), Moved)
    BY <2>2 DEF ExistsBijection
  <2>4. IsFiniteSet(OpenIn(s))
    BY DepthType
  <2>5. 1 \notin Moved
    BY <2>1
  <2> HIDE DEF Moved
  <2> QED BY <2>3, <2>4, <2>5, FS_Bijection DEF Depth
<1> HIDE DEF Moved
<1>5. Cardinality(Moved \cup {1}) = Depth(s) + 1
  BY <1>4, FS_AddElement
<1> QED
  BY <1>3, <1>4, <1>5, DepthType DEF Depth, One, t

LEMMA DepthTail ==
  ASSUME NEW s \in Seq(Block), s # <<>>
  PROVE  /\ Head(s) \in Block /\ Tail(s) \in Seq(Block)
         /\ Depth(Tail(s)) = Depth(s) - One(Head(s).open)
<1>1. Head(s) \in Block /\ Tail(s) \in Seq(Block) /\ s = <<Head(s)>> \o Tail(s)
  BY HeadTailProperties
<1> DEFINE b == Head(s)
           t == Tail(s)
<1> HIDE DEF b, t
<1>2. b \in Block /\ t \in Seq(Block) /\ s = <<b>> \o t
  BY <1>1 DEF b, t
<1>3. Depth(s) = Depth(t) + One(b.open) /\ Depth(t) \in Nat
  BY <1>2, DepthPush, DepthType
<1> QED
  BY <1>2, <1>3 DEF b, t, One

LEMMA DepthReplace ==
  ASSUME NEW s \in Seq(Block), s # <<>>, NEW b \in Block
  PROVE  Depth(ReplaceTop(s, b)) = Depth(s) - One(Head(s).open) + One(b.open)
<1> DEFINE t == Tail(s)
           old == One(Head(s).open)
<1>1. t \in Seq(Block) /\ Depth(t) = Depth(s) - old
  BY DepthTail
<1> HIDE DEF t, old
<1>2. Depth(<<b>> \o t) = Depth(t) + One(b.open)
  BY <1>1, DepthPush
<1> QED
  BY <1>1, <1>2 DEF ReplaceTop, t, old

\* Counting parentheses opens no block and closes none.
LEMMA DepthParens ==
  ASSUME NEW s \in Seq(Block), NEW l \in Line
  PROVE  Depth(CountParens(s, l)) = Depth(s)
<1>1. CASE s # <<>>
  <2> DEFINE b == [Head(s) EXCEPT !.parens = @ + l.parens, !.asm = AsmAfter(Head(s), l)]
  <2>1. Head(s) \in Block
    BY <1>1, HeadTailProperties
  <2>2. l.parens \in Int
    BY DEF Line
  <2>3. AsmAfter(Head(s), l) \in {"no", "inside", "end", "block"}
    BY <2>1 DEF AsmAfter, Block
  <2>4. b \in Block /\ b.open = Head(s).open
    <3> DEFINE h == Head(s)
               a == AsmAfter(h, l)
               k == l.parens
    <3> HIDE DEF h, a, k
    <3>1. h \in Block /\ a \in {"no", "inside", "end", "block"} /\ k \in Int
      BY <2>1, <2>2, <2>3 DEF h, a, k
    <3>2. [h EXCEPT !.parens = @ + k, !.asm = a] \in Block
      BY <3>1, BlockWithParens
    <3>3. [h EXCEPT !.parens = @ + k, !.asm = a].open = h.open
      BY <3>1 DEF Block
    <3> QED
      BY <3>2, <3>3 DEF h, a, k
  <2> HIDE DEF b
  <2>5. Depth(ReplaceTop(s, b)) = Depth(s) - One(Head(s).open) + One(b.open)
    BY <1>1, <2>4, DepthReplace
  <2>6. Depth(s) \in Nat /\ One(b.open) \in Nat
    BY DepthType DEF One
  <2>7. Depth(ReplaceTop(s, b)) = Depth(s)
    BY <2>4, <2>5, <2>6
  <2> QED
    BY <1>1, <2>7 DEF CountParens, b
<1> QED
  BY <1>1 DEF CountParens

\* A class is pushed before its brace, and its access changes no brace.
LEMMA DepthClass ==
  ASSUME NEW s \in Seq(Block), NEW l \in Line, NEW n \in Nat
  PROVE  Depth(SetAccess(PushClass(s, l, n), l)) = Depth(s)
<1> DEFINE n0 == NewBlock("class", l.name, n, FALSE)
           a == IF l.class = "struct" THEN "public" ELSE "private"
           c == [n0 EXCEPT !.access = a]
           t == PushClass(s, l, n)
           b == [Head(t) EXCEPT !.access = l.access]
<1>1. l.name \in Names /\ l.access \in Access \cup {"none"}
  BY DEF Line
<1>2. c \in Block /\ ~c.open
  <2>1. n0 \in Block /\ ~n0.open
    BY <1>1, NewBlockType DEF NewBlock
  <2>2. a \in Access \cup {"none"}
    BY DEF Access
  <2> HIDE DEF n0, a
  <2> QED
    BY <2>1, <2>2, BlockWithAccess DEF Block
<1> HIDE DEF c
<1>3. <<c>> \o s \in Seq(Block) /\ Depth(<<c>> \o s) = Depth(s)
  <2>1. Depth(<<c>> \o s) = Depth(s) + 0
    BY <1>2, DepthPush DEF One
  <2> QED
    BY <1>2, <2>1, OnTop, DepthType
<1>4. t \in Seq(Block) /\ Depth(t) = Depth(s)
  BY <1>3 DEF PushClass, c
<1> HIDE DEF t
<1>5. CASE t # <<>>
  <2>1. Head(t) \in Block
    BY <1>4, <1>5, HeadTailProperties
  <2>2. b \in Block /\ b.open = Head(t).open
    BY <1>1, <2>1, BlockWithAccess DEF Block
  <2> HIDE DEF b
  <2>3. Depth(ReplaceTop(t, b)) = Depth(t) - One(Head(t).open) + One(b.open)
    BY <1>4, <1>5, <2>2, DepthReplace
  <2>4. Depth(t) \in Nat /\ One(b.open) \in Nat
    BY <1>4, DepthType DEF One
  <2>5. Depth(ReplaceTop(t, b)) = Depth(s)
    BY <1>4, <2>2, <2>3, <2>4
  <2> QED
    BY <1>4, <2>5 DEF SetAccess, t, b
<1> QED
  BY <1>4, <1>5 DEF SetAccess, InClass, t

\* Every token changes the depth as it changes the count of braces, but a closing brace
\* that had not been opened.
Opened(s, token) == token = "}" => s # <<>> /\ Head(s).open

LEMMA DepthToken ==
  ASSUME NEW s \in Seq(Block), NEW token \in Token, NEW n \in Nat, Opened(s, token)
  PROVE  Depth(AfterToken(s, token, n)) = Depth(s) + Change(token)
<1> DEFINE o == [Head(s) EXCEPT !.open = TRUE]
           x == NewBlock("extern", "none", n, TRUE)
           a == [NewBlock("block", "none", n, TRUE) EXCEPT !.asm = "block"]
           b == NewBlock("block", "none", n, TRUE)
           d == Depth(s)
<1>1. x \in Block /\ b \in Block /\ x.open /\ b.open
  BY NewBlockType DEF NewBlock
<1>2. a \in Block /\ a.open
  BY <1>1 DEF Block
<1>3. s # <<>> =>
        /\ Head(s) \in Block /\ Tail(s) \in Seq(Block)
        /\ Depth(Tail(s)) = d - One(Head(s).open)
  BY DepthTail
<1>4. s # <<>> => o \in Block /\ o.open
  BY <1>3 DEF Block
<1>5. d \in Nat
  BY DepthType
<1> HIDE DEF o, x, a, b, d
<1>6. Depth(<<x>> \o s) = d + 1 /\ Depth(<<a>> \o s) = d + 1 /\ Depth(<<b>> \o s) = d + 1
  BY <1>1, <1>2, DepthPush DEF One, d
<1>7. ~SeenOpenBrace(s) =>
        s # <<>> /\ Depth(Tail(s)) = d /\ Depth(ReplaceTop(s, o)) = d + 1
  <2> SUFFICES ASSUME ~SeenOpenBrace(s)
               PROVE  s # <<>> /\ Depth(Tail(s)) = d /\ Depth(ReplaceTop(s, o)) = d + 1
    OBVIOUS
  <2> DEFINE x0 == One(Head(s).open)
             x1 == One(o.open)
  <2>1. s # <<>> /\ x0 = 0 /\ x1 = 1
    BY <1>4 DEF SeenOpenBrace, One
  <2>2. Depth(ReplaceTop(s, o)) = d - x0 + x1 /\ Depth(Tail(s)) = d - x0
    BY <1>3, <1>4, <2>1, DepthReplace DEF d
  <2> HIDE DEF x0, x1
  <2> QED
    BY <1>5, <2>1, <2>2
<1>8. CASE token \in {"{", "extern {", "asm {"}
  <2>1. Depth(Opens(s, token, n)) = d + 1
    BY <1>6, <1>7 DEF Opens, o, x, a, b
  <2> QED
    BY <1>8, <2>1 DEF AfterToken, Change, d
<1>9. CASE token \in {";", ")"}
  <2>1. Depth(Abandons(s)) = d
    BY <1>7 DEF Abandons, d
  <2>2. AfterToken(s, token, n) = Abandons(s) /\ Change(token) = 0
    BY <1>9 DEF AfterToken, Change
  <2> QED
    BY <1>5, <2>1, <2>2 DEF d
<1>10. CASE token = "}"
  <2>1. Depth(Closes(s)) = d - 1
    BY <1>3, <1>10 DEF Closes, One, Opened
  <2> QED
    BY <1>5, <1>10, <2>1 DEF AfterToken, Change, d
<1> QED
  BY <1>8, <1>9, <1>10 DEF Token

\* But for the innermost (k is 1) or none of them (0), every block that counts
\* has its brace: what lets a } close a block that was opened.
Heads(s, k) == \A i \in DOMAIN s : s[i].open \/ (i = 1 /\ k = 1)

LEMMA HeadsEmpty == Depth(<<>>) = 0 /\ \A k : Heads(<<>>, k)
<1>1. {j \in DOMAIN <<>> : <<>>[j].open} = {} /\ DOMAIN <<>> = {}
  OBVIOUS
<1> QED BY <1>1, FS_EmptySet DEF Depth, OpenIn, Heads

LEMMA HeadsPush ==
  ASSUME NEW s \in Seq(Block), NEW b \in Block, NEW k \in {0, 1}
  PROVE  Heads(<<b>> \o s, k) <=> Heads(s, 0) /\ (b.open \/ k = 1)
<1> DEFINE t == <<b>> \o s
<1>1. /\ t \in Seq(Block) /\ Len(t) = Len(s) + 1 /\ Len(s) \in Nat
      /\ t[1] = b /\ \A i \in 1..Len(s) : t[i + 1] = s[i]
  BY ConcatProperties
<1> HIDE DEF t
<1>2. DOMAIN s = 1..Len(s) /\ DOMAIN t = 1..(Len(s) + 1)
  BY <1>1
<1>3. ASSUME Heads(t, k) PROVE Heads(s, 0) /\ (b.open \/ k = 1)
  <2>1. 1 \in DOMAIN t
    BY <1>1, <1>2
  <2>2. \A i \in 1..Len(s) : i + 1 \in DOMAIN t /\ i + 1 # 1
    BY <1>1, <1>2
  <2> QED BY <1>1, <1>2, <1>3, <2>1, <2>2 DEF Heads
<1>4. ASSUME Heads(s, 0), b.open \/ k = 1 PROVE Heads(t, k)
  <2> SUFFICES ASSUME NEW j \in DOMAIN t, j # 1 PROVE t[j].open
    BY <1>1, <1>4 DEF Heads
  <2>1. j - 1 \in 1..Len(s) /\ (j - 1) + 1 = j
    BY <1>1, <1>2
  <2>2. t[j] = s[j - 1]
    BY <1>1, <2>1
  <2> QED BY <1>2, <1>4, <2>1, <2>2 DEF Heads
<1> QED BY <1>3, <1>4 DEF t

LEMMA HeadsTail ==
  ASSUME NEW s \in Seq(Block), s # <<>>, NEW k \in {0, 1}
  PROVE  /\ Head(s) \in Block /\ Tail(s) \in Seq(Block)
         /\ Heads(s, k) <=> Heads(Tail(s), 0) /\ (Head(s).open \/ k = 1)
<1>1. Head(s) \in Block /\ Tail(s) \in Seq(Block) /\ s = <<Head(s)>> \o Tail(s)
  BY HeadTailProperties
<1> DEFINE b == Head(s)
           t == Tail(s)
<1> HIDE DEF b, t
<1>2. b \in Block /\ t \in Seq(Block) /\ s = <<b>> \o t
  BY <1>1 DEF b, t
<1>3. Heads(s, k) <=> Heads(t, 0) /\ (b.open \/ k = 1)
  BY <1>2, HeadsPush
<1> QED BY <1>2, <1>3 DEF b, t

LEMMA HeadsTop ==
  ASSUME NEW s \in Seq(Block), s # <<>>, NEW b \in Block, NEW k \in {0, 1}
  PROVE  Heads(ReplaceTop(s, b), k) <=> Heads(Tail(s), 0) /\ (b.open \/ k = 1)
<1> DEFINE t == Tail(s)
<1>1. t \in Seq(Block)
  BY HeadsTail
<1> HIDE DEF t
<1>2. Heads(<<b>> \o t, k) <=> Heads(t, 0) /\ (b.open \/ k = 1)
  BY <1>1, HeadsPush
<1> QED BY <1>2 DEF ReplaceTop, t

\* The top is replaced by a block of which as much was seen.
LEMMA HeadsReplace ==
  ASSUME NEW s \in Seq(Block), s # <<>>, NEW b \in Block, b.open = Head(s).open,
         NEW k \in {0, 1}
  PROVE  Heads(ReplaceTop(s, b), k) <=> Heads(s, k)
<1>1. Heads(ReplaceTop(s, b), k) <=> Heads(Tail(s), 0) /\ (b.open \/ k = 1)
  BY HeadsTop, Zenon
<1>2. Heads(s, k) <=> Heads(Tail(s), 0) /\ (Head(s).open \/ k = 1)
  BY HeadsTail, Zenon
<1> QED BY <1>1, <1>2, Zenon

LEMMA HeadsParens ==
  ASSUME NEW s \in Seq(Block), NEW l \in Line, NEW k \in {0, 1}
  PROVE  Heads(CountParens(s, l), k) <=> Heads(s, k)
<1>1. CASE s # <<>>
  <2> DEFINE h == Head(s)
             a == AsmAfter(h, l)
             p == l.parens
             b == [h EXCEPT !.parens = @ + p, !.asm = a]
  <2>1. h \in Block
    BY <1>1, HeadTailProperties
  <2>2. p \in Int /\ a \in {"no", "inside", "end", "block"}
    BY <2>1 DEF Line, AsmAfter, Block
  <2> HIDE DEF a, p
  <2>3. CountParens(s, l) = ReplaceTop(s, b)
    BY <1>1 DEF CountParens, a, p
  <2> HIDE DEF h
  <2>4. b \in Block
    BY <2>1, <2>2, BlockWithParens
  <2>5. b.open = h.open
    BY <2>1 DEF Block
  <2> HIDE DEF b
  <2> QED BY <1>1, <2>3, <2>4, <2>5, HeadsReplace DEF h
<1> QED BY <1>1 DEF CountParens

\* A class is read where nothing is left without a brace, or is no declaration at all.
LEMMA HeadsClass ==
  ASSUME NEW s \in Seq(Block), NEW l \in Line, NEW n \in Nat,
         NEW before \in {0, 1}, NEW after \in {0, 1}, Heads(s, before),
         IF l.class # "none" /\ ~l.argument THEN after = 1 /\ before = 0 ELSE after = before
  PROVE  Heads(SetAccess(PushClass(s, l, n), l), after)
<1> DEFINE n0 == NewBlock("class", l.name, n, FALSE)
           a == IF l.class = "struct" THEN "public" ELSE "private"
           c == [n0 EXCEPT !.access = a]
           t == PushClass(s, l, n)
           b == [Head(t) EXCEPT !.access = l.access]
<1>1. l.name \in Names /\ l.access \in Access \cup {"none"}
  BY DEF Line
<1>2. c \in Block
  <2>1. n0 \in Block
    BY <1>1, NewBlockType DEF NewBlock
  <2>2. a \in Access \cup {"none"}
    BY DEF Access
  <2> HIDE DEF n0, a
  <2> QED BY <2>1, <2>2, BlockWithAccess DEF Block
<1> HIDE DEF c
<1>3. t \in Seq(Block) /\ Heads(t, after)
  <2>1. CASE Declares(s, l)
    <3>1. after = 1 /\ before = 0
      BY <2>1 DEF Declares
    <3>2. Heads(<<c>> \o s, 1) /\ <<c>> \o s \in Seq(Block)
      BY <1>2, <3>1, HeadsPush, OnTop
    <3> QED BY <2>1, <3>1, <3>2 DEF PushClass, c
  <2>2. CASE ~Declares(s, l)
    <3>1. t = s
      BY <2>2 DEF PushClass
    <3>2. Heads(s, after)
      BY DEF Heads
    <3> QED BY <3>1, <3>2
  <2> QED BY <2>1, <2>2
<1> HIDE DEF t
<1>4. CASE t # <<>>
  <2>1. Head(t) \in Block
    BY <1>3, <1>4, HeadTailProperties
  <2>2. CASE InClass(t) /\ l.access # "none"
    <3>1. b \in Block /\ b.open = Head(t).open
      BY <1>1, <2>1, BlockWithAccess DEF Block
    <3> HIDE DEF b
    <3>2. Heads(ReplaceTop(t, b), after)
      BY <1>3, <1>4, <3>1, HeadsReplace
    <3> QED BY <2>2, <3>2 DEF SetAccess, t, b
  <2> QED BY <1>3, <2>2 DEF SetAccess, t
<1> QED BY <1>3, <1>4 DEF SetAccess, InClass, t

LEMMA HeadsToken ==
  ASSUME NEW s \in Seq(Block), NEW token \in Token, NEW n \in Nat, NEW k \in {0, 1},
         Heads(s, k), token = "}" => k = 0
  PROVE  Heads(AfterToken(s, token, n), 0)
<1> DEFINE o == [Head(s) EXCEPT !.open = TRUE]
           x == NewBlock("extern", "none", n, TRUE)
           a == [NewBlock("block", "none", n, TRUE) EXCEPT !.asm = "block"]
           b == NewBlock("block", "none", n, TRUE)
<1>1. x \in Block /\ b \in Block /\ x.open /\ b.open
  BY NewBlockType DEF NewBlock
<1>2. a \in Block /\ a.open
  BY <1>1 DEF Block
<1>3. s # <<>> =>
        /\ Head(s) \in Block /\ Tail(s) \in Seq(Block) /\ Heads(Tail(s), 0)
        /\ Head(s).open \/ k = 1
  BY HeadsTail
<1>4. s # <<>> => o \in Block /\ o.open
  BY <1>3 DEF Block
<1> HIDE DEF o, x, a, b
<1>5. SeenOpenBrace(s) => Heads(s, 0)
  <2>1. CASE s = <<>>
    BY <2>1, HeadsEmpty
  <2>2. CASE s # <<>>
    BY <2>2, HeadsTail DEF SeenOpenBrace
  <2> QED BY <2>1, <2>2
<1>6. SeenOpenBrace(s) =>
        Heads(<<x>> \o s, 0) /\ Heads(<<a>> \o s, 0) /\ Heads(<<b>> \o s, 0)
  BY <1>1, <1>2, <1>5, HeadsPush
<1>7. ~SeenOpenBrace(s) => s # <<>> /\ Heads(ReplaceTop(s, o), 0)
  BY <1>3, <1>4, HeadsPush DEF SeenOpenBrace, ReplaceTop
<1>8. CASE token \in {"{", "extern {", "asm {"}
  <2>1. Heads(Opens(s, token, n), 0)
    BY <1>6, <1>7 DEF Opens, o, x, a, b
  <2> QED BY <1>8, <2>1 DEF AfterToken
<1>9. CASE token \in {";", ")"}
  <2>1. Heads(Abandons(s), 0)
    BY <1>3, <1>5, <1>7 DEF Abandons
  <2> QED BY <1>9, <2>1 DEF AfterToken
<1>10. CASE token = "}"
  <2>1. Heads(Closes(s), 0)
    BY <1>3, <1>10 DEF Closes, Heads
  <2> QED BY <1>10, <2>1 DEF AfterToken
<1> QED BY <1>8, <1>9, <1>10 DEF Token

\* The blocks that count, in any state.
CountingIn(s, p) == IF SkippedIn(p) = {} THEN s ELSE p[OutermostIn(p)].upToElse

LEMMA CountingIs ==
  /\ CountingStack = CountingIn(stack, pp_stack)
  /\ CountingStack' = CountingIn(stack', pp_stack')
<1>1. /\ Skipped = SkippedIn(pp_stack) /\ Outermost = OutermostIn(pp_stack)
      /\ Skipped' = SkippedIn(pp_stack') /\ Outermost' = OutermostIn(pp_stack')
  BY Zenon DEF Skipped, SkippedIn, Outermost, OutermostIn
<1> QED
  BY <1>1, Zenon DEF CountingStack, CountingIn

\* A directive leaves the blocks that count as they are, but for their parentheses: what
\* #endif restores is what was counted when #else put it aside.
LEMMA DepthDirective ==
  ASSUME Inv, NEW l \in Lines, BeginsLine(l)
  PROVE  /\ Depth(CountingStack') = Depth(CountingStack)
         /\ \A k \in {0, 1} :
              Heads(CountingStack', k) <=> Heads(CountingStack, k)
<1>1. TypeOK /\ TypeOK' /\ pp_stack \in Seq(Conditional) /\ pp_stack' \in Seq(Conditional)
  BY TypeNext DEF Inv, TypeOK, Next
<1>2. l \in Line /\ (SavesCopy(l) \/ Restores(l) \/ Drops(l) \/ Passes(l))
  BY LinesAssumption DEF BeginsLine
<1>3. PICK k, conds, counting : View(stack, pp_stack, k, conds, counting)
  BY <1>1, HasView DEF Inv
<1>4. PICK k2, conds2, counting2 :
           /\ View(stack', pp_stack', k2, conds2, counting2)
           /\ k2 > 0 => counting2 = counting
           /\ k2 = 0 => counting2 = stack' /\ stack' = CountParens(counting, l)
  BY <1>1, <1>2, <1>3, DirectiveView
<1>5. k2 > 0 \/ k2 = 0
  <2>1. DOMAIN pp_stack' \subseteq 1..Len(pp_stack')
    BY <1>1
  <2> QED
    BY <1>4, <2>1 DEF View, IsOutermost, SkippedIn
<1>6. CountingIn(stack, pp_stack) = counting /\ CountingIn(stack', pp_stack') = counting2
  <2>1. counting = CountingIn(stack, pp_stack)
    BY <1>1, <1>3, ViewIs DEF CountingIn
  <2>2. counting2 = CountingIn(stack', pp_stack')
    BY <1>1, <1>4, ViewIs DEF CountingIn
  <2> QED
    BY <2>1, <2>2
<1>7. counting \in Seq(Block)
  <2>1. \A c \in Conditional : c.upToElse \in Seq(Block)
    BY DEF Conditional
  <2>2. \A m \in SkippedIn(pp_stack) : pp_stack[m] \in Conditional
    BY <1>1 DEF SkippedIn
  <2> QED
    BY <1>1, <1>3, <2>1, <2>2 DEF View, IsOutermost, TypeOK
<1>8. /\ Depth(counting2) = Depth(counting)
      /\ \A n \in {0, 1} : Heads(counting2, n) <=> Heads(counting, n)
  BY <1>2, <1>4, <1>5, <1>7, DepthParens, HeadsParens
<1> QED
  BY <1>6, <1>8, CountingIs

LEMMA OneIs == One(TRUE) = 1 /\ One(FALSE) = 0 /\ \A b \in BOOLEAN : One(b) \in {0, 1}
BY DEF One

\* Where something is open and every block has its brace, the top has.
LEMMA TopOpen ==
  ASSUME NEW s \in Seq(Block), Depth(s) > 0, Heads(s, 0)
  PROVE  s # <<>> /\ Head(s).open
BY HeadsEmpty, HeadsTail

HeadsInv == complete => Heads(CountingStack, One(declared))

LEMMA CountedInit == Init => EveryBraceCounted /\ HeadsInv
<1> SUFFICES ASSUME Init PROVE EveryBraceCounted /\ HeadsInv
  OBVIOUS
<1>1. CountingStack = <<>> /\ braces = 0
  BY DEF Init, CountingStack, Skipped
<1>2. {j \in DOMAIN <<>> : <<>>[j].open} = {}
  OBVIOUS
<1> QED
  BY <1>1, <1>2, FS_EmptySet DEF EveryBraceCounted, OpenBlocks, HeadsInv, Heads

\* What is read between two directives changes the stack, unless it is skipped.
LEMMA CountingSame ==
  ASSUME UNCHANGED pp_stack
  PROVE  /\ Skipped' = Skipped
         /\ Skipped # {} => CountingStack' = CountingStack
         /\ Skipped = {} => CountingStack' = stack' /\ CountingStack = stack
BY DEF Skipped, Outermost, CountingStack

LEMMA HeadsNext == Inv /\ HeadsInv /\ [Next]_vars => HeadsInv'
<1> SUFFICES ASSUME Inv, HeadsInv, [Next]_vars, complete' PROVE Heads(CountingStack', One(declared'))
  BY DEF HeadsInv
<1>1. /\ linenum \in Nat /\ stack \in Seq(Block) /\ {declared, complete} \subseteq BOOLEAN
      /\ \A l \in rest : l \in Line
  BY MaxLinesAssumption DEF Inv, TypeOK
<1>2. ASSUME NEW l \in Lines, BeginsLine(l) PROVE Heads(CountingStack', One(declared'))
  <2>1. complete' = complete /\ declared' = declared
    BY <1>2 DEF BeginsLine, history
  <2>2. One(declared) \in {0, 1}
    BY <1>1, OneIs
  <2>3. Heads(CountingStack', One(declared)) <=> Heads(CountingStack, One(declared))
    BY <1>2, <2>2, DepthDirective
  <2> QED
    BY <2>1, <2>3 DEF HeadsInv
<1>3. CASE TakesNamespace
  <2>1. PICK l \in rest :
          /\ l.namespaces # <<>>
          /\ stack' = PushNamespace(stack, Head(l.namespaces), linenum)
          /\ ReadsDeclaration(~Head(l.namespaces).opens)
    BY <1>3 DEF TakesNamespace
  <2>2. UNCHANGED pp_stack
    BY <1>3 DEF TakesNamespace
  <2>3. CASE Skipped = {}
    <3> DEFINE space == Head(l.namespaces)
               b == NewBlock("namespace", space.name, linenum, space.opens)
    <3>1. space.name \in Names /\ space.opens \in BOOLEAN
      BY <1>1, <2>1, RestType
    <3>2. b \in Block /\ b.open = space.opens
      BY <1>1, <3>1, NewBlockType DEF NewBlock
    <3>3. stack' = <<b>> \o stack
      BY <2>1 DEF PushNamespace
    <3>4. declared' = ~space.opens /\ complete /\ ~declared
      BY <2>1, <2>3 DEF ReadsDeclaration
    <3> HIDE DEF b, space
    <3>5. Heads(stack, 0) /\ One(declared') \in {0, 1}
      <4>1. One(declared) = 0
        BY <1>1, <3>4, OneIs
      <4>2. Heads(CountingStack, One(declared)) /\ CountingStack = stack
        BY <2>2, <2>3, <3>4, CountingSame DEF HeadsInv
      <4> QED BY <1>1, <3>1, <3>4, <4>1, <4>2, OneIs
    <3>6. b.open \/ One(declared') = 1
      BY <3>1, <3>2, <3>4, OneIs
    <3>7. Heads(<<b>> \o stack, One(declared'))
      BY <1>1, <3>2, <3>5, <3>6, HeadsPush
    <3> QED
      BY <2>2, <2>3, <3>3, <3>7, CountingSame
  <2>4. CASE Skipped # {}
    BY <2>1, <2>2, <2>4, CountingSame DEF ReadsDeclaration, HeadsInv
  <2> QED BY <2>3, <2>4
<1>4. CASE TakesClass
  <2>1. PICK l \in rest :
          /\ stack' = SetAccess(PushClass(stack, l, linenum), l)
          /\ IF l.class # "none" /\ ~l.argument THEN ReadsDeclaration(TRUE)
             ELSE UNCHANGED <<declared, complete>>
    BY <1>4 DEF TakesClass
  <2>2. UNCHANGED pp_stack
    BY <1>4 DEF TakesClass
  <2>3. CASE Skipped = {}
    <3>1. /\ complete /\ declared' \in BOOLEAN
          /\ IF l.class # "none" /\ ~l.argument THEN declared' /\ ~declared
             ELSE declared' = declared
      BY <1>1, <2>1, <2>3 DEF ReadsDeclaration
    <3>2. Heads(stack, One(declared))
      BY <2>2, <2>3, <3>1, CountingSame DEF HeadsInv
    <3>3. /\ One(declared) \in {0, 1} /\ One(declared') \in {0, 1}
          /\ IF l.class # "none" /\ ~l.argument THEN One(declared') = 1 /\ One(declared) = 0
             ELSE One(declared') = One(declared)
      BY <1>1, <3>1, OneIs
    <3>4. l \in Line
      BY <1>1, <2>1
    <3>5. Heads(stack', One(declared'))
      BY <1>1, <2>1, <3>2, <3>3, <3>4, HeadsClass
    <3> QED BY <2>2, <2>3, <3>5, CountingSame
  <2>4. CASE Skipped # {}
    BY <2>1, <2>2, <2>4, CountingSame DEF ReadsDeclaration, HeadsInv
  <2> QED BY <2>3, <2>4
<1>5. CASE TakesToken
  <2>1. PICK l \in rest :
          /\ l.tokens # <<>>
          /\ stack' = AfterToken(stack, Head(l.tokens), linenum)
          /\ ReadsToken(Head(l.tokens))
    BY <1>5 DEF TakesToken
  <2>2. UNCHANGED pp_stack
    BY <1>5 DEF TakesToken
  <2>3. CASE Skipped = {}
    <3> DEFINE token == Head(l.tokens)
    <3>1. token \in Token
      BY <1>1, <2>1, RestType
    <3>2. declared' = FALSE /\ complete /\ (token = "}" => ~declared)
      BY <1>1, <2>1, <2>3 DEF ReadsToken
    <3>3. stack' = AfterToken(stack, token, linenum)
      BY <2>1
    <3> HIDE DEF token
    <3>4. Heads(stack, One(declared))
      BY <2>2, <2>3, <3>2, CountingSame DEF HeadsInv
    <3>5. One(declared) \in {0, 1} /\ (token = "}" => One(declared) = 0) /\ One(declared') = 0
      BY <1>1, <3>2, OneIs
    <3>6. Heads(AfterToken(stack, token, linenum), 0)
      BY <1>1, <3>1, <3>4, <3>5, HeadsToken
    <3>7. Heads(CountingStack', One(declared'))
      BY <2>2, <2>3, <3>3, <3>5, <3>6, CountingSame
    <3> QED BY <3>7
  <2>4. CASE Skipped # {}
    BY <2>1, <2>2, <2>4, CountingSame DEF ReadsToken, HeadsInv
  <2> QED BY <2>3, <2>4
<1>6. CASE EndsLine \/ CompletesFile \/ UNCHANGED vars
  <2>1. UNCHANGED <<stack, pp_stack, declared, complete>>
    BY <1>6 DEF EndsLine, CompletesFile, vars, history
  <2> QED BY <2>1, CountingSame DEF HeadsInv
<1> QED
  BY <1>2, <1>3, <1>4, <1>5, <1>6 DEF Next

LEMMA CountedNext == Inv /\ HeadsInv /\ EveryBraceCounted /\ [Next]_vars => EveryBraceCounted'
<1> SUFFICES ASSUME Inv, HeadsInv, EveryBraceCounted, [Next]_vars, matched', complete'
             PROVE  Depth(CountingStack') = braces'
  BY DEF EveryBraceCounted, OpenBlocks, Depth, OpenIn
<1> DEFINE d == Depth(CountingStack)
<1>1. matched /\ complete => d = braces
  BY DEF EveryBraceCounted, OpenBlocks, Depth, OpenIn
<1>2. /\ linenum \in Nat /\ stack \in Seq(Block) /\ braces \in Int
      /\ {declared, complete} \subseteq BOOLEAN /\ \A l \in rest : l \in Line
  BY MaxLinesAssumption DEF Inv, TypeOK
<1>3. ASSUME NEW l \in Lines, BeginsLine(l) PROVE Depth(CountingStack') = braces'
  <2>1. Depth(CountingStack') = d
    BY <1>3, DepthDirective
  <2>2. matched' = matched /\ complete' = complete /\ braces' = braces
    BY <1>3 DEF BeginsLine, history
  <2> QED
    BY <1>1, <2>1, <2>2
<1>4. CASE TakesNamespace
  <2>1. PICK l \in rest :
          /\ l.namespaces # <<>>
          /\ stack' = PushNamespace(stack, Head(l.namespaces), linenum)
          /\ CountBraces(IF Head(l.namespaces).opens THEN 1 ELSE 0)
          /\ ReadsDeclaration(~Head(l.namespaces).opens)
    BY <1>4 DEF TakesNamespace
  <2>2. UNCHANGED <<pp_stack, matched>> /\ complete
    BY <1>2, <1>4, <2>1 DEF TakesNamespace, ReadsDeclaration
  <2>3. CASE Skipped = {}
    <3> DEFINE space == Head(l.namespaces)
               b == NewBlock("namespace", space.name, linenum, space.opens)
    <3>1. space.name \in Names /\ space.opens \in BOOLEAN
      BY <1>2, <2>1, RestType
    <3>2. b \in Block /\ b.open = space.opens
      BY <1>2, <3>1, NewBlockType DEF NewBlock
    <3>3. stack' = <<b>> \o stack
      BY <2>1 DEF PushNamespace
    <3>4. braces' = braces + One(space.opens)
      BY <2>1, <2>3 DEF CountBraces, One
    <3> HIDE DEF b, space
    <3>5. Depth(stack') = Depth(stack) + One(b.open)
      BY <1>2, <3>2, <3>3, DepthPush
    <3> QED
      BY <1>1, <2>2, <2>3, <3>2, <3>4, <3>5, CountingSame
  <2>4. CASE Skipped # {}
    <3>1. braces' = braces
      BY <2>1, <2>4 DEF CountBraces
    <3> QED
      BY <1>1, <2>2, <2>4, <3>1, CountingSame
  <2> QED
    BY <2>3, <2>4
<1>5. CASE TakesClass
  <2>1. PICK l \in rest :
          /\ stack' = SetAccess(PushClass(stack, l, linenum), l)
          /\ IF l.class # "none" /\ ~l.argument THEN ReadsDeclaration(TRUE)
             ELSE UNCHANGED <<declared, complete>>
    BY <1>5 DEF TakesClass
  <2>2. UNCHANGED <<pp_stack, matched, braces>> /\ complete
    BY <1>2, <1>5, <2>1 DEF TakesClass, ReadsDeclaration
  <2>3. Depth(stack') = Depth(stack)
    BY <1>2, <2>1, DepthClass
  <2> QED
    BY <1>1, <2>2, <2>3, CountingSame
<1>6. CASE TakesToken
  <2>1. PICK l \in rest :
          /\ l.tokens # <<>>
          /\ stack' = AfterToken(stack, Head(l.tokens), linenum)
          /\ CountBraces(Change(Head(l.tokens)))
          /\ ReadsToken(Head(l.tokens))
    BY <1>6 DEF TakesToken
  <2>2. UNCHANGED pp_stack
    BY <1>6 DEF TakesToken
  <2>3. CASE Skipped = {}
    <3> DEFINE token == Head(l.tokens)
    <3>1. token \in Token
      BY <1>2, <2>1, RestType
    <3>2. /\ matched /\ complete /\ (token = "}" => braces > 0 /\ ~declared)
          /\ braces' = braces + Change(token)
          /\ stack' = AfterToken(stack, token, linenum)
      BY <1>2, <2>1, <2>3 DEF CountBraces, ReadsToken
    <3> HIDE DEF token
    <3>3. Depth(stack) = braces /\ Heads(stack, One(declared))
      BY <1>1, <2>2, <2>3, <3>2, CountingSame DEF HeadsInv
    <3>4. Opened(stack, token)
      <4> SUFFICES ASSUME token = "}" PROVE stack # <<>> /\ Head(stack).open
        BY DEF Opened
      <4>1. Depth(stack) > 0 /\ One(declared) = 0
        BY <1>2, <3>2, <3>3, OneIs
      <4> QED BY <1>2, <3>3, <4>1, TopOpen
    <3>5. Depth(stack') = Depth(stack) + Change(token)
      BY <1>2, <3>1, <3>2, <3>4, DepthToken
    <3> QED
      BY <2>2, <2>3, <3>2, <3>3, <3>5, CountingSame
  <2>4. CASE Skipped # {}
    <3>1. matched /\ complete /\ braces' = braces
      BY <2>1, <2>4 DEF CountBraces, ReadsToken
    <3> QED
      BY <1>1, <2>2, <2>4, <3>1, CountingSame
  <2> QED
    BY <2>3, <2>4
<1>7. CASE EndsLine \/ CompletesFile \/ UNCHANGED vars
  <2>1. UNCHANGED <<stack, pp_stack, braces, matched, complete>>
    BY <1>7 DEF EndsLine, CompletesFile, vars, history
  <2> QED
    BY <1>1, <2>1, CountingSame
<1> QED
  BY <1>3, <1>4, <1>5, <1>6, <1>7 DEF Next

\* In any text whose braces match and whose declarations are each followed by { ; or ), the
\* blocks whose brace was seen are the braces that are open, for any lines and conditionals
\* of any depth: no declaration that is abandoned or completed later, and no branch, loses
\* or adds one (NestingState.Update()).
THEOREM BracesCorrect == Spec => []EveryBraceCounted
  BY InvInit, InvNext, CountedInit, CountedNext, HeadsNext, PTL DEF Spec
=============================================================================
