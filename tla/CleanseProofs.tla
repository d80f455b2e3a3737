---------------------------- MODULE CleanseProofs ----------------------------
(* What is proved of Cleanse for any files: Cleanse.TypeOK, that what       *)
(* cpplint.py takes for code is what C++ takes for code (NothingMisread),   *)
(* and that it reports exactly the functions with too many lines that are   *)
(* code and do not begin as a head does (LongReported).                     *)
EXTENDS Cleanse, FiniteSetTheorems, WellFoundedInduction, TLAPS

(* Induction, and functions defined by recursion along a sequence.         *)

LEMMA LeastNumber ==
  ASSUME NEW S \in SUBSET Nat, S # {}
  PROVE  \E x \in S : \A y \in S : x <= y
<1>1. IsWellFoundedOn(OpToRel(<, Nat), Nat)
  BY NatLessThanWellFounded
<1>2. PICK x \in S : \A y \in S : ~(<<y, x>> \in OpToRel(<, Nat))
  BY <1>1, WFMin
<1>3. \A y \in S : ~(y < x)
  BY <1>2 DEF OpToRel
<1> QED BY <1>3

\* What holds of 0 and of the next of each number holds of all: S is the set of those it
\* holds of, as no operator can stand for it.
LEMMA SetInduction ==
  ASSUME NEW S, 0 \in S, \A k \in Nat : k \in S => k + 1 \in S
  PROVE  \A k \in Nat : k \in S
<1> SUFFICES ASSUME NEW m \in Nat, m \notin S PROVE FALSE
  OBVIOUS
<1>1. PICK x \in Nat \ S : \A y \in Nat \ S : x <= y
  BY LeastNumber
<1>2. x # 0 /\ x - 1 \in Nat /\ ~(x <= x - 1) /\ (x - 1) + 1 = x
  OBVIOUS
<1> QED BY <1>1, <1>2

\* A table T of the steps, one for each place, is followed by some function.
LEMMA FoldExists ==
  ASSUME NEW X, NEW x0 \in X, NEW m \in Nat, NEW T \in [1..m -> [X -> X]]
  PROVE  \E f \in [0..m -> X] : f[0] = x0 /\ \A k \in 1..m : f[k] = T[k][f[k - 1]]
<1> DEFINE Done(j, f) == f[0] = x0 /\ \A k \in 1..j : f[k] = T[k][f[k - 1]]
           S == {j \in Nat : j <= m => \E f \in [0..j -> X] : Done(j, f)}
<1>1. 0 \in S
  <2>1. [i \in 0..0 |-> x0] \in [0..0 -> X] /\ Done(0, [i \in 0..0 |-> x0])
    OBVIOUS
  <2> QED BY <2>1
<1>2. ASSUME NEW j \in Nat, j \in S PROVE j + 1 \in S
  <2> SUFFICES ASSUME j + 1 <= m PROVE \E f \in [0..(j + 1) -> X] : Done(j + 1, f)
    OBVIOUS
  <2>1. PICK f \in [0..j -> X] : Done(j, f)
    BY <1>2
  <2> DEFINE v == T[j + 1][f[j]]
             g == [i \in 0..(j + 1) |-> IF i = j + 1 THEN v ELSE f[i]]
  <2>2. v \in X
    <3>1. f[j] \in X /\ j + 1 \in 1..m
      OBVIOUS
    <3> QED BY <3>1
  <2> HIDE DEF v
  <2>3. g \in [0..(j + 1) -> X] /\ g[j + 1] = v /\ \A i \in 0..j : g[i] = f[i]
    BY <2>2
  <2> HIDE DEF g
  <2>4. ASSUME NEW k \in 1..(j + 1) PROVE g[k] = T[k][g[k - 1]]
    <3>1. CASE k = j + 1
      BY <2>3, <3>1 DEF v
    <3>2. CASE k \in 1..j
      <4>1. f[k] = T[k][f[k - 1]] /\ k - 1 \in 0..j /\ k \in 0..j
        BY <2>1, <3>2
      <4> QED BY <2>3, <4>1
    <3> QED BY <3>1, <3>2
  <2>5. g[0] = x0
    BY <2>1, <2>3
  <2> QED BY <2>3, <2>4, <2>5
<1> HIDE DEF S
<1>3. m \in S
  BY <1>1, <1>2, SetInduction
<1> QED BY <1>3 DEF S

\* What two functions share at 0 and keep sharing, they share everywhere.
LEMMA FoldUnique ==
  ASSUME NEW m \in Nat, NEW f, NEW g, f[0] = g[0],
         \A k \in 1..m : f[k - 1] = g[k - 1] => f[k] = g[k]
  PROVE  f[m] = g[m]
<1> DEFINE S == {k \in Nat : k <= m => f[k] = g[k]}
<1>1. 0 \in S
  OBVIOUS
<1>2. ASSUME NEW k \in Nat, k \in S PROVE k + 1 \in S
  <2>1. (k + 1) - 1 = k
    OBVIOUS
  <2>2. k + 1 <= m => k + 1 \in 1..m /\ k <= m
    OBVIOUS
  <2> QED BY <1>2, <2>1, <2>2
<1> HIDE DEF S
<1>3. m \in S
  BY <1>1, <1>2, SetInduction
<1> QED BY <1>3 DEF S

\* Induction over a sequence, from its first element on.
LEMMA SeqInduction ==
  ASSUME NEW L, NEW S, <<>> \in S,
         \A s \in Seq(L), l \in L : s \in S => Append(s, l) \in S
  PROVE  \A s \in Seq(L) : s \in S
<1> DEFINE K == {k \in Nat : \A s \in Seq(L) : Len(s) = k => s \in S}
<1>1. 0 \in K
  <2>1. \A s \in Seq(L) : Len(s) = 0 => s = <<>>
    OBVIOUS
  <2> QED BY <2>1
<1>2. ASSUME NEW k \in Nat, k \in K PROVE k + 1 \in K
  <2> SUFFICES ASSUME NEW s \in Seq(L), Len(s) = k + 1 PROVE s \in S
    OBVIOUS
  <2> DEFINE t == SubSeq(s, 1, k)
             l == s[k + 1]
  <2>1. t \in Seq(L) /\ Len(t) = k /\ l \in L /\ s = Append(t, l)
    OBVIOUS
  <2> HIDE DEF t, l
  <2>2. t \in S
    BY <1>2, <2>1
  <2> QED BY <2>1, <2>2
<1> HIDE DEF K
<1>3. \A k \in Nat : k \in K
  BY <1>1, <1>2, SetInduction
<1> QED BY <1>3 DEF K

LEMMA AppendConcat ==
  /\ \A u, v \in Seq(Texts), l \in Texts : Append(u \o v, l) = u \o Append(v, l)
  /\ \A u, v \in Seq(Lexeme), l \in Lexeme :
       Append(u \o v, l) = u \o Append(v, l) /\ Append(v, l) \in Seq(Lexeme)
<1>1. \A u, v \in Seq(Texts), l \in Texts : Append(u \o v, l) = u \o Append(v, l)
  BY SMTT(30)
<1>2. \A u, v \in Seq(Lexeme), l \in Lexeme : Append(u \o v, l) = u \o Append(v, l)
  BY SMTT(30)
<1>3. \A v \in Seq(Lexeme), l \in Lexeme : Append(v, l) \in Seq(Lexeme)
  OBVIOUS
<1> QED BY <1>1, <1>2, <1>3

----------------------------------------------------------------------------
(* Read: C++.                                                              *)

Modes == {"code", "comment", "string", "raw", "line"}
ReadState == [mode : Modes, code : Seq(Texts)]

LEMMA ThenType == \A m \in Modes, l \in Lexeme : Then(m, l) \in Modes
BY DEF Then, Modes

LEMMA ReadsType == \A s \in ReadState, l \in Lexeme : Reads(s, l) \in ReadState
<1> SUFFICES ASSUME NEW s \in ReadState, NEW l \in Lexeme PROVE Reads(s, l) \in ReadState
  OBVIOUS
<1>1. s.mode \in Modes /\ s.code \in Seq(Texts) /\ Then(s.mode, l) \in Modes
  BY ThenType DEF ReadState
<1>2. (IF s.mode = "code" /\ l \in Texts THEN Append(s.code, l) ELSE s.code) \in Seq(Texts)
  BY <1>1
<1> QED BY <1>1, <1>2 DEF Reads, ReadState

LEMMA ReadFold ==
  ASSUME NEW x0 \in ReadState, NEW size \in Nat,
         NEW T \in [1..size -> [ReadState -> ReadState]]
  PROVE  \E f \in [0..size -> ReadState] :
           f[0] = x0 /\ \A k \in 1..size : f[k] = T[k][f[k - 1]]
BY FoldExists

\* The recursion of Read has a solution, and Read is its last value.
LEMMA ReadIs ==
  ASSUME NEW m \in Modes, NEW line \in Seq(Lexeme)
  PROVE  \E f \in [0..Len(line) -> ReadState] :
           /\ f[0] = [mode |-> m, code |-> <<>>]
           /\ \A k \in 1..Len(line) : f[k] = Reads(f[k - 1], line[k])
           /\ Read(m, line) = f[Len(line)]
<1> DEFINE x0 == [mode |-> m, code |-> <<>>]
           G(f) == [k \in 0..Len(line) |-> IF k = 0 THEN x0 ELSE Reads(f[k - 1], line[k])]
           T == [k \in 1..Len(line) |-> [x \in ReadState |-> Reads(x, line[k])]]
<1>1. x0 \in ReadState /\ Len(line) \in Nat
  BY DEF ReadState, Modes
<1>2. T \in [1..Len(line) -> [ReadState -> ReadState]]
  BY ReadsType
<1>3. \A x \in ReadState, k \in 1..Len(line) : T[k][x] = Reads(x, line[k])
  OBVIOUS
<1> HIDE DEF x0, T
<1>4. PICK f \in [0..Len(line) -> ReadState] :
        f[0] = x0 /\ \A k \in 1..Len(line) : f[k] = T[k][f[k - 1]]
  BY <1>1, <1>2, ReadFold, Zenon
<1>5. \A k \in 1..Len(line) : f[k] = Reads(f[k - 1], line[k])
  <2> TAKE k \in 1..Len(line)
  <2>1. k - 1 \in 0..Len(line) /\ f[k - 1] \in ReadState
    BY <1>1
  <2> QED BY <1>3, <1>4, <2>1
<1>6. f = G(f)
  BY <1>1, <1>4, <1>5
<1> DEFINE h == CHOOSE h : h = G(h)
<1>7. h = G(h)
  BY <1>6
<1>8. Read(m, line) = h[Len(line)]
  BY DEF Read, x0
<1> HIDE DEF h
<1>9. h[0] = x0 /\ \A k \in 1..Len(line) : h[k] = Reads(h[k - 1], line[k])
  BY <1>1, <1>7
<1>10. f[Len(line)] = h[Len(line)]
  <2>1. \A k \in 1..Len(line) : f[k - 1] = h[k - 1] => f[k] = h[k]
    BY <1>5, <1>9
  <2>2. f[0] = h[0]
    BY <1>4, <1>9
  <2> QED BY <1>1, <2>1, <2>2, FoldUnique, Zenon
<1> QED BY <1>4, <1>5, <1>8, <1>10 DEF x0

LEMMA ReadType ==
  ASSUME NEW m \in Modes, NEW line \in Seq(Lexeme)
  PROVE  Read(m, line) \in ReadState
<1>1. PICK f \in [0..Len(line) -> ReadState] : Read(m, line) = f[Len(line)]
  BY ReadIs
<1> QED BY <1>1

LEMMA ReadEmpty ==
  ASSUME NEW m \in Modes
  PROVE  Read(m, <<>>) = [mode |-> m, code |-> <<>>]
<1>1. <<>> \in Seq(Lexeme) /\ Len(<<>>) = 0
  OBVIOUS
<1>2. PICK f \in [0..Len(<<>>) -> ReadState] :
        f[0] = [mode |-> m, code |-> <<>>] /\ Read(m, <<>>) = f[Len(<<>>)]
  BY <1>1, ReadIs
<1> QED BY <1>1, <1>2

LEMMA ReadAppend ==
  ASSUME NEW m \in Modes, NEW line \in Seq(Lexeme), NEW l \in Lexeme
  PROVE  Read(m, Append(line, l)) = Reads(Read(m, line), l)
<1> DEFINE long == Append(line, l)
           n1 == Len(line)
<1>1. /\ long \in Seq(Lexeme) /\ n1 \in Nat /\ Len(long) = n1 + 1
      /\ long[n1 + 1] = l /\ \A k \in 1..n1 : long[k] = line[k]
  OBVIOUS
<1> HIDE DEF long
<1>2. PICK f \in [0..Len(line) -> ReadState] :
           /\ f[0] = [mode |-> m, code |-> <<>>]
           /\ \A k \in 1..Len(line) : f[k] = Reads(f[k - 1], line[k])
           /\ Read(m, line) = f[Len(line)]
  BY ReadIs
<1>3. PICK g \in [0..Len(long) -> ReadState] :
           /\ g[0] = [mode |-> m, code |-> <<>>]
           /\ \A k \in 1..Len(long) : g[k] = Reads(g[k - 1], long[k])
           /\ Read(m, long) = g[Len(long)]
  BY <1>1, ReadIs
<1>4. \A k \in 1..n1 : f[k - 1] = g[k - 1] => f[k] = g[k]
  BY <1>1, <1>2, <1>3
<1>5. f[n1] = g[n1]
  <2>1. n1 \in Nat /\ f[0] = g[0]
    BY <1>1, <1>2, <1>3
  <2> HIDE DEF n1
  <2> QED BY <1>4, <2>1, FoldUnique, Zenon
<1>6. g[n1 + 1] = Reads(g[n1], l)
  <2>1. n1 + 1 \in 1..Len(long) /\ (n1 + 1) - 1 = n1
    BY <1>1
  <2> QED BY <1>1, <1>3, <2>1
<1> QED BY <1>1, <1>2, <1>3, <1>5, <1>6 DEF long

LEMMA ReadNext ==
  ASSUME NEW m \in Modes, NEW line \in Seq(Lexeme), NEW l \in Lexeme
  PROVE  /\ Read(m, Append(line, l)).mode = Then(Read(m, line).mode, l)
         /\ Read(m, line).mode = "code" /\ l \in Texts =>
              Read(m, Append(line, l)).code = Append(Read(m, line).code, l)
         /\ ~(Read(m, line).mode = "code" /\ l \in Texts) =>
              Read(m, Append(line, l)).code = Read(m, line).code
BY ReadAppend DEF Reads

\* Reading on: C++ reads the second part from where the first one ends.
LEMMA ReadConcat ==
  ASSUME NEW m \in Modes, NEW a \in Seq(Lexeme), NEW b \in Seq(Lexeme)
  PROVE  /\ Read(m, a \o b).mode = Read(Read(m, a).mode, b).mode
         /\ Read(m, a \o b).code = Read(m, a).code \o Read(Read(m, a).mode, b).code
<1> DEFINE e == Read(m, a).mode
           S == {s \in Seq(Lexeme) :
                  /\ Read(m, a \o s).mode = Read(e, s).mode
                  /\ Read(m, a \o s).code = Read(m, a).code \o Read(e, s).code}
<1>1. e \in Modes /\ Read(m, a).code \in Seq(Texts)
  BY ReadType DEF ReadState
<1> HIDE DEF e
<1>2. <<>> \in S
  <2>1. <<>> \in Seq(Lexeme) /\ a \o <<>> = a
    OBVIOUS
  <2>2. Read(e, <<>>).mode = e /\ Read(e, <<>>).code = <<>>
    BY <1>1, ReadEmpty
  <2>3. Read(m, a).code \o <<>> = Read(m, a).code
    BY <1>1
  <2>4. Read(m, a \o <<>>).mode = e
    BY <2>1 DEF e
  <2>5. Read(m, a \o <<>>).code = Read(m, a).code
    BY <2>1
  <2> QED BY <2>1, <2>2, <2>3, <2>4, <2>5
<1>3. ASSUME NEW s \in Seq(Lexeme), NEW l \in Lexeme, s \in S
      PROVE  Append(s, l) \in S
  <2>1. Append(s, l) \in Seq(Lexeme) /\ a \o Append(s, l) = Append(a \o s, l)
        /\ a \o s \in Seq(Lexeme)
    OBVIOUS
  <2>4. Read(m, a \o s).mode = Read(e, s).mode
        /\ Read(m, a \o s).code = Read(m, a).code \o Read(e, s).code
    BY <1>3
  <2>5. Read(e, s).code \in Seq(Texts)
    BY <1>1, ReadType DEF ReadState
  <2>6. Read(m, Append(a \o s, l)).mode = Read(e, Append(s, l)).mode
    <3>1. Read(m, Append(a \o s, l)).mode = Then(Read(m, a \o s).mode, l)
      BY <2>1, ReadNext
    <3>2. Read(e, Append(s, l)).mode = Then(Read(e, s).mode, l)
      BY <1>1, ReadNext
    <3> QED BY <2>4, <3>1, <3>2
  <2> DEFINE u == Read(m, a).code
             v == Read(e, s).code
  <2>7. Read(m, Append(a \o s, l)).code = u \o Read(e, Append(s, l)).code
    <3>1. CASE Read(e, s).mode = "code" /\ l \in Texts
      <4>1. Read(m, Append(a \o s, l)).code = Append(u \o v, l)
        <5>1. Read(m, a \o s).mode = "code" /\ l \in Texts
          BY <2>4, <3>1
        <5>2. Read(m, Append(a \o s, l)).code = Append(Read(m, a \o s).code, l)
          BY <2>1, <5>1, ReadNext
        <5> QED BY <2>4, <5>2
      <4>2. Read(e, Append(s, l)).code = Append(v, l)
        BY <1>1, <3>1, ReadNext
      <4>3. u \in Seq(Texts) /\ v \in Seq(Texts)
        BY <1>1, <2>5
      <4>4. Append(u \o v, l) = u \o Append(v, l)
        <5> HIDE DEF u, v
        <5> QED BY <3>1, <4>3, AppendConcat, Zenon
      <4> QED BY <4>1, <4>2, <4>4
    <3>2. CASE ~(Read(e, s).mode = "code" /\ l \in Texts)
      <4>1. Read(m, Append(a \o s, l)).code = u \o v
        BY <2>1, <2>4, <3>2, ReadNext
      <4>2. Read(e, Append(s, l)).code = v
        BY <1>1, <3>2, ReadNext
      <4> QED BY <4>1, <4>2
    <3> QED BY <3>1, <3>2
  <2> QED BY <2>1, <2>6, <2>7
<1> HIDE DEF S
<1>4. b \in S
  BY <1>2, <1>3, SeqInduction
<1> QED BY <1>4 DEF S, e


----------------------------------------------------------------------------
(* CodeOf: the lexemes that are text.                                      *)

CodeText == Seq(Texts)
TextAdded(c, l) == IF l \in Texts THEN Append(c, l) ELSE c

LEMMA CodeOfFold ==
  ASSUME NEW x0 \in CodeText, NEW size \in Nat, NEW T \in [1..size -> [CodeText -> CodeText]]
  PROVE  \E f \in [0..size -> CodeText] :
           f[0] = x0 /\ \A k \in 1..size : f[k] = T[k][f[k - 1]]
BY FoldExists

LEMMA CodeOfIs ==
  ASSUME NEW line \in Seq(Lexeme)
  PROVE  \E f \in [0..Len(line) -> CodeText] :
           /\ f[0] = <<>>
           /\ \A k \in 1..Len(line) : f[k] = TextAdded(f[k - 1], line[k])
           /\ CodeOf(line) = f[Len(line)]
<1> DEFINE x0 == <<>>
           G(f) == [k \in 0..Len(line) |-> IF k = 0 THEN x0 ELSE TextAdded(f[k - 1], line[k])]
           T == [k \in 1..Len(line) |-> [x \in CodeText |-> TextAdded(x, line[k])]]
<1>1. x0 \in CodeText /\ Len(line) \in Nat
  BY DEF CodeText
<1>2. T \in [1..Len(line) -> [CodeText -> CodeText]]
  BY DEF CodeText, TextAdded
<1>3. \A x \in CodeText, k \in 1..Len(line) : T[k][x] = TextAdded(x, line[k])
  OBVIOUS
<1> HIDE DEF x0, T
<1>4. PICK f \in [0..Len(line) -> CodeText] :
        f[0] = x0 /\ \A k \in 1..Len(line) : f[k] = T[k][f[k - 1]]
  BY <1>1, <1>2, CodeOfFold, Zenon
<1>5. \A k \in 1..Len(line) : f[k] = TextAdded(f[k - 1], line[k])
  <2> TAKE k \in 1..Len(line)
  <2>1. k - 1 \in 0..Len(line) /\ f[k - 1] \in CodeText
    BY <1>1
  <2> QED BY <1>3, <1>4, <2>1
<1>6. f = G(f)
  BY <1>1, <1>4, <1>5
<1> DEFINE h == CHOOSE h : h = G(h)
<1>7. h = G(h)
  BY <1>6
<1>8. CodeOf(line) = h[Len(line)]
  BY DEF CodeOf, TextAdded, x0
<1> HIDE DEF h
<1>9. h[0] = x0 /\ \A k \in 1..Len(line) : h[k] = TextAdded(h[k - 1], line[k])
  BY <1>1, <1>7
<1>10. f[Len(line)] = h[Len(line)]
  <2>1. \A k \in 1..Len(line) : f[k - 1] = h[k - 1] => f[k] = h[k]
    BY <1>5, <1>9
  <2>2. f[0] = h[0]
    BY <1>4, <1>9
  <2> QED BY <1>1, <2>1, <2>2, FoldUnique, Zenon
<1> QED BY <1>4, <1>5, <1>8, <1>10 DEF x0

LEMMA CodeOfType ==
  ASSUME NEW line \in Seq(Lexeme)
  PROVE  CodeOf(line) \in CodeText
<1>1. PICK f \in [0..Len(line) -> CodeText] : CodeOf(line) = f[Len(line)]
  BY CodeOfIs
<1> QED BY <1>1

LEMMA CodeOfEmpty ==
  CodeOf(<<>>) = <<>>
<1>1. <<>> \in Seq(Lexeme) /\ Len(<<>>) = 0
  OBVIOUS
<1>2. PICK f \in [0..Len(<<>>) -> CodeText] : f[0] = <<>> /\ CodeOf(<<>>) = f[Len(<<>>)]
  BY <1>1, CodeOfIs
<1> QED BY <1>1, <1>2

LEMMA CodeOfAppend ==
  ASSUME NEW line \in Seq(Lexeme), NEW l \in Lexeme
  PROVE  CodeOf(Append(line, l)) = TextAdded(CodeOf(line), l)
<1> DEFINE long == Append(line, l)
           size == Len(line)
<1>1. /\ long \in Seq(Lexeme) /\ size \in Nat /\ Len(long) = size + 1
      /\ long[size + 1] = l /\ \A k \in 1..size : long[k] = line[k]
  OBVIOUS
<1> HIDE DEF long
<1>2. PICK f \in [0..Len(line) -> CodeText] :
           /\ f[0] = <<>>
           /\ \A k \in 1..Len(line) : f[k] = TextAdded(f[k - 1], line[k])
           /\ CodeOf(line) = f[Len(line)]
  BY CodeOfIs
<1>3. PICK g \in [0..Len(long) -> CodeText] :
           /\ g[0] = <<>>
           /\ \A k \in 1..Len(long) : g[k] = TextAdded(g[k - 1], long[k])
           /\ CodeOf(long) = g[Len(long)]
  BY <1>1, CodeOfIs
<1>4. \A k \in 1..size : f[k - 1] = g[k - 1] => f[k] = g[k]
  BY <1>1, <1>2, <1>3
<1>5. f[size] = g[size]
  <2>1. size \in Nat /\ f[0] = g[0]
    BY <1>1, <1>2, <1>3
  <2> HIDE DEF size
  <2> QED BY <1>4, <2>1, FoldUnique, Zenon
<1>6. g[size + 1] = TextAdded(g[size], l)
  <2>1. size + 1 \in 1..Len(long) /\ (size + 1) - 1 = size
    BY <1>1
  <2> QED BY <1>1, <1>3, <2>1
<1> QED BY <1>1, <1>2, <1>3, <1>5, <1>6 DEF long

----------------------------------------------------------------------------
(* CutUpTo: the two regular expressions of CleansedLines.                  *)

CutState == [kept : Seq(Lexeme), held : Seq(Lexeme)]

LEMMA CutsType ==
  ASSUME NEW s \in CutState, NEW l \in Lexeme, NEW opens, NEW closes, NEW by \in Seq(Lexeme)
  PROVE  Cuts(s, l, opens, closes, by) \in CutState
<1>1. s.kept \in Seq(Lexeme) /\ s.held \in Seq(Lexeme)
  BY DEF CutState
<1>2. /\ <<l>> \in Seq(Lexeme) /\ <<>> \in Seq(Lexeme) /\ Append(s.kept, l) \in Seq(Lexeme)
      /\ s.kept \o by \in Seq(Lexeme) /\ Append(s.held, l) \in Seq(Lexeme)
  BY <1>1
<1> QED BY <1>1, <1>2 DEF Cuts, CutState

LEMMA CutUpToFold ==
  ASSUME NEW x0 \in CutState, NEW size \in Nat, NEW T \in [1..size -> [CutState -> CutState]]
  PROVE  \E f \in [0..size -> CutState] :
           f[0] = x0 /\ \A k \in 1..size : f[k] = T[k][f[k - 1]]
BY FoldExists

LEMMA CutUpToIs ==
  ASSUME NEW opens \in SUBSET Lexeme, NEW closes \in SUBSET Lexeme,
         NEW by \in Seq(Lexeme), NEW line \in Seq(Lexeme)
  PROVE  \E f \in [0..Len(line) -> CutState] :
           /\ f[0] = [kept |-> <<>>, held |-> <<>>]
           /\ \A k \in 1..Len(line) : f[k] = Cuts(f[k - 1], line[k], opens, closes, by)
           /\ CutUpTo(line, opens, closes, by) = f[Len(line)]
<1> DEFINE x0 == [kept |-> <<>>, held |-> <<>>]
           G(f) == [k \in 0..Len(line) |->
                      IF k = 0 THEN x0 ELSE Cuts(f[k - 1], line[k], opens, closes, by)]
           T == [k \in 1..Len(line) |-> [x \in CutState |-> Cuts(x, line[k], opens, closes, by)]]
<1>1. x0 \in CutState /\ Len(line) \in Nat
  BY DEF CutState
<1>2. T \in [1..Len(line) -> [CutState -> CutState]]
  BY CutsType
<1>3. \A x \in CutState, k \in 1..Len(line) : T[k][x] = Cuts(x, line[k], opens, closes, by)
  OBVIOUS
<1> HIDE DEF x0, T
<1>4. PICK f \in [0..Len(line) -> CutState] :
        f[0] = x0 /\ \A k \in 1..Len(line) : f[k] = T[k][f[k - 1]]
  BY <1>1, <1>2, CutUpToFold, Zenon
<1>5. \A k \in 1..Len(line) : f[k] = Cuts(f[k - 1], line[k], opens, closes, by)
  <2> TAKE k \in 1..Len(line)
  <2>1. k - 1 \in 0..Len(line) /\ f[k - 1] \in CutState
    BY <1>1
  <2> QED BY <1>3, <1>4, <2>1
<1>6. f = G(f)
  BY <1>1, <1>4, <1>5
<1> DEFINE h == CHOOSE h : h = G(h)
<1>7. h = G(h)
  BY <1>6
<1>8. CutUpTo(line, opens, closes, by) = h[Len(line)]
  BY DEF CutUpTo, x0
<1> HIDE DEF h
<1>9. h[0] = x0 /\ \A k \in 1..Len(line) : h[k] = Cuts(h[k - 1], line[k], opens, closes, by)
  BY <1>1, <1>7
<1>10. f[Len(line)] = h[Len(line)]
  <2>1. \A k \in 1..Len(line) : f[k - 1] = h[k - 1] => f[k] = h[k]
    BY <1>5, <1>9
  <2>2. f[0] = h[0]
    BY <1>4, <1>9
  <2> QED BY <1>1, <2>1, <2>2, FoldUnique, Zenon
<1> QED BY <1>4, <1>5, <1>8, <1>10 DEF x0

LEMMA CutUpToType ==
  ASSUME NEW opens \in SUBSET Lexeme, NEW closes \in SUBSET Lexeme,
         NEW by \in Seq(Lexeme), NEW line \in Seq(Lexeme)
  PROVE  CutUpTo(line, opens, closes, by) \in CutState
<1>1. PICK f \in [0..Len(line) -> CutState] : CutUpTo(line, opens, closes, by) = f[Len(line)]
  BY CutUpToIs
<1> QED BY <1>1

LEMMA CutUpToEmpty ==
  ASSUME NEW opens \in SUBSET Lexeme, NEW closes \in SUBSET Lexeme, NEW by \in Seq(Lexeme)
  PROVE  CutUpTo(<<>>, opens, closes, by) = [kept |-> <<>>, held |-> <<>>]
<1> DEFINE none == <<>>
<1>1. none \in Seq(Lexeme)
  OBVIOUS
<1>2. Len(none) = 0
  OBVIOUS
<1> HIDE DEF none
<1>3. PICK f \in [0..Len(none) -> CutState] :
        /\ f[0] = [kept |-> <<>>, held |-> <<>>]
        /\ \A k \in 1..Len(none) : f[k] = Cuts(f[k - 1], none[k], opens, closes, by)
        /\ CutUpTo(none, opens, closes, by) = f[Len(none)]
  BY <1>1, CutUpToIs
<1> QED BY <1>3, <1>2 DEF none

LEMMA CutUpToAppend ==
  ASSUME NEW opens \in SUBSET Lexeme, NEW closes \in SUBSET Lexeme,
         NEW by \in Seq(Lexeme), NEW line \in Seq(Lexeme), NEW l \in Lexeme
  PROVE  CutUpTo(Append(line, l), opens, closes, by)
           = Cuts(CutUpTo(line, opens, closes, by), l, opens, closes, by)
<1> DEFINE long == Append(line, l)
           size == Len(line)
<1>1. /\ long \in Seq(Lexeme) /\ size \in Nat /\ Len(long) = size + 1
      /\ long[size + 1] = l /\ \A k \in 1..size : long[k] = line[k]
  OBVIOUS
<1> HIDE DEF long
<1>2. PICK f \in [0..Len(line) -> CutState] :
           /\ f[0] = [kept |-> <<>>, held |-> <<>>]
           /\ \A k \in 1..Len(line) : f[k] = Cuts(f[k - 1], line[k], opens, closes, by)
           /\ CutUpTo(line, opens, closes, by) = f[Len(line)]
  BY CutUpToIs
<1>3. PICK g \in [0..Len(long) -> CutState] :
           /\ g[0] = [kept |-> <<>>, held |-> <<>>]
           /\ \A k \in 1..Len(long) : g[k] = Cuts(g[k - 1], long[k], opens, closes, by)
           /\ CutUpTo(long, opens, closes, by) = g[Len(long)]
  BY <1>1, CutUpToIs
<1>4. \A k \in 1..size : f[k - 1] = g[k - 1] => f[k] = g[k]
  BY <1>1, <1>2, <1>3
<1>5. f[size] = g[size]
  <2>1. size \in Nat /\ f[0] = g[0]
    BY <1>1, <1>2, <1>3
  <2> HIDE DEF size
  <2> QED BY <1>4, <2>1, FoldUnique, Zenon
<1>6. g[size + 1] = Cuts(g[size], l, opens, closes, by)
  <2>1. size + 1 \in 1..Len(long) /\ (size + 1) - 1 = size
    BY <1>1
  <2> QED BY <1>1, <1>3, <2>1
<1> QED BY <1>1, <1>2, <1>3, <1>5, <1>6 DEF long

----------------------------------------------------------------------------
(* CountOf, Upto and Clear.                                                *)

LEMMA UptoConcat ==
  ASSUME NEW a \in Seq(Lexeme), NEW b \in Seq(Lexeme)
  PROVE  /\ a \o b \in Seq(Lexeme) /\ Len(a \o b) = Len(a) + Len(b)
         /\ \A k \in 1..Len(a) : (a \o b)[k] = a[k]
         /\ \A k \in 1..Len(b) : (a \o b)[Len(a) + k] = b[k]
         /\ \A k \in 0..Len(a) : Upto(a \o b, k) = Upto(a, k)
         /\ \A k \in 0..Len(b) : Upto(a \o b, Len(a) + k) = a \o Upto(b, k)
<1>1. /\ a \o b \in Seq(Lexeme) /\ Len(a \o b) = Len(a) + Len(b)
      /\ \A k \in 1..Len(a) : (a \o b)[k] = a[k]
      /\ \A k \in 1..Len(b) : (a \o b)[Len(a) + k] = b[k]
  OBVIOUS
<1>2. ASSUME NEW k \in 0..Len(a) PROVE Upto(a \o b, k) = Upto(a, k)
  BY DEF Upto
<1>3. ASSUME NEW k \in 0..Len(b) PROVE Upto(a \o b, Len(a) + k) = a \o Upto(b, k)
  BY DEF Upto
<1> QED BY <1>1, <1>2, <1>3

LEMMA UptoType ==
  ASSUME NEW line \in Seq(Lexeme), NEW k \in 0..Len(line)
  PROVE  /\ Upto(line, k) \in Seq(Lexeme) /\ Len(Upto(line, k)) = k
         /\ \A i \in 1..k : Upto(line, k)[i] = line[i]
BY DEF Upto

\* What is clear has its first part clear, and its second from where that ends.
Fits(at, l) ==
  /\ at = "comment" => l \notin Quotes
  /\ at = "string" => l # "raw("
  /\ at = "code" => l # "*/"

LEMMA ClearFits ==
  ASSUME NEW m, NEW line
  PROVE  Clear(m, line) <=> \A k \in DOMAIN line : Fits(Read(m, Upto(line, k - 1)).mode, line[k])
BY DEF Clear, Fits

LEMMA ClearConcat ==
  ASSUME NEW m \in Modes, NEW a \in Seq(Lexeme), NEW b \in Seq(Lexeme)
  PROVE  Clear(m, a \o b) <=> Clear(m, a) /\ Clear(Read(m, a).mode, b)
<1> DEFINE c == a \o b
           e == Read(m, a).mode
           At1(k) == Fits(Read(m, Upto(c, k - 1)).mode, c[k])
<1>1. /\ c \in Seq(Lexeme) /\ Len(c) = Len(a) + Len(b) /\ Len(a) \in Nat /\ Len(b) \in Nat
      /\ \A k \in 1..Len(a) : c[k] = a[k]
      /\ \A k \in 1..Len(b) : c[Len(a) + k] = b[k]
  BY UptoConcat
<1>2. \A k \in 1..Len(a) : Upto(c, k - 1) = Upto(a, k - 1)
  <2> TAKE k \in 1..Len(a)
  <2>1. k - 1 \in 0..Len(a)
    OBVIOUS
  <2> QED BY <2>1, UptoConcat
<1>3. ASSUME NEW k \in 1..Len(b)
      PROVE  Read(m, Upto(c, (Len(a) + k) - 1)).mode = Read(e, Upto(b, k - 1)).mode
  <2>1. k - 1 \in 0..Len(b) /\ (Len(a) + k) - 1 = Len(a) + (k - 1)
    OBVIOUS
  <2>2. Upto(c, Len(a) + (k - 1)) = a \o Upto(b, k - 1)
    BY <2>1, UptoConcat
  <2>3. Upto(b, k - 1) \in Seq(Lexeme)
    BY <2>1, UptoType
  <2>4. Upto(c, (Len(a) + k) - 1) = a \o Upto(b, k - 1)
    BY <2>1, <2>2, Zenon
  <2>5. Read(m, a \o Upto(b, k - 1)).mode = Read(Read(m, a).mode, Upto(b, k - 1)).mode
    BY <2>3, ReadConcat
  <2> QED BY <2>4, <2>5
<1> HIDE DEF c, e
<1>4. Clear(m, a) <=> \A k \in 1..Len(a) : At1(k)
  <2>1. DOMAIN a = 1..Len(a)
    OBVIOUS
  <2> QED BY <1>1, <1>2, <2>1, ClearFits
<1>5. Clear(e, b) <=> \A k \in 1..Len(b) : At1(Len(a) + k)
  <2>1. DOMAIN b = 1..Len(b)
    OBVIOUS
  <2>2. \A k \in 1..Len(b) : At1(Len(a) + k) <=> Fits(Read(e, Upto(b, k - 1)).mode, b[k])
    BY <1>1, <1>3
  <2> HIDE DEF At1
  <2> QED BY <2>1, <2>2, ClearFits
<1>6. Clear(m, c) <=> \A k \in 1..(Len(a) + Len(b)) : At1(k)
  <2>1. DOMAIN c = 1..(Len(a) + Len(b))
    BY <1>1
  <2> QED BY <2>1, ClearFits
<1> HIDE DEF At1
<1>7. (\A k \in 1..(Len(a) + Len(b)) : At1(k))
        <=> /\ \A k \in 1..Len(a) : At1(k)
            /\ \A k \in 1..Len(b) : At1(Len(a) + k)
  <2>1. \A k \in 1..(Len(a) + Len(b)) :
          k \in 1..Len(a) \/ (k - Len(a) \in 1..Len(b) /\ Len(a) + (k - Len(a)) = k)
    BY <1>1
  <2>2. \A k \in 1..Len(a) : k \in 1..(Len(a) + Len(b))
    BY <1>1
  <2>3. \A k \in 1..Len(b) : Len(a) + k \in 1..(Len(a) + Len(b))
    BY <1>1
  <2> QED BY <2>1, <2>2, <2>3
<1> QED BY <1>4, <1>5, <1>6, <1>7 DEF c, e

LEMMA ClearAppend ==
  ASSUME NEW m \in Modes, NEW a \in Seq(Lexeme), NEW l \in Lexeme
  PROVE  Clear(m, Append(a, l)) <=> Clear(m, a) /\ Fits(Read(m, a).mode, l)
<1> DEFINE e == Read(m, a).mode
<1>1. e \in Modes
  BY ReadType DEF ReadState
<1>2. <<l>> \in Seq(Lexeme) /\ Append(a, l) = a \o <<l>> /\ DOMAIN <<l>> = {1} /\ <<l>>[1] = l
  OBVIOUS
<1>3. Upto(<<l>>, 1 - 1) = <<>>
  BY DEF Upto
<1>4. Read(e, <<>>).mode = e
  BY <1>1, ReadEmpty
<1> HIDE DEF e
<1>5. Clear(e, <<l>>) <=> Fits(e, l)
  BY <1>2, <1>3, <1>4, ClearFits
<1> QED BY <1>2, <1>5, ClearConcat DEF e

\* A string or raw string is begun in the line.
Quoted(m, line) ==
  \E k \in DOMAIN line : Read(m, Upto(line, k - 1)).mode = "code" /\ line[k] \in Quotes

LEMMA QuotedAppend ==
  ASSUME NEW m \in Modes, NEW a \in Seq(Lexeme), NEW l \in Lexeme
  PROVE  /\ ~Quoted(m, <<>>)
         /\ Quoted(m, Append(a, l)) <=> Quoted(m, a) \/ (Read(m, a).mode = "code" /\ l \in Quotes)
<1> DEFINE c == Append(a, l)
           size == Len(a)
           Hit(k) == Read(m, Upto(c, k - 1)).mode = "code" /\ c[k] \in Quotes
<1>1. /\ DOMAIN a = 1..size /\ DOMAIN c = 1..(size + 1) /\ size \in Nat
      /\ c[size + 1] = l /\ \A k \in 1..size : c[k] = a[k]
  OBVIOUS
<1>2. Upto(c, (size + 1) - 1) = a /\ \A k \in 1..size : Upto(c, k - 1) = Upto(a, k - 1)
  BY DEF Upto
<1>3. ~Quoted(m, <<>>)
  BY DEF Quoted
<1> HIDE DEF c, size
<1>4. \A k \in 1..size : Hit(k) <=> Read(m, Upto(a, k - 1)).mode = "code" /\ a[k] \in Quotes
  BY <1>1, <1>2
<1>5. Hit(size + 1) <=> Read(m, a).mode = "code" /\ l \in Quotes
  BY <1>1, <1>2
<1>6. Quoted(m, c) <=> \E k \in 1..(size + 1) : Hit(k)
  BY <1>1 DEF Quoted
<1>7. Quoted(m, a) <=> \E k \in 1..size : Hit(k)
  BY <1>1, <1>4 DEF Quoted
<1> HIDE DEF Hit
<1>8. /\ \A k \in 1..(size + 1) : k \in 1..size \/ k = size + 1
      /\ \A k \in 1..size : k \in 1..(size + 1)
      /\ size + 1 \in 1..(size + 1)
  BY <1>1
<1>9. (\E k \in 1..(size + 1) : Hit(k)) <=> (\E k \in 1..size : Hit(k)) \/ Hit(size + 1)
  BY <1>8
<1> QED BY <1>3, <1>5, <1>6, <1>7, <1>9 DEF c

LEMMA QuotedConcat ==
  ASSUME NEW m \in Modes, NEW a \in Seq(Lexeme), NEW b \in Seq(Lexeme)
  PROVE  Quoted(m, a \o b) <=> Quoted(m, a) \/ Quoted(Read(m, a).mode, b)
<1> DEFINE e == Read(m, a).mode
           S == {s \in Seq(Lexeme) : Quoted(m, a \o s) <=> Quoted(m, a) \/ Quoted(e, s)}
<1>1. e \in Modes /\ <<>> \in Seq(Lexeme) /\ a \o <<>> = a
  BY ReadType DEF ReadState
<1>2. <<>> \in S
  <2>1. ~Quoted(e, <<>>)
    BY DEF Quoted
  <2> QED BY <1>1, <2>1
<1>3. ASSUME NEW s \in Seq(Lexeme), NEW l \in Lexeme, s \in S PROVE Append(s, l) \in S
  <2>1. a \o Append(s, l) = Append(a \o s, l) /\ Append(s, l) \in Seq(Lexeme)
    BY AppendConcat
  <2>2. a \o s \in Seq(Lexeme)
    BY UptoConcat
  <2>3. Read(m, a \o s).mode = Read(e, s).mode
    BY ReadConcat
  <2>4. Quoted(m, a \o s) <=> Quoted(m, a) \/ Quoted(e, s)
    BY <1>3
  <2> HIDE DEF e, S
  <2> DEFINE c == a \o s
  <2>5. c \in Seq(Lexeme) /\ a \o Append(s, l) = Append(c, l) /\ Read(m, c).mode = Read(e, s).mode
        /\ (Quoted(m, c) <=> Quoted(m, a) \/ Quoted(e, s))
    BY <2>1, <2>2, <2>3, <2>4
  <2> HIDE DEF c
  <2>6. Quoted(m, Append(c, l)) <=> Quoted(m, c) \/ (Read(m, c).mode = "code" /\ l \in Quotes)
    BY <2>5, QuotedAppend
  <2>7. Quoted(e, Append(s, l)) <=> Quoted(e, s) \/ (Read(e, s).mode = "code" /\ l \in Quotes)
    BY <1>1, QuotedAppend
  <2>8. Quoted(m, a \o Append(s, l)) <=> Quoted(m, a) \/ Quoted(e, Append(s, l))
    BY <2>5, <2>6, <2>7
  <2> QED BY <2>1, <2>8 DEF S
<1> HIDE DEF S
<1>4. b \in S
  BY <1>2, <1>3, SeqInduction
<1> QED BY <1>4 DEF S

LEMMA CountType ==
  ASSUME NEW line \in Seq(Lexeme), NEW S
  PROVE  /\ CountOf(line, S) \in Nat
         /\ CountOf(line, S) = 0 <=> \A i \in DOMAIN line : line[i] \notin S
<1> DEFINE C == {i \in DOMAIN line : line[i] \in S}
<1>1. C \subseteq 1..Len(line) /\ Len(line) \in Nat
  OBVIOUS
<1>2. IsFiniteSet(C)
  BY <1>1, FS_Interval, FS_Subset
<1>3. Cardinality(C) \in Nat /\ (Cardinality(C) = 0 <=> C = {})
  BY <1>2, FS_CardinalityType, FS_EmptySet
<1> QED BY <1>3 DEF CountOf

LEMMA CountAppend ==
  ASSUME NEW line \in Seq(Lexeme), NEW l \in Lexeme, NEW S
  PROVE  CountOf(Append(line, l), S) = CountOf(line, S) + (IF l \in S THEN 1 ELSE 0)
<1> DEFINE C == {i \in DOMAIN line : line[i] \in S}
           long == Append(line, l)
           D == {i \in DOMAIN long : long[i] \in S}
           size == Len(line)
<1>1. /\ DOMAIN line = 1..size /\ DOMAIN long = 1..(size + 1) /\ size \in Nat
      /\ long[size + 1] = l /\ \A i \in 1..size : long[i] = line[i]
  OBVIOUS
<1>2. IsFiniteSet(C) /\ size + 1 \notin C
  <2>1. C \subseteq 1..size
    BY <1>1
  <2>2. IsFiniteSet(1..Len(line))
    BY <1>1, FS_Interval
  <2>3. size + 1 \notin 1..size
    BY <1>1
  <2> HIDE DEF C
  <2> QED BY <2>1, <2>2, <2>3, FS_Subset
<1> HIDE DEF long, size
<1>3. D = IF l \in S THEN C \cup {size + 1} ELSE C
  BY <1>1
<1>4. Cardinality(C) \in Nat /\ Cardinality(C \cup {size + 1}) = Cardinality(C) + 1
  BY <1>2, FS_CardinalityType, FS_AddElement
<1>5. CountOf(line, S) = Cardinality(C) /\ CountOf(long, S) = Cardinality(D)
  BY DEF CountOf
<1> HIDE DEF C, D
<1>6. CountOf(long, S) = CountOf(line, S) + (IF l \in S THEN 1 ELSE 0)
  BY <1>3, <1>4, <1>5
<1> QED BY <1>6 DEF long

\* Of quotes only the parity matters.
Even(line) == QuotesIn(line) % 2 = 0

LEMMA EvenAppend ==
  ASSUME NEW line \in Seq(Lexeme), NEW l \in Lexeme
  PROVE  /\ Even(Append(line, l)) <=> (Even(line) <=> l \notin Quotes)
         /\ QuotesIn(line) % 2 = 1 <=> ~Even(line)
<1> DEFINE c == QuotesIn(line)
<1>1. c \in Nat /\ QuotesIn(Append(line, l)) = c + (IF l \in Quotes THEN 1 ELSE 0)
  BY CountType, CountAppend DEF QuotesIn
<1> HIDE DEF c
<1>2. c % 2 \in {0, 1} /\ (c + 1) % 2 = 1 - (c % 2) /\ c + 0 = c
  BY <1>1
<1>3. CASE l \in Quotes
  BY <1>1, <1>2, <1>3 DEF Even, c
<1>4. CASE l \notin Quotes
  BY <1>1, <1>2, <1>4 DEF Even, c
<1> QED BY <1>3, <1>4

LEMMA EvenEmpty == Even(<<>>)
<1>1. <<>> \in Seq(Lexeme) /\ DOMAIN <<>> = {}
  OBVIOUS
<1>2. QuotesIn(<<>>) = 0
  BY <1>1, CountType DEF QuotesIn
<1> QED BY <1>2 DEF Even

----------------------------------------------------------------------------
(* Min, First, Has and InComment.                                          *)

LEMMA MinIs ==
  ASSUME NEW S \in SUBSET Nat, S # {}
  PROVE  Min(S) \in S /\ \A x \in S : Min(S) <= x
BY LeastNumber DEF Min

LEMMA FirstIs ==
  ASSUME NEW line \in Seq(Lexeme), NEW l, Has(line, l)
  PROVE  /\ First(line, l) \in 1..Len(line) /\ line[First(line, l)] = l
         /\ \A i \in 1..Len(line) : line[i] = l => First(line, l) <= i
<1> DEFINE S == {i \in DOMAIN line : line[i] = l}
<1>1. S \subseteq Nat /\ S # {} /\ DOMAIN line = 1..Len(line)
  BY DEF Has
<1>2. First(line, l) = Min(S)
  BY DEF First
<1>3. Min(S) \in S /\ \A x \in S : Min(S) <= x
  <2> HIDE DEF S
  <2> QED BY <1>1, MinIs
<1> QED BY <1>1, <1>2, <1>3

LEMMA HasAppend ==
  ASSUME NEW line \in Seq(Lexeme), NEW l \in Lexeme, NEW x
  PROVE  Has(Append(line, l), x) <=> Has(line, x) \/ l = x
<1> DEFINE long == Append(line, l)
           size == Len(line)
<1>1. /\ DOMAIN line = 1..size /\ DOMAIN long = 1..(size + 1) /\ size \in Nat
      /\ long[size + 1] = l /\ \A i \in 1..size : long[i] = line[i]
  OBVIOUS
<1> HIDE DEF long, size
<1>2. \A i \in 1..(size + 1) : i \in 1..size \/ i = size + 1
  BY <1>1
<1>3. size + 1 \in 1..(size + 1) /\ \A i \in 1..size : i \in 1..(size + 1)
  BY <1>1
<1>4. Has(long, x) <=> Has(line, x) \/ l = x
  BY <1>1, <1>2, <1>3 DEF Has
<1> QED BY <1>4 DEF long

LEMMA InCommentAppend ==
  ASSUME NEW p \in Seq(Lexeme), NEW l \in Lexeme
  PROVE  InComment(Append(p, l)) <=> InComment(p) \/ (l = "//" /\ Even(p))
<1> DEFINE long == Append(p, l)
           size == Len(p)
           C(q, i) == q[i] = "//" /\ Even(Upto(q, i - 1))
<1>1. /\ DOMAIN p = 1..size /\ DOMAIN long = 1..(size + 1) /\ size \in Nat
      /\ long[size + 1] = l /\ \A i \in 1..size : long[i] = p[i]
  OBVIOUS
<1>2. \A i \in 1..size : Upto(long, i - 1) = Upto(p, i - 1)
  BY DEF Upto
<1>3. Upto(long, (size + 1) - 1) = p
  BY DEF Upto
<1> HIDE DEF long, size
<1>4. \A i \in 1..size : C(long, i) <=> C(p, i)
  BY <1>1, <1>2
<1>5. C(long, size + 1) <=> l = "//" /\ Even(p)
  BY <1>1, <1>3
<1>6. \A i \in 1..(size + 1) : i \in 1..size \/ i = size + 1
  BY <1>1
<1>7. size + 1 \in 1..(size + 1) /\ \A i \in 1..size : i \in 1..(size + 1)
  BY <1>1
<1>8. (InComment(long) <=> \E i \in DOMAIN long : C(long, i))
      /\ (InComment(p) <=> \E i \in DOMAIN p : C(p, i))
  BY DEF InComment, Even
<1> HIDE DEF C
<1>9. InComment(long) <=> InComment(p) \/ (l = "//" /\ Even(p))
  BY <1>1, <1>4, <1>5, <1>6, <1>7, <1>8
<1> QED BY <1>9 DEF long

LEMMA EmptyLine ==
  /\ <<>> \in Seq(Lexeme) /\ Str \in Seq(Lexeme) /\ DOMAIN <<>> = {}
  /\ \A x : ~Has(<<>>, x)
  /\ ~InComment(<<>>) /\ ~FindsRaw(<<>>)
BY DEF Has, InComment, FindsRaw, Str, Lexeme, Quotes

LEMMA FindsRawAppend ==
  ASSUME NEW p \in Seq(Lexeme), NEW l \in Lexeme
  PROVE  FindsRaw(Append(p, l)) <=>
           FindsRaw(p) \/ (~Has(p, "raw(") /\ l = "raw(" /\ ~InComment(p))
<1> DEFINE long == Append(p, l)
           size == Len(p)
           at == First(long, "raw(")
<1>1. /\ long \in Seq(Lexeme) /\ Len(long) = size + 1 /\ size \in Nat
      /\ long[size + 1] = l /\ \A i \in 1..size : long[i] = p[i]
      /\ size + 1 \in 1..(size + 1) /\ \A i \in 1..size : i \in 1..(size + 1)
  OBVIOUS
<1>2. \A i \in 1..(size + 1) : Upto(long, i - 1) = IF i = size + 1 THEN p ELSE Upto(p, i - 1)
  BY DEF Upto
<1>3. Has(long, "raw(") <=> Has(p, "raw(") \/ l = "raw("
  BY HasAppend
<1> HIDE DEF long, size
<1>4. CASE Has(p, "raw(")
  <2>1. /\ at \in 1..(size + 1) /\ long[at] = "raw("
        /\ \A i \in 1..(size + 1) : long[i] = "raw(" => at <= i
    BY <1>1, <1>3, <1>4, FirstIs
  <2>2. /\ First(p, "raw(") \in 1..size /\ p[First(p, "raw(")] = "raw("
        /\ \A i \in 1..size : p[i] = "raw(" => First(p, "raw(") <= i
    BY <1>4, FirstIs DEF size
  <2> HIDE DEF at
  <2>3. at = First(p, "raw(")
    <3>1. at <= First(p, "raw(")
      BY <1>1, <2>1, <2>2
    <3>2. at \in 1..size
      BY <1>1, <2>1, <2>2, <3>1
    <3>3. First(p, "raw(") <= at
      BY <1>1, <2>1, <2>2, <3>2
    <3> QED BY <2>1, <2>2, <3>1, <3>3
  <2>4. Upto(long, at - 1) = Upto(p, at - 1)
    <3>1. at # size + 1 /\ at \in 1..(size + 1)
      BY <1>1, <2>2, <2>3
    <3> QED BY <1>2, <3>1
  <2>5. FindsRaw(long) <=> ~InComment(Upto(long, at - 1))
    BY <1>3, <1>4 DEF FindsRaw, at
  <2>6. FindsRaw(p) <=> ~InComment(Upto(p, First(p, "raw(") - 1))
    BY <1>4 DEF FindsRaw
  <2>7. FindsRaw(long) <=> FindsRaw(p)
    BY <2>3, <2>4, <2>5, <2>6
  <2> QED BY <1>4, <2>7 DEF long
<1>5. CASE ~Has(p, "raw(") /\ l = "raw("
  <2>1. /\ at \in 1..(size + 1) /\ long[at] = "raw("
    BY <1>1, <1>3, <1>5, FirstIs
  <2>2. \A i \in 1..size : long[i] # "raw("
    BY <1>1, <1>5 DEF Has, size
  <2> HIDE DEF at
  <2>3. at = size + 1
    BY <1>1, <2>1, <2>2
  <2>4. Upto(long, at - 1) = p
    BY <1>1, <1>2, <2>3
  <2>5. FindsRaw(long) <=> ~InComment(p)
    BY <1>3, <1>5, <2>4 DEF FindsRaw, at
  <2>6. ~FindsRaw(p)
    BY <1>5 DEF FindsRaw
  <2> QED BY <1>5, <2>5, <2>6 DEF long
<1>6. CASE ~Has(p, "raw(") /\ l # "raw("
  <2>1. ~FindsRaw(long) /\ ~FindsRaw(p)
    BY <1>3, <1>6 DEF FindsRaw
  <2> QED BY <1>6, <2>1 DEF long
<1> QED BY <1>4, <1>5, <1>6

\* In a line without R"( that cpplint.py does not take for a // comment, an odd number of
\* quotes means a string.
LEMMA Parity ==
  ASSUME NEW p \in Seq(Lexeme), Clear("code", p), ~Has(p, "raw("), ~InComment(p)
  PROVE  \/ Read("code", p).mode \in {"code", "comment"} /\ Even(p)
         \/ Read("code", p).mode = "string" /\ ~Even(p)
<1> DEFINE Good(s) == \/ Read("code", s).mode \in {"code", "comment"} /\ Even(s)
                      \/ Read("code", s).mode = "string" /\ ~Even(s)
           S == {s \in Seq(Lexeme) :
                   Clear("code", s) /\ ~Has(s, "raw(") /\ ~InComment(s)
                     => Good(s)}
<1>1. "code" \in Modes
  BY DEF Modes
<1>2. <<>> \in S
  <2>1. <<>> \in Seq(Lexeme)
    OBVIOUS
  <2>2. Read("code", <<>>).mode = "code"
    BY <1>1, ReadEmpty
  <2> QED BY <2>1, <2>2, EvenEmpty
<1>3. ASSUME NEW s \in Seq(Lexeme), NEW l \in Lexeme, s \in S
      PROVE  Append(s, l) \in S
  <2> SUFFICES ASSUME Clear("code", Append(s, l)), ~Has(Append(s, l), "raw("),
                      ~InComment(Append(s, l))
               PROVE  Good(Append(s, l))
    OBVIOUS
  <2>1. Clear("code", s) /\ Fits(Read("code", s).mode, l)
    BY <1>1, ClearAppend
  <2>2. ~Has(s, "raw(") /\ l # "raw("
    BY HasAppend
  <2>3. ~InComment(s) /\ ~(l = "//" /\ Even(s))
    BY InCommentAppend
  <2>4. Good(s)
    BY <1>3, <2>1, <2>2, <2>3
  <2>5. Read("code", Append(s, l)).mode = Then(Read("code", s).mode, l)
    BY <1>1, ReadNext
  <2>6. Even(Append(s, l)) <=> (Even(s) <=> l \notin Quotes)
    BY EvenAppend
  <2> DEFINE e == Read("code", s).mode
  <2> HIDE DEF e
  <2>7. Fits(e, l)
    BY <2>1 DEF e
  <2>8. CASE e \in {"code", "comment"} /\ Even(s)
    <3>1. l \in Quotes => Then(e, l) = "string"
      BY <2>2, <2>7, <2>8 DEF Then, Fits, Quotes
    <3>2. l \notin Quotes => Then(e, l) \in {"code", "comment"}
      BY <2>2, <2>3, <2>8 DEF Then, Quotes
    <3> QED BY <2>5, <2>6, <2>8, <3>1, <3>2 DEF e
  <2>9. CASE e = "string" /\ ~Even(s)
    <3>1. Then(e, l) = IF l \in Quotes THEN "code" ELSE "string"
      BY <2>9 DEF Then
    <3> QED BY <2>5, <2>6, <2>9, <3>1 DEF e
  <2> QED BY <2>4, <2>8, <2>9 DEF e
<1> HIDE DEF S
<1>4. p \in S
  BY <1>2, <1>3, SeqInduction
<1> QED BY <1>4 DEF S

----------------------------------------------------------------------------
(* Elide: one line.                                                        *)

Strings(line) == CutUpTo(line, Quotes, Quotes, Str)
Comments(line) == CutUpTo(line, {"/*"}, {"*/"}, <<>>)

LEMMA StringsType ==
  ASSUME NEW p \in Seq(Lexeme)
  PROVE  Strings(p).kept \in Seq(Lexeme) /\ Strings(p).held \in Seq(Lexeme)
<1>1. Quotes \in SUBSET Lexeme /\ Str \in Seq(Lexeme)
  BY EmptyLine DEF Lexeme
<1>2. Strings(p) \in CutState
  BY <1>1, CutUpToType DEF Strings
<1> QED BY <1>2 DEF CutState

LEMMA CommentsType ==
  ASSUME NEW p \in Seq(Lexeme)
  PROVE  Comments(p).kept \in Seq(Lexeme) /\ Comments(p).held \in Seq(Lexeme)
<1>1. {"/*"} \in SUBSET Lexeme /\ {"*/"} \in SUBSET Lexeme /\ <<>> \in Seq(Lexeme)
  BY DEF Lexeme
<1>2. Comments(p) \in CutState
  BY <1>1, CutUpToType DEF Comments
<1> QED BY <1>2 DEF CutState

LEMMA StringsEmpty == Strings(<<>>).kept = <<>> /\ Strings(<<>>).held = <<>>
<1>1. Quotes \in SUBSET Lexeme /\ Str \in Seq(Lexeme)
  BY EmptyLine DEF Lexeme
<1> QED BY <1>1, CutUpToEmpty DEF Strings

LEMMA CommentsEmpty == Comments(<<>>).kept = <<>> /\ Comments(<<>>).held = <<>>
<1> DEFINE A == {"/*"}
           B == {"*/"}
           N == <<>>
<1>1. A \in SUBSET Lexeme /\ B \in SUBSET Lexeme /\ N \in Seq(Lexeme)
  BY DEF Lexeme
<1> HIDE DEF A, B, N
<1>2. CutUpTo(<<>>, A, B, N) = [kept |-> <<>>, held |-> <<>>]
  BY <1>1, CutUpToEmpty
<1> QED BY <1>2 DEF Comments, A, B, N

LEMMA StringsNext ==
  ASSUME NEW p \in Seq(Lexeme), NEW l \in Lexeme
  PROVE  LET z == Strings(p)  y == Strings(Append(p, l))
         IN  /\ z.held = <<>> /\ l \notin Quotes => y.kept = Append(z.kept, l) /\ y.held = <<>>
             /\ z.held = <<>> /\ l \in Quotes => y.kept = z.kept /\ y.held = <<l>>
             /\ z.held # <<>> /\ l \notin Quotes => y.kept = z.kept /\ y.held = Append(z.held, l)
             /\ z.held # <<>> /\ l \in Quotes => y.kept = z.kept \o Str /\ y.held = <<>>
<1> DEFINE z == Strings(p)
<1>1. Quotes \in SUBSET Lexeme /\ Str \in Seq(Lexeme)
  BY EmptyLine DEF Lexeme
<1>2. z \in CutState
  BY <1>1, CutUpToType DEF Strings
<1>3. Strings(Append(p, l)) = Cuts(z, l, Quotes, Quotes, Str)
  BY <1>1, CutUpToAppend DEF Strings
<1> HIDE DEF z
<1>4. CASE z.held = <<>> /\ l \notin Quotes
  BY <1>2, <1>3, <1>4 DEF Cuts, CutState, z
<1>5. CASE z.held = <<>> /\ l \in Quotes
  BY <1>2, <1>3, <1>5 DEF Cuts, CutState, z
<1>6. CASE z.held # <<>> /\ l \notin Quotes
  BY <1>2, <1>3, <1>6 DEF Cuts, CutState, z
<1>7. CASE z.held # <<>> /\ l \in Quotes
  BY <1>2, <1>3, <1>7 DEF Cuts, CutState, z
<1> QED BY <1>4, <1>5, <1>6, <1>7

LEMMA CommentsNext ==
  ASSUME NEW p \in Seq(Lexeme), NEW l \in Lexeme
  PROVE  LET z == Comments(p)  y == Comments(Append(p, l))
         IN  /\ z.held = <<>> /\ l # "/*" => y.kept = Append(z.kept, l) /\ y.held = <<>>
             /\ z.held = <<>> /\ l = "/*" => y.kept = z.kept /\ y.held = <<l>>
             /\ z.held # <<>> /\ l # "*/" => y.kept = z.kept /\ y.held = Append(z.held, l)
             /\ z.held # <<>> /\ l = "*/" => y.kept = z.kept /\ y.held = <<>>
<1> DEFINE z == Comments(p)
<1>1. {"/*"} \in SUBSET Lexeme /\ {"*/"} \in SUBSET Lexeme /\ <<>> \in Seq(Lexeme)
  BY DEF Lexeme
<1>2. z \in CutState
  BY <1>1, CutUpToType DEF Comments
<1>3. Comments(Append(p, l)) = Cuts(z, l, {"/*"}, {"*/"}, <<>>)
  <2> DEFINE A == {"/*"}
             B == {"*/"}
             N == <<>>
  <2>1. A \in SUBSET Lexeme /\ B \in SUBSET Lexeme /\ N \in Seq(Lexeme)
    BY <1>1
  <2> HIDE DEF A, B, N
  <2>2. CutUpTo(Append(p, l), A, B, N) = Cuts(CutUpTo(p, A, B, N), l, A, B, N)
    BY <2>1, CutUpToAppend
  <2> QED BY <2>2 DEF Comments, A, B, N
<1> HIDE DEF z
<1>4. CASE z.held = <<>> /\ l # "/*"
  BY <1>2, <1>3, <1>4 DEF Cuts, CutState, z
<1>5. CASE z.held = <<>> /\ l = "/*"
  BY <1>2, <1>3, <1>5 DEF Cuts, CutState, z
<1>6. CASE z.held # <<>> /\ l # "*/"
  BY <1>2, <1>3, <1>6 DEF Cuts, CutState, z
<1>7. CASE z.held # <<>> /\ l = "*/"
  <2>1. z.kept \in Seq(Lexeme)
    BY <1>2 DEF CutState
  <2>2. z.kept \o <<>> = z.kept
    BY <2>1
  <2> QED BY <1>3, <1>7, <2>2 DEF Cuts, z
<1> QED BY <1>4, <1>5, <1>6, <1>7

\* What CleanseComments() makes of a line without // and with all strings collapsed: c is
\* the code in it, and what is held is a comment that has not ended.
Tidy(a, c) ==
  /\ ~Has(a, "//") /\ Even(a)
  /\ LET y == Comments(a)
     IN  ~Has(y.kept, "/*") /\ ~Has(y.kept, "*/") /\ Even(y.kept) /\ CodeOf(y.kept) = c
Opened(held) == held # <<>> /\ Has(held, "/*") /\ ~Has(held, "*/")

LEMMA CodeOfNext ==
  ASSUME NEW a \in Seq(Lexeme), NEW l \in Lexeme
  PROVE  /\ l \in Texts => CodeOf(Append(a, l)) = Append(CodeOf(a), l)
         /\ l \notin Texts => CodeOf(Append(a, l)) = CodeOf(a)
BY CodeOfAppend DEF TextAdded

LEMMA TidyNext ==
  ASSUME NEW a \in Seq(Lexeme), NEW c, NEW l \in Lexeme, Tidy(a, c), Comments(a).held = <<>>,
         l \notin Quotes, l \notin {"//", "/*", "*/"}
  PROVE  /\ l \in Texts => Tidy(Append(a, l), Append(c, l))
         /\ l \notin Texts => Tidy(Append(a, l), c)
         /\ Comments(Append(a, l)).held = <<>>
<1>1. /\ Comments(Append(a, l)).kept = Append(Comments(a).kept, l)
      /\ Comments(Append(a, l)).held = <<>>
  BY CommentsNext
<1>2. Comments(a).kept \in Seq(Lexeme)
  BY CommentsType
<1>3. ~Has(Append(a, l), "//") /\ Even(Append(a, l))
  BY HasAppend, EvenAppend DEF Tidy
<1>4. /\ ~Has(Append(Comments(a).kept, l), "/*") /\ ~Has(Append(Comments(a).kept, l), "*/")
      /\ Even(Append(Comments(a).kept, l))
  BY <1>2, HasAppend, EvenAppend DEF Tidy
<1>5. /\ l \in Texts => CodeOf(Append(Comments(a).kept, l)) = Append(c, l)
      /\ l \notin Texts => CodeOf(Append(Comments(a).kept, l)) = c
  BY <1>2, CodeOfNext DEF Tidy
<1> QED BY <1>1, <1>3, <1>4, <1>5 DEF Tidy

\* A string that was collapsed.
LEMMA TidyString ==
  ASSUME NEW a \in Seq(Lexeme), NEW c, Tidy(a, c), Comments(a).held = <<>>
  PROVE  a \o Str \in Seq(Lexeme) /\ Tidy(a \o Str, c) /\ Comments(a \o Str).held = <<>>
<1> DEFINE q == "quote"
           b == Append(a, q)
           d == Append(b, q)
           k == Comments(a).kept
<1>1. q \in Lexeme /\ q \in Quotes /\ q \notin Texts /\ q \notin {"//", "/*", "*/"}
  BY DEF Lexeme, Quotes, Texts
<1> HIDE DEF q
<1>2. b \in Seq(Lexeme) /\ d \in Seq(Lexeme) /\ a \o Str = d
  BY <1>1 DEF Str, q
<1>3. k \in Seq(Lexeme) /\ Append(k, q) \in Seq(Lexeme)
  BY <1>1, CommentsType
<1> HIDE DEF b
<1>4. Comments(b).kept = Append(k, q) /\ Comments(b).held = <<>>
  BY <1>1, CommentsNext DEF b
<1>5. Comments(d).kept = Append(Append(k, q), q) /\ Comments(d).held = <<>>
  BY <1>1, <1>2, <1>4, CommentsNext
<1>6. ~Has(b, "//") /\ ~Even(b)
  BY <1>1, HasAppend, EvenAppend DEF Tidy, b
<1>7. ~Has(d, "//") /\ Even(d)
  BY <1>1, <1>2, <1>6, HasAppend, EvenAppend
<1> DEFINE k1 == Append(k, q)
           k2 == Append(k1, q)
<1>8. ~Has(k1, "/*") /\ ~Has(k1, "*/") /\ ~Even(k1) /\ CodeOf(k1) = c
  BY <1>1, <1>3, HasAppend, EvenAppend, CodeOfNext DEF Tidy
<1>9. k1 \in Seq(Lexeme) /\ Comments(d).kept = k2
  BY <1>3, <1>5
<1> HIDE DEF k1
<1>10. ~Has(k2, "/*") /\ ~Has(k2, "*/") /\ Even(k2) /\ CodeOf(k2) = c
  BY <1>1, <1>8, <1>9, HasAppend, EvenAppend, CodeOfNext
<1>11. Tidy(d, c)
  BY <1>7, <1>9, <1>10 DEF Tidy
<1> QED BY <1>2, <1>5, <1>11

LEMMA TidyOpens ==
  ASSUME NEW a \in Seq(Lexeme), NEW c, Tidy(a, c), Comments(a).held = <<>>
  PROVE  Tidy(Append(a, "/*"), c) /\ Opened(Comments(Append(a, "/*")).held)
<1>1. "/*" \in Lexeme /\ "/*" \notin Quotes
  BY DEF Lexeme, Quotes
<1>2. /\ Comments(Append(a, "/*")).kept = Comments(a).kept
      /\ Comments(Append(a, "/*")).held = <<"/*">>
  BY <1>1, CommentsNext
<1>3. ~Has(Append(a, "/*"), "//") /\ Even(Append(a, "/*"))
  BY <1>1, HasAppend, EvenAppend DEF Tidy
<1>4. Opened(<<"/*">>)
  BY DEF Opened, Has
<1> QED BY <1>2, <1>3, <1>4 DEF Tidy

LEMMA TidyHolds ==
  ASSUME NEW a \in Seq(Lexeme), NEW c, NEW l \in Lexeme, Tidy(a, c), Opened(Comments(a).held),
         l \notin Quotes, l # "//"
  PROVE  /\ Tidy(Append(a, l), c)
         /\ l # "*/" => Opened(Comments(Append(a, l)).held)
         /\ l = "*/" => Comments(Append(a, l)).held = <<>>
<1>1. /\ Comments(Append(a, l)).kept = Comments(a).kept
      /\ l # "*/" => Comments(Append(a, l)).held = Append(Comments(a).held, l)
      /\ l = "*/" => Comments(Append(a, l)).held = <<>>
  BY CommentsNext DEF Opened
<1>2. ~Has(Append(a, l), "//") /\ Even(Append(a, l))
  BY HasAppend, EvenAppend DEF Tidy
<1>3. l # "*/" => Opened(Append(Comments(a).held, l))
  <2>1. Comments(a).held \in Seq(Lexeme)
    BY CommentsType
  <2>2. \A h \in Seq(Lexeme) : Append(h, l) # <<>>
    OBVIOUS
  <2> QED BY <2>1, <2>2, HasAppend DEF Opened
<1> QED BY <1>1, <1>2, <1>3 DEF Tidy

\* A string that has not ended: its quotes keep the line from being cut at a //.
OpenString(w) ==
  /\ ~InComment(w) /\ ~Even(w)
  /\ LET y == Comments(w) IN ~Even(y.kept) /\ ~Even(y.kept \o y.held)

LEMMA StringOpens ==
  ASSUME NEW a \in Seq(Lexeme), NEW c, Tidy(a, c), Comments(a).held = <<>>, NEW q \in Quotes
  PROVE  OpenString(Append(a, q))
<1>1. q \in Lexeme /\ q \notin {"//", "/*"}
  BY DEF Lexeme, Quotes
<1>2. ~InComment(a)
  BY DEF Tidy, Has, InComment
<1>3. ~InComment(Append(a, q)) /\ ~Even(Append(a, q))
  BY <1>1, <1>2, InCommentAppend, EvenAppend DEF Tidy
<1>4. Comments(a).kept \in Seq(Lexeme) /\ Append(Comments(a).kept, q) \in Seq(Lexeme)
  BY <1>1, CommentsType
<1>5. /\ Comments(Append(a, q)).kept = Append(Comments(a).kept, q)
      /\ Comments(Append(a, q)).held = <<>>
  BY <1>1, CommentsNext
<1>6. ~Even(Append(Comments(a).kept, q))
  BY <1>1, <1>4, EvenAppend DEF Tidy
<1>7. Append(Comments(a).kept, q) \o <<>> = Append(Comments(a).kept, q)
  BY <1>4
<1> QED BY <1>3, <1>5, <1>6, <1>7 DEF OpenString

LEMMA StringGoesOn ==
  ASSUME NEW w \in Seq(Lexeme), OpenString(w), NEW l \in Lexeme, l \notin Quotes
  PROVE  OpenString(Append(w, l))
<1> DEFINE k == Comments(w).kept
           h == Comments(w).held
           x == Append(w, l)
<1>1. ~InComment(x) /\ ~Even(x)
  BY InCommentAppend, EvenAppend DEF OpenString
<1>2. k \in Seq(Lexeme) /\ h \in Seq(Lexeme) /\ ~Even(k) /\ ~Even(k \o h)
  BY CommentsType DEF OpenString
<1>3. \/ Comments(x).kept = Append(k, l) /\ Comments(x).held = <<>>
      \/ Comments(x).kept = k /\ Comments(x).held = <<>>
      \/ Comments(x).kept = k /\ Comments(x).held = <<l>> /\ h = <<>>
      \/ Comments(x).kept = k /\ Comments(x).held = Append(h, l)
  BY CommentsNext
<1> HIDE DEF k, h, x
<1>4. k \o <<>> = k /\ Append(k, l) \o <<>> = Append(k, l) /\ k \o <<l>> = Append(k, l)
      /\ k \o Append(h, l) = Append(k \o h, l) /\ k \o h \in Seq(Lexeme)
  BY <1>2
<1>5. ~Even(Append(k, l)) /\ ~Even(Append(k \o h, l))
  BY <1>2, <1>4, EvenAppend
<1>6. ~Even(Comments(x).kept) /\ ~Even(Comments(x).kept \o Comments(x).held)
  BY <1>2, <1>3, <1>4, <1>5
<1>7. OpenString(x)
  BY <1>1, <1>6 DEF OpenString
<1> QED BY <1>7 DEF x

\* The two passes over a prefix p, and C++: no // that is outside of the strings yet ...
NotSeen(p) ==
  LET z == Strings(p)  s == Read("code", p)
  IN  /\ ~Has(p, "raw(") /\ ~InComment(p) /\ Tidy(z.kept, s.code)
      /\ \/ s.mode = "code" /\ z.held = <<>> /\ Comments(z.kept).held = <<>>
         \/ s.mode = "comment" /\ z.held = <<>> /\ Opened(Comments(z.kept).held)
         \/ /\ s.mode = "string" /\ z.held # <<>> /\ Comments(z.kept).held = <<>>
            /\ OpenString(z.kept \o z.held)

\* ... and one, that begins a comment or is in a comment that will not be seen to end.
Seen(p) ==
  \E a, b, c :
    /\ a \in Seq(Lexeme) /\ b \in Seq(Lexeme)
    /\ Strings(p).kept = Append(a, "//") \o b
    /\ Tidy(a, c)
    /\ \/ /\ Read("code", p).mode = "line" /\ Read("code", p).code = c
          /\ Comments(a).held = <<>>
       \/ Opened(Comments(a).held)

LEMMA SeenStays ==
  ASSUME NEW p \in Seq(Lexeme), NEW l \in Lexeme, Seen(p)
  PROVE  Seen(Append(p, l))
<1>1. PICK a, b, c :
        /\ a \in Seq(Lexeme) /\ b \in Seq(Lexeme)
        /\ Strings(p).kept = Append(a, "//") \o b
        /\ Tidy(a, c)
        /\ \/ /\ Read("code", p).mode = "line" /\ Read("code", p).code = c
              /\ Comments(a).held = <<>>
           \/ Opened(Comments(a).held)
  BY DEF Seen
<1> DEFINE d == Append(a, "//")
           k == Strings(Append(p, l)).kept
<1>2. d \in Seq(Lexeme) /\ b \in Seq(Lexeme) /\ Str \in Seq(Lexeme)
  BY <1>1, EmptyLine DEF Lexeme
<1>3. k = d \o b \/ k = Append(d \o b, l) \/ k = (d \o b) \o Str
  BY <1>1, StringsNext
<1> HIDE DEF d
<1>4. \E x \in Seq(Lexeme) : k = d \o x
  <2> HIDE DEF k
  <2>1. Append(d \o b, l) = d \o Append(b, l) /\ Append(b, l) \in Seq(Lexeme)
    BY <1>2, AppendConcat, Zenon
  <2>2. (d \o b) \o Str = d \o (b \o Str) /\ b \o Str \in Seq(Lexeme)
    BY <1>2
  <2> QED BY <1>2, <1>3, <2>1, <2>2
<1>5. PICK x \in Seq(Lexeme) : k = d \o x
  BY <1>4
<1>6. CASE Opened(Comments(a).held)
  BY <1>1, <1>5, <1>6 DEF Seen, d
<1>7. CASE /\ Read("code", p).mode = "line" /\ Read("code", p).code = c
           /\ Comments(a).held = <<>>
  <2>1. "code" \in Modes /\ Then("line", l) = "line"
    BY DEF Modes, Then
  <2>2. Read("code", Append(p, l)).mode = "line" /\ Read("code", Append(p, l)).code = c
    BY <1>7, <2>1, ReadNext
  <2> QED BY <1>1, <1>5, <1>7, <2>2 DEF Seen, d
<1> QED BY <1>1, <1>6, <1>7

\* A // outside of a string: the line is cut there, or a comment is found not to end.
LEMMA SlashSeen ==
  ASSUME NEW p \in Seq(Lexeme), NotSeen(p), Strings(p).held = <<>>,
         Read("code", p).mode \in {"code", "comment"}
  PROVE  Seen(Append(p, "//"))
<1> DEFINE a == Strings(p).kept
           c == Read("code", p).code
           q == Append(p, "//")
<1>1. "//" \in Lexeme /\ "//" \notin Quotes /\ "//" \notin Texts /\ "code" \in Modes
  BY DEF Lexeme, Quotes, Texts, Modes
<1>2. a \in Seq(Lexeme) /\ <<>> \in Seq(Lexeme) /\ Append(a, "//") \o <<>> = Append(a, "//")
  BY <1>1, StringsType
<1>3. Strings(q).kept = Append(a, "//") \o <<>>
  BY <1>1, <1>2, StringsNext
<1>4. Tidy(a, c)
  BY DEF NotSeen
<1>5. CASE Read("code", p).mode = "code"
  <2>1. Comments(a).held = <<>>
    BY <1>5 DEF NotSeen
  <2>2. Read("code", q).mode = "line" /\ Read("code", q).code = c
    BY <1>1, <1>5, ReadNext DEF Then
  <2> QED BY <1>2, <1>3, <1>4, <2>1, <2>2 DEF Seen
<1>6. CASE Read("code", p).mode = "comment"
  <2>1. Opened(Comments(a).held)
    BY <1>6 DEF NotSeen
  <2> QED BY <1>2, <1>3, <1>4, <2>1 DEF Seen
<1> QED BY <1>5, <1>6

\* The next lexeme of code.
LEMMA CodeNext ==
  ASSUME NEW p \in Seq(Lexeme), NEW l \in Lexeme, NotSeen(p), Read("code", p).mode = "code",
         l \notin {"//", "*/", "raw("}
  PROVE  NotSeen(Append(p, l))
<1> DEFINE z == Strings(p)
           c == Read("code", p).code
           q == Append(p, l)
<1>1. "code" \in Modes /\ z.kept \in Seq(Lexeme)
  BY StringsType DEF Modes
<1>2. ~Has(q, "raw(") /\ ~InComment(q)
  BY HasAppend, InCommentAppend DEF NotSeen
<1>3. Tidy(z.kept, c) /\ z.held = <<>> /\ Comments(z.kept).held = <<>>
  BY DEF NotSeen
<1>4. CASE l \in Quotes
  <2>1. Strings(q).kept = z.kept /\ Strings(q).held = <<l>>
    BY <1>3, <1>4, StringsNext
  <2>2. Read("code", q).mode = "string" /\ Read("code", q).code = c
    BY <1>1, <1>4, ReadNext DEF Then, Quotes, Texts
  <2>3. OpenString(z.kept \o <<l>>)
    <3>1. z.kept \o <<l>> = Append(z.kept, l)
      BY <1>1
    <3> QED BY <1>1, <1>3, <1>4, <3>1, StringOpens
  <2>4. <<l>> # <<>>
    OBVIOUS
  <2> QED BY <1>2, <1>3, <2>1, <2>2, <2>3, <2>4 DEF NotSeen
<1>5. CASE l = "/*"
  <2>1. l \notin Quotes /\ l \notin Texts
    BY <1>5 DEF Quotes, Texts
  <2>2. Strings(q).kept = Append(z.kept, l) /\ Strings(q).held = <<>>
    BY <1>3, <2>1, StringsNext
  <2>3. Read("code", q).mode = "comment" /\ Read("code", q).code = c
    BY <1>1, <1>5, <2>1, ReadNext DEF Then
  <2>4. Tidy(Append(z.kept, l), c) /\ Opened(Comments(Append(z.kept, l)).held)
    BY <1>1, <1>3, <1>5, TidyOpens
  <2> QED BY <1>2, <2>2, <2>3, <2>4 DEF NotSeen
<1>6. CASE l \notin Quotes /\ l # "/*"
  <2>1. Strings(q).kept = Append(z.kept, l) /\ Strings(q).held = <<>>
    BY <1>3, <1>6, StringsNext
  <2>2. Read("code", q).mode = "code"
    BY <1>1, <1>6, ReadNext DEF Then, Quotes
  <2>3. Read("code", q).code = IF l \in Texts THEN Append(c, l) ELSE c
    BY <1>1, ReadNext
  <2>4. /\ l \in Texts => Tidy(Append(z.kept, l), Append(c, l))
        /\ l \notin Texts => Tidy(Append(z.kept, l), c)
        /\ Comments(Append(z.kept, l)).held = <<>>
    BY <1>1, <1>3, <1>6, TidyNext
  <2> QED BY <1>2, <2>1, <2>2, <2>3, <2>4 DEF NotSeen
<1> QED BY <1>4, <1>5, <1>6

\* The next lexeme of a comment.
LEMMA CommentNext ==
  ASSUME NEW p \in Seq(Lexeme), NEW l \in Lexeme, NotSeen(p), Read("code", p).mode = "comment",
         l # "//", l \notin Quotes
  PROVE  NotSeen(Append(p, l))
<1> DEFINE z == Strings(p)
           c == Read("code", p).code
           q == Append(p, l)
<1>1. "code" \in Modes /\ z.kept \in Seq(Lexeme) /\ l # "raw("
  BY StringsType DEF Modes, Quotes
<1>2. ~Has(q, "raw(") /\ ~InComment(q)
  BY <1>1, HasAppend, InCommentAppend DEF NotSeen
<1>3. Tidy(z.kept, c) /\ z.held = <<>> /\ Opened(Comments(z.kept).held)
  BY DEF NotSeen
<1>4. Strings(q).kept = Append(z.kept, l) /\ Strings(q).held = <<>>
  BY <1>3, StringsNext
<1>5. Read("code", q).mode = (IF l = "*/" THEN "code" ELSE "comment") /\ Read("code", q).code = c
  BY <1>1, ReadNext DEF Then
<1>6. /\ Tidy(Append(z.kept, l), c)
      /\ l # "*/" => Opened(Comments(Append(z.kept, l)).held)
      /\ l = "*/" => Comments(Append(z.kept, l)).held = <<>>
  BY <1>1, <1>3, TidyHolds
<1> QED BY <1>2, <1>4, <1>5, <1>6 DEF NotSeen

\* The next lexeme of a string.
LEMMA StringNext ==
  ASSUME NEW p \in Seq(Lexeme), NEW l \in Lexeme, NotSeen(p), Clear("code", p),
         Read("code", p).mode = "string", l # "raw("
  PROVE  NotSeen(Append(p, l))
<1> DEFINE z == Strings(p)
           c == Read("code", p).code
           q == Append(p, l)
<1>1. "code" \in Modes /\ z.kept \in Seq(Lexeme) /\ z.held \in Seq(Lexeme)
  BY StringsType DEF Modes
<1>2. ~Even(p)
  BY Parity DEF NotSeen
<1>3. ~Has(q, "raw(") /\ ~InComment(q)
  BY <1>2, HasAppend, InCommentAppend DEF NotSeen
<1>4. /\ Tidy(z.kept, c) /\ z.held # <<>> /\ Comments(z.kept).held = <<>>
      /\ OpenString(z.kept \o z.held)
  BY DEF NotSeen
<1>5. Read("code", q).mode = (IF l \in Quotes THEN "code" ELSE "string")
      /\ Read("code", q).code = c
  BY <1>1, ReadNext DEF Then
<1>6. CASE l \in Quotes
  <2>1. Strings(q).kept = z.kept \o Str /\ Strings(q).held = <<>>
    BY <1>4, <1>6, StringsNext
  <2>2. Tidy(z.kept \o Str, c) /\ Comments(z.kept \o Str).held = <<>>
    BY <1>1, <1>4, TidyString
  <2> QED BY <1>3, <1>5, <1>6, <2>1, <2>2 DEF NotSeen
<1>7. CASE l \notin Quotes
  <2>1. Strings(q).kept = z.kept /\ Strings(q).held = Append(z.held, l)
    BY <1>4, <1>7, StringsNext
  <2>2. z.kept \o z.held \in Seq(Lexeme)
        /\ z.kept \o Append(z.held, l) = Append(z.kept \o z.held, l)
    <3>1. \A u, v \in Seq(Lexeme) : u \o v \in Seq(Lexeme)
      OBVIOUS
    <3> QED BY <1>1, <3>1, AppendConcat
  <2>3. OpenString(z.kept \o Append(z.held, l))
    BY <1>4, <1>7, <2>2, StringGoesOn
  <2>4. Append(z.held, l) # <<>>
    <3>1. \A h \in Seq(Lexeme) : Append(h, l) # <<>>
      OBVIOUS
    <3> QED BY <1>1, <3>1
  <2> QED BY <1>3, <1>4, <1>5, <1>7, <2>1, <2>3, <2>4 DEF NotSeen
<1> QED BY <1>6, <1>7

LEMMA Scanned ==
  ASSUME NEW r \in Seq(Lexeme), Clear("code", r), ~FindsRaw(r)
  PROVE  NotSeen(r) \/ Seen(r)
<1> DEFINE S == {p \in Seq(Lexeme) : Clear("code", p) /\ ~FindsRaw(p) => NotSeen(p) \/ Seen(p)}
<1>1. "code" \in Modes
  BY DEF Modes
<1>2. <<>> \in S
  <2>1. Read("code", <<>>).mode = "code" /\ Read("code", <<>>).code = <<>>
    BY <1>1, ReadEmpty
  <2>2. CodeOf(<<>>) = <<>>
    BY CodeOfEmpty
  <2>3. Tidy(<<>>, <<>>)
    BY <2>2, EmptyLine, EvenEmpty, CommentsEmpty DEF Tidy
  <2>4. NotSeen(<<>>)
    BY <2>1, <2>3, EmptyLine, StringsEmpty, CommentsEmpty DEF NotSeen
  <2> QED BY <2>4, EmptyLine
<1>3. ASSUME NEW p \in Seq(Lexeme), NEW l \in Lexeme, p \in S PROVE Append(p, l) \in S
  <2> DEFINE e == Read("code", p).mode
  <2> SUFFICES ASSUME Clear("code", Append(p, l)), ~FindsRaw(Append(p, l))
               PROVE  NotSeen(Append(p, l)) \/ Seen(Append(p, l))
    OBVIOUS
  <2>1. Clear("code", p) /\ Fits(e, l)
    BY <1>1, ClearAppend
  <2>2. ~FindsRaw(p) /\ ~(~Has(p, "raw(") /\ l = "raw(" /\ ~InComment(p))
    BY FindsRawAppend
  <2>3. CASE Seen(p)
    BY <2>3, SeenStays
  <2>4. CASE NotSeen(p)
    <3>1. l # "raw("
      BY <2>2, <2>4 DEF NotSeen
    <3>2. CASE e = "code"
      <4>1. l # "*/"
        BY <2>1, <3>2 DEF Fits
      <4>2. Strings(p).held = <<>>
        BY <2>4, <3>2 DEF NotSeen
      <4> QED BY <2>4, <3>1, <3>2, <4>1, <4>2, SlashSeen, CodeNext
    <3>3. CASE e = "comment"
      <4>1. l \notin Quotes
        BY <2>1, <3>3 DEF Fits
      <4>2. Strings(p).held = <<>>
        BY <2>4, <3>3 DEF NotSeen
      <4> QED BY <2>4, <3>3, <4>1, <4>2, SlashSeen, CommentNext
    <3>4. CASE e = "string"
      BY <2>1, <2>4, <3>1, <3>4, StringNext
    <3> QED BY <2>4, <3>2, <3>3, <3>4 DEF NotSeen
  <2> QED BY <1>3, <2>1, <2>2, <2>3, <2>4
<1> HIDE DEF S
<1>4. r \in S
  BY <1>2, <1>3, SeqInduction
<1> QED BY <1>4 DEF S

\* The line is cut at a // that comes first.
LEMMA FirstSlash ==
  ASSUME NEW a \in Seq(Lexeme), NEW b \in Seq(Lexeme), ~Has(a, "//")
  PROVE  LET w == Append(a, "//") \o b
         IN  w \in Seq(Lexeme) /\ Has(w, "//") /\ Upto(w, First(w, "//") - 1) = a
<1> DEFINE w == Append(a, "//") \o b
           size == Len(a)
<1>1. "//" \in Lexeme
  BY DEF Lexeme
<1>2. /\ w \in Seq(Lexeme) /\ size \in Nat /\ size + 1 \in 1..Len(w) /\ w[size + 1] = "//"
      /\ \A i \in 1..size : w[i] = a[i] /\ i \in 1..Len(w)
  BY <1>1
<1>3. Upto(w, size) = a
  BY <1>1 DEF Upto
<1>4. \A i \in 1..size : w[i] # "//"
  BY <1>2 DEF Has
<1> HIDE DEF w, size
<1>5. Has(w, "//")
  BY <1>2 DEF Has
<1>6. /\ First(w, "//") \in 1..Len(w) /\ w[First(w, "//")] = "//"
      /\ First(w, "//") <= size + 1
  BY <1>2, <1>5, FirstIs
<1>7. First(w, "//") = size + 1
  BY <1>2, <1>4, <1>6
<1>8. Upto(w, First(w, "//") - 1) = a
  BY <1>2, <1>3, <1>7
<1> QED BY <1>2, <1>5, <1>8 DEF w

LEMMA CommentReported ==
  ASSUME NEW k \in Seq(Lexeme), NEW h \in Seq(Lexeme), ~Has(k, "*/"), Opened(h)
  PROVE  CountOf(k \o h, {"/*"}) > CountOf(k \o h, {"*/"})
<1> DEFINE w == k \o h
<1>1. /\ w \in Seq(Lexeme) /\ DOMAIN w = 1..(Len(k) + Len(h)) /\ Len(k) \in Nat /\ Len(h) \in Nat
      /\ \A i \in 1..Len(k) : w[i] = k[i]
      /\ \A i \in 1..Len(h) : w[Len(k) + i] = h[i]
  OBVIOUS
<1>2. /\ \A i \in 1..Len(k) : k[i] # "*/"
      /\ \A i \in 1..Len(h) : h[i] # "*/"
      /\ \E i \in 1..Len(h) : h[i] = "/*"
  BY DEF Opened, Has
<1> HIDE DEF w
<1>3. \A i \in 1..(Len(k) + Len(h)) :
        i \in 1..Len(k) \/ (i - Len(k) \in 1..Len(h) /\ Len(k) + (i - Len(k)) = i)
  BY <1>1
<1>4. \A i \in DOMAIN w : w[i] # "*/"
  BY <1>1, <1>2, <1>3
<1>5. \E i \in DOMAIN w : w[i] = "/*"
  <2>1. \A i \in 1..Len(h) : Len(k) + i \in DOMAIN w
    BY <1>1
  <2> QED BY <1>1, <1>2, <2>1
<1>6. CountOf(w, {"*/"}) = 0
  BY <1>1, <1>4, CountType
<1>7. CountOf(w, {"/*"}) \in Nat /\ CountOf(w, {"/*"}) # 0
  BY <1>1, <1>5, CountType
<1> QED BY <1>6, <1>7 DEF w

\* A line is what is before the first l, l, and what follows.
LEMMA Split ==
  ASSUME NEW line \in Seq(Lexeme), NEW l \in Lexeme, Has(line, l)
  PROVE  LET pre == Upto(line, First(line, l) - 1)  post == From(line, First(line, l) + 1)
         IN  /\ pre \in Seq(Lexeme) /\ post \in Seq(Lexeme) /\ ~Has(pre, l)
             /\ Append(pre, l) \in Seq(Lexeme) /\ line = Append(pre, l) \o post
<1> DEFINE f == First(line, l)
<1>1. /\ f \in 1..Len(line) /\ line[f] = l
      /\ \A i \in 1..Len(line) : line[i] = l => f <= i
  BY FirstIs
<1> HIDE DEF f
<1>2. Upto(line, f - 1) \in Seq(Lexeme) /\ From(line, f + 1) \in Seq(Lexeme)
  BY <1>1 DEF Upto, From
<1>3. ~Has(Upto(line, f - 1), l)
  <2>1. DOMAIN Upto(line, f - 1) = 1..(f - 1)
        /\ \A i \in 1..(f - 1) : Upto(line, f - 1)[i] = line[i] /\ i \in 1..Len(line) /\ ~(f <= i)
    BY <1>1 DEF Upto
  <2> QED BY <1>1, <2>1 DEF Has
<1>4. line = Append(Upto(line, f - 1), l) \o From(line, f + 1)
  <2> DEFINE a == Append(Upto(line, f - 1), l)
             b == From(line, f + 1)
             size == Len(line)
  <2>1. /\ a \in Seq(Lexeme) /\ Len(a) = f /\ size \in Nat /\ f \in 1..size
        /\ \A i \in 1..f : a[i] = line[i]
    BY <1>1 DEF Upto
  <2>2. /\ b \in Seq(Lexeme) /\ Len(b) = size - f
        /\ \A i \in 1..(size - f) : b[i] = line[f + i]
    BY <1>1 DEF From
  <2> HIDE DEF a, b
  <2>3. /\ a \o b \in Seq(Lexeme) /\ Len(a \o b) = Len(a) + Len(b)
        /\ \A i \in 1..Len(a) : (a \o b)[i] = a[i]
        /\ \A i \in 1..Len(b) : (a \o b)[Len(a) + i] = b[i]
    BY <2>1, <2>2, UptoConcat
  <2>4. Len(a \o b) = size
    BY <2>1, <2>2, <2>3
  <2>5. \A i \in 1..size : (a \o b)[i] = line[i]
    <3> TAKE i \in 1..size
    <3>1. CASE i \in 1..f
      BY <2>1, <2>3, <3>1
    <3>2. CASE i \notin 1..f
      <4>1. i - f \in 1..(size - f) /\ f + (i - f) = i
        BY <2>1, <3>2
      <4>2. (a \o b)[f + (i - f)] = b[i - f] /\ b[i - f] = line[f + (i - f)]
        BY <2>1, <2>2, <2>3, <4>1
      <4> QED BY <4>1, <4>2
    <3> QED BY <3>1, <3>2
  <2>6. \A u, v \in Seq(Lexeme) : Len(u) = Len(v) /\ (\A i \in 1..Len(u) : u[i] = v[i]) => u = v
    OBVIOUS
  <2> QED BY <2>1, <2>3, <2>4, <2>5, <2>6 DEF a, b
<1>5. Append(Upto(line, f - 1), l) \in Seq(Lexeme)
  BY <1>2
<1> QED BY <1>2, <1>3, <1>4, <1>5 DEF f

LEMMA CutType ==
  ASSUME NEW line \in Seq(Lexeme)
  PROVE  /\ CleanseComments(line) \in Seq(Lexeme) /\ CollapseStrings(line) \in Seq(Lexeme)
         /\ Elide(line) \in Seq(Lexeme)
<1>1. \A u, v \in Seq(Lexeme) : u \o v \in Seq(Lexeme)
  OBVIOUS
<1>2. ASSUME NEW w \in Seq(Lexeme) PROVE CleanseComments(w) \in Seq(Lexeme)
  <2> DEFINE cut == IF Has(w, "//") /\ ~IsCppString(Upto(w, First(w, "//") - 1))
                    THEN Upto(w, First(w, "//") - 1) ELSE w
  <2>1. "//" \in Lexeme
    BY DEF Lexeme
  <2>2. cut \in Seq(Lexeme)
    BY <2>1, Split
  <2>3. CleanseComments(w) = Comments(cut).kept \o Comments(cut).held
    BY DEF CleanseComments, Cut, Comments
  <2> HIDE DEF cut
  <2> QED BY <1>1, <2>2, <2>3, CommentsType
<1>3. CollapseStrings(line) \in Seq(Lexeme)
  BY <1>1, StringsType DEF CollapseStrings, Cut, Strings
<1> QED BY <1>2, <1>3 DEF Elide

\* CleanseComments() of what CollapseStrings() leaves of a line.
Warned(line) ==
  CountOf(line, {"/*"}) > CountOf(line, {"*/"}) \/ QuotesIn(line) % 2 = 1

LEMMA ElideIs ==
  ASSUME NEW r \in Seq(Lexeme)
  PROVE  LET w == Strings(r).kept \o Strings(r).held
             cut == IF Has(w, "//") /\ Even(Upto(w, First(w, "//") - 1))
                    THEN Upto(w, First(w, "//") - 1) ELSE w
         IN  /\ w \in Seq(Lexeme) /\ cut \in Seq(Lexeme)
             /\ Elide(r) = Comments(cut).kept \o Comments(cut).held
<1> DEFINE w == Strings(r).kept \o Strings(r).held
           pre == Upto(w, First(w, "//") - 1)
           cut == IF Has(w, "//") /\ Even(pre) THEN pre ELSE w
<1>1. w \in Seq(Lexeme)
  <2>1. \A u, v \in Seq(Lexeme) : u \o v \in Seq(Lexeme)
    OBVIOUS
  <2> QED BY <2>1, StringsType
<1>2. CollapseStrings(r) = w
  BY DEF CollapseStrings, Cut, Strings
<1> HIDE DEF w
<1>3. Has(w, "//") => pre \in Seq(Lexeme) /\ (IsCppString(pre) <=> ~Even(pre))
  <2>1. "//" \in Lexeme
    BY DEF Lexeme
  <2>2. Has(w, "//") => pre \in Seq(Lexeme)
    BY <1>1, <2>1, Split
  <2> HIDE DEF pre
  <2> QED BY <2>1, <2>2, EvenAppend DEF IsCppString
<1>4. cut \in Seq(Lexeme)
  BY <1>1, <1>3
<1>5. CleanseComments(w) = Cut(cut, {"/*"}, {"*/"}, <<>>)
  BY <1>3 DEF CleanseComments
<1> HIDE DEF cut
<1>6. Elide(r) = Comments(cut).kept \o Comments(cut).held
  BY <1>2, <1>5 DEF Elide, Cut, Comments
<1> QED BY <1>1, <1>4, <1>6 DEF w, cut

\* A line that is clear, and not warned of, is elided to its code.
LEMMA Elided ==
  ASSUME NEW r \in Seq(Lexeme), Clear("code", r), ~FindsRaw(r), ~Warned(Elide(r))
  PROVE  /\ Read("code", r).mode \in {"code", "line"}
         /\ CodeOf(Elide(r)) = Read("code", r).code
<1> DEFINE z == Strings(r)
           w == z.kept \o z.held
           pre == Upto(w, First(w, "//") - 1)
           cut == IF Has(w, "//") /\ Even(pre) THEN pre ELSE w
           k == Comments(cut).kept
           h == Comments(cut).held
<1>1. /\ w \in Seq(Lexeme) /\ cut \in Seq(Lexeme) /\ Elide(r) = k \o h
  BY ElideIs
<1>2. z.kept \in Seq(Lexeme) /\ z.held \in Seq(Lexeme)
  BY StringsType
<1>3. k \in Seq(Lexeme) /\ h \in Seq(Lexeme)
  BY <1>1, CommentsType
<1>4. Even(k \o h) /\ ~(Opened(h) /\ ~Has(k, "*/"))
  <2>1. \A u, v \in Seq(Lexeme) : u \o v \in Seq(Lexeme)
    OBVIOUS
  <2>2. k \o h \in Seq(Lexeme)
    BY <1>3, <2>1
  <2> HIDE DEF k, h
  <2>3. Even(k \o h)
    <3>1. "x" \in Lexeme /\ QuotesIn(k \o h) % 2 # 1
      BY <1>1 DEF Warned, Lexeme, Texts
    <3> QED BY <2>2, <3>1, EvenAppend
  <2>4. ~(Opened(h) /\ ~Has(k, "*/"))
    BY <1>1, <1>3, CommentReported DEF Warned
  <2> QED BY <2>3, <2>4
<1>5. \A u \in Seq(Lexeme) : u \o <<>> = u
  OBVIOUS
<1>6. CASE NotSeen(r)
  <2>1. Tidy(z.kept, Read("code", r).code)
    BY <1>6 DEF NotSeen
  <2>2. CASE z.held = <<>>
    <3>1. w = z.kept
      BY <1>2, <1>5, <2>2
    <3>2. cut = w
      BY <2>1, <3>1 DEF Tidy
    <3>3. k = Comments(z.kept).kept /\ h = Comments(z.kept).held
      BY <3>1, <3>2
    <3>4. ~Has(k, "*/") /\ CodeOf(k) = Read("code", r).code
      BY <2>1, <3>3 DEF Tidy
    <3> HIDE DEF k, h, cut, w, z
    <3>5. ~Opened(h)
      BY <1>4, <3>4
    <3>6. Read("code", r).mode = "code" /\ h = <<>>
      BY <1>6, <2>2, <3>3, <3>5 DEF NotSeen, z
    <3>7. k \o h = k
      BY <1>3, <1>5, <3>6
    <3> QED BY <1>1, <3>4, <3>6, <3>7
  <2>3. CASE z.held # <<>>
    <3>1. OpenString(w)
      BY <1>6, <2>3 DEF NotSeen
    <3> HIDE DEF z, w
    <3>2. Has(w, "//") => ~Even(pre)
      <4>1. "//" \in Lexeme
        BY DEF Lexeme
      <4>2. Has(w, "//") => First(w, "//") \in DOMAIN w /\ w[First(w, "//")] = "//"
        BY <1>1, FirstIs
      <4> QED BY <3>1, <4>2 DEF OpenString, InComment, Even
    <3>3. cut = w
      BY <3>2
    <3>4. ~Even(k \o h)
      BY <3>1, <3>3 DEF OpenString
    <3> QED BY <1>4, <3>4
  <2> QED BY <2>2, <2>3
<1>7. CASE Seen(r)
  <2>1. PICK a, b, c :
          /\ a \in Seq(Lexeme) /\ b \in Seq(Lexeme)
          /\ z.kept = Append(a, "//") \o b
          /\ Tidy(a, c)
          /\ \/ /\ Read("code", r).mode = "line" /\ Read("code", r).code = c
                /\ Comments(a).held = <<>>
             \/ Opened(Comments(a).held)
    BY <1>7 DEF Seen
  <2>2. w = Append(a, "//") \o (b \o z.held) /\ b \o z.held \in Seq(Lexeme)
    <3>1. "//" \in Lexeme
      BY DEF Lexeme
    <3>2. \A u, v, x \in Seq(Lexeme) : (u \o v) \o x = u \o (v \o x) /\ v \o x \in Seq(Lexeme)
      OBVIOUS
    <3>3. Append(a, "//") \in Seq(Lexeme) /\ b \in Seq(Lexeme)
      BY <2>1, <3>1
    <3> DEFINE d == Append(a, "//")
    <3>4. z.kept = d \o b /\ d \in Seq(Lexeme) /\ b \in Seq(Lexeme)
      BY <2>1, <3>3
    <3> HIDE DEF z, d
    <3>5. (d \o b) \o z.held = d \o (b \o z.held) /\ b \o z.held \in Seq(Lexeme)
      <4>1. d \in Seq(Lexeme) /\ b \in Seq(Lexeme) /\ z.held \in Seq(Lexeme)
        BY <1>2, <3>4
      <4> QED BY <3>2, <4>1, Zenon
    <3> QED BY <3>4, <3>5 DEF d
  <2>3. Has(w, "//") /\ pre = a
    BY <2>1, <2>2, FirstSlash DEF Tidy
  <2>4. cut = a
    BY <2>1, <2>3 DEF Tidy
  <2>5. k = Comments(a).kept /\ h = Comments(a).held
    BY <2>4
  <2>6. ~Has(k, "*/") /\ CodeOf(k) = c
    BY <2>1, <2>5 DEF Tidy
  <2> HIDE DEF k, h, cut, w, z
  <2>7. Read("code", r).mode = "line" /\ Read("code", r).code = c /\ h = <<>>
    BY <1>4, <2>1, <2>5, <2>6
  <2>8. k \o h = k
    BY <1>3, <1>5, <2>7
  <2> QED BY <1>1, <2>6, <2>7, <2>8
<1> QED BY <1>6, <1>7, Scanned

\* There is code of the line in it, a string included.
Shown(m, line) == Read(m, line).code # <<>> \/ Quoted(m, line)

LEMMA ShownNext ==
  ASSUME NEW m \in Modes, NEW p \in Seq(Lexeme), NEW l \in Lexeme
  PROVE  /\ ~Shown(m, <<>>)
         /\ Shown(m, Append(p, l))
              <=> Shown(m, p) \/ (Read(m, p).mode = "code" /\ l \in Texts \cup Quotes)
<1>1. ~Shown(m, <<>>)
  <2>1. Read(m, <<>>).code = <<>>
    BY ReadEmpty
  <2>2. ~Quoted(m, <<>>)
    BY DEF Quoted
  <2> QED BY <2>1, <2>2 DEF Shown
<1>2. Read(m, p).code \in Seq(Texts)
  BY ReadType DEF ReadState
<1>3. CASE Read(m, p).mode = "code" /\ l \in Texts
  <2>1. Read(m, Append(p, l)).code = Append(Read(m, p).code, l)
    BY <1>3, ReadNext
  <2>2. \A c \in Seq(Texts) : Append(c, l) # <<>>
    BY <1>3
  <2> QED BY <1>1, <1>2, <1>3, <2>1, <2>2 DEF Shown
<1>4. CASE ~(Read(m, p).mode = "code" /\ l \in Texts)
  <2>1. Read(m, Append(p, l)).code = Read(m, p).code
    BY <1>4, ReadNext
  <2> QED BY <1>1, <1>4, <2>1, QuotedAppend DEF Shown
<1> QED BY <1>3, <1>4

LEMMA BlankNext ==
  /\ Blank(<<>>)
  /\ \A a \in Seq(Lexeme), l \in Lexeme : Blank(Append(a, l)) <=> Blank(a) /\ l = "indent"
  /\ \A a, b \in Seq(Lexeme) : Blank(a \o b) => Blank(a)
<1>1. Blank(<<>>)
  BY DEF Blank
<1>2. ASSUME NEW a \in Seq(Lexeme), NEW l \in Lexeme
      PROVE  Blank(Append(a, l)) <=> Blank(a) /\ l = "indent"
  <2> DEFINE c == Append(a, l)
             size == Len(a)
  <2>1. /\ DOMAIN a = 1..size /\ DOMAIN c = 1..(size + 1) /\ size \in Nat
        /\ c[size + 1] = l /\ \A k \in 1..size : c[k] = a[k]
    OBVIOUS
  <2> HIDE DEF c, size
  <2>2. /\ \A k \in 1..(size + 1) : k \in 1..size \/ k = size + 1
        /\ \A k \in 1..size : k \in 1..(size + 1)
        /\ size + 1 \in 1..(size + 1)
    BY <2>1
  <2>3. Blank(c) <=> Blank(a) /\ l = "indent"
    BY <2>1, <2>2 DEF Blank
  <2> QED BY <2>3 DEF c
<1>3. ASSUME NEW a \in Seq(Lexeme), NEW b \in Seq(Lexeme), Blank(a \o b) PROVE Blank(a)
  <2>1. \A k \in DOMAIN a : k \in DOMAIN (a \o b) /\ (a \o b)[k] = a[k]
    OBVIOUS
  <2> QED BY <1>3, <2>1 DEF Blank
<1> QED BY <1>1, <1>2, <1>3

\* What CleanseComments() has kept of the first part of a line it keeps.
LEMMA CommentsKeep ==
  ASSUME NEW a \in Seq(Lexeme), NEW b \in Seq(Lexeme), ~Blank(Comments(a).kept)
  PROVE  ~Blank(Comments(a \o b).kept)
<1> DEFINE S == {s \in Seq(Lexeme) : ~Blank(Comments(a \o s).kept)}
<1>1. <<>> \in S
  <2>1. a \o <<>> = a /\ <<>> \in Seq(Lexeme)
    OBVIOUS
  <2> QED BY <2>1
<1>2. ASSUME NEW s \in Seq(Lexeme), NEW l \in Lexeme, s \in S PROVE Append(s, l) \in S
  <2> DEFINE c == a \o s
  <2>1. a \o Append(s, l) = Append(c, l) /\ Append(s, l) \in Seq(Lexeme) /\ c \in Seq(Lexeme)
    BY AppendConcat, UptoConcat
  <2>2. ~Blank(Comments(c).kept)
    BY <1>2
  <2> HIDE DEF c
  <2>3. Comments(c).kept \in Seq(Lexeme)
    BY <2>1, CommentsType
  <2>4. Comments(Append(c, l)).kept \in {Comments(c).kept, Append(Comments(c).kept, l)}
    BY <2>1, CommentsNext
  <2>5. ~Blank(Comments(Append(c, l)).kept)
    BY <2>2, <2>3, <2>4, BlankNext
  <2> QED BY <2>1, <2>5
<1> HIDE DEF S
<1>3. b \in S
  BY <1>1, <1>2, SeqInduction
<1> QED BY <1>3 DEF S

\* What CleanseComments() makes of a line with a // after a, that is not a string's.
LEMMA CleanseSlash ==
  ASSUME NEW a \in Seq(Lexeme), NEW b \in Seq(Lexeme), NEW c, Tidy(a, c)
  PROVE  CleanseComments(Append(a, "//") \o b) = Comments(a).kept \o Comments(a).held
<1> DEFINE w == Append(a, "//") \o b
<1>1. w \in Seq(Lexeme) /\ Has(w, "//") /\ Upto(w, First(w, "//") - 1) = a
  BY FirstSlash DEF Tidy
<1>2. ~IsCppString(a)
  BY DEF Tidy, Even, IsCppString
<1> HIDE DEF w
<1>3. CleanseComments(w) = Cut(a, {"/*"}, {"*/"}, <<>>)
  BY <1>1, <1>2 DEF CleanseComments
<1> QED BY <1>3 DEF Cut, Comments, w

LEMMA ElideSlash ==
  ASSUME NEW r \in Seq(Lexeme), NEW a \in Seq(Lexeme), NEW d \in Seq(Lexeme), NEW c,
         Strings(r).kept = Append(a, "//") \o d, Tidy(a, c)
  PROVE  /\ Elide(r) = Comments(a).kept \o Comments(a).held
         /\ Opened(Comments(a).held) => Warned(Elide(r))
<1> DEFINE h == Strings(r).held
           u == Append(a, "//")
<1>1. "//" \in Lexeme /\ h \in Seq(Lexeme)
  BY StringsType DEF Lexeme
<1>2. u \in Seq(Lexeme)
  BY <1>1
<1>3. CollapseStrings(r) = Strings(r).kept \o h
  BY DEF CollapseStrings, Cut, Strings
<1>4. Strings(r).kept = u \o d
  OBVIOUS
<1> HIDE DEF u, h
<1>5. (u \o d) \o h = u \o (d \o h) /\ d \o h \in Seq(Lexeme)
  <2>1. \A x, y, z \in Seq(Lexeme) : (x \o y) \o z = x \o (y \o z) /\ y \o z \in Seq(Lexeme)
    OBVIOUS
  <2> QED BY <1>1, <1>2, <2>1, Zenon
<1>6. CollapseStrings(r) = u \o (d \o h)
  BY <1>3, <1>4, <1>5
<1>7. Elide(r) = Comments(a).kept \o Comments(a).held
  BY <1>5, <1>6, CleanseSlash DEF Elide, u
<1>8. Opened(Comments(a).held) => Warned(Elide(r))
  <2>1. Comments(a).kept \in Seq(Lexeme) /\ Comments(a).held \in Seq(Lexeme)
    BY CommentsType
  <2>2. ~Has(Comments(a).kept, "*/")
    BY DEF Tidy
  <2> QED BY <1>7, <2>1, <2>2, CommentReported DEF Warned
<1> QED BY <1>7, <1>8

\* Three things a line may be, up to some point: it is bare, with only indent and comments,
Bare(p) ==
  /\ NotSeen(p) /\ Strings(p).kept = p /\ Strings(p).held = <<>>
  /\ Read("code", p).mode \in {"code", "comment"} /\ ~Shown("code", p)
  /\ Blank(Comments(p).kept)

\* there is a // after such a part, that begins a comment or is in one that does not end,
Ended(p) ==
  \E a \in Seq(Lexeme), b \in Seq(Lexeme), d \in Seq(Lexeme) :
    /\ p = Append(a, "//") \o b /\ Strings(p).kept = Append(a, "//") \o d
    /\ Tidy(a, Read("code", a).code) /\ Blank(Comments(a).kept)
    /\ \/ Comments(a).held = <<>> /\ Read("code", p).mode = "line" /\ ~Shown("code", p)
       \/ Opened(Comments(a).held)

\* or there is code after it, which is kept.
Marked(p) ==
  /\ Shown("code", p)
  /\ \E a \in Seq(Lexeme), b \in Seq(Lexeme) :
       p = a \o b /\ ~Has(a, "//") /\ ~Blank(Comments(a).kept)

LEMMA BareNext ==
  ASSUME NEW p \in Seq(Lexeme), NEW l \in Lexeme, Bare(p), Fits(Read("code", p).mode, l)
  PROVE  Bare(Append(p, l)) \/ Ended(Append(p, l)) \/ Marked(Append(p, l))
<1> DEFINE q == Append(p, l)
           e == Read("code", p).mode
           k == Comments(p).kept
<1>1. "code" \in Modes /\ q \in Seq(Lexeme) /\ k \in Seq(Lexeme) /\ Blank(k)
  BY CommentsType DEF Modes, Bare
<1>2. /\ Tidy(p, Read("code", p).code) /\ ~Has(p, "//")
      /\ e = "code" => Comments(p).held = <<>>
      /\ e = "comment" => Opened(Comments(p).held)
  BY DEF Bare, NotSeen, Tidy
<1>3. CASE l = "//"
  <2>1. l \notin Texts \cup Quotes
    BY <1>3 DEF Texts, Quotes
  <2>2. Strings(q).kept = q
    BY <2>1, StringsNext DEF Bare
  <2>3. q \o <<>> = q /\ <<>> \in Seq(Lexeme)
    BY <1>1
  <2>4. e = "code" => Read("code", q).mode = "line"
    BY <1>1, <1>3, ReadNext DEF Then
  <2>5. ~Shown("code", q)
    BY <1>1, <2>1, ShownNext DEF Bare
  <2> HIDE DEF q, k, e
  <2>6. e \in {"code", "comment"}
    BY DEF Bare, e
  <2>7. Ended(q)
    BY <1>1, <1>2, <1>3, <2>2, <2>3, <2>4, <2>5, <2>6 DEF Ended, q, k
  <2> QED BY <2>7 DEF q
<1>4. CASE e = "code" /\ l \in Texts \cup Quotes
  <2>1. l # "//" /\ l # "/*" /\ l # "indent"
    BY <1>4 DEF Texts, Quotes
  <2>2. ~Has(q, "//")
    BY <1>2, <2>1, HasAppend
  <2>3. Comments(q).kept = Append(k, l)
    BY <1>2, <1>4, <2>1, CommentsNext
  <2>4. ~Blank(Comments(q).kept)
    BY <1>1, <2>1, <2>3, BlankNext
  <2>5. Shown("code", q)
    BY <1>1, <1>4, ShownNext
  <2> HIDE DEF q
  <2>6. q \o <<>> = q /\ <<>> \in Seq(Lexeme)
    BY <1>1
  <2>7. Marked(q)
    BY <1>1, <2>2, <2>4, <2>5, <2>6 DEF Marked
  <2> QED BY <2>7 DEF q
<1>5. CASE l # "//" /\ ~(e = "code" /\ l \in Texts \cup Quotes)
  <2>1. /\ l \notin Quotes
        /\ e = "code" => l \in {"indent", "/*"}
    BY <1>5 DEF Fits, Bare, Lexeme
  <2>2. NotSeen(q)
    <3>1. CASE e = "code"
      <4>1. l \notin {"//", "*/", "raw("}
        BY <2>1, <3>1
      <4> QED BY <3>1, <4>1, CodeNext DEF Bare
    <3>2. CASE e = "comment"
      BY <1>5, <2>1, <3>2, CommentNext DEF Bare
    <3> QED BY <3>1, <3>2 DEF Bare
  <2>3. Strings(q).kept = q /\ Strings(q).held = <<>>
    BY <2>1, StringsNext DEF Bare
  <2>4. ~Shown("code", q)
    BY <1>1, <1>5, ShownNext DEF Bare
  <2>5. Read("code", q).mode \in {"code", "comment"}
    <3>1. Read("code", q).mode = Then(e, l)
      BY <1>1, ReadNext
    <3>2. Then(e, l) \in {"code", "comment"}
      BY <2>1 DEF Then, Bare
    <3> QED BY <3>1, <3>2
  <2>6. Blank(Comments(q).kept)
    <3>1. CASE e = "code"
      <4>1. Comments(q).kept = (IF l = "indent" THEN Append(k, l) ELSE k)
        BY <1>2, <2>1, <3>1, CommentsNext
      <4> QED BY <1>1, <4>1, BlankNext
    <3>2. CASE e = "comment"
      <4>1. Comments(q).kept = k
        BY <1>2, <3>2, CommentsNext DEF Opened
      <4> QED BY <1>1, <4>1
    <3> QED BY <3>1, <3>2 DEF Bare
  <2> QED BY <2>2, <2>3, <2>4, <2>5, <2>6 DEF Bare
<1> QED BY <1>3, <1>4, <1>5

LEMMA EndedNext ==
  ASSUME NEW p \in Seq(Lexeme), NEW l \in Lexeme, Ended(p)
  PROVE  Ended(Append(p, l))
<1> DEFINE q == Append(p, l)
           Cut1(a) == /\ Tidy(a, Read("code", a).code) /\ Blank(Comments(a).kept)
                      /\ \/ /\ Comments(a).held = <<>> /\ Read("code", p).mode = "line"
                            /\ ~Shown("code", p)
                         \/ Opened(Comments(a).held)
<1>1. PICK a \in Seq(Lexeme), b \in Seq(Lexeme), d \in Seq(Lexeme) :
        p = Append(a, "//") \o b /\ Strings(p).kept = Append(a, "//") \o d /\ Cut1(a)
  BY DEF Ended
<1> DEFINE u == Append(a, "//")
<1>2. u \in Seq(Lexeme) /\ Str \in Seq(Lexeme) /\ "code" \in Modes
  BY EmptyLine DEF Lexeme, Modes
<1> HIDE DEF u, Cut1
<1>3. Append(u \o b, l) = u \o Append(b, l) /\ Append(b, l) \in Seq(Lexeme)
      /\ Append(u \o d, l) = u \o Append(d, l) /\ Append(d, l) \in Seq(Lexeme)
  BY <1>2, AppendConcat
<1>4. (u \o d) \o Str = u \o (d \o Str) /\ d \o Str \in Seq(Lexeme)
  BY <1>2
<1>5. p = u \o b /\ Strings(p).kept = u \o d
  BY <1>1 DEF u
<1>6. q = u \o Append(b, l)
  BY <1>3, <1>5
<1>7. \/ Strings(q).kept = u \o d
      \/ Strings(q).kept = Append(u \o d, l)
      \/ Strings(q).kept = (u \o d) \o Str
  <2>1. \/ Strings(q).kept = Strings(p).kept
        \/ Strings(q).kept = Append(Strings(p).kept, l)
        \/ Strings(q).kept = Strings(p).kept \o Str
    BY StringsNext
  <2> QED BY <1>5, <2>1
<1>8. \E x \in Seq(Lexeme) : Strings(q).kept = u \o x
  BY <1>3, <1>4, <1>7
<1>9. Read("code", p).mode = "line" /\ ~Shown("code", p) =>
        Read("code", q).mode = "line" /\ ~Shown("code", q)
  <2>1. Then("line", l) = "line"
    BY DEF Then
  <2>2. Read("code", q).mode = Then(Read("code", p).mode, l)
    BY <1>2, ReadNext
  <2> QED BY <1>2, <2>1, <2>2, ShownNext
<1> HIDE DEF q
<1>10. Ended(q)
  BY <1>1, <1>3, <1>6, <1>8, <1>9 DEF Ended, Cut1, u
<1> QED BY <1>10 DEF q

LEMMA MarkedNext ==
  ASSUME NEW p \in Seq(Lexeme), NEW l \in Lexeme, Marked(p)
  PROVE  Marked(Append(p, l))
<1>1. PICK a \in Seq(Lexeme), b \in Seq(Lexeme) :
        p = a \o b /\ ~Has(a, "//") /\ ~Blank(Comments(a).kept)
  BY DEF Marked
<1>2. Append(p, l) = a \o Append(b, l) /\ Append(b, l) \in Seq(Lexeme)
  BY <1>1, AppendConcat
<1>3. Shown("code", Append(p, l))
  BY ShownNext DEF Marked, Modes
<1> QED BY <1>1, <1>2, <1>3 DEF Marked

LEMMA ScannedShown ==
  ASSUME NEW r \in Seq(Lexeme), Clear("code", r)
  PROVE  Bare(r) \/ Ended(r) \/ Marked(r)
<1> DEFINE S == {p \in Seq(Lexeme) : Clear("code", p) => Bare(p) \/ Ended(p) \/ Marked(p)}
<1>1. "code" \in Modes
  BY DEF Modes
<1>2. <<>> \in S
  <2>1. Read("code", <<>>).mode = "code" /\ Read("code", <<>>).code = <<>>
    BY <1>1, ReadEmpty
  <2>2. CodeOf(<<>>) = <<>>
    BY CodeOfEmpty
  <2>3. Tidy(<<>>, <<>>)
    BY <2>2, EmptyLine, EvenEmpty, CommentsEmpty DEF Tidy
  <2>4. NotSeen(<<>>)
    BY <2>1, <2>3, EmptyLine, StringsEmpty, CommentsEmpty DEF NotSeen
  <2>5. ~Shown("code", <<>>)
    <3>1. ~Quoted("code", <<>>)
      BY DEF Quoted
    <3> QED BY <2>1, <3>1 DEF Shown
  <2>6. Bare(<<>>)
    BY <2>1, <2>4, <2>5, StringsEmpty, CommentsEmpty, BlankNext DEF Bare
  <2> QED BY <2>6, EmptyLine
<1>3. ASSUME NEW p \in Seq(Lexeme), NEW l \in Lexeme, p \in S PROVE Append(p, l) \in S
  <2> SUFFICES ASSUME Clear("code", Append(p, l))
               PROVE  Bare(Append(p, l)) \/ Ended(Append(p, l)) \/ Marked(Append(p, l))
    OBVIOUS
  <2>1. Clear("code", p) /\ Fits(Read("code", p).mode, l)
    BY <1>1, ClearAppend
  <2>2. Bare(p) \/ Ended(p) \/ Marked(p)
    BY <1>3, <2>1
  <2> QED BY <2>1, <2>2, BareNext, EndedNext, MarkedNext
<1> HIDE DEF S
<1>4. r \in S
  BY <1>2, <1>3, SeqInduction
<1> QED BY <1>4 DEF S

\* What CleanseComments() leaves of a line without a warning is blank just if C++ reads no
\* code in it.
LEMMA BlankShown ==
  ASSUME NEW r \in Seq(Lexeme), Clear("code", r), ~FindsRaw(r), ~Warned(Elide(r))
  PROVE  ~Blank(CleanseComments(r)) <=> Shown("code", r)
<1>1. CASE Bare(r)
  <2>1. ~Has(r, "//") /\ Comments(r).kept \in Seq(Lexeme)
    BY <1>1, CommentsType DEF Bare, NotSeen, Tidy
  <2>2. Read("code", r).mode # "comment"
    BY Elided
  <2>3. Comments(r).held = <<>>
    BY <1>1, <2>2 DEF Bare, NotSeen
  <2>4. CleanseComments(r) = Cut(r, {"/*"}, {"*/"}, <<>>)
    BY <2>1 DEF CleanseComments
  <2>5. CleanseComments(r) = Comments(r).kept \o <<>>
    BY <2>3, <2>4 DEF Cut, Comments
  <2>6. CleanseComments(r) = Comments(r).kept
    BY <2>1, <2>5
  <2> QED BY <1>1, <2>6 DEF Bare
<1>2. CASE Ended(r)
  <2>1. PICK a \in Seq(Lexeme), b \in Seq(Lexeme), d \in Seq(Lexeme) :
          /\ r = Append(a, "//") \o b /\ Strings(r).kept = Append(a, "//") \o d
          /\ Tidy(a, Read("code", a).code) /\ Blank(Comments(a).kept)
          /\ \/ Comments(a).held = <<>> /\ Read("code", r).mode = "line" /\ ~Shown("code", r)
             \/ Opened(Comments(a).held)
    BY <1>2 DEF Ended
  <2>2. ~Opened(Comments(a).held)
    BY <2>1, ElideSlash
  <2>3. CleanseComments(r) = Comments(a).kept \o Comments(a).held
    BY <2>1, CleanseSlash
  <2>4. Comments(a).kept \in Seq(Lexeme) /\ Comments(a).held = <<>>
    BY <2>1, <2>2, CommentsType
  <2>5. CleanseComments(r) = Comments(a).kept
    BY <2>3, <2>4
  <2> QED BY <2>1, <2>2, <2>5
<1>3. CASE Marked(r)
  <2>1. PICK a \in Seq(Lexeme), b \in Seq(Lexeme) :
          r = a \o b /\ ~Has(a, "//") /\ ~Blank(Comments(a).kept)
    BY <1>3 DEF Marked
  <2> DEFINE pre == Upto(r, First(r, "//") - 1)
             cut == IF Has(r, "//") /\ ~IsCppString(pre) THEN pre ELSE r
  <2>2. \E x \in Seq(Lexeme) : cut = a \o x
    <3>1. CASE Has(r, "//")
      <4> DEFINE f == First(r, "//")
                 k == (f - 1) - Len(a)
      <4>1. f \in 1..Len(r) /\ r[f] = "//"
        <5>1. "//" \in Lexeme
          BY DEF Lexeme
        <5> QED BY <3>1, <5>1, FirstIs
      <4> HIDE DEF f
      <4>2. /\ Len(r) = Len(a) + Len(b) /\ Len(a) \in Nat /\ Len(b) \in Nat
            /\ \A i \in 1..Len(a) : r[i] = a[i]
            /\ \A i \in 0..Len(b) : Upto(r, Len(a) + i) = a \o Upto(b, i)
        BY <2>1, UptoConcat
      <4>3. f \notin 1..Len(a)
        BY <2>1, <4>1, <4>2 DEF Has
      <4>4. k \in 0..Len(b) /\ Len(a) + k = f - 1
        BY <4>1, <4>2, <4>3
      <4> HIDE DEF k
      <4>5. Upto(r, f - 1) = a \o Upto(b, k) /\ Upto(b, k) \in Seq(Lexeme)
        BY <4>2, <4>4, UptoType
      <4> QED BY <2>1, <4>5 DEF f
    <3>2. CASE ~Has(r, "//")
      BY <2>1, <3>2
    <3> QED BY <3>1, <3>2
  <2>3. PICK x \in Seq(Lexeme) : cut = a \o x
    BY <2>2
  <2>4. ~Blank(Comments(a \o x).kept) /\ a \o x \in Seq(Lexeme)
    BY <2>1, CommentsKeep, UptoConcat
  <2>5. CleanseComments(r) = Cut(cut, {"/*"}, {"*/"}, <<>>)
    BY DEF CleanseComments
  <2> HIDE DEF cut, pre
  <2>6. CleanseComments(r) = Comments(cut).kept \o Comments(cut).held
    BY <2>5 DEF Cut, Comments
  <2>7. Comments(cut).kept \in Seq(Lexeme) /\ Comments(cut).held \in Seq(Lexeme)
    BY <2>3, <2>4, CommentsType
  <2>8. ~Blank(CleanseComments(r))
    BY <2>3, <2>4, <2>6, <2>7, BlankNext
  <2> QED BY <1>3, <2>8 DEF Marked
<1> QED BY <1>1, <1>2, <1>3, ScannedShown
----------------------------------------------------------------------------
(* CleanseRawStrings(): one line.                                          *)

\* Two lines that C++ reads alike, one from mode m and one from code, both clear.
Alike(m, c, line) ==
  /\ Clear("code", line)
  /\ Read("code", line).mode = Read(m, c).mode
  /\ Read("code", line).code = Read(m, c).code
  /\ Quoted("code", line) <=> m = "raw" \/ Quoted(m, c)

\* Inside of a raw string there is no code.
LEMMA RawGoesOn ==
  ASSUME NEW line \in Seq(Lexeme), ~Has(line, "raw)")
  PROVE  Read("raw", line).mode = "raw" /\ Read("raw", line).code = <<>>
<1> DEFINE S == {s \in Seq(Lexeme) : ~Has(s, "raw)") =>
                   Read("raw", s).mode = "raw" /\ Read("raw", s).code = <<>>}
<1>1. "raw" \in Modes
  BY DEF Modes
<1>2. <<>> \in S
  BY <1>1, EmptyLine, ReadEmpty
<1>3. ASSUME NEW s \in Seq(Lexeme), NEW l \in Lexeme, s \in S PROVE Append(s, l) \in S
  <2> SUFFICES ASSUME ~Has(Append(s, l), "raw)")
               PROVE  /\ Read("raw", Append(s, l)).mode = "raw"
                      /\ Read("raw", Append(s, l)).code = <<>>
    OBVIOUS
  <2>1. ~Has(s, "raw)") /\ l # "raw)"
    BY HasAppend
  <2>2. Read("raw", s).mode = "raw" /\ Read("raw", s).code = <<>>
    BY <1>3, <2>1
  <2> QED BY <1>1, <2>1, <2>2, ReadNext DEF Then
<1> HIDE DEF S
<1>4. line \in S
  BY <1>2, <1>3, SeqInduction
<1> QED BY <1>4 DEF S

\* An empty string, as cpplint.py puts it for a raw string, and an indent: no code.
LEMMA StrReads ==
  /\ Read("code", Str).mode = "code" /\ Read("code", Str).code = <<>> /\ Clear("code", Str)
  /\ Quoted("code", Str)
  /\ \A line \in Seq(Lexeme) :
       /\ Indent(line) \in Seq(Lexeme) /\ Clear("code", Indent(line))
       /\ Read("code", Indent(line)).mode = "code" /\ Read("code", Indent(line)).code = <<>>
<1> DEFINE q == "quote"
           d == "indent"
<1>1. /\ "code" \in Modes /\ <<>> \in Seq(Lexeme) /\ q \in Lexeme /\ d \in Lexeme
      /\ q \notin Texts /\ d \notin Texts /\ q \in Quotes
  BY DEF Modes, Lexeme, Quotes, Texts
<1>2. Read("code", <<>>).mode = "code" /\ Read("code", <<>>).code = <<>> /\ Clear("code", <<>>)
  BY <1>1, ReadEmpty, ClearFits, EmptyLine
<1>3. Str = Append(Append(<<>>, q), q) /\ <<d>> = Append(<<>>, d)
  BY DEF Str
<1>4. /\ Then("code", q) = "string" /\ Then("string", q) = "code" /\ Then("code", d) = "code"
      /\ Fits("code", q) /\ Fits("string", q) /\ Fits("code", d)
  BY DEF Then, Fits, Quotes
<1> HIDE DEF q, d
<1>5. /\ Append(<<>>, q) \in Seq(Lexeme) /\ <<d>> \in Seq(Lexeme)
  BY <1>1
<1>6. /\ Read("code", Append(<<>>, q)).mode = "string" /\ Read("code", Append(<<>>, q)).code = <<>>
      /\ Clear("code", Append(<<>>, q))
  <2>1. Read("code", Append(<<>>, q)).mode = Then(Read("code", <<>>).mode, q)
        /\ Read("code", Append(<<>>, q)).code = Read("code", <<>>).code
    BY <1>1, ReadNext
  <2>2. Clear("code", Append(<<>>, q)) <=> Clear("code", <<>>) /\ Fits(Read("code", <<>>).mode, q)
    BY <1>1, ClearAppend
  <2> QED BY <1>2, <1>4, <2>1, <2>2
<1>7. Read("code", Str).mode = "code" /\ Read("code", Str).code = <<>> /\ Clear("code", Str)
  BY <1>1, <1>3, <1>4, <1>5, <1>6, ReadNext, ClearAppend
<1>8. Read("code", <<d>>).mode = "code" /\ Read("code", <<d>>).code = <<>> /\ Clear("code", <<d>>)
  <2>1. Read("code", Append(<<>>, d)).mode = Then(Read("code", <<>>).mode, d)
        /\ Read("code", Append(<<>>, d)).code = Read("code", <<>>).code
    BY <1>1, ReadNext
  <2>2. Clear("code", Append(<<>>, d)) <=> Clear("code", <<>>) /\ Fits(Read("code", <<>>).mode, d)
    BY <1>1, ClearAppend
  <2> QED BY <1>2, <1>3, <1>4, <2>1, <2>2
<1>9. \A line \in Seq(Lexeme) : Indent(line) = <<>> \/ Indent(line) = <<d>>
  BY DEF Indent, d
<1>10. Quoted("code", Str)
  <2>1. Quoted("code", Append(<<>>, q))
    BY <1>1, <1>2, QuotedAppend
  <2> QED BY <1>1, <1>3, <1>5, <2>1, QuotedAppend
<1> QED BY <1>1, <1>2, <1>5, <1>7, <1>8, <1>9, <1>10

\* A line that is read to be code up to a point, and its rest.
LEMMA AlikeConcat ==
  ASSUME NEW m \in Modes, NEW a \in Seq(Lexeme), NEW u \in Seq(Lexeme), NEW b \in Seq(Lexeme),
         Clear(m, u \o b), Clear("code", a), Read("code", a).mode = "code",
         Read(m, u).mode = "code", Read(m, u).code = Read("code", a).code,
         Quoted("code", a) <=> m = "raw" \/ Quoted(m, u)
  PROVE  Alike(m, u \o b, a \o b)
<1>1. "code" \in Modes
  BY DEF Modes
<1>2. Clear("code", b)
  BY ClearConcat
<1>3. Clear("code", a \o b)
  BY <1>1, <1>2, ClearConcat
<1>4. /\ Read(m, u \o b).mode = Read("code", b).mode
      /\ Read(m, u \o b).code = Read("code", a).code \o Read("code", b).code
  <2>1. /\ Read(m, u \o b).mode = Read(Read(m, u).mode, b).mode
        /\ Read(m, u \o b).code = Read(m, u).code \o Read(Read(m, u).mode, b).code
    BY ReadConcat
  <2> QED BY <2>1
<1>5. /\ Read("code", a \o b).mode = Read("code", b).mode
      /\ Read("code", a \o b).code = Read("code", a).code \o Read("code", b).code
  <2>1. /\ Read("code", a \o b).mode = Read(Read("code", a).mode, b).mode
        /\ Read("code", a \o b).code = Read("code", a).code \o Read(Read("code", a).mode, b).code
    BY <1>1, ReadConcat
  <2> QED BY <2>1
<1>6. Quoted("code", a \o b) <=> m = "raw" \/ Quoted(m, u \o b)
  <2>1. Quoted("code", a \o b) <=> Quoted("code", a) \/ Quoted(Read("code", a).mode, b)
    BY <1>1, QuotedConcat
  <2>2. Quoted(m, u \o b) <=> Quoted(m, u) \/ Quoted(Read(m, u).mode, b)
    BY QuotedConcat
  <2> QED BY <2>1, <2>2
<1> QED BY <1>3, <1>4, <1>5, <1>6 DEF Alike

\* Where a raw string is found there is code.
LEMMA RawBegins ==
  ASSUME NEW line \in Seq(Lexeme), Clear("code", line), FindsRaw(line)
  PROVE  LET pre == Upto(line, First(line, "raw(") - 1)
             rest == From(line, First(line, "raw(") + 1)
             u == Append(pre, "raw(")
         IN  /\ pre \in Seq(Lexeme) /\ rest \in Seq(Lexeme) /\ u \in Seq(Lexeme)
             /\ line = u \o rest /\ ~Has(pre, "raw(")
             /\ Clear("code", pre) /\ Read("code", pre).mode = "code"
             /\ Read("code", u).mode = "raw" /\ Read("code", u).code = Read("code", pre).code
             /\ Quoted("code", u)
<1> DEFINE pre == Upto(line, First(line, "raw(") - 1)
           rest == From(line, First(line, "raw(") + 1)
           u == Append(pre, "raw(")
<1>1. "raw(" \in Lexeme /\ "raw(" \in Quotes /\ "raw(" \notin Texts /\ "code" \in Modes
  BY DEF Lexeme, Quotes, Texts, Modes
<1>2. /\ pre \in Seq(Lexeme) /\ rest \in Seq(Lexeme) /\ u \in Seq(Lexeme)
      /\ line = u \o rest /\ ~Has(pre, "raw(")
  BY <1>1, Split DEF FindsRaw
<1>3. ~InComment(pre)
  BY DEF FindsRaw
<1> HIDE DEF pre, rest
<1>4. Clear("code", u)
  BY <1>1, <1>2, ClearConcat
<1>5. Clear("code", pre) /\ Fits(Read("code", pre).mode, "raw(")
  BY <1>1, <1>2, <1>4, ClearAppend
<1>6. Read("code", pre).mode = "code"
  BY <1>1, <1>2, <1>3, <1>5, Parity DEF Fits
<1>7. Read("code", u).mode = "raw" /\ Read("code", u).code = Read("code", pre).code
  <2> DEFINE l == "raw("
  <2>1. l \in Lexeme /\ l \notin Texts /\ Then("code", l) = "raw"
    BY <1>1 DEF Then
  <2> HIDE DEF l
  <2>2. /\ Read("code", Append(pre, l)).mode = Then(Read("code", pre).mode, l)
        /\ Read("code", Append(pre, l)).code = Read("code", pre).code
    BY <1>1, <1>2, <2>1, ReadNext
  <2> QED BY <1>6, <2>1, <2>2 DEF l
<1>8. Quoted("code", u)
  BY <1>1, <1>2, <1>6, QuotedAppend
<1> QED BY <1>2, <1>5, <1>6, <1>7, <1>8 DEF pre, rest

\* What is before it, and the empty string that takes its place.
LEMMA StrAfter ==
  ASSUME NEW pre \in Seq(Lexeme), Clear("code", pre), Read("code", pre).mode = "code"
  PROVE  /\ pre \o Str \in Seq(Lexeme) /\ Clear("code", pre \o Str)
         /\ Read("code", pre \o Str).mode = "code"
         /\ Read("code", pre \o Str).code = Read("code", pre).code
         /\ Quoted("code", pre \o Str)
<1>1. "code" \in Modes /\ Str \in Seq(Lexeme)
  BY EmptyLine DEF Modes
<1>2. /\ Read("code", pre \o Str).mode = Read(Read("code", pre).mode, Str).mode
      /\ Read("code", pre \o Str).code
           = Read("code", pre).code \o Read(Read("code", pre).mode, Str).code
  BY <1>1, ReadConcat
<1>3. Read("code", pre).code \in Seq(Texts)
  BY <1>1, ReadType DEF ReadState
<1>4. Read("code", pre).code \o <<>> = Read("code", pre).code
  BY <1>3
<1>5. Clear("code", pre \o Str)
  BY <1>1, ClearConcat, StrReads
<1>6. pre \o Str \in Seq(Lexeme)
  BY <1>1, UptoConcat
<1>7. Quoted("code", pre \o Str)
  <2>1. Quoted("code", pre \o Str) <=> Quoted("code", pre) \/ Quoted(Read("code", pre).mode, Str)
    BY <1>1, QuotedConcat
  <2> QED BY <2>1, StrReads
<1> QED BY <1>2, <1>4, <1>5, <1>6, <1>7, StrReads

\* The head of a line, u, and the raw string that ends in v: a takes their place.
LEMMA AlikeTaken ==
  ASSUME NEW u \in Seq(Lexeme), NEW v \in Seq(Lexeme), NEW b \in Seq(Lexeme),
         NEW a \in Seq(Lexeme), Clear("code", u \o (v \o b)),
         Read("code", u).mode = "raw", Read("raw", v).mode = "code", Read("raw", v).code = <<>>,
         Clear("code", a), Read("code", a).mode = "code",
         Read("code", a).code = Read("code", u).code, Quoted("code", a), Quoted("code", u)
  PROVE  Alike("code", u \o (v \o b), a \o b)
<1>1. "code" \in Modes
  BY DEF Modes
<1>2. (u \o v) \o b = u \o (v \o b) /\ u \o v \in Seq(Lexeme)
  <2>1. (u \o v) \o b = u \o (v \o b)
    OBVIOUS
  <2> QED BY <2>1, UptoConcat
<1>3. Read("code", u \o v).mode = "code" /\ Read("code", u \o v).code = Read("code", a).code
  <2>1. /\ Read("code", u \o v).mode = Read(Read("code", u).mode, v).mode
        /\ Read("code", u \o v).code = Read("code", u).code \o Read(Read("code", u).mode, v).code
    BY <1>1, ReadConcat
  <2>2. Read("code", u).code \in Seq(Texts)
    BY <1>1, ReadType DEF ReadState
  <2>3. Read("code", u).code \o <<>> = Read("code", u).code
    BY <2>2
  <2> QED BY <2>1, <2>3
<1> DEFINE w == u \o v
<1>4. /\ w \in Seq(Lexeme) /\ Clear("code", w \o b)
      /\ Read("code", w).mode = "code" /\ Read("code", w).code = Read("code", a).code
      /\ Quoted("code", w)
  BY <1>1, <1>2, <1>3, QuotedConcat
<1> HIDE DEF w
<1>5. Alike("code", w \o b, a \o b)
  BY <1>1, <1>4, AlikeConcat
<1> QED BY <1>2, <1>5 DEF w

\* A raw string that ends in its line.
LEMMA RawTaken ==
  ASSUME NEW line \in Seq(Lexeme), Clear("code", line), FindsRaw(line),
         Has(From(line, First(line, "raw(") + 1), "raw)")
  PROVE  LET pre == Upto(line, First(line, "raw(") - 1)
             rest == From(line, First(line, "raw(") + 1)
             taken == pre \o Str \o From(rest, First(rest, "raw)") + 1)
         IN  taken \in Seq(Lexeme) /\ Alike("code", line, taken)
<1> DEFINE pre == Upto(line, First(line, "raw(") - 1)
           rest == From(line, First(line, "raw(") + 1)
           u == Append(pre, "raw(")
           mid == Upto(rest, First(rest, "raw)") - 1)
           post == From(rest, First(rest, "raw)") + 1)
           v == Append(mid, "raw)")
           a == pre \o Str
<1>1. /\ "raw)" \in Lexeme /\ "raw)" \notin Texts /\ "raw" \in Modes
  BY DEF Lexeme, Texts, Modes, Quotes
<1>2. /\ pre \in Seq(Lexeme) /\ rest \in Seq(Lexeme) /\ u \in Seq(Lexeme) /\ line = u \o rest
      /\ Clear("code", pre) /\ Read("code", pre).mode = "code"
      /\ Read("code", u).mode = "raw" /\ Read("code", u).code = Read("code", pre).code
      /\ Quoted("code", u)
  BY RawBegins
<1>3. Has(rest, "raw)")
  OBVIOUS
<1> HIDE DEF pre, rest
<1>4. /\ mid \in Seq(Lexeme) /\ post \in Seq(Lexeme) /\ v \in Seq(Lexeme) /\ rest = v \o post
      /\ ~Has(mid, "raw)")
  BY <1>1, <1>2, <1>3, Split
<1> HIDE DEF u, mid, post
<1>5. Read("raw", v).mode = "code" /\ Read("raw", v).code = <<>>
  BY <1>1, <1>4, RawGoesOn, ReadNext DEF Then
<1>6. /\ a \in Seq(Lexeme) /\ Clear("code", a) /\ Read("code", a).mode = "code"
      /\ Read("code", a).code = Read("code", u).code /\ Quoted("code", a)
  BY <1>2, StrAfter
<1> HIDE DEF v, a
<1>7. Clear("code", u \o (v \o post))
  BY <1>2, <1>4
<1>8. Alike("code", u \o (v \o post), a \o post)
  BY <1>2, <1>4, <1>5, <1>6, <1>7, AlikeTaken
<1>9. a \o post \in Seq(Lexeme)
  BY <1>4, <1>6, UptoConcat
<1> QED BY <1>2, <1>4, <1>8, <1>9 DEF a, pre, post, rest

\* One that goes on.
LEMMA RawPends ==
  ASSUME NEW line \in Seq(Lexeme), Clear("code", line), FindsRaw(line),
         ~Has(From(line, First(line, "raw(") + 1), "raw)")
  PROVE  LET taken == Upto(line, First(line, "raw(") - 1) \o Str
         IN  /\ taken \in Seq(Lexeme) /\ Clear("code", taken) /\ ~FindsRaw(taken)
             /\ Read("code", taken).mode = "code" /\ Read("code", line).mode = "raw"
             /\ Read("code", taken).code = Read("code", line).code
             /\ Quoted("code", taken) /\ Quoted("code", line)
<1> DEFINE pre == Upto(line, First(line, "raw(") - 1)
           rest == From(line, First(line, "raw(") + 1)
           u == Append(pre, "raw(")
<1>1. "code" \in Modes
  BY DEF Modes
<1>2. /\ pre \in Seq(Lexeme) /\ rest \in Seq(Lexeme) /\ u \in Seq(Lexeme) /\ line = u \o rest
      /\ Clear("code", pre) /\ Read("code", pre).mode = "code" /\ ~Has(pre, "raw(")
      /\ Read("code", u).mode = "raw" /\ Read("code", u).code = Read("code", pre).code
      /\ Quoted("code", u)
  BY RawBegins
<1>3. Read("raw", rest).mode = "raw" /\ Read("raw", rest).code = <<>>
  BY <1>2, RawGoesOn
<1> HIDE DEF pre, rest, u
<1>4. /\ Read("code", line).mode = "raw"
      /\ Read("code", line).code = Read("code", pre).code
  <2>1. /\ Read("code", u \o rest).mode = Read(Read("code", u).mode, rest).mode
        /\ Read("code", u \o rest).code
             = Read("code", u).code \o Read(Read("code", u).mode, rest).code
    BY <1>1, <1>2, ReadConcat
  <2>2. Read("code", pre).code \in Seq(Texts)
    BY <1>1, <1>2, ReadType DEF ReadState
  <2>3. Read("code", pre).code \o <<>> = Read("code", pre).code
    BY <2>2
  <2> QED BY <1>2, <1>3, <2>1, <2>3
<1>5. ~Has(pre \o Str, "raw(")
  <2> DEFINE q == "quote"
  <2>1. q \in Lexeme /\ q # "raw("
    BY DEF Lexeme, Quotes
  <2> HIDE DEF q
  <2>2. Append(pre, q) \in Seq(Lexeme) /\ pre \o <<q, q>> = Append(Append(pre, q), q)
    BY <1>2, <2>1
  <2>3. ~Has(Append(Append(pre, q), q), "raw(")
    BY <1>2, <2>1, <2>2, HasAppend
  <2> QED BY <2>2, <2>3 DEF Str, q
<1>6. ~FindsRaw(pre \o Str)
  BY <1>5 DEF FindsRaw
<1>7. Quoted("code", line)
  BY <1>1, <1>2, QuotedConcat
<1> QED BY <1>2, <1>4, <1>6, <1>7, StrAfter DEF pre

\* The line where one ends.
LEMMA RawEnds ==
  ASSUME NEW line \in Seq(Lexeme), Has(line, "raw)"), Clear("raw", line)
  PROVE  LET taken == Indent(line) \o Str \o From(line, First(line, "raw)") + 1)
         IN  taken \in Seq(Lexeme) /\ Alike("raw", line, taken)
<1> DEFINE pre == Upto(line, First(line, "raw)") - 1)
           post == From(line, First(line, "raw)") + 1)
           u == Append(pre, "raw)")
           a == Indent(line) \o Str
<1>1. /\ "raw)" \in Lexeme /\ "raw)" \notin Texts /\ "code" \in Modes /\ "raw" \in Modes
  BY DEF Lexeme, Texts, Modes, Quotes
<1>2. /\ pre \in Seq(Lexeme) /\ post \in Seq(Lexeme) /\ u \in Seq(Lexeme) /\ line = u \o post
      /\ ~Has(pre, "raw)")
  BY <1>1, Split
<1> HIDE DEF pre, post
<1>3. Read("raw", u).mode = "code" /\ Read("raw", u).code = <<>>
  BY <1>1, <1>2, RawGoesOn, ReadNext DEF Then
<1> HIDE DEF u
<1>4. /\ a \in Seq(Lexeme) /\ Clear("code", a) /\ Read("code", a).mode = "code"
      /\ Read("code", a).code = <<>> /\ Quoted("code", a)
  <2>1. /\ Indent(line) \in Seq(Lexeme) /\ Clear("code", Indent(line))
        /\ Read("code", Indent(line)).mode = "code" /\ Read("code", Indent(line)).code = <<>>
    BY StrReads
  <2> QED BY <2>1, StrAfter
<1> HIDE DEF a
<1>5. Alike("raw", u \o post, a \o post)
  BY <1>1, <1>2, <1>3, <1>4, AlikeConcat
<1>6. a \o post \in Seq(Lexeme)
  BY <1>2, <1>4, UptoConcat
<1> QED BY <1>2, <1>5, <1>6 DEF a, post

\* A line as CleanseRawStrings() has it, r, and as it was, c: p if it began in a raw
\* string, q if it is in one still.
StartMode(p) == IF p THEN "raw" ELSE "code"
LineSo(c, p, r, q) ==
  /\ r \in Seq(Lexeme)
  /\ \/ q = TRUE /\ p = TRUE /\ r = c
     \/ q = FALSE /\ (Clear(StartMode(p), c) => Alike(StartMode(p), c, r))

\* The same when it is done with the line.
LineDone(c, p, r, q) ==
  /\ r \in Seq(Lexeme)
  /\ Clear(StartMode(p), c) =>
       /\ Clear("code", r) /\ ~FindsRaw(r)
       /\ Read("code", r).code = Read(StartMode(p), c).code
       /\ Quoted("code", r) <=> p = TRUE \/ Quoted(StartMode(p), c)
       /\ q = TRUE => Read(StartMode(p), c).mode = "raw" /\ Read("code", r).mode = "code"
       /\ q = FALSE => Read("code", r).mode = Read(StartMode(p), c).mode

LEMMA LineStarts ==
  ASSUME NEW c \in Seq(Lexeme), NEW p \in BOOLEAN
  PROVE  LineSo(c, p, c, p)
<1>1. CASE p = TRUE
  BY <1>1 DEF LineSo
<1>2. CASE p = FALSE
  BY <1>2 DEF LineSo, Alike, StartMode
<1> QED BY <1>1, <1>2

LEMMA LineEndsRaw ==
  ASSUME NEW c \in Seq(Lexeme), NEW p \in BOOLEAN, NEW r, LineSo(c, p, r, TRUE), Has(r, "raw)")
  PROVE  LineSo(c, p, Indent(r) \o Str \o From(r, First(r, "raw)") + 1), FALSE)
<1> DEFINE taken == Indent(r) \o Str \o From(r, First(r, "raw)") + 1)
<1>1. r = c /\ p = TRUE /\ StartMode(p) = "raw"
  BY DEF LineSo, StartMode
<1>2. CASE Clear("raw", r)
  <2>1. taken \in Seq(Lexeme) /\ Alike("raw", r, taken)
    BY <1>1, <1>2, RawEnds
  <2> HIDE DEF taken
  <2>2. LineSo(c, p, taken, FALSE)
    BY <1>1, <2>1 DEF LineSo
  <2> QED BY <2>2 DEF taken
<1>3. CASE ~Clear("raw", r)
  <2>1. taken \in Seq(Lexeme)
    <3>1. "raw)" \in Lexeme
      BY DEF Lexeme, Quotes
    <3>2. From(r, First(r, "raw)") + 1) \in Seq(Lexeme) /\ Indent(r) \in Seq(Lexeme)
      BY <1>1, <3>1, Split, StrReads
    <3>3. Indent(r) \o Str \in Seq(Lexeme)
      BY <3>2, EmptyLine, UptoConcat
    <3> QED BY <3>2, <3>3, UptoConcat
  <2> HIDE DEF taken
  <2>2. LineSo(c, p, taken, FALSE)
    BY <1>1, <1>3, <2>1 DEF LineSo
  <2> QED BY <2>2 DEF taken
<1> QED BY <1>2, <1>3

LEMMA LineInRaw ==
  ASSUME NEW c \in Seq(Lexeme), NEW p \in BOOLEAN, NEW r, LineSo(c, p, r, TRUE), ~Has(r, "raw)")
  PROVE  LineDone(c, p, Str, TRUE)
<1>1. r = c /\ p = TRUE /\ StartMode(p) = "raw"
  BY DEF LineSo, StartMode
<1>2. Read("raw", c).mode = "raw" /\ Read("raw", c).code = <<>>
  BY <1>1, RawGoesOn
<1>3. ~FindsRaw(Str)
  BY DEF FindsRaw, Has, Str
<1> QED BY <1>1, <1>2, <1>3, EmptyLine, StrReads DEF LineDone

\* The other cases: no raw string is open.
LEMMA LineTaken ==
  ASSUME NEW c \in Seq(Lexeme), NEW p \in BOOLEAN, NEW r, LineSo(c, p, r, FALSE), FindsRaw(r)
  PROVE  LET start == First(r, "raw(")
             rest == From(r, start + 1)
             taken == Upto(r, start - 1) \o Str
         IN  /\ Has(rest, "raw)") =>
                  LineSo(c, p, taken \o From(rest, First(rest, "raw)") + 1), FALSE)
             /\ ~Has(rest, "raw)") => LineDone(c, p, taken, TRUE)
<1> DEFINE start == First(r, "raw(")
           rest == From(r, start + 1)
           taken == Upto(r, start - 1) \o Str
           all == taken \o From(rest, First(rest, "raw)") + 1)
           m == StartMode(p)
<1>1. r \in Seq(Lexeme) /\ (Clear(m, c) => Alike(m, c, r))
  BY DEF LineSo
<1>2. CASE Clear(m, c)
  <2>1. Clear("code", r) /\ Alike(m, c, r)
    BY <1>1, <1>2 DEF Alike
  <2>2. CASE Has(rest, "raw)")
    <3>1. all \in Seq(Lexeme) /\ Alike("code", r, all)
      BY <1>1, <2>1, <2>2, RawTaken
    <3> HIDE DEF all
    <3>2. LineSo(c, p, all, FALSE)
      BY <2>1, <3>1 DEF LineSo, Alike
    <3> QED BY <2>2, <3>2 DEF all
  <2>3. CASE ~Has(rest, "raw)")
    <3>1. /\ taken \in Seq(Lexeme) /\ Clear("code", taken) /\ ~FindsRaw(taken)
          /\ Read("code", taken).mode = "code" /\ Read("code", r).mode = "raw"
          /\ Read("code", taken).code = Read("code", r).code
          /\ Quoted("code", taken) /\ Quoted("code", r)
      BY <1>1, <2>1, <2>3, RawPends
    <3> HIDE DEF taken
    <3>2. Read(m, c).mode = "raw" /\ Read("code", taken).code = Read(m, c).code
          /\ (p = TRUE \/ Quoted(m, c))
      BY <2>1, <3>1 DEF Alike, StartMode
    <3>3. LineDone(c, p, taken, TRUE)
      BY <3>1, <3>2 DEF LineDone
    <3> QED BY <2>3, <3>3 DEF taken
  <2> QED BY <2>2, <2>3
<1>3. CASE ~Clear(m, c)
  <2>1. "raw(" \in Lexeme /\ "raw)" \in Lexeme
    BY DEF Lexeme, Quotes
  <2>2. Upto(r, start - 1) \in Seq(Lexeme) /\ rest \in Seq(Lexeme)
    BY <1>1, <2>1, Split DEF FindsRaw
  <2> HIDE DEF start, rest
  <2>3. taken \in Seq(Lexeme)
    BY <2>2, EmptyLine, UptoConcat
  <2>4. Has(rest, "raw)") => From(rest, First(rest, "raw)") + 1) \in Seq(Lexeme)
    BY <2>1, <2>2, Split
  <2> HIDE DEF taken
  <2>5. Has(rest, "raw)") => all \in Seq(Lexeme)
    BY <2>3, <2>4, UptoConcat
  <2> HIDE DEF all
  <2>6. /\ Has(rest, "raw)") => LineSo(c, p, all, FALSE)
        /\ ~Has(rest, "raw)") => LineDone(c, p, taken, TRUE)
    BY <1>3, <2>3, <2>5 DEF LineSo, LineDone
  <2> QED BY <2>6 DEF all, taken, rest, start
<1> QED BY <1>2, <1>3

LEMMA LinePasses ==
  ASSUME NEW c \in Seq(Lexeme), NEW p \in BOOLEAN, NEW r, LineSo(c, p, r, FALSE), ~FindsRaw(r)
  PROVE  LineDone(c, p, r, FALSE)
<1>1. r \in Seq(Lexeme) /\ (Clear(StartMode(p), c) => Alike(StartMode(p), c, r))
  BY DEF LineSo
<1>2. StartMode(p) = "raw" <=> p = TRUE
  BY DEF StartMode
<1> QED BY <1>1, <1>2 DEF LineDone, Alike

----------------------------------------------------------------------------
(* RemoveMultiLineComments(): the lines of a file.                         *)

Star == <<"/*", "*/">>
Inside(file, i) ==
  \E j \in 1..(i - 1) : BeginsComment(file[j]) /\ \A k \in j..(i - 1) : ~EndsComment(file[k])
Commented(file, i) == Inside(file, i) \/ BeginsComment(file[i])
Plain(file) == [i \in DOMAIN file |-> IF Commented(file, i) THEN Star ELSE file[i]]

LEMMA StarReads ==
  /\ Star \in Seq(Lexeme) /\ Clear("code", Star) /\ ~Quoted("code", Star)
  /\ Read("code", Star).mode = "code" /\ Read("code", Star).code = <<>>
<1> DEFINE o == "/*"
           e == "*/"
<1>1. /\ "code" \in Modes /\ <<>> \in Seq(Lexeme) /\ o \in Lexeme /\ e \in Lexeme
      /\ o \notin Texts /\ e \notin Texts /\ o \notin Quotes /\ e \notin Quotes
  BY DEF Modes, Lexeme, Texts, Quotes
<1>2. Read("code", <<>>).mode = "code" /\ Read("code", <<>>).code = <<>> /\ Clear("code", <<>>)
  BY <1>1, ReadEmpty, ClearFits, EmptyLine
<1>3. /\ Then("code", o) = "comment" /\ Then("comment", e) = "code"
      /\ Fits("code", o) /\ Fits("comment", e)
  BY DEF Then, Fits, Quotes
<1> HIDE DEF o, e
<1>4. Append(<<>>, o) \in Seq(Lexeme) /\ <<o, e>> = Append(Append(<<>>, o), e)
      /\ <<o, e>> \in Seq(Lexeme)
  BY <1>1
<1>5. /\ Read("code", Append(<<>>, o)).mode = "comment" /\ Read("code", Append(<<>>, o)).code = <<>>
      /\ Clear("code", Append(<<>>, o))
  <2>1. /\ Read("code", Append(<<>>, o)).mode = Then(Read("code", <<>>).mode, o)
        /\ Read("code", Append(<<>>, o)).code = Read("code", <<>>).code
    BY <1>1, ReadNext
  <2>2. Clear("code", Append(<<>>, o)) <=> Clear("code", <<>>) /\ Fits(Read("code", <<>>).mode, o)
    BY <1>1, ClearAppend
  <2> QED BY <1>2, <1>3, <2>1, <2>2
<1>6. /\ Read("code", <<o, e>>).mode = "code" /\ Read("code", <<o, e>>).code = <<>>
      /\ Clear("code", <<o, e>>)
  <2> DEFINE s == Append(<<>>, o)
  <2>1. s \in Seq(Lexeme) /\ <<o, e>> = Append(s, e) /\ Read("code", s).mode = "comment"
        /\ Read("code", s).code = <<>> /\ Clear("code", s)
    BY <1>4, <1>5
  <2> HIDE DEF s
  <2>2. /\ Read("code", Append(s, e)).mode = Then(Read("code", s).mode, e)
        /\ Read("code", Append(s, e)).code = Read("code", s).code
    BY <1>1, <2>1, ReadNext
  <2>3. Clear("code", Append(s, e)) <=> Clear("code", s) /\ Fits(Read("code", s).mode, e)
    BY <1>1, <2>1, ClearAppend
  <2> QED BY <1>3, <2>1, <2>2, <2>3
<1>7. ~Quoted("code", <<o, e>>)
  <2> DEFINE s == Append(<<>>, o)
  <2>1. s \in Seq(Lexeme) /\ <<o, e>> = Append(s, e)
    BY <1>4
  <2>2. ~Quoted("code", s)
    BY <1>1, QuotedAppend
  <2> HIDE DEF s
  <2>3. ~Quoted("code", Append(s, e))
    BY <1>1, <2>1, <2>2, QuotedAppend
  <2> QED BY <2>1, <2>3
<1> QED BY <1>4, <1>6, <1>7 DEF Star, o, e

LEMMA InsideNext ==
  ASSUME NEW file, NEW i \in Nat \ {0}
  PROVE  /\ ~Inside(file, 1)
         /\ Inside(file, i + 1) <=> Commented(file, i) /\ ~EndsComment(file[i])
<1>1. ~Inside(file, 1)
  BY DEF Inside
<1>2. ASSUME Inside(file, i + 1) PROVE Commented(file, i) /\ ~EndsComment(file[i])
  <2>1. PICK j \in 1..i : BeginsComment(file[j]) /\ \A k \in j..i : ~EndsComment(file[k])
    <3>1. (i + 1) - 1 = i
      OBVIOUS
    <3> QED BY <1>2, <3>1 DEF Inside
  <2>2. ~EndsComment(file[i])
    BY <2>1
  <2>3. CASE j = i
    BY <2>1, <2>2, <2>3 DEF Commented
  <2>4. CASE j \in 1..(i - 1)
    <3>1. \A k \in j..(i - 1) : k \in j..i
      OBVIOUS
    <3> QED BY <2>1, <2>2, <2>4, <3>1 DEF Commented, Inside
  <2> QED BY <2>3, <2>4
<1>3. ASSUME Commented(file, i), ~EndsComment(file[i]) PROVE Inside(file, i + 1)
  <2>1. (i + 1) - 1 = i
    OBVIOUS
  <2>2. \E j \in 1..i : BeginsComment(file[j]) /\ \A k \in j..i : ~EndsComment(file[k])
    <3>1. CASE BeginsComment(file[i])
      <4>1. i \in 1..i /\ \A k \in i..i : k = i
        OBVIOUS
      <4> QED BY <1>3, <3>1, <4>1
    <3>2. CASE Inside(file, i)
      <4>1. PICK j \in 1..(i - 1) :
              BeginsComment(file[j]) /\ \A k \in j..(i - 1) : ~EndsComment(file[k])
        BY <3>2 DEF Inside
      <4>2. \A k \in j..i : k \in j..(i - 1) \/ k = i
        OBVIOUS
      <4>3. j \in 1..i
        OBVIOUS
      <4> QED BY <1>3, <4>1, <4>2, <4>3
    <3> QED BY <1>3, <3>1, <3>2 DEF Commented
  <2> QED BY <2>1, <2>2 DEF Inside
<1> QED BY <1>1, <1>2, <1>3

\* No comment begins between two lines, and none goes on at the first.
LEMMA OutsideStays ==
  ASSUME NEW file, NEW a \in Nat \ {0}, NEW b \in Nat, a <= b, ~Inside(file, a),
         \A i \in a..(b - 1) : ~BeginsComment(file[i])
  PROVE  ~Inside(file, b)
<1> SUFFICES ASSUME Inside(file, b) PROVE FALSE
  OBVIOUS
<1>1. PICK j \in 1..(b - 1) : BeginsComment(file[j]) /\ \A k \in j..(b - 1) : ~EndsComment(file[k])
  BY DEF Inside
<1>2. j \in 1..(a - 1)
  BY <1>1
<1>3. \A k \in j..(a - 1) : k \in j..(b - 1)
  OBVIOUS
<1> QED BY <1>1, <1>2, <1>3 DEF Inside

\* From the line that begins a comment to the first that ends one.
LEMMA InsideUpTo ==
  ASSUME NEW file, NEW a \in Nat \ {0}, NEW b \in Nat, a < b, BeginsComment(file[a]),
         \A k \in a..(b - 1) : ~EndsComment(file[k])
  PROVE  Inside(file, b)
<1>1. a \in 1..(b - 1)
  OBVIOUS
<1> QED BY <1>1 DEF Inside

\* What C++ reads there.
LEMMA CommentGoesOn ==
  ASSUME NEW line \in Seq(Lexeme), ~Has(line, "*/")
  PROVE  /\ Read("comment", line).mode = "comment" /\ Read("comment", line).code = <<>>
         /\ ~Quoted("comment", line)
<1> DEFINE S == {s \in Seq(Lexeme) : ~Has(s, "*/") =>
                   /\ Read("comment", s).mode = "comment" /\ Read("comment", s).code = <<>>
                   /\ ~Quoted("comment", s)}
<1>1. "comment" \in Modes
  BY DEF Modes
<1>2. <<>> \in S
  <2>1. ~Quoted("comment", <<>>)
    BY DEF Quoted
  <2> QED BY <1>1, <2>1, EmptyLine, ReadEmpty
<1>3. ASSUME NEW s \in Seq(Lexeme), NEW l \in Lexeme, s \in S PROVE Append(s, l) \in S
  <2> SUFFICES ASSUME ~Has(Append(s, l), "*/")
               PROVE  /\ Read("comment", Append(s, l)).mode = "comment"
                      /\ Read("comment", Append(s, l)).code = <<>>
                      /\ ~Quoted("comment", Append(s, l))
    OBVIOUS
  <2>1. ~Has(s, "*/") /\ l # "*/"
    BY HasAppend
  <2>2. /\ Read("comment", s).mode = "comment" /\ Read("comment", s).code = <<>>
        /\ ~Quoted("comment", s)
    BY <1>3, <2>1
  <2> QED BY <1>1, <2>1, <2>2, ReadNext, QuotedAppend DEF Then
<1> HIDE DEF S
<1>4. line \in S
  BY <1>2, <1>3, SeqInduction
<1> QED BY <1>4 DEF S

LEMMA BeginsRead ==
  ASSUME NEW line \in Seq(Lexeme), BeginsComment(line)
  PROVE  /\ Read("code", line).mode = "comment" /\ Read("code", line).code = <<>>
         /\ ~Quoted("code", line) /\ ~EndsComment(line)
<1> DEFINE d == Indent(line)
           s == Strip(line)
           t == From(s, 2)
           o == "/*"
           u == Append(d, o)
<1>1. s # <<>> /\ Head(s) = o /\ ~Has(s, "*/")
  BY DEF BeginsComment
<1>2. /\ "code" \in Modes /\ o \in Lexeme /\ o \notin Texts /\ Then("code", o) = "comment"
      /\ o # "*/" /\ o \notin Quotes
  BY DEF Modes, Lexeme, Texts, Then, Quotes
<1>3. d = <<>> \/ (d = <<"indent">> /\ line # <<>> /\ line[1] = "indent")
  BY DEF Indent
<1>4. s = From(line, Len(d) + 1) /\ s \in Seq(Lexeme) /\ Len(d) \in {0, 1}
  BY <1>3 DEF Strip, From
<1> HIDE DEF d, o
<1>5. /\ d \in Seq(Lexeme) /\ Read("code", d).mode = "code" /\ Read("code", d).code = <<>>
      /\ ~Quoted("code", d)
  <2>1. /\ d \in Seq(Lexeme) /\ Read("code", d).mode = "code" /\ Read("code", d).code = <<>>
    BY StrReads DEF d
  <2>2. \A k \in DOMAIN d : d[k] = "indent"
    BY <1>3
  <2>3. ~Quoted("code", d)
    BY <2>2 DEF Quoted, Quotes
  <2> QED BY <2>1, <2>3
<1>6. /\ Len(line) \in Nat /\ Len(s) = Len(line) - Len(d) /\ Len(s) > 0
      /\ \A k \in 1..Len(s) : s[k] = line[Len(d) + k]
  BY <1>1, <1>4 DEF From
<1> HIDE DEF s
<1>7. /\ t \in Seq(Lexeme) /\ Len(t) = Len(s) - 1 /\ \A k \in 1..Len(t) : t[k] = s[k + 1]
  BY <1>4, <1>6 DEF From
<1>8. ~Has(t, "*/")
  <2>1. DOMAIN t = 1..Len(t) /\ DOMAIN s = 1..Len(s)
    BY <1>4, <1>7
  <2>2. \A k \in 1..Len(t) : k + 1 \in 1..Len(s)
    BY <1>6, <1>7
  <2> QED BY <1>1, <1>7, <2>1, <2>2 DEF Has
<1> HIDE DEF t
<1>9. u \in Seq(Lexeme) /\ Len(u) = Len(d) + 1 /\ u[Len(d) + 1] = o
      /\ \A k \in 1..Len(d) : u[k] = d[k]
  BY <1>2, <1>5
<1>10. Read("code", u).mode = "comment" /\ Read("code", u).code = <<>> /\ ~Quoted("code", u)
  BY <1>2, <1>5, ReadNext, QuotedAppend
<1> HIDE DEF u
<1>11. line = u \o t
  <2>1. s[1] = o
    BY <1>1, <1>4, <1>6
  <2>2. line[Len(d) + 1] = o
    BY <1>6, <2>1
  <2>3. \A k \in 1..(Len(d) + 1) : line[k] = u[k]
    BY <1>3, <1>4, <1>9, <2>2
  <2>4. /\ u \o t \in Seq(Lexeme) /\ Len(u \o t) = Len(u) + Len(t)
        /\ \A k \in 1..Len(u) : (u \o t)[k] = u[k]
        /\ \A k \in 1..Len(t) : (u \o t)[Len(u) + k] = t[k]
    BY <1>7, <1>9, UptoConcat
  <2>5. Len(u \o t) = Len(line)
    BY <1>4, <1>6, <1>7, <1>9, <2>4
  <2>6. ASSUME NEW k \in 1..Len(line) PROVE (u \o t)[k] = line[k]
    <3>1. CASE k \in 1..(Len(d) + 1)
      BY <1>9, <2>3, <2>4, <3>1
    <3>2. CASE k \notin 1..(Len(d) + 1)
      <4> DEFINE x == k - (Len(d) + 1)
      <4>1. x \in 1..Len(t) /\ Len(u) + x = k /\ x + 1 \in 1..Len(s) /\ Len(d) + (x + 1) = k
        BY <1>4, <1>6, <1>7, <1>9, <3>2
      <4> HIDE DEF x
      <4>2. (u \o t)[Len(u) + x] = t[x] /\ t[x] = s[x + 1] /\ s[x + 1] = line[Len(d) + (x + 1)]
        BY <1>6, <1>7, <2>4, <4>1
      <4> QED BY <4>1, <4>2
    <3> QED BY <3>1, <3>2
  <2>7. \A x, y \in Seq(Lexeme) : Len(x) = Len(y) /\ (\A k \in 1..Len(y) : x[k] = y[k]) => x = y
    OBVIOUS
  <2> QED BY <2>4, <2>5, <2>6, <2>7
<1>12. /\ Read("comment", t).mode = "comment" /\ Read("comment", t).code = <<>>
       /\ ~Quoted("comment", t)
  BY <1>7, <1>8, CommentGoesOn
<1>13. Read("code", line).mode = "comment" /\ Read("code", line).code = <<>>
  <2>1. /\ Read("code", u \o t).mode = Read(Read("code", u).mode, t).mode
        /\ Read("code", u \o t).code = Read("code", u).code \o Read(Read("code", u).mode, t).code
    BY <1>2, <1>7, <1>9, ReadConcat
  <2>2. <<>> \o <<>> = <<>>
    OBVIOUS
  <2> QED BY <1>10, <1>11, <1>12, <2>1, <2>2
<1>14. ~EndsComment(line)
  <2>1. Len(s) \in 1..Len(s) /\ Len(d) + Len(s) = Len(line) /\ Len(s) \in DOMAIN s
    BY <1>4, <1>6
  <2>2. s[Len(s)] = line[Len(line)]
    BY <1>6, <2>1
  <2> QED BY <1>1, <2>1, <2>2 DEF EndsComment, Has
<1>15. ~Quoted("code", line)
  <2>1. Quoted("code", u \o t) <=> Quoted("code", u) \/ Quoted(Read("code", u).mode, t)
    BY <1>2, <1>7, <1>9, QuotedConcat
  <2> QED BY <1>10, <1>11, <1>12, <2>1
<1> QED BY <1>13, <1>14, <1>15

LEMMA InsideRead ==
  ASSUME NEW line \in Seq(Lexeme),
         \A k \in DOMAIN line : Read("comment", Upto(line, k - 1)).mode = "comment"
  PROVE  /\ Read("comment", line).code = <<>> /\ ~Quoted("comment", line)
         /\ Read("comment", line).mode = IF EndsComment(line) THEN "code" ELSE "comment"
<1>1. "comment" \in Modes
  BY DEF Modes
<1>2. ~Quoted("comment", line)
  BY DEF Quoted
<1>3. CASE line = <<>>
  BY <1>1, <1>2, <1>3, ReadEmpty DEF EndsComment
<1>4. CASE line # <<>>
  <2> DEFINE size == Len(line)
             s == Upto(line, size - 1)
             l == line[size]
  <2>1. /\ size \in Nat /\ size \in DOMAIN line /\ s \in Seq(Lexeme) /\ l \in Lexeme
        /\ line = Append(s, l)
    BY <1>4 DEF Upto
  <2>2. Read("comment", s).mode = "comment"
    BY <2>1
  <2>3. ~Has(s, "*/")
    <3> SUFFICES ASSUME NEW k \in DOMAIN s, s[k] = "*/" PROVE FALSE
      BY DEF Has
    <3>1. /\ k \in Nat /\ k - 1 \in Nat /\ k \in DOMAIN line /\ k + 1 \in DOMAIN line
          /\ line[k] = "*/" /\ Upto(line, k - 1) \in Seq(Lexeme)
          /\ Upto(line, (k + 1) - 1) = Append(Upto(line, k - 1), line[k])
      BY DEF Upto
    <3>2. /\ Read("comment", Upto(line, k - 1)).mode = "comment"
          /\ Read("comment", Upto(line, (k + 1) - 1)).mode = "comment"
      BY <3>1
    <3> DEFINE u == Upto(line, k - 1)
               e == "*/"
    <3>3. u \in Seq(Lexeme) /\ e \in Lexeme /\ Then("comment", e) = "code"
      BY <3>1 DEF Lexeme, Then
    <3>4. Read("comment", u).mode = "comment" /\ Read("comment", Append(u, e)).mode = "comment"
      BY <3>1, <3>2
    <3> HIDE DEF u, e
    <3> QED BY <1>1, <3>3, <3>4, ReadNext
  <2>4. Read("comment", s).code = <<>>
    BY <2>1, <2>3, CommentGoesOn
  <2> HIDE DEF s, size
  <2>5. Read("comment", line).code = <<>>
        /\ Read("comment", line).mode = Then("comment", l)
    <3> HIDE DEF l
    <3>1. /\ Read("comment", Append(s, l)).mode = Then(Read("comment", s).mode, l)
          /\ Read("comment", Append(s, l)).code = Read("comment", s).code
      BY <1>1, <2>1, <2>2, ReadNext
    <3> QED BY <2>1, <2>2, <2>4, <3>1
  <2>6. Then("comment", l) = IF l = "*/" THEN "code" ELSE "comment"
    BY DEF Then
  <2>7. EndsComment(line) <=> l = "*/"
    BY <1>4 DEF EndsComment, size
  <2> QED BY <1>2, <2>5, <2>6, <2>7
<1> QED BY <1>3, <1>4

----------------------------------------------------------------------------
(* Mode: where C++ is when a line begins.                                  *)

NextMode(m, line) == IF Read(m, line).mode = "line" THEN "code" ELSE Read(m, line).mode

LEMMA NextModeType ==
  \A m \in Modes, line \in Seq(Lexeme) : NextMode(m, line) \in Modes
<1> TAKE m \in Modes, line \in Seq(Lexeme)
<1>1. Read(m, line).mode \in Modes
  BY ReadType DEF ReadState
<1> QED BY <1>1 DEF NextMode, Modes

LEMMA ModeFold ==
  ASSUME NEW x0 \in Modes, NEW size \in Nat, NEW T \in [1..size -> [Modes -> Modes]]
  PROVE  \E f \in [0..size -> Modes] :
           f[0] = x0 /\ \A k \in 1..size : f[k] = T[k][f[k - 1]]
BY FoldExists

LEMMA ModesRead ==
  ASSUME raw \in Seq(Seq(Lexeme))
  PROVE  \E f \in [0..Len(raw) -> Modes] :
           /\ f[0] = "code"
           /\ \A k \in 1..Len(raw) : f[k] = NextMode(f[k - 1], raw[k]) /\ Mode(k) = f[k - 1]
<1> DEFINE size == Len(raw)
           T == [k \in 1..size |-> [x \in Modes |-> NextMode(x, raw[k])]]
<1>1. size \in Nat /\ "code" \in Modes
  BY DEF Modes
<1>2. \A k \in 1..size : raw[k] \in Seq(Lexeme)
  OBVIOUS
<1>3. T \in [1..size -> [Modes -> Modes]]
  BY <1>2, NextModeType
<1>4. \A x \in Modes, k \in 1..size : T[k][x] = NextMode(x, raw[k])
  OBVIOUS
<1> HIDE DEF T, size
<1>5. PICK f \in [0..size -> Modes] : f[0] = "code" /\ \A k \in 1..size : f[k] = T[k][f[k - 1]]
  BY <1>1, <1>3, ModeFold, Zenon
<1>6. \A k \in 1..size : f[k] = NextMode(f[k - 1], raw[k])
  <2> TAKE k \in 1..size
  <2>1. k - 1 \in 0..size /\ f[k - 1] \in Modes
    BY <1>1
  <2> QED BY <1>4, <1>5, <2>1
<1>7. ASSUME NEW i \in 1..size PROVE Mode(i) = f[i - 1]
  <2> DEFINE G(g) == [j \in 1..i |->
               IF j = 1 THEN "code" ELSE NextMode(g[j - 1], raw[j - 1])]
             g == [j \in 1..i |-> f[j - 1]]
             h == CHOOSE h : h = G(h)
  <2>1. g = G(g)
    <3>1. ASSUME NEW j \in 1..i, j # 1 PROVE f[j - 1] = NextMode(g[j - 1], raw[j - 1])
      <4>1. j - 1 \in 1..size /\ j - 1 \in 1..i /\ i \in 1..i
        BY <1>1, <3>1
      <4>2. g[j - 1] = f[(j - 1) - 1]
        BY <4>1
      <4> QED BY <1>6, <4>1, <4>2
    <3>2. 1 - 1 = 0
      OBVIOUS
    <3> QED BY <1>5, <3>1, <3>2
  <2>2. h = G(h)
    BY <2>1
  <2>3. Mode(i) = h[i]
    BY DEF Mode, NextMode
  <2> HIDE DEF h
  <2> DEFINE x == [k \in 0..(i - 1) |-> h[k + 1]]
  <2>4. /\ x[0] = "code" /\ x[i - 1] = h[i]
        /\ \A k \in 1..(i - 1) : x[k] = NextMode(x[k - 1], raw[k])
    <3>1. i - 1 \in Nat /\ 0 \in 0..(i - 1) /\ i - 1 \in 0..(i - 1) /\ (i - 1) + 1 = i
          /\ 0 + 1 = 1 /\ 1 \in 1..i
      BY <1>1
    <3>2. h[1] = "code"
      BY <2>2, <3>1
    <3>3. ASSUME NEW k \in 1..(i - 1) PROVE x[k] = NextMode(x[k - 1], raw[k])
      <4>1. /\ k + 1 \in 1..i /\ k + 1 # 1 /\ (k + 1) - 1 = k /\ (k - 1) + 1 = k
            /\ k \in 0..(i - 1) /\ k - 1 \in 0..(i - 1)
        BY <1>1
      <4>2. h[k + 1] = NextMode(h[(k + 1) - 1], raw[(k + 1) - 1])
        BY <2>2, <4>1
      <4> QED BY <4>1, <4>2
    <3> QED BY <3>1, <3>2, <3>3
  <2> HIDE DEF x
  <2>5. x[i - 1] = f[i - 1]
    <3>1. i - 1 \in Nat /\ \A k \in 1..(i - 1) : k \in 1..size
      BY <1>1
    <3>2. x[0] = f[0]
      BY <1>5, <2>4
    <3>3. \A k \in 1..(i - 1) : x[k - 1] = f[k - 1] => x[k] = f[k]
      BY <1>6, <2>4, <3>1
    <3> DEFINE m == i - 1
    <3>4. m \in Nat /\ \A k \in 1..m : x[k - 1] = f[k - 1] => x[k] = f[k]
      BY <3>1, <3>3
    <3> HIDE DEF m
    <3>5. x[m] = f[m]
      BY <3>2, <3>4, FoldUnique, Zenon
    <3> QED BY <3>5 DEF m
  <2> QED BY <2>3, <2>4, <2>5
<1> QED BY <1>5, <1>6, <1>7 DEF size

----------------------------------------------------------------------------
(* A file: what was elided, against what C++ reads.                        *)

LEMMA LineCommented ==
  ASSUME NEW r, NEW q \in BOOLEAN, LineDone(Star, FALSE, r, q), ~Warned(Elide(r))
  PROVE  CodeOf(Elide(r)) = <<>> /\ q = FALSE /\ Blank(CleanseComments(r))
<1>1. /\ r \in Seq(Lexeme) /\ Clear("code", r) /\ ~FindsRaw(r)
      /\ Read("code", r).code = <<>> /\ (q = TRUE => "code" = "raw")
  BY StarReads DEF LineDone, StartMode
<1>2. ~Shown("code", r)
  <2>1. ~Quoted("code", r)
    BY StarReads DEF LineDone, StartMode
  <2> QED BY <1>1, <2>1 DEF Shown
<1> QED BY <1>1, <1>2, Elided, BlankShown

LEMMA LineRead ==
  ASSUME NEW line \in Seq(Lexeme), NEW p \in BOOLEAN, NEW r, NEW q \in BOOLEAN,
         LineDone(line, p, r, q), Clear(StartMode(p), line), ~Warned(Elide(r))
  PROVE  /\ CodeOf(Elide(r)) = Read(StartMode(p), line).code
         /\ NextMode(StartMode(p), line) = StartMode(q)
         /\ ~Blank(CleanseComments(r)) <=> p = TRUE \/ Shown(StartMode(p), line)
<1>1. /\ r \in Seq(Lexeme) /\ Clear("code", r) /\ ~FindsRaw(r)
      /\ Read("code", r).code = Read(StartMode(p), line).code
      /\ Quoted("code", r) <=> p = TRUE \/ Quoted(StartMode(p), line)
  BY DEF LineDone
<1>2. Read("code", r).mode \in {"code", "line"} /\ CodeOf(Elide(r)) = Read("code", r).code
  BY <1>1, Elided
<1>3. NextMode(StartMode(p), line) = StartMode(q)
  <2>1. CASE q = TRUE
    BY <1>1, <1>2, <2>1 DEF LineDone, NextMode, StartMode
  <2>2. CASE q = FALSE
    BY <1>1, <1>2, <2>2 DEF LineDone, NextMode, StartMode
  <2> QED BY <2>1, <2>2
<1>4. ~Blank(CleanseComments(r)) <=> p = TRUE \/ Shown(StartMode(p), line)
  BY <1>1, BlankShown DEF Shown
<1> QED BY <1>1, <1>2, <1>3, <1>4

\* A line has code by this reading, whether a string goes on there or not.
LEMMA HasCodeIs ==
  ASSUME NEW i
  PROVE  HasCode(i) <=> Mode(i) \in {"string", "raw"} \/ Shown(Mode(i), raw[i])
BY DEF HasCode, Shown, Quoted, At


\* What CleanseRawStrings() has made of the file, now: p tells of each line whether it begins
\* in a raw string.
Flags(file) == [1..(Len(file) + 1) -> BOOLEAN]
RawDone(file, now, p) ==
  /\ p[1] = FALSE
  /\ \A i \in 1..Len(file) : LineDone(Plain(file)[i], p[i], now[i], p[i + 1])

\* As C++ reads it: the code that is left of a line, and whether any is.
AsRead(i, now) ==
  /\ CodeOf(Elide(now)) = Read(Mode(i), raw[i]).code
  /\ ~Blank(CleanseComments(now)) <=> HasCode(i)

LEMMA FileRead ==
  ASSUME raw \in Seq(Seq(Lexeme)), NEW p \in Flags(raw), NEW r, RawDone(raw, r, p),
         NEW size \in 0..Len(raw),
         \A i \in 1..size : ~Warned(Elide(r[i])),
         Understood
  PROVE  \A i \in 1..size : AsRead(i, r[i])
<1>1. PICK f \in [0..Len(raw) -> Modes] :
        /\ f[0] = "code"
        /\ \A k \in 1..Len(raw) : f[k] = NextMode(f[k - 1], raw[k]) /\ Mode(k) = f[k - 1]
  BY ModesRead
<1> DEFINE So(i) == IF Inside(raw, i) THEN f[i - 1] = "comment" /\ p[i] = FALSE
                    ELSE f[i - 1] = StartMode(p[i])
           S == {k \in Nat : k < size => So(k + 1)}
<1>2. /\ size \in Nat /\ DOMAIN raw = 1..Len(raw) /\ Len(raw) \in Nat /\ size <= Len(raw)
      /\ \A i \in 1..size : i \in 1..Len(raw)
  OBVIOUS
<1>3. ASSUME NEW i \in 1..size, So(i) PROVE AsRead(i, r[i]) /\ So(i + 1)
  <2>1. /\ raw[i] \in Seq(Lexeme) /\ p[i] \in BOOLEAN /\ p[i + 1] \in BOOLEAN /\ (i + 1) - 1 = i
        /\ i \in Nat \ {0} /\ Mode(i) = f[i - 1] /\ f[i] = NextMode(Mode(i), raw[i])
        /\ Mode(i) \in Modes
    <3>1. i \in 1..(Len(raw) + 1) /\ i + 1 \in 1..(Len(raw) + 1) /\ i - 1 \in 0..Len(raw)
      BY <1>2
    <3>2. raw[i] \in Seq(Lexeme) /\ (i + 1) - 1 = i /\ i \in Nat \ {0}
      BY <1>2
    <3>3. p[i] \in BOOLEAN /\ p[i + 1] \in BOOLEAN
      BY <3>1 DEF Flags
    <3>4. Mode(i) = f[i - 1] /\ f[i] = NextMode(Mode(i), raw[i])
      BY <1>1
    <3>5. f[i - 1] \in Modes
      BY <3>1
    <3> QED BY <3>2, <3>3, <3>4, <3>5
  <2>2. /\ LineDone(Plain(raw)[i], p[i], r[i], p[i + 1]) /\ ~Warned(Elide(r[i]))
        /\ Plain(raw)[i] = IF Commented(raw, i) THEN Star ELSE raw[i]
    BY <1>2 DEF Plain, RawDone
  <2>3. /\ Mode(i) = "comment" =>
             \A k \in DOMAIN raw[i] : Read("comment", Upto(raw[i], k - 1)).mode = "comment"
        /\ Mode(i) = "raw" => ~BeginsComment(raw[i])
        /\ Mode(i) # "comment" /\ ~BeginsComment(raw[i]) => Clear(Mode(i), raw[i])
    BY <1>2 DEF Understood, At
  <2>4. Inside(raw, i + 1) <=> Commented(raw, i) /\ ~EndsComment(raw[i])
    BY <2>1, InsideNext
  <2>5. StartMode(FALSE) = "code" /\ StartMode(TRUE) = "raw"
    BY DEF StartMode
  <2>6. CASE Inside(raw, i)
    <3>1. Mode(i) = "comment" /\ p[i] = FALSE
      BY <1>3, <2>1, <2>6
    <3>2. CodeOf(Elide(r[i])) = <<>> /\ p[i + 1] = FALSE /\ Blank(CleanseComments(r[i]))
      BY <2>1, <2>2, <2>6, <3>1, LineCommented DEF Commented
    <3>3. /\ Read("comment", raw[i]).code = <<>> /\ ~Quoted("comment", raw[i])
          /\ Read("comment", raw[i]).mode = IF EndsComment(raw[i]) THEN "code" ELSE "comment"
      BY <2>1, <2>3, <3>1, InsideRead
    <3>4. ~HasCode(i)
      BY <3>1, <3>3, HasCodeIs DEF Shown
    <3>5. CASE EndsComment(raw[i])
      <4>1. f[i] = "code" /\ ~Inside(raw, i + 1)
        BY <2>1, <2>4, <3>1, <3>3, <3>5 DEF NextMode
      <4> QED BY <2>1, <2>5, <3>1, <3>2, <3>3, <3>4, <4>1 DEF AsRead
    <3>6. CASE ~EndsComment(raw[i])
      <4>1. f[i] = "comment" /\ Inside(raw, i + 1)
        BY <2>1, <2>4, <2>6, <3>1, <3>3, <3>6 DEF NextMode, Commented
      <4> QED BY <2>1, <3>1, <3>2, <3>3, <3>4, <4>1 DEF AsRead
    <3> QED BY <3>5, <3>6
  <2>7. CASE ~Inside(raw, i) /\ BeginsComment(raw[i])
    <3>1. Mode(i) = "code" /\ p[i] = FALSE
      BY <1>3, <2>1, <2>3, <2>5, <2>7
    <3>2. CodeOf(Elide(r[i])) = <<>> /\ p[i + 1] = FALSE /\ Blank(CleanseComments(r[i]))
      BY <2>1, <2>2, <2>7, <3>1, LineCommented DEF Commented
    <3>3. /\ Read("code", raw[i]).mode = "comment" /\ Read("code", raw[i]).code = <<>>
          /\ ~Quoted("code", raw[i]) /\ ~EndsComment(raw[i])
      BY <2>1, <2>7, BeginsRead
    <3>4. f[i] = "comment" /\ Inside(raw, i + 1)
      BY <2>1, <2>4, <2>7, <3>1, <3>3 DEF NextMode, Commented
    <3>5. ~HasCode(i)
      BY <3>1, <3>3, HasCodeIs DEF Shown
    <3> QED BY <2>1, <3>1, <3>2, <3>3, <3>4, <3>5 DEF AsRead
  <2>8. CASE ~Inside(raw, i) /\ ~BeginsComment(raw[i])
    <3>1. Mode(i) = StartMode(p[i]) /\ Plain(raw)[i] = raw[i] /\ ~Inside(raw, i + 1)
      BY <1>3, <2>1, <2>2, <2>4, <2>8 DEF Commented
    <3>2. StartMode(p[i]) # "comment"
      BY <2>1, <2>5
    <3>3. Clear(StartMode(p[i]), raw[i])
      BY <2>3, <2>8, <3>1, <3>2
    <3>4. LineDone(raw[i], p[i], r[i], p[i + 1])
      BY <2>2, <3>1
    <3>5. /\ CodeOf(Elide(r[i])) = Read(StartMode(p[i]), raw[i]).code
          /\ NextMode(StartMode(p[i]), raw[i]) = StartMode(p[i + 1])
          /\ ~Blank(CleanseComments(r[i])) <=> p[i] = TRUE \/ Shown(StartMode(p[i]), raw[i])
      <4> DEFINE a == p[i]
                 b == p[i + 1]
                 now == r[i]
                 line == raw[i]
      <4>1. /\ line \in Seq(Lexeme) /\ a \in BOOLEAN /\ b \in BOOLEAN /\ LineDone(line, a, now, b)
            /\ Clear(StartMode(a), line) /\ ~Warned(Elide(now))
        BY <2>1, <2>2, <3>3, <3>4
      <4> HIDE DEF a, b, now, line
      <4>2. /\ CodeOf(Elide(now)) = Read(StartMode(a), line).code
            /\ NextMode(StartMode(a), line) = StartMode(b)
            /\ ~Blank(CleanseComments(now)) <=> a = TRUE \/ Shown(StartMode(a), line)
        BY <4>1, LineRead
      <4> QED BY <4>2 DEF a, b, now, line
    <3>6. ~Blank(CleanseComments(r[i])) <=> HasCode(i)
      <4>1. Mode(i) \in {"string", "raw"} <=> p[i] = TRUE
        BY <2>1, <2>5, <3>1
      <4> QED BY <3>1, <3>5, <4>1, HasCodeIs
    <3> QED BY <2>1, <3>1, <3>5, <3>6 DEF AsRead
  <2> QED BY <2>6, <2>7, <2>8
<1>4. 0 \in S
  <2>1. So(1)
    BY <1>1, InsideNext DEF StartMode, RawDone
  <2> QED BY <2>1
<1>5. ASSUME NEW k \in Nat, k \in S PROVE k + 1 \in S
  <2>1. k + 1 < size => k + 1 \in 1..size /\ k < size
    BY <1>2
  <2> HIDE DEF So
  <2>2. k + 1 < size => So(k + 1) /\ So((k + 1) + 1)
    BY <1>3, <1>5, <2>1
  <2> QED BY <2>2
<1>6. \A k \in Nat : k \in S
  <2> HIDE DEF S
  <2> QED BY <1>4, <1>5, SetInduction
<1>7. ASSUME NEW i \in 1..size PROVE AsRead(i, r[i])
  <2>1. i - 1 \in Nat /\ i - 1 < size /\ (i - 1) + 1 = i
    BY <1>2
  <2>2. So(i)
    BY <1>6, <2>1
  <2> QED BY <1>3, <2>2
<1> QED BY <1>7

----------------------------------------------------------------------------
(* The types.                                                              *)

\* A line is checked for its strings after its lengths, so n is a line then.
TypeInv == TypeOK /\ (phase = "strings" => n <= Len(raw))

LEMMA LinesTyped ==
  ASSUME TypeOK
  PROVE  /\ Len(raw) \in Nat /\ n \in Nat /\ DOMAIN lines = 1..Len(raw)
         /\ Begins \subseteq 1..Len(raw) /\ Ends \subseteq 1..Len(raw)
         /\ Begins # {} => Min(Begins) \in 1..Len(raw)
         /\ Ends # {} => Min(Ends) \in 1..Len(raw)
         /\ \A i \in 1..Len(raw) : lines[i] \in Seq(Lexeme)
<1>1. /\ Len(raw) \in Nat /\ n \in Nat /\ n >= 1 /\ DOMAIN lines = 1..Len(raw)
      /\ \A i \in 1..Len(raw) : lines[i] \in Seq(Lexeme)
  BY DEF TypeOK
<1>2. Begins \subseteq 1..Len(raw) /\ Ends \subseteq 1..Len(raw)
  BY <1>1 DEF TypeOK, Begins, Ends
<1> HIDE DEF Begins, Ends
<1>3. Begins \in SUBSET Nat /\ Ends \in SUBSET Nat
  BY <1>1, <1>2
<1>4. Begins # {} => Min(Begins) \in Begins
  BY <1>3, MinIs
<1>5. Ends # {} => Min(Ends) \in Ends
  BY <1>3, MinIs
<1> QED BY <1>1, <1>2, <1>4, <1>5

LEMMA LevelType ==
  ASSUME NEW count
  PROVE  Level(count) \in 0..5
<1> DEFINE S == {k \in 0..5 : k = 0 \/ Base * 2^k <= count}
           T == {x \in 0..5 : 5 - x \in S}
<1>1. 0 \in S /\ S \subseteq 0..5
  OBVIOUS
<1> HIDE DEF S
<1>2. T \in SUBSET Nat /\ 5 \in T
  BY <1>1
<1>3. PICK x \in T : \A y \in T : x <= y
  BY <1>2, LeastNumber
<1>4. 5 - x \in S /\ \A k \in S : 5 - x >= k
  <2>1. \A k \in S : 5 - k \in T
    BY <1>1
  <2>2. \A k \in S : k \in 0..5 /\ x <= 5 - k
    BY <1>1, <1>3, <2>1
  <2> QED BY <1>3, <2>2
<1>5. Max(S) \in S
  BY <1>4 DEF Max
<1> QED BY <1>1, <1>5 DEF Level, S

LEMMA Five == 5 \in 0..5
OBVIOUS

LEMMA ErrorsAre ==
  ASSUME NEW kind \in {"comment", "string", "no body", "long"},
         NEW i \in 1..Len(raw)
  PROVE  (\A level \in 0..5 : <<kind, i, level>> \in Errors) /\ <<kind, i, 5>> \in Errors
<1>1. \A level \in 0..5 : <<kind, i, level>> \in Errors
  BY DEF Errors
<1> QED BY <1>1, Five

LEMMA TypeInvInit ==
  Init => TypeInv
<1> SUFFICES ASSUME Init PROVE TypeInv
  OBVIOUS
<1>1. raw \in Seq(Seq(Lexeme)) /\ lines = raw
  BY FilesAssumption DEF Init
<1>2. /\ Len(raw) \in Nat /\ 1 \in 1..(Len(raw) + 1) /\ 0 \in 0..Len(raw)
      /\ <<>> \in Seq(Seq(Lexeme)) /\ 0 \in Nat
  BY <1>1
<1>3. /\ phase = "comments" /\ n = 1 /\ elided = <<>> /\ pending = FALSE /\ begun = 0
      /\ function = [inside |-> FALSE, lines |-> 0, test |-> FALSE] /\ reports = {}
  BY DEF Init
<1> QED BY <1>1, <1>2, <1>3 DEF TypeInv, TypeOK

LEMMA TypeInvNext ==
  TypeInv /\ [Next]_vars => TypeInv'
<1> SUFFICES ASSUME TypeInv, [Next]_vars PROVE TypeInv'
  OBVIOUS
<1> USE DEF TypeInv
<1>1. TypeOK
  OBVIOUS
<1>2. /\ Len(raw) \in Nat /\ n \in Nat /\ DOMAIN lines = 1..Len(raw)
      /\ Begins # {} => Min(Begins) \in 1..Len(raw)
      /\ Ends # {} => Min(Ends) \in 1..Len(raw)
      /\ \A i \in 1..Len(raw) : lines[i] \in Seq(Lexeme)
  BY <1>1, LinesTyped
<1>3. Star \in Seq(Lexeme) /\ Str \in Seq(Lexeme)
  BY StarReads, EmptyLine
<1>4. \A r \in Seq(Lexeme) :
        InRaw => /\ [lines EXCEPT ![n] = r] \in Seq(Seq(Lexeme))
                 /\ Len([lines EXCEPT ![n] = r]) = Len(raw)
  BY <1>1 DEF InRaw, TypeOK
<1>5. raw' = raw /\ Errors' = Errors
  <2>1. raw' = raw
    BY DEF Next, vars, RemovesComment, LeavesComments, EndsRaw, IsInRaw, TakesRaw, PassesLine,
           LeavesRaw, Cleanses, BeginsFunction, PassesDeclaration, FindsNoBody, EndsFunction,
           CountsLine, ChecksStrings, CompletesFile, NextCheck
  <2> QED BY <2>1 DEF Errors
<1>6. Checking => n \in 1..Len(raw) /\ n <= Len(raw)
  BY <1>1, <1>2 DEF Checking, TypeOK
<1>7. \A f \in [1..Len(raw) -> Seq(Lexeme)] : f \in Seq(Seq(Lexeme)) /\ Len(f) = Len(raw)
  BY <1>2
<1>8. InRaw => n + 1 \in 1..(Len(raw) + 1)
  BY <1>1, <1>2 DEF InRaw, TypeOK
<1>9. CASE RemovesComment
  <2> DEFINE c == Cleared(Min(Begins), Min(Ends))
  <2>1. c \in Seq(Seq(Lexeme)) /\ Len(c) = Len(raw)
    <3>1. c \in [1..Len(raw) -> Seq(Lexeme)]
      BY <1>2, <1>3 DEF Cleared, Star
    <3> HIDE DEF c
    <3> QED BY <1>2, <3>1
  <2>2. lines' = c /\ n' \in 1..(Len(raw) + 1)
    BY <1>2, <1>9 DEF RemovesComment
  <2> HIDE DEF c
  <2> QED BY <1>1, <1>5, <1>9, <2>1, <2>2 DEF RemovesComment, TypeOK
<1>10. CASE LeavesComments
  <2>1. n' \in 1..(Len(raw) + 1) /\ phase' = "raw"
    BY <1>2, <1>10 DEF LeavesComments
  <2>2. reports' \subseteq Errors
    <3>1. CASE Begins = {}
      BY <1>1, <1>10, <3>1 DEF LeavesComments, TypeOK
    <3>2. CASE Begins # {}
      <4>1. reports' = {<<"unended", Min(Begins) + 1, 5>>}
        BY <1>10, <3>2 DEF LeavesComments
      <4>2. <<"unended", Min(Begins) + 1, 5>> \in Errors
        <5>1. Min(Begins) + 1 \in 2..(Len(raw) + 1)
          BY <1>2, <3>2
        <5> HIDE DEF Begins
        <5> QED BY <5>1 DEF Errors
      <4> QED BY <4>1, <4>2
    <3> QED BY <3>1, <3>2
  <2> QED BY <1>1, <1>5, <1>10, <2>1, <2>2 DEF LeavesComments, TypeOK
<1>11. CASE EndsRaw
  <2> DEFINE r == Indent(Line) \o Str \o From(Line, First(Line, "raw)") + 1)
  <2>1. Line \in Seq(Lexeme) /\ Has(Line, "raw)") /\ "raw)" \in Lexeme
    BY <1>1, <1>2, <1>11 DEF EndsRaw, InRaw, Line, TypeOK, Lexeme, Quotes
  <2>2. From(Line, First(Line, "raw)") + 1) \in Seq(Lexeme) /\ Indent(Line) \in Seq(Lexeme)
    BY <2>1, Split, StrReads
  <2>3. r \in Seq(Lexeme)
    <3>1. Indent(Line) \o Str \in Seq(Lexeme)
      BY <1>3, <2>2, UptoConcat
    <3> QED BY <2>2, <3>1, UptoConcat
  <2>4. lines' = [lines EXCEPT ![n] = r]
    BY <1>11 DEF EndsRaw, Line
  <2> HIDE DEF r
  <2>5. lines' \in Seq(Seq(Lexeme)) /\ Len(lines') = Len(raw)
    <3>1. InRaw
      BY <1>11 DEF EndsRaw
    <3> QED BY <1>4, <2>3, <2>4, <3>1
  <2> QED BY <1>1, <1>5, <1>11, <2>5 DEF EndsRaw, TypeOK, InRaw
<1>12. CASE IsInRaw
  <2>1. lines' \in Seq(Seq(Lexeme)) /\ Len(lines') = Len(raw)
    BY <1>3, <1>4, <1>12 DEF IsInRaw
  <2>2. n' \in 1..(Len(raw) + 1)
    BY <1>1, <1>12 DEF IsInRaw, InRaw, TypeOK
  <2> QED BY <1>1, <1>5, <1>12, <2>1, <2>2 DEF IsInRaw, TypeOK, InRaw
<1>13. CASE TakesRaw
  <2> DEFINE start == First(Line, "raw(")
             rest == From(Line, start + 1)
             taken == Upto(Line, start - 1) \o Str
             all == taken \o From(rest, First(rest, "raw)") + 1)
  <2>1. Line \in Seq(Lexeme) /\ Has(Line, "raw(") /\ "raw(" \in Lexeme /\ "raw)" \in Lexeme
    BY <1>1, <1>2, <1>13 DEF TakesRaw, FindsRaw, InRaw, Line, TypeOK, Lexeme, Quotes
  <2>2. Upto(Line, start - 1) \in Seq(Lexeme) /\ rest \in Seq(Lexeme)
    BY <2>1, Split
  <2>3. /\ Has(rest, "raw)") => lines' = [lines EXCEPT ![n] = all] /\ n' = n
        /\ ~Has(rest, "raw)") => lines' = [lines EXCEPT ![n] = taken] /\ n' = n + 1
        /\ pending' \in BOOLEAN
    BY <1>1, <1>13 DEF TakesRaw, Line, TypeOK
  <2> HIDE DEF start, rest
  <2>4. taken \in Seq(Lexeme)
    BY <1>3, <2>2, UptoConcat
  <2> HIDE DEF taken
  <2>5. Has(rest, "raw)") => all \in Seq(Lexeme)
    <3>1. Has(rest, "raw)") => From(rest, First(rest, "raw)") + 1) \in Seq(Lexeme)
      BY <2>1, <2>2, Split
    <3> QED BY <2>4, <3>1, UptoConcat
  <2> HIDE DEF all
  <2>6. InRaw /\ n + 1 \in 1..(Len(raw) + 1)
    BY <1>1, <1>13 DEF TakesRaw, InRaw, TypeOK
  <2>7. lines' \in Seq(Seq(Lexeme)) /\ Len(lines') = Len(raw) /\ n' \in 1..(Len(raw) + 1)
    BY <1>1, <1>4, <2>3, <2>4, <2>5, <2>6 DEF TypeOK
  <2> QED BY <1>1, <1>5, <1>13, <2>3, <2>6, <2>7 DEF TakesRaw, TypeOK, InRaw
<1>14. CASE PassesLine
  BY <1>1, <1>14, <1>5, <1>8 DEF PassesLine, InRaw, TypeOK
<1>15. CASE LeavesRaw
  BY <1>1, <1>15, <1>5 DEF LeavesRaw, TypeOK
<1>16. CASE Cleanses
  <2> DEFINE c == [i \in DOMAIN lines |-> CleanseComments(lines[i])]
             e == [i \in DOMAIN lines |-> Elide(lines[i])]
  <2>1. c \in [1..Len(raw) -> Seq(Lexeme)] /\ e \in [1..Len(raw) -> Seq(Lexeme)]
    BY <1>2, CutType
  <2>2. lines' = c /\ elided' = e
    BY <1>16 DEF Cleanses
  <2> HIDE DEF c, e
  <2>3. c \in Seq(Seq(Lexeme)) /\ e \in Seq(Seq(Lexeme)) /\ Len(c) = Len(raw)
    BY <1>7, <2>1
  <2> QED BY <1>1, <1>5, <1>16, <2>2, <2>3 DEF Cleanses, TypeOK
<1>17. CASE BeginsFunction
  <2>1. begun' \in 0..Len(raw) /\ n <= Len(raw)
    BY <1>17, <1>6 DEF BeginsFunction
  <2>2. function' \in [inside : BOOLEAN, lines : Nat, test : BOOLEAN]
    BY <1>17 DEF BeginsFunction
  <2> QED BY <1>1, <1>5, <1>17, <2>1, <2>2 DEF BeginsFunction, NextCheck, TypeOK
<1>18. CASE PassesDeclaration
  BY <1>1, <1>18, <1>5, <1>6 DEF PassesDeclaration, NextCheck, TypeOK
<1>19. CASE FindsNoBody
  <2>1. n \in 1..Len(raw)
    BY <1>19, <1>6 DEF FindsNoBody
  <2>2. reports' \subseteq Errors
    <3>1. reports' = reports \cup {<<"no body", n, 5>>}
      BY <1>19 DEF FindsNoBody, Report
    <3>2. <<"no body", n, 5>> \in Errors
      BY <2>1, ErrorsAre
    <3> QED BY <1>1, <3>1, <3>2 DEF TypeOK
  <2>3. phase' = "strings" /\ UNCHANGED <<n, lines, pending, elided, function, begun>>
    BY <1>19 DEF FindsNoBody, NextCheck
  <2> QED BY <1>1, <1>5, <2>1, <2>2, <2>3 DEF TypeOK
<1>20. CASE EndsFunction
  <2>1. n \in 1..Len(raw)
    BY <1>20, <1>6 DEF EndsFunction
  <2>2. Level(function.lines) \in 0..5
    BY LevelType
  <2> HIDE DEF Level
  <2>3. reports' \subseteq Errors
    <3>1. \/ reports' = reports \cup {<<"long", n, Level(function.lines)>>}
          \/ reports' = reports
      BY <1>20 DEF EndsFunction, Report
    <3>2. <<"long", n, Level(function.lines)>> \in Errors
      BY <2>1, <2>2, ErrorsAre
    <3> QED BY <1>1, <3>1, <3>2 DEF TypeOK
  <2>4. function' \in [inside : BOOLEAN, lines : Nat, test : BOOLEAN]
    BY <1>1, <1>20 DEF EndsFunction, TypeOK
  <2>5. phase' = "strings" /\ UNCHANGED <<n, lines, pending, elided, begun>>
    BY <1>20 DEF EndsFunction, NextCheck
  <2> QED BY <1>1, <1>5, <2>1, <2>3, <2>4, <2>5 DEF TypeOK
<1>21. CASE CountsLine
  <2>1. n \in 1..Len(raw)
    BY <1>21, <1>6 DEF CountsLine
  <2>2. function' \in [inside : BOOLEAN, lines : Nat, test : BOOLEAN]
    <3>1. function' = [function EXCEPT !.lines = @ + 1] \/ function' = function
      BY <1>21 DEF CountsLine
    <3>2. function \in [inside : BOOLEAN, lines : Nat, test : BOOLEAN]
      BY <1>1 DEF TypeOK
    <3>3. function.lines + 1 \in Nat
      BY <3>2
    <3> QED BY <3>1, <3>2, <3>3
  <2>3. phase' = "strings" /\ UNCHANGED <<n, lines, pending, elided, begun, reports>>
    BY <1>21 DEF CountsLine, NextCheck
  <2> QED BY <1>1, <1>5, <2>1, <2>2, <2>3 DEF TypeOK
<1>22. CASE ChecksStrings
  <2>1. n \in 1..Len(raw) /\ n + 1 \in 1..(Len(raw) + 1)
    BY <1>1, <1>22 DEF ChecksStrings, TypeOK
  <2>2. reports' \subseteq Errors
    <3>1. reports' \subseteq reports \cup {<<"comment", n, 5>>, <<"string", n, 5>>}
      BY <1>22 DEF ChecksStrings
    <3>2. <<"comment", n, 5>> \in Errors /\ <<"string", n, 5>> \in Errors
      BY <2>1, ErrorsAre
    <3> QED BY <1>1, <3>1, <3>2 DEF TypeOK
  <2> QED BY <1>1, <1>5, <1>22, <2>1, <2>2 DEF ChecksStrings, TypeOK
<1>23. CASE CompletesFile
  BY <1>1, <1>23, <1>5 DEF CompletesFile, TypeOK
<1>24. CASE UNCHANGED vars
  BY <1>1, <1>24, <1>5 DEF vars, TypeOK
<1> QED BY <1>9, <1>10, <1>11, <1>12, <1>13, <1>14, <1>15, <1>16, <1>17, <1>18, <1>19, <1>20, <1>21,
           <1>22, <1>23, <1>24 DEF Next

\* The variables of Cleanse have their types: the file, the lines that the passes make of
\* it, the counts and the errors, each at a line of the file but for a comment without
\* an end, which is reported one line after its first and so may be past the file.
THEOREM TypeCorrect == Spec => []TypeOK
<1>1. TypeInv => TypeOK
  BY DEF TypeInv
<1> QED BY <1>1, TypeInvInit, TypeInvNext, PTL DEF Spec

----------------------------------------------------------------------------
(* The file, from pass to pass.                                            *)

\* CleanseRawStrings() at line k, where a raw string is open if q.
RawSo(file, now, k, q, p) ==
  /\ p[1] = FALSE
  /\ \A i \in 1..(k - 1) : LineDone(Plain(file)[i], p[i], now[i], p[i + 1])
  /\ \A i \in (k + 1)..Len(file) : now[i] = Plain(file)[i]
  /\ k <= Len(file) => LineSo(Plain(file)[k], p[k], now[k], q)

CommentsInv ==
  phase = "comments" =>
    /\ pending = FALSE /\ ~Inside(raw, n)
    /\ \A i \in 1..Len(raw) : lines[i] = IF i < n /\ Commented(raw, i) THEN Star ELSE raw[i]
RawInv ==
  phase = "raw" /\ NoWarning => \E p \in Flags(raw) : RawSo(raw, lines, n, pending, p)
CleanseInv ==
  phase = "cleanse" => n = 1 /\ (NoWarning => \E p \in Flags(raw) : RawDone(raw, lines, p))
ElidedInv ==
  phase \in {"lengths", "strings", "end"} =>
    /\ NoWarning => \E p \in Flags(raw), r \in Seq(Seq(Lexeme)) :
                      /\ RawDone(raw, r, p)
                      /\ \A i \in 1..Len(raw) : /\ elided[i] = Elide(r[i])
                                                 /\ lines[i] = CleanseComments(r[i])
    /\ NoWarning => \A i \in 1..(n - 1) : ~Warned(elided[i])
    /\ phase = "end" => n > Len(raw)
FileInv == TypeInv /\ CommentsInv /\ RawInv /\ CleanseInv /\ ElidedInv

LEMMA PlainType ==
  ASSUME NEW file \in Seq(Seq(Lexeme)), NEW i \in 1..Len(file)
  PROVE  Plain(file)[i] \in Seq(Lexeme)
         /\ Plain(file)[i] = IF Commented(file, i) THEN Star ELSE file[i]
BY StarReads DEF Plain

LEMMA RawLine ==
  ASSUME NEW file \in Seq(Seq(Lexeme)), NEW now \in Seq(Seq(Lexeme)), Len(now) = Len(file),
         NEW k \in 1..Len(file), NEW q, NEW p \in Flags(file), RawSo(file, now, k, q, p),
         NEW r, NEW q2, LineSo(Plain(file)[k], p[k], r, q2)
  PROVE  RawSo(file, [now EXCEPT ![k] = r], k, q2, p)
<1> DEFINE next == [now EXCEPT ![k] = r]
<1>1. DOMAIN now = 1..Len(file) /\ Len(file) \in Nat
  OBVIOUS
<1>2. next[k] = r /\ \A i \in 1..Len(file) : i # k => next[i] = now[i]
  BY <1>1
<1>3. /\ \A i \in 1..(k - 1) : i \in 1..Len(file) /\ i # k
      /\ \A i \in (k + 1)..Len(file) : i \in 1..Len(file) /\ i # k
  BY <1>1
<1> HIDE DEF next
<1>4. RawSo(file, next, k, q2, p)
  BY <1>2, <1>3 DEF RawSo
<1> QED BY <1>4 DEF next

LEMMA RawLineDone ==
  ASSUME NEW file \in Seq(Seq(Lexeme)), NEW now \in Seq(Seq(Lexeme)), Len(now) = Len(file),
         NEW k \in 1..Len(file), NEW q, NEW p \in Flags(file), RawSo(file, now, k, q, p),
         NEW r, NEW q2 \in BOOLEAN, LineDone(Plain(file)[k], p[k], r, q2)
  PROVE  \E p2 \in Flags(file) : RawSo(file, [now EXCEPT ![k] = r], k + 1, q2, p2)
<1> DEFINE next == [now EXCEPT ![k] = r]
           p2 == [p EXCEPT ![k + 1] = q2]
<1>1. DOMAIN now = 1..Len(file) /\ Len(file) \in Nat /\ k + 1 \in 1..(Len(file) + 1)
  OBVIOUS
<1>2. next[k] = r /\ \A i \in 1..Len(file) : i # k => next[i] = now[i]
  BY <1>1
<1>3. /\ p2 \in Flags(file) /\ p2[k + 1] = q2
      /\ \A i \in 1..(Len(file) + 1) : i # k + 1 => p2[i] = p[i]
  BY <1>1 DEF Flags
<1> HIDE DEF next, p2
<1>4. p2[1] = FALSE
  <2>1. 1 \in 1..(Len(file) + 1) /\ 1 # k + 1
    BY <1>1
  <2>2. p2[1] = p[1]
    BY <1>3, <2>1
  <2> QED BY <2>2 DEF RawSo
<1>5. ASSUME NEW i \in 1..((k + 1) - 1)
      PROVE  LineDone(Plain(file)[i], p2[i], next[i], p2[i + 1])
  <2>1. CASE i = k
    <3>1. p2[k] = p[k]
      BY <1>1, <1>3
    <3> QED BY <1>2, <1>3, <2>1, <3>1
  <2>2. CASE i # k
    <3>1. i \in 1..(k - 1) /\ i \in 1..(Len(file) + 1) /\ i + 1 \in 1..(Len(file) + 1)
          /\ i # k + 1 /\ i + 1 # k + 1 /\ i \in 1..Len(file)
      BY <1>1, <2>2
    <3>2. p2[i] = p[i] /\ p2[i + 1] = p[i + 1] /\ next[i] = now[i]
      BY <1>2, <1>3, <2>2, <3>1
    <3>3. LineDone(Plain(file)[i], p[i], now[i], p[i + 1])
      BY <3>1 DEF RawSo
    <3> QED BY <3>2, <3>3
  <2> QED BY <2>1, <2>2
<1>6. ASSUME NEW i \in (k + 1)..Len(file) PROVE next[i] = Plain(file)[i]
  <2>1. i \in 1..Len(file) /\ i # k
    BY <1>1
  <2> QED BY <1>2, <2>1 DEF RawSo
<1>7. ASSUME k + 1 <= Len(file) PROVE LineSo(Plain(file)[k + 1], p2[k + 1], next[k + 1], q2)
  <2>1. k + 1 \in 1..Len(file) /\ k + 1 \in (k + 1)..Len(file)
    BY <1>1, <1>7
  <2>2. next[k + 1] = Plain(file)[k + 1] /\ Plain(file)[k + 1] \in Seq(Lexeme)
    BY <1>6, <2>1, PlainType
  <2> QED BY <1>3, <2>2, LineStarts
<1>8. \A i \in ((k + 1) + 1)..Len(file) : i \in (k + 1)..Len(file)
  BY <1>1
<1>9. RawSo(file, next, k + 1, q2, p2)
  BY <1>4, <1>5, <1>6, <1>7, <1>8 DEF RawSo
<1> QED BY <1>3, <1>9 DEF next

LEMMA FileInvInit ==
  Init => FileInv
<1> SUFFICES ASSUME Init PROVE FileInv
  OBVIOUS
<1>1. TypeInv
  BY TypeInvInit
<1>2. /\ phase = "comments" /\ n = 1 /\ lines = raw /\ pending = FALSE
  BY DEF Init
<1>3. ~Inside(raw, n)
  BY <1>2 DEF Inside
<1>4. \A i \in 1..Len(raw) : ~(i < n)
  BY <1>1, <1>2 DEF TypeInv, TypeOK
<1> QED BY <1>1, <1>2, <1>3, <1>4 DEF FileInv, CommentsInv, RawInv, CleanseInv, ElidedInv

LEMMA RemovesNext ==
  ASSUME TypeOK, CommentsInv, RemovesComment
  PROVE  CommentsInv'
<1> DEFINE b == Min(Begins)
           e == Min(Ends)
<1>1. /\ Len(raw) \in Nat /\ n \in Nat \ {0} /\ DOMAIN lines = 1..Len(raw)
      /\ Begins \in SUBSET Nat /\ Ends \in SUBSET Nat
  <2>1. /\ Len(raw) \in Nat /\ n \in Nat /\ DOMAIN lines = 1..Len(raw)
        /\ Begins \subseteq 1..Len(raw) /\ Ends \subseteq 1..Len(raw)
    BY LinesTyped
  <2>2. n # 0
    BY DEF TypeOK
  <2> HIDE DEF Begins, Ends
  <2> QED BY <2>1, <2>2
<1>2. /\ ~Inside(raw, n) /\ pending = FALSE
      /\ \A i \in 1..Len(raw) : lines[i] = IF i < n /\ Commented(raw, i) THEN Star ELSE raw[i]
  BY DEF CommentsInv, RemovesComment
<1>3. b \in Begins /\ (\A x \in Begins : b <= x) /\ e \in Ends /\ \A x \in Ends : e <= x
  <2> HIDE DEF Begins, Ends
  <2> QED BY <1>1, MinIs DEF RemovesComment
<1> HIDE DEF b, e
<1>4. b \in n..Len(raw) /\ BeginsComment(lines[b]) /\ \A i \in n..(b - 1) : ~BeginsComment(lines[i])
  <2>1. Len(lines) = Len(raw)
    BY DEF TypeOK
  <2>2. b \in n..Len(raw) /\ BeginsComment(lines[b])
    BY <1>3, <2>1 DEF Begins
  <2>3. \A i \in n..(b - 1) : i \in n..Len(lines) /\ ~(b <= i)
    BY <1>1, <2>1, <2>2
  <2>4. \A i \in n..(b - 1) : ~BeginsComment(lines[i])
    BY <1>3, <2>3 DEF Begins
  <2> QED BY <2>2, <2>4
<1>5. e \in b..Len(raw) /\ EndsComment(lines[e]) /\ \A k \in b..(e - 1) : ~EndsComment(lines[k])
  <2>1. e \in 1..Len(raw) /\ EndsComment(lines[e]) /\ \E j \in Begins : j <= e
    BY <1>1, <1>3 DEF Ends
  <2>2. b <= e
    <3>1. PICK j \in Begins : j <= e
      BY <2>1
    <3>2. j \in Nat /\ b <= j /\ b \in Nat
      BY <1>1, <1>3
    <3> QED BY <2>1, <3>1, <3>2
  <2>3. ASSUME NEW k \in b..(e - 1) PROVE ~EndsComment(lines[k])
    <3>1. k \in DOMAIN lines /\ b <= k /\ ~(e <= k)
      BY <1>1, <1>4, <2>1
    <3>2. k \notin Ends
      BY <1>3, <3>1
    <3> QED BY <1>3, <3>1, <3>2 DEF Ends
  <2>4. e \in b..Len(raw)
    BY <1>4, <2>1, <2>2
  <2> QED BY <2>1, <2>3, <2>4
<1>6. \A i \in n..Len(raw) : lines[i] = raw[i] /\ i \in 1..Len(raw)
  BY <1>1, <1>2
<1>7. /\ BeginsComment(raw[b]) /\ EndsComment(raw[e])
      /\ \A i \in n..(b - 1) : ~BeginsComment(raw[i])
      /\ \A k \in b..(e - 1) : ~EndsComment(raw[k])
  <2>1. /\ \A i \in n..(b - 1) : i \in n..Len(raw)
        /\ \A k \in b..(e - 1) : k \in n..Len(raw)
        /\ b \in n..Len(raw) /\ e \in n..Len(raw)
    BY <1>1, <1>4, <1>5
  <2> QED BY <1>4, <1>5, <1>6, <2>1
<1>8. b \in Nat \ {0} /\ e \in Nat \ {0} /\ n <= b /\ b <= e
  BY <1>1, <1>4, <1>5
<1>9. \A i \in n..(b - 1) : ~Commented(raw, i)
  <2> TAKE i \in n..(b - 1)
  <2>1. i \in Nat /\ n <= i /\ \A k \in n..(i - 1) : k \in n..(b - 1)
    BY <1>1, <1>8
  <2>2. ~Inside(raw, i)
    BY <1>1, <1>2, <1>7, <2>1, OutsideStays
  <2> QED BY <1>7, <2>2 DEF Commented
<1>10. \A i \in b..e : Commented(raw, i)
  <2> TAKE i \in b..e
  <2>1. CASE i = b
    BY <1>7, <2>1 DEF Commented
  <2>2. CASE i # b
    <3>1. i \in Nat /\ b < i /\ b \in Nat \ {0} /\ \A k \in b..(i - 1) : k \in b..(e - 1)
      BY <1>8, <2>2
    <3>2. Inside(raw, i)
      BY <1>7, <3>1, InsideUpTo
    <3> QED BY <3>2 DEF Commented
  <2> QED BY <2>1, <2>2
<1>11. ~Inside(raw, e + 1)
  <2>1. e \in Nat \ {0}
    BY <1>1, <1>4, <1>5
  <2> QED BY <1>7, <2>1, InsideNext
<1>12. /\ n' = e + 1 /\ raw' = raw /\ pending' = pending
       /\ lines' = [i \in DOMAIN lines |-> IF i \in b..e THEN Star ELSE lines[i]]
  BY DEF RemovesComment, Cleared, Star, b, e
<1>13. ASSUME NEW i \in 1..Len(raw)
       PROVE  lines'[i] = IF i < e + 1 /\ Commented(raw, i) THEN Star ELSE raw[i]
  <2>1. lines'[i] = IF i \in b..e THEN Star ELSE lines[i]
    BY <1>1, <1>12
  <2>2. CASE i < n
    <3>1. i \notin b..e /\ i < e + 1
      BY <1>1, <1>4, <1>5, <2>2
    <3> QED BY <1>2, <2>1, <2>2, <3>1
  <2>3. CASE i \in n..(b - 1)
    <3>1. i \notin b..e /\ i \in n..Len(raw)
      BY <1>1, <1>4, <1>5, <2>3
    <3> QED BY <1>6, <1>9, <2>1, <2>3, <3>1
  <2>4. CASE i \in b..e
    <3>1. i < e + 1
      BY <1>1, <1>4, <1>5, <2>4
    <3> QED BY <1>10, <2>1, <2>4, <3>1
  <2>5. CASE i > e
    <3>1. i \notin b..e /\ ~(i < e + 1) /\ i \in n..Len(raw)
      BY <1>1, <1>4, <1>5, <2>5
    <3> QED BY <1>6, <2>1, <3>1
  <2>6. i < n \/ i \in n..(b - 1) \/ i \in b..e \/ i > e
    BY <1>1, <1>4, <1>5
  <2> QED BY <2>2, <2>3, <2>4, <2>5, <2>6
<1> QED BY <1>2, <1>11, <1>12, <1>13 DEF CommentsInv

LEMMA LeavesNext ==
  ASSUME TypeOK, CommentsInv, LeavesComments
  PROVE  RawInv'
<1>1. /\ Len(raw) \in Nat /\ n \in Nat \ {0} /\ Len(lines) = Len(raw) /\ DOMAIN lines = 1..Len(raw)
  BY DEF TypeOK
<1>2. /\ ~Inside(raw, n) /\ pending = FALSE
      /\ \A i \in 1..Len(raw) : lines[i] = IF i < n /\ Commented(raw, i) THEN Star ELSE raw[i]
  BY DEF CommentsInv, LeavesComments
<1>3. /\ raw' = raw /\ lines' = lines /\ n' = 1 /\ pending' = pending /\ phase' = "raw"
      /\ reports' = IF Begins = {} THEN reports ELSE {<<"unended", Min(Begins) + 1, 5>>}
  BY DEF LeavesComments
<1> SUFFICES ASSUME NoWarning' PROVE \E p \in Flags(raw) : RawSo(raw, lines, 1, pending, p)
  BY <1>3 DEF RawInv
<1>4. Begins = {}
  <2> SUFFICES ASSUME Begins # {} PROVE FALSE
    OBVIOUS
  <2> DEFINE x == <<"unended", Min(Begins) + 1, 5>>
  <2>1. reports' = {x} /\ x[1] = "unended"
    BY <1>3
  <2> HIDE DEF x
  <2> QED BY <2>1 DEF NoWarning
<1>5. \A i \in n..Len(raw) : ~BeginsComment(raw[i]) /\ lines[i] = raw[i] /\ i \in 1..Len(raw)
  BY <1>1, <1>2, <1>4 DEF Begins
<1>6. \A i \in 1..Len(raw) : lines[i] = Plain(raw)[i]
  <2> TAKE i \in 1..Len(raw)
  <2>1. Plain(raw)[i] = IF Commented(raw, i) THEN Star ELSE raw[i]
    BY DEF Plain
  <2>2. CASE i < n
    BY <1>2, <2>1, <2>2
  <2>3. CASE ~(i < n)
    <3>1. i \in n..Len(raw) /\ n <= i /\ i \in Nat /\ \A k \in n..(i - 1) : k \in n..Len(raw)
      BY <1>1, <2>3
    <3>2. ~Inside(raw, i)
      BY <1>1, <1>2, <1>5, <3>1, OutsideStays
    <3>3. ~Commented(raw, i)
      BY <1>5, <3>1, <3>2 DEF Commented
    <3> QED BY <1>5, <2>1, <3>1, <3>3
  <2> QED BY <2>2, <2>3
<1> DEFINE p == [i \in 1..(Len(raw) + 1) |-> FALSE]
<1>7. p \in Flags(raw) /\ \A i \in 1..(Len(raw) + 1) : p[i] = FALSE
  BY DEF Flags
<1> HIDE DEF p
<1>8. p[1] = FALSE
  BY <1>1, <1>7
<1>9. 1 <= Len(raw) => LineSo(Plain(raw)[1], p[1], lines[1], FALSE)
  <2> SUFFICES ASSUME 1 <= Len(raw) PROVE LineSo(Plain(raw)[1], p[1], lines[1], FALSE)
    OBVIOUS
  <2>1. 1 \in 1..Len(raw) /\ raw \in Seq(Seq(Lexeme))
    BY <1>1 DEF TypeOK
  <2>2. Plain(raw)[1] \in Seq(Lexeme) /\ lines[1] = Plain(raw)[1]
    BY <1>6, <2>1, PlainType
  <2> QED BY <1>8, <2>2, LineStarts
<1>10. /\ \A i \in 1..(1 - 1) : FALSE
       /\ \A i \in (1 + 1)..Len(raw) : i \in 1..Len(raw)
  BY <1>1
<1>11. RawSo(raw, lines, 1, FALSE, p)
  BY <1>6, <1>8, <1>9, <1>10 DEF RawSo
<1> QED BY <1>2, <1>7, <1>11

LEMMA RawStep ==
  ASSUME TypeOK, RawInv, InRaw, EndsRaw \/ IsInRaw \/ TakesRaw \/ PassesLine
  PROVE  RawInv'
<1>1. /\ raw \in Seq(Seq(Lexeme)) /\ lines \in Seq(Seq(Lexeme)) /\ Len(lines) = Len(raw)
      /\ n \in 1..Len(raw) /\ pending \in BOOLEAN /\ phase = "raw" /\ Len(raw) \in Nat
  BY DEF TypeOK, InRaw
<1>2. raw' = raw /\ reports' = reports
  BY DEF EndsRaw, IsInRaw, TakesRaw, PassesLine
<1> SUFFICES ASSUME NoWarning'
             PROVE  \E p \in Flags(raw) : RawSo(raw, lines', n', pending', p)
  BY <1>2 DEF RawInv
<1>3. PICK p \in Flags(raw) : RawSo(raw, lines, n, pending, p)
  BY <1>1, <1>2 DEF RawInv, NoWarning
<1> DEFINE c == Plain(raw)[n]
<1>4. c \in Seq(Lexeme) /\ p[n] \in BOOLEAN /\ Line \in Seq(Lexeme)
  <2>1. c \in Seq(Lexeme)
    BY <1>1, PlainType
  <2>2. n \in 1..(Len(raw) + 1)
    BY <1>1
  <2>3. p[n] \in BOOLEAN
    BY <2>2 DEF Flags
  <2>4. Line \in Seq(Lexeme)
    BY <1>1 DEF Line
  <2> QED BY <2>1, <2>3, <2>4
<1>5. LineSo(c, p[n], Line, pending)
  BY <1>1, <1>3 DEF RawSo, Line
<1> HIDE DEF c
<1>6. \A r, q : LineSo(c, p[n], r, q) => RawSo(raw, [lines EXCEPT ![n] = r], n, q, p)
  BY <1>1, <1>3, RawLine DEF c
<1>7. \A r, q : q \in BOOLEAN /\ LineDone(c, p[n], r, q) =>
        \E p2 \in Flags(raw) : RawSo(raw, [lines EXCEPT ![n] = r], n + 1, q, p2)
  BY <1>1, <1>3, RawLineDone DEF c
<1>8. CASE EndsRaw
  <2> DEFINE r == Indent(Line) \o Str \o From(Line, First(Line, "raw)") + 1)
  <2>1. /\ pending = TRUE /\ Has(Line, "raw)") /\ n' = n /\ pending' = FALSE
        /\ lines' = [lines EXCEPT ![n] = r]
    BY <1>1, <1>8 DEF EndsRaw, Line
  <2>2. LineSo(c, p[n], Line, TRUE)
    BY <1>5, <2>1
  <2>3. LineSo(c, p[n], r, FALSE)
    BY <1>4, <2>1, <2>2, LineEndsRaw
  <2> HIDE DEF r
  <2> QED BY <1>3, <1>6, <2>1, <2>3
<1>9. CASE IsInRaw
  <2>1. /\ pending = TRUE /\ ~Has(Line, "raw)") /\ n' = n + 1 /\ pending' = pending
        /\ lines' = [lines EXCEPT ![n] = Str]
    BY <1>1, <1>9 DEF IsInRaw
  <2>2. LineSo(c, p[n], Line, TRUE)
    BY <1>5, <2>1
  <2>3. LineDone(c, p[n], Str, TRUE)
    BY <1>4, <2>1, <2>2, LineInRaw
  <2> QED BY <1>7, <2>1, <2>3
<1>10. CASE TakesRaw
  <2> DEFINE start == First(Line, "raw(")
             rest == From(Line, start + 1)
             taken == Upto(Line, start - 1) \o Str
             all == taken \o From(rest, First(rest, "raw)") + 1)
  <2>1. pending = FALSE /\ FindsRaw(Line)
    BY <1>1, <1>10 DEF TakesRaw
  <2>2. /\ Has(rest, "raw)") => /\ lines' = [lines EXCEPT ![n] = all]
                                /\ n' = n /\ pending' = pending
        /\ ~Has(rest, "raw)") => /\ lines' = [lines EXCEPT ![n] = taken]
                                 /\ n' = n + 1 /\ pending' = TRUE
    BY <1>10 DEF TakesRaw, Line
  <2>3. LineSo(c, p[n], Line, FALSE)
    BY <1>5, <2>1
  <2>4. /\ Has(rest, "raw)") => LineSo(c, p[n], all, FALSE)
        /\ ~Has(rest, "raw)") => LineDone(c, p[n], taken, TRUE)
    BY <1>4, <2>1, <2>3, LineTaken
  <2> HIDE DEF rest, taken, all
  <2>5. CASE Has(rest, "raw)")
    <3>1. RawSo(raw, [lines EXCEPT ![n] = all], n, FALSE, p)
      BY <1>6, <2>4, <2>5
    <3>2. lines' = [lines EXCEPT ![n] = all] /\ n' = n /\ pending' = FALSE
      BY <2>1, <2>2, <2>5
    <3> QED BY <3>1, <3>2
  <2>6. CASE ~Has(rest, "raw)")
    <3>1. \E p2 \in Flags(raw) : RawSo(raw, [lines EXCEPT ![n] = taken], n + 1, TRUE, p2)
      BY <1>7, <2>4, <2>6
    <3>2. lines' = [lines EXCEPT ![n] = taken] /\ n' = n + 1 /\ pending' = TRUE
      BY <2>2, <2>6
    <3> QED BY <3>1, <3>2
  <2> QED BY <2>5, <2>6
<1>11. CASE PassesLine
  <2>1. pending = FALSE /\ ~FindsRaw(Line) /\ n' = n + 1 /\ pending' = FALSE /\ lines' = lines
    BY <1>1, <1>11 DEF PassesLine
  <2>2. LineDone(c, p[n], Line, FALSE)
    BY <1>4, <1>5, <2>1, LinePasses
  <2>3. [lines EXCEPT ![n] = Line] = lines
    BY <1>1 DEF Line
  <2>4. \E p2 \in Flags(raw) : RawSo(raw, [lines EXCEPT ![n] = Line], n + 1, FALSE, p2)
    BY <1>7, <2>2
  <2>5. \E p2 \in Flags(raw) : RawSo(raw, lines, n + 1, FALSE, p2)
    BY <2>3, <2>4
  <2> QED BY <2>1, <2>5
<1> QED BY <1>8, <1>9, <1>10, <1>11

LEMMA CleanseStep ==
  ASSUME TypeOK, RawInv, CleanseInv, LeavesRaw \/ Cleanses
  PROVE  CleanseInv' /\ ElidedInv'
<1>1. /\ raw \in Seq(Seq(Lexeme)) /\ lines \in Seq(Seq(Lexeme)) /\ Len(lines) = Len(raw)
      /\ n \in 1..(Len(raw) + 1) /\ Len(raw) \in Nat
  BY DEF TypeOK
<1>2. raw' = raw /\ reports' = reports
  BY DEF LeavesRaw, Cleanses
<1>3. NoWarning' <=> NoWarning
  BY <1>2 DEF NoWarning
<1>4. CASE LeavesRaw
  <2>1. phase = "raw" /\ n = Len(raw) + 1 /\ phase' = "cleanse" /\ n' = 1 /\ lines' = lines
    BY <1>1, <1>4 DEF LeavesRaw
  <2>2. ASSUME NoWarning PROVE \E p \in Flags(raw) : RawDone(raw, lines, p)
    <3>1. PICK p \in Flags(raw) : RawSo(raw, lines, n, pending, p)
      BY <2>1, <2>2 DEF RawInv
    <3>2. n - 1 = Len(raw)
      BY <1>1, <2>1
    <3>3. RawDone(raw, lines, p)
      BY <3>1, <3>2 DEF RawSo, RawDone
    <3> QED BY <3>3
  <2> QED BY <1>2, <1>3, <2>1, <2>2 DEF CleanseInv, ElidedInv
<1>5. CASE Cleanses
  <2>1. /\ phase = "cleanse" /\ phase' = "lengths" /\ n' = n
        /\ lines' = [i \in DOMAIN lines |-> CleanseComments(lines[i])]
        /\ elided' = [i \in DOMAIN lines |-> Elide(lines[i])]
    BY <1>5 DEF Cleanses
  <2>2. n = 1 /\ (NoWarning => \E p \in Flags(raw) : RawDone(raw, lines, p))
    BY <2>1 DEF CleanseInv
  <2>3. DOMAIN lines = 1..Len(raw)
    BY <1>1
  <2>4. \A i \in 1..Len(raw) : /\ elided'[i] = Elide(lines[i])
                               /\ lines'[i] = CleanseComments(lines[i])
    BY <2>1, <2>3
  <2>5. NoWarning => \E p \in Flags(raw), r \in Seq(Seq(Lexeme)) :
                       /\ RawDone(raw, r, p)
                       /\ \A i \in 1..Len(raw) : /\ elided'[i] = Elide(r[i])
                                                  /\ lines'[i] = CleanseComments(r[i])
    BY <1>1, <2>2, <2>4
  <2>6. \A i \in 1..(1 - 1) : FALSE
    OBVIOUS
  <2>7. ElidedInv'
    BY <1>2, <1>3, <2>1, <2>2, <2>5, <2>6 DEF ElidedInv
  <2>8. CleanseInv'
    BY <2>1 DEF CleanseInv
  <2> QED BY <2>7, <2>8
<1> QED BY <1>4, <1>5

\* The errors are only added to, and the lines without strings stay.
LEMMA ChecksStep ==
  ASSUME TypeInv, ElidedInv,
         \/ BeginsFunction \/ PassesDeclaration \/ FindsNoBody \/ EndsFunction \/ CountsLine
         \/ ChecksStrings \/ CompletesFile
  PROVE  ElidedInv'
<1>1. /\ phase \in {"lengths", "strings"} /\ raw' = raw /\ elided' = elided /\ lines' = lines
      /\ reports \subseteq reports'
  BY DEF BeginsFunction, PassesDeclaration, FindsNoBody, EndsFunction, CountsLine,
         ChecksStrings, CompletesFile, Checking, NextCheck, Report
<1>2. NoWarning' => NoWarning
  BY <1>1 DEF NoWarning
<1>3. n \in Nat /\ Len(lines) = Len(raw)
  BY LinesTyped DEF TypeInv, TypeOK
<1>4. \/ n' = n /\ (phase' = "end" => n > Len(raw))
      \/ /\ n' = n + 1 /\ phase' = "lengths"
         /\ Warned(elided[n]) => <<"comment", n, 5>> \in reports' \/ <<"string", n, 5>> \in reports'
  <2>1. CASE ChecksStrings
    BY <2>1 DEF ChecksStrings, Warned
  <2>2. CASE CompletesFile
    BY <1>3, <2>2 DEF CompletesFile
  <2>3. CASE BeginsFunction \/ PassesDeclaration \/ FindsNoBody \/ EndsFunction \/ CountsLine
    <3>1. n' = n /\ phase' = "strings"
      BY <2>3 DEF BeginsFunction, PassesDeclaration, FindsNoBody, EndsFunction, CountsLine,
                  NextCheck
    <3> QED BY <3>1
  <2> QED BY <2>1, <2>2, <2>3
<1>5. /\ NoWarning => \E p \in Flags(raw), r \in Seq(Seq(Lexeme)) :
                        /\ RawDone(raw, r, p)
                        /\ \A i \in 1..Len(raw) : /\ elided[i] = Elide(r[i])
                                                   /\ lines[i] = CleanseComments(r[i])
      /\ NoWarning => \A i \in 1..(n - 1) : ~Warned(elided[i])
  BY <1>1 DEF ElidedInv
<1>6. ASSUME NoWarning' PROVE \A i \in 1..(n' - 1) : ~Warned(elided[i])
  <2>1. CASE n' = n
    BY <1>2, <1>5, <1>6, <2>1
  <2>2. CASE /\ n' = n + 1
             /\ Warned(elided[n]) => <<"comment", n, 5>> \in reports' \/ <<"string", n, 5>> \in reports'
    <3> DEFINE x == <<"comment", n, 5>>
               y == <<"string", n, 5>>
    <3>1. /\ x[1] = "comment" /\ y[1] = "string"
          /\ Warned(elided[n]) => x \in reports' \/ y \in reports'
      BY <2>2
    <3> HIDE DEF x, y
    <3>2. ~Warned(elided[n])
      BY <1>6, <3>1 DEF NoWarning
    <3>3. \A i \in 1..(n' - 1) : i \in 1..(n - 1) \/ i = n
      BY <1>3, <2>2
    <3> QED BY <1>2, <1>5, <1>6, <3>2, <3>3
  <2> QED BY <1>4, <2>1, <2>2
<1>7. phase' = "end" => n' > Len(raw)
  BY <1>4
<1> QED BY <1>1, <1>2, <1>5, <1>6, <1>7 DEF ElidedInv

LEMMA FileInvNext ==
  FileInv /\ [Next]_vars => FileInv'
<1> SUFFICES ASSUME FileInv, [Next]_vars PROVE FileInv'
  OBVIOUS
<1>1. TypeOK /\ TypeInv /\ TypeInv' /\ CommentsInv /\ RawInv /\ CleanseInv /\ ElidedInv
  BY TypeInvNext DEF FileInv, TypeInv
<1>2. CASE RemovesComment
  <2>1. CommentsInv' /\ phase' = "comments"
    BY <1>1, <1>2, RemovesNext DEF RemovesComment
  <2> QED BY <1>1, <2>1 DEF FileInv, RawInv, CleanseInv, ElidedInv
<1>3. CASE LeavesComments
  <2>1. RawInv' /\ phase' = "raw"
    BY <1>1, <1>3, LeavesNext DEF LeavesComments
  <2> QED BY <1>1, <2>1 DEF FileInv, CommentsInv, CleanseInv, ElidedInv
<1>4. CASE EndsRaw \/ IsInRaw \/ TakesRaw \/ PassesLine
  <2>1. InRaw
    BY <1>4 DEF EndsRaw, IsInRaw, TakesRaw, PassesLine
  <2>2. RawInv'
    BY <1>1, <1>4, <2>1, RawStep
  <2>3. phase' = "raw"
    BY <1>4, <2>1 DEF EndsRaw, IsInRaw, TakesRaw, PassesLine, InRaw
  <2> QED BY <1>1, <2>2, <2>3 DEF FileInv, CommentsInv, CleanseInv, ElidedInv
<1>5. CASE LeavesRaw \/ Cleanses
  <2>1. CleanseInv' /\ ElidedInv'
    BY <1>1, <1>5, CleanseStep
  <2>2. phase' \in {"cleanse", "lengths"}
    BY <1>5 DEF LeavesRaw, Cleanses
  <2> QED BY <1>1, <2>1, <2>2 DEF FileInv, CommentsInv, RawInv
<1>6. CASE \/ BeginsFunction \/ PassesDeclaration \/ FindsNoBody \/ EndsFunction \/ CountsLine
           \/ ChecksStrings \/ CompletesFile
  <2>1. ElidedInv'
    BY <1>1, <1>6, ChecksStep
  <2>2. phase' \in {"lengths", "strings", "end"}
    BY <1>6 DEF BeginsFunction, PassesDeclaration, FindsNoBody, EndsFunction, CountsLine,
                ChecksStrings, CompletesFile, NextCheck
  <2> QED BY <1>1, <2>1, <2>2 DEF FileInv, CommentsInv, RawInv, CleanseInv
<1>7. CASE UNCHANGED vars
  BY <1>1, <1>7 DEF vars, FileInv, CommentsInv, RawInv, CleanseInv, ElidedInv, NoWarning
<1> QED BY <1>2, <1>3, <1>4, <1>5, <1>6, <1>7 DEF Next

\* Of the lines that are checked, what C++ reads is what is left of them.
LEMMA CheckedRead ==
  ASSUME FileInv, phase \in {"lengths", "strings", "end"}, NoWarning, Understood
  PROVE  \A i \in 1..(n - 1) : /\ CodeOf(elided[i]) = Read(Mode(i), raw[i]).code
                               /\ Counted(lines[i]) <=> HasCode(i)
<1>1. raw \in Seq(Seq(Lexeme)) /\ n - 1 \in 0..Len(raw) /\ Len(raw) \in Nat
  <2>1. TypeOK
    BY DEF FileInv, TypeInv
  <2> QED BY <2>1 DEF TypeOK
<1>2. PICK p \in Flags(raw), r \in Seq(Seq(Lexeme)) :
        /\ RawDone(raw, r, p)
        /\ \A i \in 1..Len(raw) : /\ elided[i] = Elide(r[i])
                                   /\ lines[i] = CleanseComments(r[i])
  BY DEF FileInv, ElidedInv
<1>3. \A i \in 1..(n - 1) : i \in 1..Len(raw)
  BY <1>1
<1>4. \A i \in 1..(n - 1) : ~Warned(Elide(r[i]))
  <2>1. \A i \in 1..(n - 1) : ~Warned(elided[i])
    BY DEF FileInv, ElidedInv
  <2> QED BY <1>2, <1>3, <2>1
<1>5. PICK size \in 0..Len(raw) : size = n - 1 /\ \A i \in 1..size : ~Warned(Elide(r[i]))
  BY <1>1, <1>4
<1>6. \A i \in 1..size : AsRead(i, r[i])
  BY <1>1, <1>2, <1>5, FileRead
<1> QED BY <1>2, <1>3, <1>5, <1>6 DEF AsRead, Counted

LEMMA ReadInv ==
  FileInv => NothingMisread
<1> SUFFICES ASSUME FileInv, phase = "end", NoWarning, Understood
             PROVE  \A i \in DOMAIN raw : CodeOf(elided[i]) = Read(Mode(i), raw[i]).code
  BY DEF NothingMisread
<1>1. raw \in Seq(Seq(Lexeme)) /\ n \in Nat /\ n > Len(raw) /\ Len(raw) \in Nat
  <2>1. TypeOK /\ n > Len(raw)
    BY DEF FileInv, TypeInv, ElidedInv
  <2> QED BY <2>1 DEF TypeOK
<1>2. \A i \in DOMAIN raw : i \in 1..(n - 1)
  BY <1>1
<1> QED BY <1>2, CheckedRead

\* In a file that is reported to have no comment of several lines that does not end and no
\* string of several lines, and that is Understood, cpplint.py takes for the code of each line
\* exactly what C++ does, however long the file, whatever its comments, strings and raw strings.
THEOREM MisreadCorrect == Spec => []NothingMisread
BY FileInvInit, FileInvNext, ReadInv, PTL DEF Spec

----------------------------------------------------------------------------
(* CheckForFunctionLengths(): the lines of a function.                     *)

\* The confidence of a report is at least the one of any trigger that the lines reach.
LEMMA LevelIs ==
  ASSUME NEW count, NEW k \in 0..5, Base * 2^k <= count
  PROVE  k <= Level(count)
<1> DEFINE S == {x \in 0..5 : x = 0 \/ Base * 2^x <= count}
           T == {x \in 0..5 : 5 - x \in S}
<1>1. 0 \in S /\ S \subseteq 0..5 /\ k \in S
  OBVIOUS
<1> HIDE DEF S
<1>2. T \in SUBSET Nat /\ 5 \in T
  BY <1>1
<1>3. PICK x \in T : \A y \in T : x <= y
  BY <1>2, LeastNumber
<1>4. 5 - x \in S /\ \A y \in S : 5 - x >= y
  <2>1. \A y \in S : 5 - y \in T
    BY <1>1
  <2>2. \A y \in S : y \in 0..5 /\ x <= 5 - y
    BY <1>1, <1>3, <2>1
  <2> QED BY <1>3, <2>2
<1>5. \A y \in S : Max(S) >= y
  BY <1>4 DEF Max
<1>6. Level(count) = Max(S) /\ Level(count) \in 0..5
  BY LevelType DEF Level, S
<1> QED BY <1>1, <1>5, <1>6

\* The lines that CountsLine counts, after line a up to line b.
CountedLines(a, b) ==
  {i \in (a + 1)..b : Counted(lines[i]) /\ ~StartingFunc(lines[i])}

LEMMA CountedNext ==
  ASSUME NEW a \in Nat, NEW b \in Nat, a < b
  PROVE  LET more == Counted(lines[b]) /\ ~StartingFunc(lines[b])
         IN  /\ Cardinality(CountedLines(a, b - 1)) \in Nat
             /\ more => Cardinality(CountedLines(a, b))
                          = Cardinality(CountedLines(a, b - 1)) + 1
             /\ ~more => CountedLines(a, b) = CountedLines(a, b - 1)
             /\ CountedLines(b, b) = {}
<1> DEFINE more == Counted(lines[b]) /\ ~StartingFunc(lines[b])
           C == CountedLines(a, b - 1)
           D == CountedLines(a, b)
<1>1. /\ \A i \in (a + 1)..b : i \in (a + 1)..(b - 1) \/ i = b
      /\ \A i \in (a + 1)..(b - 1) : i \in (a + 1)..b /\ i # b
      /\ b \in (a + 1)..b
      /\ (b + 1)..b = {}
  OBVIOUS
<1>2. D = IF more THEN C \cup {b} ELSE C
  BY <1>1 DEF CountedLines
<1>3. b \notin C /\ CountedLines(b, b) = {}
  BY <1>1 DEF CountedLines
<1>4. IsFiniteSet(C)
  <2>1. C \subseteq (a + 1)..(b - 1)
    BY DEF CountedLines
  <2>2. a + 1 \in Int /\ b - 1 \in Int
    OBVIOUS
  <2> HIDE DEF C
  <2> QED BY <2>1, <2>2, FS_Interval, FS_Subset
<1> HIDE DEF C, D, more
<1>5. Cardinality(C) \in Nat /\ Cardinality(C \cup {b}) = Cardinality(C) + 1
  BY <1>3, <1>4, FS_CardinalityType, FS_AddElement
<1>6. /\ more => Cardinality(D) = Cardinality(C) + 1
      /\ ~more => D = C
  BY <1>2, <1>5
<1> QED BY <1>3, <1>5, <1>6 DEF C, D, more

\* Of the line it is at, the length has been checked when the strings are to be.
Last == IF phase = "strings" THEN n ELSE n - 1
LongUpTo(line) == \A e \in reports : e[1] = "long" => e[2] \in 1..line

\* The function is counted from its beginning on, and an error about its length is at a
\* line that was checked.
LengthInv ==
  /\ phase \in {"comments", "raw", "cleanse"} =>
       ~function.inside /\ \A e \in reports : e[1] # "long"
  /\ phase \in {"lengths", "strings"} =>
       /\ LongUpTo(Last)
       /\ function.inside =>
            begun \in 1..Last /\ function.lines = Cardinality(CountedLines(begun, Last))

LEMMA LengthInvInit ==
  Init => LengthInv
BY DEF Init, LengthInv

\* What a check of lengths leaves of it.
LEMMA LengthStep ==
  ASSUME TypeInv, LengthInv,
         BeginsFunction \/ PassesDeclaration \/ FindsNoBody \/ EndsFunction \/ CountsLine
  PROVE  LengthInv'
<1>1. /\ n \in 1..Len(lines) /\ begun \in Nat /\ Len(lines) \in Nat
      /\ function \in [inside : BOOLEAN, lines : Nat, test : BOOLEAN]
  <2>1. TypeOK /\ Checking
    BY DEF TypeInv, BeginsFunction, PassesDeclaration, FindsNoBody, EndsFunction, CountsLine
  <2> QED BY <2>1 DEF TypeOK, Checking
<1>2. /\ phase = "lengths" /\ phase' = "strings" /\ n' = n /\ lines' = lines
      /\ Last = n - 1 /\ Last' = n
  BY DEF BeginsFunction, PassesDeclaration, FindsNoBody, EndsFunction, CountsLine, Checking,
         NextCheck, Last
<1>3. /\ LongUpTo(n - 1)
      /\ function.inside =>
           begun \in 1..(n - 1) /\ function.lines = Cardinality(CountedLines(begun, n - 1))
  BY <1>2 DEF LengthInv
<1>4. LongUpTo(n)'
  <2>1. \A e \in reports' : e \in reports \/ e[1] # "long" \/ e[2] = n
    <3>1. \/ reports' = reports
          \/ reports' = reports \cup {<<"no body", n, 5>>}
          \/ reports' = reports \cup {<<"long", n, Level(function.lines)>>}
      BY DEF BeginsFunction, PassesDeclaration, FindsNoBody, EndsFunction, CountsLine, Report
    <3> DEFINE x == <<"no body", n, 5>>
               y == <<"long", n, Level(function.lines)>>
    <3>2. x[1] # "long" /\ y[2] = n
      OBVIOUS
    <3> HIDE DEF x, y
    <3>3. reports' \in {reports, reports \cup {x}, reports \cup {y}}
      BY <3>1 DEF x, y
    <3> QED BY <3>2, <3>3
  <2>2. \A e \in reports : e[1] = "long" => e[2] \in 1..(n - 1)
    BY <1>3 DEF LongUpTo
  <2>3. n \in 1..n /\ \A i \in 1..(n - 1) : i \in 1..n
    BY <1>1
  <2>4. \A e \in reports' : e[1] = "long" => e[2] \in 1..n
    BY <2>1, <2>2, <2>3
  <2> QED BY <1>2, <2>4 DEF LongUpTo
<1>5. ASSUME function'.inside
      PROVE  begun' \in 1..n /\ function'.lines = Cardinality(CountedLines(begun', n))
  <2>1. CASE BeginsFunction
    <3>1. begun' = n /\ function'.lines = 0
      BY <2>1 DEF BeginsFunction
    <3>2. CountedLines(n, n) = {}
      <4>1. (n + 1)..n = {}
        BY <1>1
      <4> QED BY <4>1 DEF CountedLines
    <3> QED BY <1>1, <3>1, <3>2, FS_EmptySet
  <2>2. CASE PassesDeclaration \/ FindsNoBody
    <3>1. function' = function /\ begun' = begun /\ StartingFunc(lines[n])
      BY <2>2 DEF PassesDeclaration, FindsNoBody, Line
    <3>2. begun \in 1..(n - 1) /\ function.lines = Cardinality(CountedLines(begun, n - 1))
      BY <1>3, <1>5, <3>1
    <3>3. CountedLines(begun, n) = CountedLines(begun, n - 1)
      BY <1>1, <3>1, <3>2, CountedNext
    <3> QED BY <1>1, <3>1, <3>2, <3>3
  <2>3. CASE EndsFunction
    <3>1. ~function'.inside
      BY <1>1, <2>3 DEF EndsFunction
    <3> QED BY <1>5, <3>1
  <2>4. CASE CountsLine
    <3>1. /\ begun' = begun /\ ~StartingFunc(lines[n])
          /\ function' = IF function.inside /\ Counted(lines[n])
                         THEN [function EXCEPT !.lines = @ + 1] ELSE function
      BY <2>4 DEF CountsLine, Line
    <3>2. function.inside
      BY <1>1, <1>5, <3>1
    <3>3. begun \in 1..(n - 1) /\ function.lines = Cardinality(CountedLines(begun, n - 1))
      BY <1>3, <3>2
    <3>4. begun \in 1..n
      BY <1>1, <3>3
    <3>5. CASE Counted(lines[n])
      <4>1. Cardinality(CountedLines(begun, n)) = Cardinality(CountedLines(begun, n - 1)) + 1
        BY <1>1, <3>1, <3>3, <3>5, CountedNext
      <4>2. function'.lines = function.lines + 1
        BY <1>1, <3>1, <3>2, <3>5
      <4> QED BY <3>1, <3>3, <3>4, <4>1, <4>2
    <3>6. CASE ~Counted(lines[n])
      <4>1. CountedLines(begun, n) = CountedLines(begun, n - 1)
        BY <1>1, <3>3, <3>6, CountedNext
      <4>2. function' = function
        BY <3>1, <3>6
      <4> QED BY <3>1, <3>3, <3>4, <4>1, <4>2
    <3> QED BY <3>5, <3>6
  <2> QED BY <2>1, <2>2, <2>3, <2>4
<1>6. CountedLines(begun', n) = CountedLines(begun, n)'
  BY <1>2 DEF CountedLines
<1> QED BY <1>2, <1>4, <1>5, <1>6 DEF LengthInv

LEMMA LengthInvNext ==
  FileInv /\ LengthInv /\ [Next]_vars => LengthInv'
<1> SUFFICES ASSUME FileInv, LengthInv, [Next]_vars PROVE LengthInv'
  OBVIOUS
<1>1. TypeInv /\ TypeOK /\ n \in Nat /\ CleanseInv
  BY DEF FileInv, TypeInv, TypeOK
<1>2. CASE RemovesComment
  <2>1. /\ phase = "comments" /\ phase' = "comments" /\ function' = function
        /\ reports' = reports
    BY <1>2 DEF RemovesComment
  <2> QED BY <2>1 DEF LengthInv
<1>3. CASE LeavesComments
  <2>1. /\ phase = "comments" /\ phase' = "raw" /\ function' = function
        /\ reports' = reports \/ reports' = {<<"unended", Min(Begins) + 1, 5>>}
    BY <1>3 DEF LeavesComments
  <2>2. \A e \in reports' : e \in reports \/ e[1] # "long"
    BY <2>1
  <2> QED BY <2>1, <2>2 DEF LengthInv
<1>4. CASE EndsRaw \/ IsInRaw \/ TakesRaw \/ PassesLine \/ LeavesRaw
  <2>1. /\ phase = "raw" /\ phase' \in {"raw", "cleanse"} /\ function' = function
        /\ reports' = reports
    BY <1>4 DEF EndsRaw, IsInRaw, TakesRaw, PassesLine, LeavesRaw, InRaw
  <2> QED BY <2>1 DEF LengthInv
<1>5. CASE Cleanses
  <2>1. /\ phase = "cleanse" /\ phase' = "lengths" /\ function' = function
        /\ reports' = reports
    BY <1>5 DEF Cleanses
  <2>2. ~function'.inside /\ \A e \in reports' : e[1] # "long"
    BY <2>1 DEF LengthInv
  <2> QED BY <2>1, <2>2 DEF LengthInv, LongUpTo
<1>6. CASE BeginsFunction \/ PassesDeclaration \/ FindsNoBody \/ EndsFunction \/ CountsLine
  BY <1>1, <1>6, LengthStep
<1>7. CASE ChecksStrings
  <2>1. /\ phase = "strings" /\ phase' = "lengths" /\ function' = function /\ n' = n + 1
        /\ begun' = begun /\ lines' = lines
        /\ reports' \subseteq reports \cup {<<"comment", n, 5>>, <<"string", n, 5>>}
    BY <1>7 DEF ChecksStrings
  <2>2. Last = n /\ Last' = n
    BY <1>1, <2>1 DEF Last
  <2>3. \A e \in reports' : e \in reports \/ e[1] # "long"
    BY <2>1
  <2>4. LongUpTo(Last)'
    BY <2>1, <2>2, <2>3 DEF LengthInv, LongUpTo
  <2>5. CountedLines(begun, Last)' = CountedLines(begun, Last)
    BY <2>1, <2>2 DEF CountedLines
  <2> QED BY <2>1, <2>2, <2>4, <2>5 DEF LengthInv
<1>8. CASE CompletesFile
  BY <1>8 DEF CompletesFile, LengthInv
<1>9. CASE UNCHANGED vars
  <2>1. CountedLines(begun, Last)' = CountedLines(begun, Last) /\ Last' = Last
    BY <1>9 DEF vars, CountedLines, Last
  <2> QED BY <1>9, <2>1 DEF vars, LengthInv, LongUpTo
<1> QED BY <1>2, <1>3, <1>4, <1>5, <1>6, <1>7, <1>8, <1>9 DEF Next

LEMMA LongNext ==
  ASSUME FileInv, LengthInv, [Next]_vars, phase = "lengths", function.inside,
         ~function'.inside, NoWarning, Understood
  PROVE  (\E level \in Verbosity..5 : <<"long", n, level>> \in reports')
           <=> Cardinality(BodyLines) > Trigger
<1>1. /\ function \in [inside : BOOLEAN, lines : Nat, test : BOOLEAN] /\ n \in Nat
      /\ begun \in Nat
  <2>1. TypeOK
    BY DEF FileInv, TypeInv
  <2> QED BY <2>1 DEF TypeOK
<1>2. EndsFunction
  <2>1. function' # function
    OBVIOUS
  <2>2. ~BeginsFunction
    BY DEF BeginsFunction
  <2>3. ~CountsLine
    <3>1. [function EXCEPT !.lines = @ + 1].inside = function.inside
      BY <1>1
    <3> QED BY <3>1 DEF CountsLine
  <2>4. Next
    BY <2>1 DEF vars
  <2> QED BY <2>1, <2>2, <2>3, <2>4 DEF Next, RemovesComment, LeavesComments, EndsRaw, IsInRaw,
         TakesRaw, PassesLine, LeavesRaw, InRaw, Cleanses, PassesDeclaration, FindsNoBody,
         ChecksStrings, CompletesFile
<1>3. /\ begun \in 1..(n - 1) /\ function.lines = Cardinality(CountedLines(begun, n - 1))
      /\ \A e \in reports : e[1] = "long" => e[2] \in 1..(n - 1)
  BY DEF LengthInv, LongUpTo, Last
<1>4. CountedLines(begun, n - 1) = BodyLines
  <2>1. \A i \in (begun + 1)..(n - 1) : i \in 1..(n - 1)
    BY <1>1
  <2>2. \A i \in 1..(n - 1) : Counted(lines[i]) <=> HasCode(i)
    BY CheckedRead
  <2> QED BY <2>1, <2>2 DEF CountedLines, BodyLines
<1>5. function.lines = Cardinality(BodyLines)
  BY <1>3, <1>4
<1>6. ASSUME NEW level PROVE <<"long", n, level>> \notin reports
  <2> DEFINE x == <<"long", n, level>>
  <2>1. x[1] = "long" /\ x[2] = n
    OBVIOUS
  <2> HIDE DEF x
  <2>2. n \notin 1..(n - 1)
    BY <1>1
  <2>3. x \notin reports
    BY <1>3, <2>1, <2>2
  <2> QED BY <2>3 DEF x
<1>7. CASE function.lines > Trigger
  <2>1. reports' = reports \cup {<<"long", n, Level(function.lines)>>}
    BY <1>2, <1>7 DEF EndsFunction, Report
  <2>2. Level(function.lines) \in Verbosity..5
    <3>1. Level(function.lines) \in 0..5 /\ Verbosity \in 0..5
      BY LevelType, VerbosityAssumption
    <3>2. Base * 2^Verbosity <= function.lines
      <4>1. Base \in Nat
        BY TriggerAssumption DEF Base
      <4> QED BY <1>1, <1>7, <3>1, <4>1 DEF Trigger
    <3>3. Verbosity <= Level(function.lines)
      BY <3>1, <3>2, LevelIs
    <3> QED BY <3>1, <3>3
  <2> QED BY <1>5, <1>7, <2>1, <2>2
<1>8. CASE ~(function.lines > Trigger)
  <2>1. reports' = reports
    BY <1>2, <1>8 DEF EndsFunction
  <2> QED BY <1>5, <1>6, <1>8, <2>1
<1> QED BY <1>7, <1>8

\* A function that ends at a } is reported, with a confidence that gets it printed, exactly when
\* more lines than its trigger have code, as C++ reads them, of those after the last line
\* taken for the head of a function with a body that do not themselves begin as a head does
\* at the margin: the lines that _FunctionState counts are those, however the comments,
\* strings and raw strings fall.
THEOREM LongCorrect == Spec => LongReported
<1>1. FileInv /\ LengthInv /\ [Next]_vars =>
        [phase = "lengths" /\ function.inside /\ ~function'.inside /\ NoWarning /\ Understood =>
           ((\E level \in Verbosity..5 : <<"long", n, level>> \in reports')
              <=> Cardinality(BodyLines) > Trigger)]_vars
  BY LongNext
<1> QED BY <1>1, FileInvInit, FileInvNext, LengthInvInit, LengthInvNext, PTL DEF Spec, LongReported
=============================================================================
