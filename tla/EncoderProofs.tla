--------------------------- MODULE EncoderProofs ---------------------------
(* What is proved of Encoder for every set of values and size of a size_t. *)
EXTENDS Encoder, TLAPS

----------------------------------------------------------------------------
(* Steps, and sizes.                                                       *)

\* What is in range is what the machine computes; any other is brought in range.
LEMMA InRange ==
  ASSUME NEW a \in Nat, NEW b \in Nat, b > 0
  PROVE  a % b \in 0..(b - 1) /\ (a < b => a % b = a)
OBVIOUS

\* The parts of a value are parts.
LEMMA PartTypes ==
  ASSUME NEW n \in Node
  PROVE  \A w \in {"version", "term", "header", "body", "tail", "child"} : Part(w, n) \in Step
BY DEF Part, Step

\* What comes before and after its children.
LEMMA BeforeTypes ==
  ASSUME NEW n \in Node
  PROVE  /\ Before(n) \in Seq(Step)
         /\ Before(n) = <<>> => Kind[n] = "array"
<1>1. Kind[n] \in Kinds
  BY ValuesAssumption
<1>2. CASE Kind[n] \in {"scalar", "uint"}
  <2>1. Before(n) = <<Part("term", n)>>
    BY <1>2, Zenon DEF Before
  <2> QED BY <2>1, PartTypes
<1>3. CASE Kind[n] = "string"
  <2>1. Before(n) = <<Part("header", n), Part("body", n)>>
    BY <1>3 DEF Before
  <2> QED BY <2>1, PartTypes
<1>4. CASE Kind[n] = "array"
  <2>1. Before(n) = IF Children[n] = <<>> THEN <<>> ELSE <<Part("header", n)>>
    BY <1>4 DEF Before
  <2> QED BY <1>4, <2>1, PartTypes
<1>5. CASE Kind[n] = "map"
  <2>1. Before(n) = <<Part("header", n)>>
    BY <1>5 DEF Before
  <2> QED BY <2>1, PartTypes
<1> QED BY <1>1, <1>2, <1>3, <1>4, <1>5 DEF Kinds

\* What pack() does for a value is a sequence of steps, and is not empty.
LEMMA StepsTypes ==
  ASSUME NEW n \in Node
  PROVE  Steps(n) \in Seq(Step) /\ Len(Steps(n)) > 0
<1>1. Elements(n) \in Seq(Step)
  <2> DEFINE s == Children[n]
  <2>1. s \in Seq(Node)
    BY ValuesAssumption
  <2>2. Len(s) \in Nat /\ DOMAIN s = 1..Len(s) /\ \A i \in 1..Len(s) : s[i] \in Node
    BY <2>1
  <2> HIDE DEF s
  <2>3. \A i \in 1..Len(s) : Part("child", s[i]) \in Step
    BY <2>2, PartTypes
  <2>4. [i \in 1..Len(s) |-> Part("child", s[i])] \in Seq(Step)
    BY <2>2, <2>3
  <2> QED BY <2>2, <2>4 DEF Elements, s
<1>2. After(n) \in Seq(Step) /\ (Kind[n] = "array" => After(n) # <<>>)
  BY PartTypes DEF After
<1>3. Before(n) \in Seq(Step) /\ (Before(n) # <<>> \/ After(n) # <<>>)
  BY <1>2, BeforeTypes
<1>4. Before(n) \o Elements(n) \o After(n) \in Seq(Step)
  BY <1>1, <1>2, <1>3
<1>5. Len(Before(n) \o Elements(n) \o After(n))
        = Len(Before(n)) + Len(Elements(n)) + Len(After(n))
  BY <1>1, <1>2, <1>3
<1>6. Len(Before(n)) > 0 \/ Len(After(n)) > 0
  BY <1>2, <1>3
<1> QED BY <1>1, <1>2, <1>3, <1>4, <1>5, <1>6 DEF Steps

----------------------------------------------------------------------------
(* Type correctness.  The parts that are written are parts because every call *)
(* in progress is at one of its steps.                                       *)

AtAStep == \A i \in DOMAIN calls : calls[i].next \in 1..Len(Steps(calls[i].node))

PackInv == TypeOK /\ AtAStep

\* The innermost call, and what it goes on to do.
LEMMA TopTypes ==
  ASSUME PackInv, calls # <<>>
  PROVE  /\ Top \in Frame /\ Tail(calls) \in Seq(Frame)
         /\ Top.next \in 1..Len(Steps(Top.node))
         /\ Steps(Top.node)[Top.next] \in Step
<1>1. Top = calls[1] /\ 1 \in DOMAIN calls /\ Top \in Frame /\ Tail(calls) \in Seq(Frame)
  BY DEF Top, PackInv, TypeOK
<1>2. Top.next \in 1..Len(Steps(Top.node))
  BY <1>1 DEF PackInv, AtAStep
<1>3. Steps(Top.node) \in Seq(Step)
  BY <1>1, StepsTypes DEF Frame
<1> QED BY <1>1, <1>2, <1>3

\* A call put in front of others that are at a step is one of them.
LEMMA PushKeeps ==
  ASSUME NEW f \in Frame, f.next \in 1..Len(Steps(f.node)), NEW s \in Seq(Frame),
         \A i \in DOMAIN s : s[i].next \in 1..Len(Steps(s[i].node))
  PROVE  /\ <<f>> \o s \in Seq(Frame)
         /\ \A i \in DOMAIN (<<f>> \o s) :
              (<<f>> \o s)[i].next \in 1..Len(Steps((<<f>> \o s)[i].node))
<1> DEFINE r == <<f>> \o s
<1>1. r \in Seq(Frame) /\ Len(r) = Len(s) + 1
  OBVIOUS
<1>2. \A i \in DOMAIN r : r[i] = IF i = 1 THEN f ELSE s[i - 1]
  OBVIOUS
<1>3. \A i \in DOMAIN r : i # 1 => i - 1 \in DOMAIN s
  BY <1>1
<1> HIDE DEF r
<1>4. \A i \in DOMAIN r : r[i].next \in 1..Len(Steps(r[i].node))
  BY <1>2, <1>3
<1> QED BY <1>1, <1>4 DEF r

\* The callers of the innermost call are at a step too.
LEMMA TailKeeps ==
  ASSUME PackInv, calls # <<>>
  PROVE  \A i \in DOMAIN Tail(calls) :
           Tail(calls)[i].next \in 1..Len(Steps(Tail(calls)[i].node))
<1>1. \A i \in DOMAIN Tail(calls) : i + 1 \in DOMAIN calls /\ Tail(calls)[i] = calls[i + 1]
  BY DEF PackInv, TypeOK
<1> QED BY <1>1 DEF PackInv, AtAStep

\* Continuing takes the innermost call to its next step, or ends it.
LEMMA ContinuesKeeps ==
  ASSUME PackInv, calls # <<>>, Continues
  PROVE  calls' \in Seq(Frame) /\ returning' \in BOOLEAN /\ AtAStep'
<1>1. CASE calls' = Tail(calls) /\ returning' = TRUE
  BY <1>1, TopTypes, TailKeeps DEF AtAStep
<1>2. CASE ~IsLast /\ calls' = <<[Top EXCEPT !.next = @ + 1]>> \o Tail(calls)
           /\ returning' = FALSE
  <2> DEFINE f == [Top EXCEPT !.next = @ + 1]
  <2>1. /\ Top \in Frame /\ Top.next \in 1..Len(Steps(Top.node))
        /\ Top.next # Len(Steps(Top.node)) /\ Len(Steps(Top.node)) \in Nat
    BY <1>2, TopTypes, StepsTypes DEF IsLast, Frame
  <2>2. f \in Frame /\ f.next = Top.next + 1 /\ f.node = Top.node
    BY <2>1 DEF Frame
  <2>3. f.next \in 1..Len(Steps(f.node))
    BY <2>1, <2>2
  <2> HIDE DEF f
  <2>4. /\ <<f>> \o Tail(calls) \in Seq(Frame)
        /\ \A i \in DOMAIN (<<f>> \o Tail(calls)) :
             (<<f>> \o Tail(calls))[i].next \in 1..Len(Steps((<<f>> \o Tail(calls))[i].node))
    BY <2>2, <2>3, TopTypes, TailKeeps, PushKeeps
  <2>5. calls' = <<f>> \o Tail(calls) /\ returning' = FALSE
    BY <1>2 DEF f
  <2> QED BY <2>4, <2>5 DEF AtAStep
<1> QED BY <1>1, <1>2 DEF Continues

\* A write keeps the types of the buffer.
LEMMA WriteTypes ==
  ASSUME TypeOK, NEW p \in Step, NEW l \in Nat, WriteSucceeds(p, l) \/ WriteFails(l)
  PROVE  /\ length' \in Nat /\ allocated' \in 0..(SizeRange - 1)
         /\ written' \in Seq(Step) /\ ret' \in {0, -1}
<1>1. CASE WriteFails(l)
  BY <1>1 DEF WriteFails, bufferVars, TypeOK
<1>2. CASE WriteSucceeds(p, l)
  <2>1. length' \in Nat /\ written' \in Seq(Step) /\ ret' \in {0, -1}
    BY <1>2 DEF WriteSucceeds, TypeOK
  <2>2. 2 * (length + l) \in Nat /\ SizeRange \in Nat /\ SizeRange > 0
    BY SizesAssumption DEF TypeOK
  <2>3. Grown(l) \in 0..(SizeRange - 1)
    BY <2>2, InRange DEF Grown
  <2>4. allocated' \in 0..(SizeRange - 1)
    BY <1>2, <2>3 DEF WriteSucceeds, TypeOK
  <2> QED BY <2>1, <2>4
<1> QED BY <1>1, <1>2

\* Lengths are numbers.
LEMMA LengthsTypes == \A p \in Step : Lengths(p) \subseteq Nat
<1> SUFFICES ASSUME NEW p \in Step PROVE Lengths(p) \subseteq Nat
  OBVIOUS
<1>1. p.of \in Node /\ Size[p.of] \in Nat
  BY ValuesAssumption DEF Step
<1> QED BY <1>1 DEF Lengths, Step

\* A call of pack() for a child starts at its first step.
LEMMA CallKeeps ==
  ASSUME PackInv, Call
  PROVE  PackInv'
<1> DEFINE p == Steps(Top.node)[Top.next]
           f == [node |-> p.of, next |-> 1, limit |-> Top.limit - 1]
<1>1. p.of \in Node /\ Top.limit \in Int
  BY TopTypes DEF Call, Step, Frame
<1>2. f \in Frame /\ f.next = 1 /\ f.node = p.of
  BY <1>1 DEF Frame
<1>3. Len(Steps(p.of)) \in Nat /\ Len(Steps(p.of)) > 0
  BY <1>1, StepsTypes
<1>4. calls' = <<f>> \o calls \/ calls' = <<>>
  BY DEF Call
<1>5. UNCHANGED <<root, returning, length, allocated, written>>
      /\ ret' = 0 /\ thrown' \in BOOLEAN
  BY DEF Call, bufferVars, PackInv, TypeOK
<1> HIDE DEF p, f
<1>6. f.next \in 1..Len(Steps(f.node))
  BY <1>2, <1>3
<1>7. calls' \in Seq(Frame) /\ AtAStep'
  <2>1. CASE calls' = <<>>
    BY <2>1 DEF AtAStep
  <2>2. CASE calls' = <<f>> \o calls
    BY <2>2, <1>2, <1>6, PushKeeps DEF PackInv, TypeOK, AtAStep
  <2> QED BY <1>4, <2>1, <2>2
<1> QED BY <1>5, <1>7 DEF PackInv, TypeOK

LEMMA PackInvariant == Spec => []PackInv
<1>1. Init => PackInv
  <2> SUFFICES ASSUME Init PROVE PackInv
    OBVIOUS
  <2> DEFINE f == [node |-> root, next |-> 1, limit |-> RecurseLimit]
  <2>1. /\ root \in Node /\ f \in Frame /\ f.next = 1 /\ f.node = root
        /\ calls = <<f>> \/ calls = <<>>
    BY SizesAssumption DEF Init, Frame
  <2> HIDE DEF f
  <2>2. AtAStep
    BY <2>1, StepsTypes DEF AtAStep
  <2>3. written \in Seq(Step)
    BY <2>1, PartTypes DEF Init
  <2>4. calls \in Seq(Frame) /\ root \in Node
    <3>1. <<f>> \in Seq(Frame) /\ <<>> \in Seq(Frame)
      BY <2>1
    <3> QED BY <2>1, <3>1
  <2>5. length \in Nat /\ allocated \in 0..(SizeRange - 1) /\ ret \in {0, -1}
    BY SizesAssumption DEF Init
  <2>6. returning \in BOOLEAN /\ thrown \in BOOLEAN
    BY DEF Init, Throws
  <2> QED BY <2>2, <2>3, <2>4, <2>5, <2>6 DEF PackInv, TypeOK
<1>2. PackInv /\ [Next]_vars => PackInv'
  <2> SUFFICES ASSUME PackInv, [Next]_vars PROVE PackInv'
    OBVIOUS
  <2>1. CASE UNCHANGED vars
    BY <2>1 DEF vars, bufferVars, PackInv, TypeOK, AtAStep
  <2>2. CASE Write
    <3>1. PICK p \in Step, l \in Nat : WriteSucceeds(p, l) \/ WriteFails(l)
      BY <2>2, TopTypes, LengthsTypes DEF Write
    <3>2. calls' \in Seq(Frame) /\ returning' \in BOOLEAN /\ AtAStep'
      BY <2>2, ContinuesKeeps DEF Write
    <3>3. UNCHANGED <<root, thrown>>
      BY <2>2 DEF Write
    <3>4. /\ length' \in Nat /\ allocated' \in 0..(SizeRange - 1)
          /\ written' \in Seq(Step) /\ ret' \in {0, -1}
      BY <3>1, WriteTypes DEF PackInv
    <3> QED BY <3>2, <3>3, <3>4 DEF PackInv, TypeOK
  <2>3. CASE Call
    BY <2>3, CallKeeps
  <2>4. CASE AfterCall
    <3>1. calls' \in Seq(Frame) /\ returning' \in BOOLEAN /\ AtAStep'
      BY <2>4, ContinuesKeeps DEF AfterCall
    <3>2. UNCHANGED <<root, thrown, ret, length, allocated, written>>
      BY <2>4 DEF AfterCall, bufferVars
    <3> QED BY <3>1, <3>2 DEF PackInv, TypeOK
  <2> QED BY <2>1, <2>2, <2>3, <2>4 DEF Next
<1> QED BY <1>1, <1>2, PTL DEF Spec

\* The Encoder's members, the calls of pack() in progress and the parts written
\* keep their types, for any values and any size of a size_t.
THEOREM TypeCorrect == Spec => []TypeOK
<1>1. PackInv => TypeOK
  BY DEF PackInv
<1> QED BY <1>1, PackInvariant, PTL

----------------------------------------------------------------------------
(* The buffer.                                                             *)

\* What is written fits in what is allocated whatever is packed and however
\* often the buffer had to grow, up to half of what a size_t can count: growing
\* doubles what is needed, and only then could the product be too large.
THEOREM BufferCorrect == Spec => []Fits
<1>1. Init => Fits
  BY SizesAssumption DEF Init, Fits
<1>2. Fits /\ PackInv /\ [Next]_vars => Fits'
  <2> SUFFICES ASSUME Fits, PackInv, [Next]_vars PROVE Fits'
    OBVIOUS
  <2>1. CASE UNCHANGED bufferVars
    BY <2>1 DEF Fits, bufferVars
  <2>2. CASE Write
    <3>1. PICK p \in Step, l \in Nat : WriteSucceeds(p, l) \/ WriteFails(l)
      BY <2>2, TopTypes, LengthsTypes DEF Write
    <3>2. CASE WriteFails(l)
      BY <2>1, <3>2 DEF WriteFails
    <3>3. CASE WriteSucceeds(p, l)
      <4> SUFFICES ASSUME 2 * length' < SizeRange PROVE length' <= allocated'
        BY DEF Fits
      <4>1. length \in Nat /\ allocated \in Nat /\ SizeRange \in Nat /\ length' = length + l
        BY <3>3, SizesAssumption DEF PackInv, TypeOK, WriteSucceeds
      <4>2. CASE Grows(l)
        <5>1. Grown(l) = 2 * (length + l)
          BY <4>1, InRange DEF Grown
        <5>2. allocated' = 2 * (length + l)
          BY <3>3, <4>2, <5>1 DEF WriteSucceeds
        <5> QED BY <4>1, <5>2
      <4>3. CASE ~Grows(l)
        BY <3>3, <4>1, <4>3 DEF WriteSucceeds, Grows
      <4> QED BY <4>2, <4>3
    <3> QED BY <3>1, <3>2, <3>3
  <2> QED BY <2>1, <2>2 DEF Next, Call, AfterCall, vars, bufferVars
<1> QED BY <1>1, <1>2, PackInvariant, PTL DEF Spec

----------------------------------------------------------------------------
(* What is left to write.                                                  *)

LEMMA Joins ==
  ASSUME NEW r \in Seq(Step), NEW s \in Seq(Step), NEW t \in Seq(Step)
  PROVE  (r \o s) \o t = r \o (s \o t)
OBVIOUS

LEMMA AppendJoins ==
  ASSUME NEW s \in Seq(Step), NEW p \in Step, NEW t \in Seq(Step)
  PROVE  Append(s, p) \o t = s \o (<<p>> \o t)
<1>1. Append(s, p) = s \o <<p>>
  OBVIOUS
<1>2. <<p>> \in Seq(Step)
  OBVIOUS
<1>3. (s \o <<p>>) \o t = s \o (<<p>> \o t)
  BY <1>2, Joins
<1> QED BY <1>1, <1>3

LEMMA Empties ==
  \A s \in Seq(Step) : s \o <<>> = s /\ <<>> \o s = s
OBVIOUS

\* What a step of pack() writes, by itself or by the call for a child.
Writes(p) == IF p.what = "child" THEN Term[p.of] ELSE <<p>>

\* What the steps of a value write from the k-th on.
Remaining(n, k) ==
  LET before == Len(Before(n))
  IN  IF k <= before THEN SubSeq(Before(n), k, before) \o (Terms[n][1] \o After(n))
      ELSE IF k <= before + Len(Children[n]) + 1 THEN Terms[n][k - before] \o After(n)
      ELSE <<>>

\* The steps of a value, in its three parts.
LEMMA StepsAre ==
  ASSUME NEW n \in Node
  PROVE  \E b \in {0, 1, 2}, m \in Nat, a \in {0, 1} :
           /\ b = Len(Before(n)) /\ m = Len(Children[n]) /\ a = Len(After(n))
           /\ Len(Steps(n)) = b + m + a
           /\ \A k \in 1..b : Steps(n)[k] = Before(n)[k] /\ Before(n)[k].what # "child"
           /\ \A k \in 1..m : Steps(n)[b + k] = Part("child", Children[n][k])
           /\ \A k \in 1..a : /\ Steps(n)[b + m + k] = After(n)[k]
                              /\ After(n)[k].what # "child"
<1> DEFINE b == Len(Before(n))
           m == Len(Children[n])
           a == Len(After(n))
<1>1. /\ Kind[n] \in Kinds /\ Children[n] \in Seq(Node)
  BY ValuesAssumption
<1>2. /\ b \in {0, 1, 2} /\ Before(n) \in Seq(Step)
      /\ \A k \in 1..b : Before(n)[k].what # "child"
  <2>1. Before(n) \in {<<>>, <<Part("term", n)>>, <<Part("header", n), Part("body", n)>>,
                       <<Part("header", n)>>}
    BY <1>1, Zenon DEF Before, Kinds
  <2>2. b \in {0, 1, 2} /\ \A k \in 1..b : Before(n)[k].what # "child"
    BY <2>1 DEF Part
  <2> QED BY <2>2, BeforeTypes
<1>3. /\ a \in {0, 1} /\ After(n) \in Seq(Step)
      /\ \A k \in 1..a : After(n)[k].what # "child"
  <2> DEFINE x == Part("tail", n)
  <2>1. x \in Step /\ x.what # "child"
    BY PartTypes DEF Part
  <2>2. After(n) = <<>> \/ After(n) = <<x>>
    BY DEF After
  <2> HIDE DEF x
  <2>3. CASE After(n) = <<>>
    BY <2>3
  <2>4. CASE After(n) = <<x>>
    <3>1. <<x>> \in Seq(Step) /\ Len(<<x>>) = 1 /\ \A k \in 1..1 : <<x>>[k] = x
      BY <2>1
    <3> QED BY <2>1, <2>4, <3>1
  <2> QED BY <2>2, <2>3, <2>4
<1>4. /\ Elements(n) \in Seq(Step) /\ Len(Elements(n)) = m /\ m \in Nat
      /\ \A k \in 1..m : Elements(n)[k] = Part("child", Children[n][k])
  <2>1. DOMAIN Children[n] = 1..m /\ m \in Nat /\ \A k \in 1..m : Children[n][k] \in Node
    BY <1>1
  <2>2. \A k \in 1..m : Part("child", Children[n][k]) \in Step
    BY <2>1, PartTypes
  <2>3. Elements(n) = [k \in 1..m |-> Part("child", Children[n][k])]
    BY <2>1 DEF Elements
  <2> DEFINE e == [k \in 1..m |-> Part("child", Children[n][k])]
  <2> HIDE DEF m
  <2>4. e \in Seq(Step) /\ Len(e) = m /\ \A k \in 1..m : e[k] = Part("child", Children[n][k])
    BY <2>1, <2>2
  <2> QED BY <2>1, <2>3, <2>4
<1> DEFINE B == Before(n)
           E == Elements(n)
           A == After(n)
<1> HIDE DEF B, E, A
<1>5. /\ B \in Seq(Step) /\ E \in Seq(Step) /\ A \in Seq(Step)
      /\ Len(B) = b /\ Len(E) = m /\ Len(A) = a
      /\ b \in {0, 1, 2} /\ m \in Nat /\ a \in {0, 1}
  BY <1>2, <1>3, <1>4 DEF B, E, A
<1> HIDE DEF b, m, a
<1>6. /\ Len((B \o E) \o A) = b + m + a
      /\ \A k \in 1..b : ((B \o E) \o A)[k] = B[k]
      /\ \A k \in 1..m : ((B \o E) \o A)[b + k] = E[k]
      /\ \A k \in 1..a : ((B \o E) \o A)[b + m + k] = A[k]
  <2>1. /\ B \o E \in Seq(Step) /\ Len(B \o E) = b + m
        /\ \A k \in 1..b : (B \o E)[k] = B[k]
        /\ \A k \in 1..m : (B \o E)[b + k] = E[k]
    BY <1>5
  <2> DEFINE S == B \o E
  <2>2. S \in Seq(Step) /\ Len(S) = b + m
    BY <2>1
  <2> HIDE DEF S
  <2>3. /\ Len(S \o A) = b + m + a
        /\ \A k \in 1..(b + m) : (S \o A)[k] = S[k]
        /\ \A k \in 1..a : (S \o A)[b + m + k] = A[k]
    BY <1>5, <2>2
  <2>4. /\ \A k \in 1..b : k \in 1..(b + m)
        /\ \A k \in 1..m : b + k \in 1..(b + m)
    BY <1>2, <1>4
  <2> QED BY <2>1, <2>3, <2>4 DEF S
<1>7. Steps(n) = (B \o E) \o A
  BY DEF Steps, B, E, A
<1>8. /\ Len(Steps(n)) = b + m + a
      /\ \A k \in 1..b : Steps(n)[k] = Before(n)[k] /\ Before(n)[k].what # "child"
      /\ \A k \in 1..m : Steps(n)[b + k] = Part("child", Children[n][k])
      /\ \A k \in 1..a : /\ Steps(n)[b + m + k] = After(n)[k]
                         /\ After(n)[k].what # "child"
  BY <1>2, <1>3, <1>4, <1>6, <1>7 DEF B, E, A
<1>9. b = Len(Before(n)) /\ m = Len(Children[n]) /\ a = Len(After(n))
  BY DEF b, m, a
<1> QED BY <1>5, <1>8, <1>9

\* Terms are sequences of parts.
LEMMA TermTypes ==
  ASSUME NEW n \in Node
  PROVE  /\ Term[n] \in Seq(Step)
         /\ \A i \in 1..(Len(Children[n]) + 1) : Terms[n][i] \in Seq(Step)
         /\ 1 \in 1..(Len(Children[n]) + 1) /\ Len(Children[n]) \in Nat
<1>1. Children[n] \in Seq(Node) /\ Kind[n] \in Kinds
  BY ValuesAssumption
<1>2. \A i \in 1..(Len(Children[n]) + 1) : Terms[n][i] \in Seq(Step)
  BY FormatAssumption
<1>3. 1 \in 1..(Len(Children[n]) + 1) /\ Len(Children[n]) \in Nat
  BY <1>1
<1>4. Terms[n][1] \in Seq(Step)
  BY <1>2, <1>3
<1>5. /\ <<Part("term", n)>> \in Seq(Step) /\ <<Part("header", n)>> \in Seq(Step)
      /\ <<Part("tail", n)>> \in Seq(Step) /\ <<Part("header", n), Part("body", n)>> \in Seq(Step)
  BY PartTypes
<1> DEFINE t == Terms[n][1]
           h == <<Part("header", n)>>
           l == <<Part("tail", n)>>
<1>6. /\ t \in Seq(Step) /\ h \in Seq(Step) /\ l \in Seq(Step)
  BY <1>4, <1>5
<1>7. Term[n] \in {<<Part("term", n)>>, <<Part("header", n), Part("body", n)>>, h \o t, l,
                   h \o t \o l}
  BY <1>1, FormatAssumption DEF Kinds
<1> HIDE DEF t, h, l
<1>8. h \o t \in Seq(Step) /\ h \o t \o l \in Seq(Step)
  BY <1>6
<1> QED BY <1>2, <1>3, <1>5, <1>6, <1>7, <1>8

\* All steps together write the value.
LEMMA RemainingAll ==
  ASSUME NEW n \in Node
  PROVE  Remaining(n, 1) = Term[n]
<1> DEFINE t == Terms[n][1]
           h == <<Part("header", n)>>
           l == <<Part("tail", n)>>
<1>1. /\ t \in Seq(Step) /\ h \in Seq(Step) /\ l \in Seq(Step) /\ Len(Children[n]) \in Nat
      /\ Children[n] = <<>> => t = <<>>
      /\ Kind[n] \in Kinds /\ (Kind[n] \notin {"array", "map"} => Children[n] = <<>>)
  <2>1. t \in Seq(Step) /\ Len(Children[n]) \in Nat
    BY TermTypes
  <2>2. h \in Seq(Step) /\ l \in Seq(Step)
    BY PartTypes
  <2>3. Kind[n] \in Kinds /\ (Kind[n] \notin {"array", "map"} => Children[n] = <<>>)
    BY ValuesAssumption
  <2>4. ASSUME Children[n] = <<>> PROVE t = <<>>
    <3>1. Len(Children[n]) + 1 = 1
      BY <2>4
    <3> QED BY <3>1, FormatAssumption
  <2> QED BY <2>1, <2>2, <2>3, <2>4
<1>2. CASE Before(n) = <<>>
  <2>1. Kind[n] = "array" /\ Children[n] = <<>>
    <3>1. Kind[n] = "array"
      BY <1>2, BeforeTypes
    <3>2. Before(n) = IF Children[n] = <<>> THEN <<>> ELSE h
      BY <3>1 DEF Before
    <3> QED BY <1>2, <3>1, <3>2
  <2>2. Remaining(n, 1) = t \o After(n) /\ After(n) = l /\ Term[n] = l /\ t = <<>>
    <3>1. Len(Before(n)) = 0 /\ ~(1 <= Len(Before(n)))
      BY <1>2
    <3>2. Remaining(n, 1) = Terms[n][1 - 0] \o After(n)
      BY <1>1, <3>1 DEF Remaining
    <3>3. After(n) = l /\ Term[n] = l
      BY <2>1, FormatAssumption DEF After
    <3> QED BY <1>1, <2>1, <3>2, <3>3
  <2> HIDE DEF t, l
  <2> QED BY <1>1, <2>2, Empties
<1>3. CASE Before(n) # <<>>
  <2>1. Before(n) \in Seq(Step) /\ Before(n) # <<>>
    BY <1>3, BeforeTypes
  <2>2. SubSeq(Before(n), 1, Len(Before(n))) = Before(n) /\ 1 <= Len(Before(n))
    BY <2>1
  <2>3. Remaining(n, 1) = Before(n) \o (t \o After(n))
    BY <2>2 DEF Remaining
  <2>4. CASE Kind[n] \in {"scalar", "uint"}
    <3>1. /\ Before(n) = <<Part("term", n)>> /\ After(n) = <<>> /\ t = <<>>
          /\ Term[n] = <<Part("term", n)>> /\ Before(n) \in Seq(Step)
      BY <1>1, <2>1, <2>4, FormatAssumption, Zenon DEF Before, After
    <3> HIDE DEF t
    <3> QED BY <1>1, <2>3, <3>1, Empties
  <2>5. CASE Kind[n] = "string"
    <3>1. /\ Before(n) = <<Part("header", n), Part("body", n)>> /\ After(n) = <<>> /\ t = <<>>
          /\ Term[n] = <<Part("header", n), Part("body", n)>> /\ Before(n) \in Seq(Step)
      BY <1>1, <2>1, <2>5, FormatAssumption DEF Before, After
    <3> HIDE DEF t
    <3> QED BY <1>1, <2>3, <3>1, Empties
  <2>6. CASE Kind[n] = "map"
    <3>1. Before(n) = h /\ After(n) = <<>> /\ Term[n] = h \o t
      BY <1>1, <2>6, FormatAssumption DEF Before, After
    <3> HIDE DEF t, h
    <3> QED BY <1>1, <2>3, <3>1, Empties
  <2>7. CASE Kind[n] = "array"
    <3>1. Before(n) = IF Children[n] = <<>> THEN <<>> ELSE h
      BY <2>7 DEF Before
    <3>2. Before(n) = h /\ After(n) = l /\ Term[n] = h \o t \o l
      BY <1>1, <1>3, <2>7, <3>1, FormatAssumption DEF After
    <3> HIDE DEF t, h, l
    <3> QED BY <1>1, <2>3, <3>2, Joins
  <2> QED BY <1>1, <2>4, <2>5, <2>6, <2>7 DEF Kinds
<1> QED BY <1>2, <1>3

\* One step after the other.
LEMMA RemainingStep ==
  ASSUME NEW n \in Node, NEW k \in 1..Len(Steps(n))
  PROVE  Remaining(n, k) = Writes(Steps(n)[k]) \o Remaining(n, k + 1)
<1> DEFINE rest == Terms[n][1] \o After(n)
<1>1. PICK b \in {0, 1, 2}, m \in Nat, a \in {0, 1} :
      /\ b = Len(Before(n)) /\ m = Len(Children[n]) /\ a = Len(After(n))
      /\ Len(Steps(n)) = b + m + a
      /\ \A i \in 1..b : Steps(n)[i] = Before(n)[i] /\ Before(n)[i].what # "child"
      /\ \A i \in 1..m : Steps(n)[b + i] = Part("child", Children[n][i])
      /\ \A i \in 1..a : /\ Steps(n)[b + m + i] = After(n)[i]
                         /\ After(n)[i].what # "child"
  BY StepsAre
<1>2. /\ Before(n) \in Seq(Step) /\ After(n) \in Seq(Step)
      /\ \A i \in 1..(m + 1) : Terms[n][i] \in Seq(Step)
  BY <1>1, BeforeTypes, TermTypes, PartTypes DEF After
<1>3. \A i \in Nat : Remaining(n, i) =
        IF i <= b THEN SubSeq(Before(n), i, b) \o rest
        ELSE IF i <= b + m + 1 THEN Terms[n][i - b] \o After(n) ELSE <<>>
  BY <1>1 DEF Remaining
<1>4. rest \in Seq(Step)
  <2>1. Terms[n][1] \in Seq(Step)
    BY <1>1, <1>2
  <2> QED BY <1>2, <2>1
<1>5. k \in Nat /\ k + 1 \in Nat
  OBVIOUS
<1>6. CASE k <= b
  <2>1. k \in 1..b
    BY <1>1, <1>6
  <2>2. Writes(Steps(n)[k]) = <<Before(n)[k]>>
    BY <1>1, <2>1 DEF Writes
  <2> DEFINE x == <<Before(n)[k]>>
             y == SubSeq(Before(n), k + 1, b)
  <2>3. SubSeq(Before(n), k, b) = x \o y /\ x \in Seq(Step) /\ y \in Seq(Step)
    BY <1>1, <1>2, <2>1
  <2>4. Remaining(n, k + 1) = y \o rest
    <3>1. CASE k + 1 <= b
      BY <1>3, <1>5, <3>1
    <3>2. CASE ~(k + 1 <= b)
      <4>1. k = b /\ (k + 1) - b = 1 /\ k + 1 <= b + m + 1
        BY <1>1, <2>1, <3>2
      <4>2. Remaining(n, k + 1) = rest
        BY <1>3, <1>5, <3>2, <4>1
      <4>3. y = <<>>
        BY <1>1, <1>2, <4>1
      <4> HIDE DEF y, rest
      <4> QED BY <1>4, <4>2, <4>3, Empties
    <3> QED BY <3>1, <3>2
  <2>5. Remaining(n, k) = (x \o y) \o rest
    BY <1>3, <1>5, <1>6, <2>3
  <2> HIDE DEF x, y, rest
  <2>6. (x \o y) \o rest = x \o (y \o rest)
    BY <1>4, <2>3, Joins
  <2> QED BY <2>2, <2>4, <2>5, <2>6 DEF x
<1>7. CASE k > b /\ k <= b + m
  <2> DEFINE i == k - b
  <2>1. /\ i \in 1..m /\ k = b + i /\ ~(k <= b) /\ ~(k + 1 <= b) /\ (k + 1) - b = i + 1
        /\ i \in 1..(m + 1) /\ i + 1 \in 1..(m + 1)
        /\ k <= b + m + 1 /\ k + 1 <= b + m + 1
    BY <1>1, <1>7
  <2>2. /\ Remaining(n, k) = Terms[n][i] \o After(n)
        /\ Remaining(n, k + 1) = Terms[n][i + 1] \o After(n)
    BY <1>3, <1>5, <2>1
  <2> HIDE DEF i
  <2>3. Children[n] \in Seq(Node) /\ i \in DOMAIN Children[n] /\ Children[n][i] \in Node
    BY <1>1, <2>1, ValuesAssumption
  <2>4. Terms[n][i] = Term[Children[n][i]] \o Terms[n][i + 1]
    BY <2>3, FormatAssumption
  <2>5. Writes(Steps(n)[k]) = Term[Children[n][i]]
    <3>1. Steps(n)[k] = Part("child", Children[n][i])
      BY <1>1, <2>1
    <3> QED BY <3>1 DEF Writes, Part
  <2>6. /\ Term[Children[n][i]] \in Seq(Step) /\ Terms[n][i + 1] \in Seq(Step)
    BY <1>2, <2>1, <2>3, TermTypes
  <2>7. (Term[Children[n][i]] \o Terms[n][i + 1]) \o After(n) =
          Term[Children[n][i]] \o (Terms[n][i + 1] \o After(n))
    BY <1>2, <2>6, Joins
  <2> QED BY <2>2, <2>4, <2>5, <2>7
<1>8. CASE k > b + m
  <2>0. k \in 1..(b + m + a)
    BY <1>1
  <2>1. /\ a = 1 /\ k = b + m + 1 /\ ~(k <= b) /\ k - b = m + 1 /\ k <= b + m + 1
        /\ ~(k + 1 <= b) /\ ~(k + 1 <= b + m + 1)
    BY <1>8, <2>0
  <2>2. Remaining(n, k) = Terms[n][m + 1] \o After(n) /\ Remaining(n, k + 1) = <<>>
    BY <1>3, <1>5, <2>1
  <2>3. Terms[n][m + 1] = <<>>
    BY <1>1, FormatAssumption
  <2>4. After(n) = <<Steps(n)[k]>> /\ Steps(n)[k].what # "child"
    <3>1. Steps(n)[k] = After(n)[1] /\ After(n)[1].what # "child"
      BY <1>1, <2>1
    <3>2. After(n) = <<After(n)[1]>>
      <4> DEFINE x == Part("tail", n)
      <4>1. After(n) = <<>> \/ After(n) = <<x>>
        BY DEF After
      <4> HIDE DEF x
      <4>2. Len(<<>>) = 0 /\ Len(After(n)) = 1
        BY <1>1, <2>1
      <4>3. After(n) = <<x>> /\ <<x>>[1] = x
        BY <4>1, <4>2
      <4>4. After(n)[1] = x
        BY <4>3
      <4> QED BY <4>3, <4>4, Zenon
    <3> QED BY <3>1, <3>2
  <2>5. Writes(Steps(n)[k]) = After(n)
    BY <2>4 DEF Writes
  <2> QED BY <1>2, <2>2, <2>3, <2>5, Empties
<1> QED BY <1>1, <1>6, <1>7, <1>8

\* Nothing follows the last.
LEMMA RemainingNone ==
  ASSUME NEW n \in Node
  PROVE  Remaining(n, Len(Steps(n)) + 1) = <<>>
<1>1. PICK b \in {0, 1, 2}, m \in Nat, a \in {0, 1} :
      /\ b = Len(Before(n)) /\ m = Len(Children[n]) /\ a = Len(After(n))
      /\ Len(Steps(n)) = b + m + a
      /\ \A i \in 1..b : Steps(n)[i] = Before(n)[i] /\ Before(n)[i].what # "child"
      /\ \A i \in 1..m : Steps(n)[b + i] = Part("child", Children[n][i])
      /\ \A i \in 1..a : /\ Steps(n)[b + m + i] = After(n)[i]
                         /\ After(n)[i].what # "child"
  BY StepsAre
<1> DEFINE k == Len(Steps(n)) + 1
<1>2. Remaining(n, k) =
        IF k <= b THEN SubSeq(Before(n), k, b) \o (Terms[n][1] \o After(n))
        ELSE IF k <= b + m + 1 THEN Terms[n][k - b] \o After(n) ELSE <<>>
  BY <1>1 DEF Remaining
<1>3. CASE a = 0
  <2>1. ~(k <= b) /\ k <= b + m + 1 /\ k - b = m + 1
    BY <1>1, <1>3
  <2>2. Terms[n][m + 1] = <<>>
    BY <1>1, FormatAssumption
  <2>3. After(n) = <<>>
    <3> DEFINE x == Part("tail", n)
    <3>1. After(n) = <<>> \/ After(n) = <<x>>
      BY DEF After
    <3> HIDE DEF x
    <3>2. Len(<<x>>) = 1 /\ Len(After(n)) = 0
      BY <1>1, <1>3
    <3> QED BY <3>1, <3>2
  <2> QED BY <1>2, <2>1, <2>2, <2>3
<1>4. CASE a = 1
  <2>1. ~(k <= b) /\ ~(k <= b + m + 1)
    BY <1>1, <1>4
  <2> QED BY <1>2, <2>1
<1> QED BY <1>1, <1>3, <1>4

LEMMA RemainingTypes ==
  ASSUME NEW n \in Node, NEW k \in 1..(Len(Steps(n)) + 1)
  PROVE  Remaining(n, k) \in Seq(Step)
<1>1. PICK b \in {0, 1, 2}, m \in Nat, a \in {0, 1} :
        b = Len(Before(n)) /\ m = Len(Children[n]) /\ Len(Steps(n)) = b + m + a
  BY StepsAre
<1>0. k \in Nat \ {0}
  BY <1>1
<1>2. /\ Before(n) \in Seq(Step) /\ After(n) \in Seq(Step)
      /\ \A i \in 1..(m + 1) : Terms[n][i] \in Seq(Step)
  BY <1>1, BeforeTypes, TermTypes, PartTypes DEF After
<1>3. Terms[n][1] \o After(n) \in Seq(Step)
  <2>1. Terms[n][1] \in Seq(Step)
    BY <1>1, <1>2
  <2> QED BY <1>2, <2>1
<1>4. CASE k <= b
  <2>1. SubSeq(Before(n), k, b) \in Seq(Step)
    BY <1>0, <1>1, <1>2, <1>4
  <2> QED BY <1>1, <1>3, <1>4, <2>1 DEF Remaining
<1>5. CASE k > b /\ k <= b + m + 1
  <2>1. k - b \in 1..(m + 1) /\ ~(k <= b)
    BY <1>0, <1>1, <1>5
  <2>2. Terms[n][k - b] \in Seq(Step)
    BY <1>2, <2>1
  <2> QED BY <1>1, <1>2, <1>5, <2>1, <2>2 DEF Remaining
<1>6. CASE k > b + m + 1
  <2>1. ~(k <= b) /\ ~(k <= b + m + 1)
    BY <1>0, <1>1, <1>6
  <2> QED BY <1>1, <2>1 DEF Remaining
<1> QED BY <1>0, <1>1, <1>4, <1>5, <1>6

----------------------------------------------------------------------------
(* What the calls in progress owe.                                         *)

\* What a call has still to write, itself or by the calls for its children: from
\* its step on, or from the step after it while that one is under way or done.
Left(f, taken) == Remaining(f.node, IF taken THEN f.next + 1 ELSE f.next)

\* w is what calls of pack() will write until the last of them returns: each
\* what it has left, and then what its caller owes, whose step it is.
Owes(cs, taken, w) ==
  \E R \in [1..(Len(cs) + 1) -> Seq(Step)] :
    /\ R[1] = w /\ R[Len(cs) + 1] = <<>>
    /\ \A i \in 1..Len(cs) : R[i] = Left(cs[i], taken \/ i > 1) \o R[i + 1]

AtStep(f) == f \in Frame /\ f.next \in 1..Len(Steps(f.node))

LEMMA LeftTypes ==
  ASSUME NEW f \in Frame, AtStep(f), NEW taken \in BOOLEAN
  PROVE  Left(f, taken) \in Seq(Step)
<1>1. f.node \in Node /\ f.next \in 1..Len(Steps(f.node)) /\ Len(Steps(f.node)) \in Nat
  BY StepsTypes DEF AtStep, Frame
<1>2. f.next \in 1..(Len(Steps(f.node)) + 1) /\ f.next + 1 \in 1..(Len(Steps(f.node)) + 1)
  BY <1>1
<1> QED BY <1>1, <1>2, RemainingTypes DEF Left

LEMMA OwesNone ==
  ASSUME NEW taken, NEW w
  PROVE  Owes(<<>>, taken, w) <=> w = <<>>
<1>1. Len(<<>>) = 0
  OBVIOUS
<1>2. ASSUME Owes(<<>>, taken, w) PROVE w = <<>>
  BY <1>1, <1>2 DEF Owes
<1>3. ASSUME w = <<>> PROVE Owes(<<>>, taken, w)
  <2> DEFINE R == [i \in 1..(Len(<<>>) + 1) |-> <<>>]
  <2>1. R \in [1..(Len(<<>>) + 1) -> Seq(Step)]
    OBVIOUS
  <2>2. R[1] = w /\ R[Len(<<>>) + 1] = <<>>
    BY <1>1, <1>3
  <2>3. \A i \in 1..Len(<<>>) : R[i] = Left(<<>>[i], taken \/ i > 1) \o R[i + 1]
    BY <1>1
  <2> HIDE DEF R
  <2> QED BY <2>1, <2>2, <2>3 DEF Owes
<1> QED BY <1>2, <1>3

\* A call owes what it has left and what its callers owe.
LEMMA OwesPush ==
  ASSUME NEW f \in Frame, AtStep(f), NEW s \in Seq(Frame), NEW taken \in BOOLEAN,
         NEW v, Owes(s, TRUE, v)
  PROVE  Owes(<<f>> \o s, taken, Left(f, taken) \o v)
<1> DEFINE cs == <<f>> \o s
           m == Len(s)
<1>1. PICK R \in [1..(m + 1) -> Seq(Step)] :
        /\ R[1] = v /\ R[m + 1] = <<>>
        /\ \A i \in 1..m : R[i] = Left(s[i], TRUE \/ i > 1) \o R[i + 1]
  BY DEF Owes
<1>2. m \in Nat /\ Len(cs) = m + 1 /\ cs[1] = f /\ \A i \in 1..m : cs[i + 1] = s[i]
  OBVIOUS
<1>3. Left(f, taken) \in Seq(Step)
  BY LeftTypes
<1> HIDE DEF cs, m
<1> DEFINE Q == [i \in 1..(m + 2) |-> IF i = 1 THEN Left(f, taken) \o v ELSE R[i - 1]]
<1>4. Q \in [1..(m + 2) -> Seq(Step)]
  <2>1. v \in Seq(Step)
    BY <1>1, <1>2
  <2>2. Left(f, taken) \o v \in Seq(Step)
    BY <1>3, <2>1
  <2>3. \A i \in 1..(m + 2) : i # 1 => R[i - 1] \in Seq(Step)
    BY <1>1, <1>2
  <2> QED BY <2>2, <2>3
<1>5. Q[1] = Left(f, taken) \o v /\ Q[m + 2] = <<>>
  BY <1>1, <1>2
<1>6. \A i \in 1..(m + 1) : Q[i + 1] = R[i]
  BY <1>2
<1> HIDE DEF Q
<1>7. \A i \in 1..(m + 1) : Q[i] = Left(cs[i], taken \/ i > 1) \o Q[i + 1]
  <2> SUFFICES ASSUME NEW i \in 1..(m + 1)
               PROVE  Q[i] = Left(cs[i], taken \/ i > 1) \o Q[i + 1]
    OBVIOUS
  <2>1. CASE i = 1
    <3>1. 1 \in 1..(m + 1) /\ Q[1 + 1] = R[1]
      BY <1>2, <1>6
    <3>2. (taken \/ 1 > 1) = taken
      OBVIOUS
    <3> QED BY <1>1, <1>2, <1>5, <2>1, <3>1, <3>2
  <2>2. CASE i # 1
    <3> DEFINE j == i - 1
    <3>1. j \in 1..m /\ i = j + 1 /\ j \in 1..(m + 1) /\ i > 1
      BY <1>2, <2>2
    <3> HIDE DEF j
    <3>2. Q[i] = R[j] /\ Q[i + 1] = R[j + 1] /\ cs[i] = s[j]
      <4>1. Q[j + 1] = R[j] /\ cs[j + 1] = s[j]
        BY <1>2, <1>6, <3>1
      <4>2. Q[i + 1] = R[i]
        BY <1>6
      <4> QED BY <3>1, <4>1, <4>2
    <3>3. R[j] = Left(s[j], TRUE \/ j > 1) \o R[j + 1]
      BY <1>1, <3>1
    <3>4. (taken \/ i > 1) = TRUE /\ (TRUE \/ j > 1) = TRUE
      BY <3>1
    <3> QED BY <3>2, <3>3, <3>4
  <2> QED BY <2>1, <2>2
<1>8. Len(cs) + 1 = m + 2
  BY <1>2
<1>9. Owes(cs, taken, Left(f, taken) \o v)
  BY <1>2, <1>4, <1>5, <1>7, <1>8 DEF Owes
<1> QED BY <1>9 DEF cs

\* And the other way round.
LEMMA OwesPop ==
  ASSUME NEW cs \in Seq(Frame), cs # <<>>, NEW taken \in BOOLEAN, NEW w, Owes(cs, taken, w)
  PROVE  \E v \in Seq(Step) : Owes(Tail(cs), TRUE, v) /\ w = Left(cs[1], taken) \o v
<1> DEFINE s == Tail(cs)
           m == Len(s)
<1>1. m \in Nat /\ Len(cs) = m + 1 /\ s \in Seq(Frame) /\ \A i \in 1..m : cs[i + 1] = s[i]
  OBVIOUS
<1> HIDE DEF s, m
<1>2. PICK R \in [1..(m + 1 + 1) -> Seq(Step)] :
        /\ R[1] = w /\ R[m + 1 + 1] = <<>>
        /\ \A i \in 1..(m + 1) : R[i] = Left(cs[i], taken \/ i > 1) \o R[i + 1]
  BY <1>1 DEF Owes
<1> DEFINE Q == [i \in 1..(m + 1) |-> R[i + 1]]
<1>3. Q \in [1..(m + 1) -> Seq(Step)]
  <2>1. \A i \in 1..(m + 1) : i + 1 \in 1..(m + 1 + 1)
    BY <1>1
  <2> QED BY <1>2, <2>1
<1>4. \A i \in 1..(m + 1) : Q[i] = R[i + 1]
  OBVIOUS
<1> HIDE DEF Q
<1>5. 1 \in 1..(m + 1) /\ m + 1 \in 1..(m + 1)
  BY <1>1
<1>6. Q[1] = R[1 + 1] /\ Q[m + 1] = <<>>
  BY <1>2, <1>4, <1>5
<1>7. \A i \in 1..m : Q[i] = Left(s[i], TRUE \/ i > 1) \o Q[i + 1]
  <2> SUFFICES ASSUME NEW i \in 1..m
               PROVE  Q[i] = Left(s[i], TRUE \/ i > 1) \o Q[i + 1]
    OBVIOUS
  <2> DEFINE j == i + 1
  <2>1. j \in 1..(m + 1) /\ i \in 1..(m + 1) /\ j > 1
    BY <1>1
  <2>2. cs[j] = s[i]
    BY <1>1
  <2>3. Q[i] = R[j]
    BY <1>4, <2>1
  <2> HIDE DEF j
  <2>4. R[j] = Left(cs[j], taken \/ j > 1) \o R[j + 1]
    BY <1>2, <2>1
  <2>5. Q[j] = R[j + 1]
    BY <1>4, <2>1
  <2>6. (taken \/ j > 1) = TRUE /\ (TRUE \/ i > 1) = TRUE
    BY <2>1
  <2>7. Q[i] = Left(s[i], TRUE \/ i > 1) \o Q[j]
    BY <2>2, <2>3, <2>4, <2>5, <2>6
  <2> QED BY <2>7 DEF j
<1>8. Q[1] \in Seq(Step)
  BY <1>3, <1>5
<1>9. Owes(s, TRUE, Q[1])
  BY <1>3, <1>6, <1>7 DEF Owes, m
<1>10. w = Left(cs[1], taken) \o Q[1]
  <2>1. R[1] = Left(cs[1], taken \/ 1 > 1) \o R[1 + 1]
    BY <1>2, <1>5
  <2>2. (taken \/ 1 > 1) = taken
    OBVIOUS
  <2> QED BY <1>2, <1>6, <2>1, <2>2
<1> QED BY <1>8, <1>9, <1>10 DEF s

\* The innermost call, at a step as its callers are.
LEMMA TopAtStep ==
  ASSUME PackInv, calls # <<>>
  PROVE  /\ AtStep(Top) /\ Top \in Frame /\ Top.node \in Node /\ Top.next \in Nat
         /\ Top = calls[1] /\ calls = <<Top>> \o Tail(calls) /\ Tail(calls) \in Seq(Frame)
         /\ calls \in Seq(Frame)
<1>1. calls \in Seq(Frame)
  BY DEF PackInv, TypeOK
<1>2. Top = calls[1] /\ calls = <<Top>> \o Tail(calls)
  BY <1>1 DEF Top
<1> QED BY <1>1, <1>2, TopTypes DEF AtStep, Frame

\* What the calls owe is what it has left and what its callers owe.
LEMMA PopTop ==
  ASSUME PackInv, calls # <<>>, NEW w
  PROVE  /\ Owes(calls, FALSE, w) =>
              \E v \in Seq(Step) : Owes(Tail(calls), TRUE, v) /\ w = Left(Top, FALSE) \o v
         /\ Owes(calls, TRUE, w) =>
              \E v \in Seq(Step) : Owes(Tail(calls), TRUE, v) /\ w = Left(Top, TRUE) \o v
<1>1. calls \in Seq(Frame) /\ Top = calls[1]
  BY TopAtStep
<1>2. ASSUME Owes(calls, FALSE, w)
      PROVE  \E v \in Seq(Step) : Owes(Tail(calls), TRUE, v) /\ w = Left(calls[1], FALSE) \o v
  BY <1>1, <1>2, OwesPop, Zenon
<1>3. ASSUME Owes(calls, TRUE, w)
      PROVE  \E v \in Seq(Step) : Owes(Tail(calls), TRUE, v) /\ w = Left(calls[1], TRUE) \o v
  BY <1>1, <1>3, OwesPop, Zenon
<1> QED BY <1>1, <1>2, <1>3

\* It has its step left, and what is left after it.
LEMMA LeftStep ==
  ASSUME NEW f \in Frame, AtStep(f)
  PROVE  /\ Left(f, FALSE) = Writes(Steps(f.node)[f.next]) \o Left(f, TRUE)
         /\ f.next = Len(Steps(f.node)) => Left(f, TRUE) = <<>>
         /\ Left(f, TRUE) \in Seq(Step)
<1>1. f.node \in Node /\ f.next \in 1..Len(Steps(f.node))
  BY DEF AtStep, Frame
<1>2. Left(f, FALSE) = Remaining(f.node, f.next) /\ Left(f, TRUE) = Remaining(f.node, f.next + 1)
  BY DEF Left
<1>3. TRUE \in BOOLEAN
  OBVIOUS
<1>4. Left(f, TRUE) \in Seq(Step)
  BY <1>3, LeftTypes, Zenon
<1> QED BY <1>1, <1>2, <1>4, RemainingStep, RemainingNone

\* With no error, continuing leaves owed what is left after the step.
LEMMA ContinuesOwes ==
  ASSUME PackInv, calls # <<>>, ret' = 0, Continues,
         NEW v \in Seq(Step), Owes(Tail(calls), TRUE, v)
  PROVE  Owes(calls', returning', Left(Top, TRUE) \o v)
<1>1. CASE IsLast
  <2>1. calls' = Tail(calls) /\ returning' = TRUE
    BY <1>1 DEF Continues
  <2>2. Left(Top, TRUE) = <<>>
    BY <1>1, TopAtStep, LeftStep DEF IsLast
  <2>3. Left(Top, TRUE) \o v = v
    BY <2>2, Empties
  <2> QED BY <2>1, <2>3
<1>2. CASE ~IsLast
  <2> DEFINE f == [Top EXCEPT !.next = @ + 1]
  <2>1. calls' = <<f>> \o Tail(calls) /\ returning' = FALSE
    BY <1>2 DEF Continues
  <2>2. /\ Top \in Frame /\ Top.next \in 1..Len(Steps(Top.node))
        /\ Top.next # Len(Steps(Top.node)) /\ Len(Steps(Top.node)) \in Nat
    BY <1>2, TopTypes, StepsTypes DEF IsLast, Frame
  <2>3. f \in Frame /\ f.next = Top.next + 1 /\ f.node = Top.node
    BY <2>2 DEF Frame
  <2>4. f.next \in 1..Len(Steps(f.node))
    BY <2>2, <2>3
  <2> HIDE DEF f
  <2>5. Left(f, FALSE) = Left(Top, TRUE)
    BY <2>3 DEF Left
  <2>6. Owes(<<f>> \o Tail(calls), FALSE, Left(f, FALSE) \o v)
    BY <2>3, <2>4, TopAtStep, OwesPush DEF AtStep
  <2> QED BY <2>1, <2>5, <2>6
<1> QED BY <1>1, <1>2

----------------------------------------------------------------------------
(* The buffer holds the beginning of the encoding, and the result tells      *)
(* whether it holds all of it.                                              *)

\* What is missing from the buffer is what the calls owe, unless one of them
\* failed: then something is missing, and no call writes again.
PrefixInv ==
  /\ thrown => calls = <<>>
  /\ ret # 0 => returning
  /\ \E w \in Seq(Step) : /\ written \o w = Encoding
                          /\ ret # 0 => w # <<>>
                          /\ ret = 0 /\ ~thrown => Owes(calls, returning, w)

EncodingTypes == Encoding \in Seq(Step) /\ Term[root] \in Seq(Step)

LEMMA EncodingIs == TypeOK => EncodingTypes
<1> SUFFICES ASSUME TypeOK PROVE EncodingTypes
  OBVIOUS
<1>1. root \in Node
  BY DEF TypeOK
<1>2. Term[root] \in Seq(Step) /\ <<Part("version", root)>> \in Seq(Step)
  BY <1>1, TermTypes, PartTypes
<1>3. <<Part("version", root)>> \o Term[root] \in Seq(Step)
  BY <1>2
<1> QED BY <1>2, <1>3 DEF EncodingTypes, Encoding

\* Before the first step everything is owed.
LEMMA InitPrefix == Init => PrefixInv
<1>0. CASE Init /\ thrown
  <2>1. root \in Node /\ Term[root] \in Seq(Step)
    BY <1>0, TermTypes DEF Init
  <2>2. calls = <<>> /\ ret = 0 /\ written \o Term[root] = Encoding
    BY <1>0 DEF Init, Encoding
  <2> QED BY <1>0, <2>1, <2>2 DEF PrefixInv
<1> SUFFICES ASSUME Init, ~thrown PROVE PrefixInv
  BY <1>0
<1> DEFINE f == [node |-> root, next |-> 1, limit |-> RecurseLimit]
           w == Term[root]
<1>1. root \in Node /\ f \in Frame /\ f.next = 1 /\ f.node = root /\ calls = <<f>>
  BY SizesAssumption DEF Init, Frame
<1> HIDE DEF f
<1>2. AtStep(f)
  BY <1>1, StepsTypes DEF AtStep
<1>3. Left(f, FALSE) = w
  BY <1>1, RemainingAll DEF Left
<1>4. w \in Seq(Step)
  BY <1>1, TermTypes
<1> HIDE DEF w
<1>5. Owes(<<f>> \o <<>>, FALSE, Left(f, FALSE) \o <<>>)
  <2>1. Owes(<<>>, TRUE, <<>>)
    BY OwesNone
  <2>2. <<>> \in Seq(Frame) /\ FALSE \in BOOLEAN
    OBVIOUS
  <2> QED BY <1>1, <1>2, <2>1, <2>2, OwesPush, Zenon
<1>6. <<f>> \o <<>> = <<f>> /\ w \o <<>> = w
  BY <1>4
<1>7. Owes(calls, returning, w)
  BY <1>1, <1>3, <1>5, <1>6 DEF Init
<1>8. written \o w = Encoding /\ ret = 0 /\ ~thrown
  BY DEF Init, Encoding, w
<1> QED BY <1>4, <1>7, <1>8 DEF PrefixInv

\* A part is written as owed; when a write fails, it and what follows is missing.
LEMMA WriteKeepsPrefix ==
  ASSUME PackInv, PrefixInv, Write
  PROVE  PrefixInv'
<1> DEFINE p == Steps(Top.node)[Top.next]
<1>1. calls # <<>> /\ ~returning /\ returning = FALSE /\ p.what # "child" /\ Continues
      /\ UNCHANGED <<root, thrown>>
  BY DEF Write, PackInv, TypeOK
<1>2. p \in Step /\ AtStep(Top)
  BY <1>1, TopTypes, TopAtStep
<1>3. PICK l \in Nat : WriteSucceeds(p, l) \/ WriteFails(l)
  BY <1>2, LengthsTypes DEF Write
<1>4. ret = 0 /\ ~thrown
  BY <1>1 DEF PrefixInv
<1>5. PICK w \in Seq(Step) : written \o w = Encoding /\ Owes(calls, returning, w)
  BY <1>4 DEF PrefixInv
<1>6. PICK v \in Seq(Step) : Owes(Tail(calls), TRUE, v) /\ w = Left(Top, FALSE) \o v
  BY <1>1, <1>5, PopTop
<1> DEFINE u == Left(Top, TRUE)
<1>7. Left(Top, FALSE) = <<p>> \o u
  <2>1. Writes(p) = <<p>>
    BY <1>1 DEF Writes
  <2>2. Top \in Frame
    BY <1>2 DEF AtStep
  <2> QED BY <1>2, <2>1, <2>2, LeftStep
<1>8. u \in Seq(Step)
  <2>1. Top \in Frame
    BY <1>2 DEF AtStep
  <2> QED BY <1>2, <2>1, LeftStep
<1>9. Encoding' = Encoding
  BY <1>1 DEF Encoding
<1>10. written \in Seq(Step)
  BY DEF PackInv, TypeOK
<1> HIDE DEF p, u
<1>11. w = <<p>> \o (u \o v) /\ w # <<>> /\ u \o v \in Seq(Step)
  <2>1. <<p>> \in Seq(Step)
    BY <1>2
  <2>2. (<<p>> \o u) \o v = <<p>> \o (u \o v)
    BY <1>8, <2>1, Joins
  <2>3. u \o v \in Seq(Step)
    BY <1>8
  <2>4. Len(<<p>> \o (u \o v)) = 1 + Len(u \o v) /\ Len(u \o v) \in Nat
    BY <2>1, <2>3
  <2>5. <<p>> \o (u \o v) # <<>>
    BY <2>4
  <2> QED BY <1>6, <1>7, <2>2, <2>3, <2>5
<1>12. CASE WriteFails(l)
  <2>1. ret' = -1 /\ written' = written /\ ~thrown'
    BY <1>1, <1>4, <1>12 DEF WriteFails, bufferVars
  <2>2. returning' = TRUE
    BY <1>1, <2>1 DEF Continues
  <2>3. /\ thrown' => calls' = <<>>
        /\ ret' # 0 => returning'
        /\ written' \o w = Encoding' /\ w # <<>> /\ ret' # 0
    BY <1>5, <1>9, <1>11, <2>1, <2>2
  <2> QED BY <2>3 DEF PrefixInv
<1>13. CASE WriteSucceeds(p, l)
  <2>1. ret' = 0 /\ written' = Append(written, p) /\ ~thrown'
    BY <1>1, <1>4, <1>13 DEF WriteSucceeds
  <2>2. Owes(calls', returning', u \o v)
    BY <1>1, <1>6, <2>1, ContinuesOwes DEF u
  <2>3. written' \o (u \o v) = Encoding'
    <3> DEFINE x == u \o v
    <3>1. x \in Seq(Step) /\ w = <<p>> \o x
      BY <1>11
    <3> HIDE DEF x
    <3>2. Append(written, p) \o x = written \o (<<p>> \o x)
      BY <1>2, <1>10, <3>1, AppendJoins
    <3> QED BY <1>5, <1>9, <2>1, <3>1, <3>2 DEF x
  <2> QED BY <1>11, <2>1, <2>2, <2>3 DEF PrefixInv
<1> QED BY <1>3, <1>12, <1>13

\* A call for a child owes what the step owed.
LEMMA CallKeepsPrefix ==
  ASSUME PackInv, PrefixInv, Call
  PROVE  PrefixInv'
<1> DEFINE p == Steps(Top.node)[Top.next]
           g == [node |-> p.of, next |-> 1, limit |-> Top.limit - 1]
<1>1. calls # <<>> /\ ~returning /\ returning = FALSE /\ p.what = "child" /\ ret' = 0
      /\ UNCHANGED <<root, returning, written>>
  BY DEF Call, PackInv, TypeOK, bufferVars
<1>2. (calls' = <<g>> \o calls /\ thrown' = thrown) \/ (calls' = <<>> /\ thrown' = TRUE)
  BY DEF Call
<1>3. p \in Step /\ p.of \in Node /\ AtStep(Top) /\ Top.limit \in Int
  BY <1>1, TopTypes, TopAtStep DEF Step, Frame
<1>4. ret = 0 /\ ~thrown
  BY <1>1 DEF PrefixInv
<1>5. PICK w \in Seq(Step) : written \o w = Encoding /\ Owes(calls, returning, w)
  BY <1>4 DEF PrefixInv
<1>6. Encoding' = Encoding /\ written' = written
  BY <1>1 DEF Encoding
<1>7. CASE calls' = <<>> /\ thrown' = TRUE
  BY <1>1, <1>5, <1>6, <1>7 DEF PrefixInv
<1>8. CASE calls' = <<g>> \o calls /\ thrown' = thrown
  <2>1. PICK v \in Seq(Step) : Owes(Tail(calls), TRUE, v) /\ w = Left(Top, FALSE) \o v
    BY <1>1, <1>5, PopTop
  <2> DEFINE u == Left(Top, TRUE)
             t == Term[p.of]
  <2>0. Top \in Frame /\ Writes(p) = t
    BY <1>1, <1>3 DEF AtStep, Writes
  <2>2. Left(Top, FALSE) = t \o u
    BY <1>3, <2>0, LeftStep
  <2>3. u \in Seq(Step) /\ t \in Seq(Step)
    BY <1>3, <2>0, LeftStep, TermTypes
  <2>4. g \in Frame /\ g.next = 1 /\ g.node = p.of
    BY <1>3 DEF Frame
  <2>5. Owes(calls, TRUE, u \o v)
    <3>1. Owes(<<Top>> \o Tail(calls), TRUE, Left(Top, TRUE) \o v)
      BY <1>1, <1>3, <2>1, TopAtStep, OwesPush
    <3> QED BY <1>1, <3>1, TopAtStep
  <2> HIDE DEF p, g, u
  <2>6. AtStep(g)
    BY <1>3, <2>4, StepsTypes DEF AtStep
  <2>7. Left(g, FALSE) = t
    BY <1>3, <2>4, RemainingAll DEF Left
  <2>8. Owes(<<g>> \o calls, FALSE, Left(g, FALSE) \o (u \o v))
    BY <1>1, <2>4, <2>5, <2>6, TopAtStep, OwesPush
  <2> HIDE DEF t
  <2>9. (t \o u) \o v = t \o (u \o v)
    BY <2>3, Joins
  <2>10. Owes(calls', returning', w)
    BY <1>1, <1>8, <2>1, <2>2, <2>7, <2>8, <2>9
  <2> QED BY <1>1, <1>4, <1>5, <1>6, <1>8, <2>10 DEF PrefixInv
<1> QED BY <1>2, <1>7, <1>8

\* What is owed after a child's call was owed before it returned; after a failure
\* nothing is written on the way up.
LEMMA AfterCallKeepsPrefix ==
  ASSUME PackInv, PrefixInv, AfterCall
  PROVE  PrefixInv'
<1>1. calls # <<>> /\ returning /\ returning = TRUE /\ Continues /\ ret' = ret
      /\ UNCHANGED <<root, thrown, written>>
  BY DEF AfterCall, PackInv, TypeOK, bufferVars
<1>2. ~thrown /\ ~thrown'
  BY <1>1 DEF PrefixInv
<1>3. PICK w \in Seq(Step) : /\ written \o w = Encoding
                             /\ ret # 0 => w # <<>>
                             /\ ret = 0 => Owes(calls, returning, w)
  BY <1>2 DEF PrefixInv
<1>4. Encoding' = Encoding /\ written' = written
  BY <1>1 DEF Encoding
<1>5. CASE ret # 0
  <2>1. ret' # 0 /\ returning' = TRUE
    BY <1>1, <1>5 DEF Continues
  <2> QED BY <1>1, <1>2, <1>3, <1>4, <2>1 DEF PrefixInv
<1>6. CASE ret = 0
  <2>1. PICK v \in Seq(Step) : Owes(Tail(calls), TRUE, v) /\ w = Left(Top, TRUE) \o v
    BY <1>1, <1>3, <1>6, PopTop
  <2>2. ret' = 0
    BY <1>1, <1>6
  <2>3. Owes(calls', returning', w)
    BY <1>1, <2>1, <2>2, ContinuesOwes
  <2> QED BY <1>2, <1>3, <1>4, <2>2, <2>3 DEF PrefixInv
<1> QED BY <1>5, <1>6

LEMMA PrefixInvariant == Spec => []PrefixInv
<1>1. PackInv /\ PrefixInv /\ [Next]_vars => PrefixInv'
  <2> SUFFICES ASSUME PackInv, PrefixInv, [Next]_vars PROVE PrefixInv'
    OBVIOUS
  <2>1. CASE UNCHANGED vars
    <3>1. /\ UNCHANGED <<calls, returning, ret, thrown, written>>
          /\ Encoding' = Encoding
      BY <2>1 DEF vars, bufferVars, Encoding
    <3>2. \A w : Owes(calls, returning, w)' = Owes(calls, returning, w)
      BY <3>1 DEF Owes
    <3> QED BY <3>1, <3>2 DEF PrefixInv
  <2> QED BY <2>1, WriteKeepsPrefix, CallKeepsPrefix, AfterCallKeepsPrefix DEF Next
<1> QED BY <1>1, InitPrefix, PackInvariant, PTL DEF Spec

\* Whatever write fails, and however deep in the value, the buffer holds the
\* beginning of the encoding: after a part that is missing nothing is written.
THEOREM PrefixCorrect == Spec => []HoldsPrefix
<1>1. PackInv /\ PrefixInv => HoldsPrefix
  <2> SUFFICES ASSUME PackInv, PrefixInv PROVE HoldsPrefix
    OBVIOUS
  <2>1. PICK w \in Seq(Step) : written \o w = Encoding
    BY DEF PrefixInv
  <2>2. written \in Seq(Step)
    BY DEF PackInv, TypeOK
  <2>3. SubSeq(written \o w, 1, Len(written)) = written
    BY <2>2
  <2> QED BY <2>1, <2>3 DEF HoldsPrefix
<1> QED BY <1>1, PackInvariant, PrefixInvariant, PTL

\* A value that pack() refuses is in root, or root is nested deeper than the limit.
Refused == Depth[root] > RecurseLimit \/ \E n \in Within[root] : TooLarge(n)

\* Each call has what the limit leaves it for a value as deep as it is below root, and its
\* value is in root.
DepthInv ==
  /\ thrown => Refused
  /\ \A i \in DOMAIN calls :
       /\ Depth[calls[i].node] - calls[i].limit <= Depth[root] - RecurseLimit
       /\ Within[calls[i].node] \subseteq Within[root]

\* The steps that pack a child are those of the children.
LEMMA ChildSteps ==
  ASSUME NEW n \in Node, NEW k \in 1..Len(Steps(n)), Steps(n)[k].what = "child"
  PROVE  \E i \in DOMAIN Children[n] : Steps(n)[k].of = Children[n][i]
<1>1. PICK b \in {0, 1, 2}, m \in Nat, a \in {0, 1} :
      /\ m = Len(Children[n]) /\ Len(Steps(n)) = b + m + a
      /\ \A i \in 1..b : Steps(n)[i] = Before(n)[i] /\ Before(n)[i].what # "child"
      /\ \A i \in 1..m : Steps(n)[b + i] = Part("child", Children[n][i])
      /\ \A i \in 1..a : /\ Steps(n)[b + m + i] = After(n)[i]
                         /\ After(n)[i].what # "child"
  BY StepsAre
<1>2. k \in 1..(b + m + a)
  BY <1>1
<1>3. k \notin 1..b
  BY <1>1
<1>4. ~(k = b + m + 1 /\ a = 1)
  <2>1. a = 1 => 1 \in 1..a
    OBVIOUS
  <2> QED BY <1>1, <2>1
<1> DEFINE i == k - b
<1>5. i \in 1..m /\ k = b + i
  BY <1>2, <1>3, <1>4
<1> HIDE DEF i
<1>6. Steps(n)[k] = Part("child", Children[n][i])
  BY <1>1, <1>5
<1>7. DOMAIN Children[n] = 1..m
  BY <1>1, ValuesAssumption
<1> QED BY <1>5, <1>6, <1>7 DEF Part

\* A step down into the value is one off what the limit leaves.
LEMMA CallKeepsDepth ==
  ASSUME PackInv, DepthInv, Call
  PROVE  DepthInv'
<1> DEFINE p == Steps(Top.node)[Top.next]
           g == [node |-> p.of, next |-> 1, limit |-> Top.limit - 1]
<1>1. calls # <<>> /\ p.what = "child" /\ UNCHANGED root
  BY DEF Call
<1>2. \/ calls' = <<g>> \o calls /\ thrown' = thrown
      \/ calls' = <<>> /\ thrown' = TRUE /\ (Top.limit - 1 < 0 \/ TooLarge(p.of))
  BY DEF Call, Throws, TooDeep
<1>3. /\ Top.node \in Node /\ Top.limit \in Int /\ Top.next \in 1..Len(Steps(Top.node))
      /\ root \in Node /\ calls \in Seq(Frame) /\ Top = calls[1] /\ 1 \in DOMAIN calls
  BY <1>1, TopTypes, TopAtStep DEF Frame, PackInv, TypeOK
<1>4. /\ p.of \in Node /\ Depth[Top.node] > Depth[p.of]
      /\ p.of \in Within[root] /\ Within[p.of] \subseteq Within[root]
  <2>1. PICK i \in DOMAIN Children[Top.node] : p.of = Children[Top.node][i]
    BY <1>1, <1>3, ChildSteps
  <2>2. Children[Top.node][i] \in Node
    BY <1>3, <2>1, ValuesAssumption
  <2>3. Within[p.of] \subseteq Within[Top.node] /\ p.of \in Within[p.of]
    BY <1>3, <2>1, <2>2, WithinAssumption
  <2>4. Within[Top.node] \subseteq Within[root]
    BY <1>3 DEF DepthInv
  <2>5. Depth[Top.node] > Depth[p.of]
    BY <1>3, <2>1, DepthAssumption
  <2> QED BY <2>1, <2>2, <2>3, <2>4, <2>5
<1>5. /\ Depth[p.of] \in Nat /\ Depth[Top.node] \in Nat /\ Depth[root] \in Nat
      /\ RecurseLimit \in Nat
  BY <1>3, <1>4, DepthAssumption, SizesAssumption
<1>6. Depth[Top.node] - Top.limit <= Depth[root] - RecurseLimit
  BY <1>3 DEF DepthInv
<1> DEFINE dt == Depth[Top.node]
           dp == Depth[p.of]
           dr == Depth[root]
           t == Top.limit
<1>7. dt \in Nat /\ dp \in Nat /\ dr \in Nat /\ t \in Int /\ dt > dp /\ dt - t <= dr - RecurseLimit
  BY <1>3, <1>4, <1>5, <1>6
<1> HIDE DEF dt, dp, dr, t
<1>8. (t - 1 < 0 => dr > RecurseLimit) /\ dp - (t - 1) <= dr - RecurseLimit
  BY <1>5, <1>7
<1> HIDE DEF p
<1>9. CASE calls' = <<>> /\ thrown' = TRUE /\ (Top.limit - 1 < 0 \/ TooLarge(p.of))
  <2>1. Top.limit - 1 < 0 => Depth[root] > RecurseLimit
    BY <1>8 DEF t, dr
  <2>2. Refused
    BY <1>4, <1>9, <2>1, Zenon DEF Refused
  <2>3. Refused'
    BY <1>1, <2>2 DEF Refused
  <2> QED BY <1>9, <2>3 DEF DepthInv
<1>10. CASE calls' = <<g>> \o calls /\ thrown' = thrown
  <2>1. g.node = p.of /\ g.limit = Top.limit - 1 /\ g \in Frame
    BY <1>3, <1>4 DEF Frame
  <2>2. /\ Depth[g.node] - g.limit <= Depth[root] - RecurseLimit
        /\ Within[g.node] \subseteq Within[root]
    BY <1>4, <1>8, <2>1 DEF dp, t, dr
  <2> HIDE DEF g
  <2>3. \A i \in DOMAIN calls' :
          calls'[i] = g \/ \E j \in DOMAIN calls : calls'[i] = calls[j]
    BY <1>3, <1>10, <2>1
  <2>4. \A i \in DOMAIN calls' :
          /\ Depth[calls'[i].node] - calls'[i].limit <= Depth[root] - RecurseLimit
          /\ Within[calls'[i].node] \subseteq Within[root]
    BY <2>2, <2>3 DEF DepthInv
  <2>5. Refused' = Refused
    BY <1>1 DEF Refused
  <2> QED BY <1>1, <1>10, <2>4, <2>5 DEF DepthInv
<1> QED BY <1>2, <1>9, <1>10

\* A call that goes on or returns leaves the nodes and limits of the others.
LEMMA ContinuesKeepsDepth ==
  ASSUME PackInv, DepthInv, calls # <<>>, Continues, UNCHANGED <<root, thrown>>
  PROVE  DepthInv'
<1>1. calls \in Seq(Frame) /\ Top \in Frame /\ Top = calls[1] /\ 1 \in DOMAIN calls
      /\ Tail(calls) \in Seq(Frame) /\ Top.next \in Nat
  BY TopTypes, TopAtStep
<1>2. \A i \in DOMAIN Tail(calls) : i + 1 \in DOMAIN calls /\ Tail(calls)[i] = calls[i + 1]
  BY <1>1
<1> DEFINE f == [Top EXCEPT !.next = @ + 1]
<1>3. f.node = Top.node /\ f.limit = Top.limit /\ f \in Frame
  BY <1>1 DEF Frame
<1>4. calls' = Tail(calls) \/ calls' = <<f>> \o Tail(calls)
  BY DEF Continues
<1> HIDE DEF f
<1>5. \A i \in DOMAIN calls' :
        \E j \in DOMAIN calls : /\ calls'[i].node = calls[j].node
                                /\ calls'[i].limit = calls[j].limit
  <2>1. CASE calls' = Tail(calls)
    BY <1>2, <2>1
  <2>2. CASE calls' = <<f>> \o Tail(calls)
    <3> DEFINE s == Tail(calls)
    <3>1. s \in Seq(Frame)
      BY <1>1
    <3> HIDE DEF s
    <3>2. \A i \in DOMAIN (<<f>> \o s) :
            (<<f>> \o s)[i] = f \/ \E j \in DOMAIN s : (<<f>> \o s)[i] = s[j]
      BY <1>3, <3>1
    <3>3. \A i \in DOMAIN calls' : calls'[i] = f \/ \E j \in DOMAIN s : calls'[i] = s[j]
      BY <2>2, <3>2 DEF s
    <3> QED BY <1>1, <1>2, <1>3, <3>3 DEF s
  <2> QED BY <1>4, <2>1, <2>2
<1>6. root' = root /\ thrown' = thrown /\ Refused' = Refused
  BY DEF Refused
<1> QED BY <1>5, <1>6 DEF DepthInv

LEMMA DepthInvariant == Spec => []DepthInv
<1>1. Init => DepthInv
  <2> SUFFICES ASSUME Init PROVE DepthInv
    OBVIOUS
  <2> DEFINE f == [node |-> root, next |-> 1, limit |-> RecurseLimit]
  <2>1. /\ f.node = root /\ f.limit = RecurseLimit /\ root \in Node
        /\ calls = IF thrown THEN <<>> ELSE <<f>>
    BY DEF Init
  <2> HIDE DEF f
  <2>2. Depth[root] \in Nat /\ RecurseLimit \in Nat
    BY <2>1, DepthAssumption, SizesAssumption
  <2>3. \A i \in DOMAIN calls : calls[i] = f
    BY <2>1
  <2>4. thrown => Refused
    <3>1. thrown => RecurseLimit < 0 \/ TooLarge(root)
      BY DEF Init, Throws, TooDeep
    <3>2. root \in Within[root]
      BY <2>1, WithinAssumption
    <3>3. ~(RecurseLimit < 0)
      BY <2>2
    <3> QED BY <3>1, <3>2, <3>3, Zenon DEF Refused
  <2> QED BY <2>1, <2>2, <2>3, <2>4 DEF DepthInv
<1>2. PackInv /\ DepthInv /\ [Next]_vars => DepthInv'
  <2> SUFFICES ASSUME PackInv, DepthInv, [Next]_vars PROVE DepthInv'
    OBVIOUS
  <2>1. CASE UNCHANGED vars
    BY <2>1 DEF vars, DepthInv, Refused
  <2>2. CASE Write
    BY <2>2, ContinuesKeepsDepth DEF Write
  <2>3. CASE Call
    BY <2>3, CallKeepsDepth
  <2>4. CASE AfterCall
    BY <2>4, ContinuesKeepsDepth DEF AfterCall
  <2> QED BY <2>1, <2>2, <2>3, <2>4 DEF Next
<1> QED BY <1>1, <1>2, PackInvariant, PTL DEF Spec

\* pack() returns 0 exactly if the whole value was written, so that an error below is never
\* lost on the way up, and throws only if the value is nested deeper than the limit or one
\* in it has more elements or entries than a header can say.
THEOREM ResultCorrect == Spec => []ResultTells
<1>1. PackInv /\ PrefixInv /\ DepthInv => ResultTells
  <2> SUFFICES ASSUME PackInv, PrefixInv, DepthInv, calls = <<>>, ~thrown
               PROVE  ret = 0 <=> written = Encoding
    BY DEF ResultTells, DepthInv, Refused
  <2>1. PICK w \in Seq(Step) : /\ written \o w = Encoding
                               /\ ret # 0 => w # <<>>
                               /\ ret = 0 => Owes(calls, returning, w)
    BY DEF PrefixInv
  <2>2. written \in Seq(Step) /\ Len(written) \in Nat
    BY DEF PackInv, TypeOK
  <2>3. CASE ret = 0
    <3>1. Owes(<<>>, returning, w)
      BY <2>1, <2>3
    <3>2. w = <<>>
      BY <3>1, OwesNone
    <3> QED BY <2>1, <2>2, <2>3, <3>2, Empties
  <2>4. CASE ret # 0
    <3>1. Len(w) \in Nat /\ Len(w) # 0
      BY <2>1, <2>4
    <3>2. Len(written \o w) = Len(written) + Len(w)
      BY <2>2
    <3>3. Len(written \o w) # Len(written)
      BY <2>2, <3>1, <3>2
    <3> QED BY <2>1, <2>4, <3>3
  <2> QED BY <2>3, <2>4
<1> QED BY <1>1, PackInvariant, PrefixInvariant, DepthInvariant, PTL
=============================================================================
