---------------------------- MODULE BracketsProofs ----------------------------
(***************************************************************************)
(* Where CloseExpression() ends and ReverseCloseExpression() begins, in any *)
(* text.  The stacks of both are described by the brackets in them, as if < *)
(* and > were not there, and by the < or > at their bottom.                 *)
(***************************************************************************)
EXTENDS Brackets, WellFoundedInduction, TLAPS

LEMMA LeastNumber ==
  ASSUME NEW T, T \subseteq Nat, T # {}
  PROVE  \E x \in T : \A y \in T : x <= y
<1>1. IsWellFoundedOn(OpToRel(<, Nat), Nat)
  BY NatLessThanWellFounded
<1>2. PICK x \in T : \A y \in T : ~(<<y, x>> \in OpToRel(<, Nat))
  BY <1>1, WFMin
<1>3. \A y \in T : ~(y < x)
  BY <1>2 DEF OpToRel
<1> QED BY <1>3

LEMMA OneMore == \A a, b, k \in Int : b = a + 1 => (a = k - 1 <=> b = k) /\ b - 1 = a
OBVIOUS

----------------------------------------------------------------------------
(* Stacks.                                                                 *)

\* t is s without its r first elements.
Suffix(t, s, r) ==
  /\ r \in 0..Len(s) /\ Len(t) = Len(s) - r
  /\ \A k \in 1..Len(t) : t[k] = s[k + r]

\* p is s without what is of the kind: at says where its elements are.
Skeleton(s, kind, p) ==
  \E at \in [DOMAIN p -> DOMAIN s] :
    /\ \A j, k \in DOMAIN p : j < k => at[j] < at[k]
    /\ \A j \in DOMAIN p : s[at[j]] = p[j]
    /\ \A k \in DOMAIN s : s[k] # kind <=> \E j \in DOMAIN p : at[j] = k

\* The d last elements of s are all that is of the kind at its bottom.
Hanging(s, kind, d) ==
  /\ d \in 0..Len(s)
  /\ \A k \in (Len(s) - d + 1)..Len(s) : s[k] = kind
  /\ d < Len(s) => s[Len(s) - d] # kind

LEMMA TailSuffix ==
  ASSUME NEW E, NEW s \in Seq(E), s # <<>>
  PROVE  Suffix(Tail(s), s, 1) /\ Tail(s) \in Seq(E) /\ Head(s) = s[1] /\ s[1] \in E
BY DEF Suffix

LEMMA PushSuffix ==
  ASSUME NEW E, NEW s \in Seq(E), NEW c \in E
  PROVE  /\ Suffix(s, <<c>> \o s, 1) /\ <<c>> \o s \in Seq(E)
         /\ (<<c>> \o s)[1] = c /\ <<c>> \o s # <<>>
BY DEF Suffix

\* Without() goes on from the first that is of another kind.
LEMMA WithoutSuffix ==
  ASSUME NEW E, NEW s \in Seq(E), NEW kind
  PROVE  /\ Without(s, kind) \in Seq(E)
         /\ \E r \in 0..Len(s) :
              /\ Suffix(Without(s, kind), s, r)
              /\ \A k \in 1..r : s[k] = kind
         /\ Without(s, kind) # <<>> => Head(Without(s, kind)) # kind
<1> DEFINE from == {k \in DOMAIN s : s[k] # kind}
<1>1. CASE from = {}
  <2>1. Without(s, kind) = <<>>
    BY <1>1 DEF Without
  <2>2. \A k \in 1..Len(s) : s[k] = kind
    BY <1>1
  <2>3. Suffix(<<>>, s, Len(s))
    BY DEF Suffix
  <2> QED BY <2>1, <2>2, <2>3
<1>2. CASE from # {}
  <2> DEFINE m == CHOOSE k \in from : \A j \in from : k <= j
  <2>1. from \subseteq Nat
    OBVIOUS
  <2>2. m \in from /\ \A j \in from : m <= j
    <3>1. \E k \in from : \A j \in from : k <= j
      BY <1>2, <2>1, LeastNumber
    <3> QED BY <3>1
  <2>3. Without(s, kind) = SubSeq(s, m, Len(s))
    BY <1>2 DEF Without
  <2> HIDE DEF m
  <2>4. m \in 1..Len(s) /\ s[m] # kind /\ \A k \in 1..(m - 1) : s[k] = kind
    BY <2>2
  <2>5. /\ Without(s, kind) \in Seq(E) /\ Suffix(Without(s, kind), s, m - 1)
        /\ Without(s, kind)[1] = s[m] /\ Without(s, kind) # <<>>
    <3> DEFINE t == SubSeq(s, m, Len(s))
    <3>1. t \in Seq(E) /\ Len(t) = Len(s) - (m - 1)
      BY <2>4
    <3>2. \A k \in 1..Len(t) : t[k] = s[k + (m - 1)]
      BY <2>4
    <3>3. /\ m - 1 \in 0..Len(s) /\ 1 \in 1..Len(t) /\ 1 + (m - 1) = m
          /\ t # <<>>
      <4>1. m - 1 \in 0..Len(s) /\ Len(t) >= 1 /\ 1 + (m - 1) = m
        BY <2>4, <3>1
      <4>2. t # <<>>
        BY <3>1, <4>1
      <4> QED BY <3>1, <4>1, <4>2
    <3> QED BY <2>3, <3>1, <3>2, <3>3, Zenon DEF Suffix
  <2>6. m - 1 \in 0..Len(s)
    BY <2>4
  <2> QED BY <2>4, <2>5, <2>6
<1> QED BY <1>1, <1>2

\* Dropping or adding what is of the kind leaves the rest.
LEMMA SkeletonDrop ==
  ASSUME NEW E, NEW s \in Seq(E), NEW t \in Seq(E), NEW p \in Seq(E), NEW kind, NEW r,
         Suffix(t, s, r), \A k \in 1..r : s[k] = kind, Skeleton(s, kind, p)
  PROVE  Skeleton(t, kind, p)
<1>1. PICK at \in [DOMAIN p -> DOMAIN s] :
        /\ \A j, k \in DOMAIN p : j < k => at[j] < at[k]
        /\ \A j \in DOMAIN p : s[at[j]] = p[j]
        /\ \A k \in DOMAIN s : s[k] # kind <=> \E j \in DOMAIN p : at[j] = k
  BY DEF Skeleton
<1> DEFINE m == Len(s)
           n == Len(t)
           to == [j \in DOMAIN p |-> at[j] - r]
<1>2. /\ m \in Nat /\ n \in Nat /\ r \in 0..m /\ n = m - r
      /\ DOMAIN s = 1..m /\ DOMAIN t = 1..n /\ \A k \in 1..n : t[k] = s[k + r]
  BY DEF Suffix
<1> HIDE DEF m, n
<1>3. \A j \in DOMAIN p : at[j] \in 1..m /\ at[j] \notin 1..r
  BY <1>1, <1>2
<1>4. \A j \in DOMAIN p : to[j] \in 1..n /\ at[j] = to[j] + r
  BY <1>2, <1>3
<1>5. to \in [DOMAIN p -> DOMAIN t]
  BY <1>2, <1>4
<1> HIDE DEF to
<1>6. \A j, k \in DOMAIN p : j < k => to[j] < to[k]
  BY <1>1, <1>2, <1>4
<1>7. \A j \in DOMAIN p : t[to[j]] = p[j]
  BY <1>1, <1>2, <1>4
<1>8. \A k \in DOMAIN t : t[k] # kind <=> \E j \in DOMAIN p : to[j] = k
  <2> SUFFICES ASSUME NEW k \in 1..n
               PROVE  t[k] # kind <=> \E j \in DOMAIN p : to[j] = k
    BY <1>2
  <2>1. k + r \in 1..m
    BY <1>2
  <2>2. t[k] = s[k + r]
    BY <1>2
  <2>3. s[k + r] # kind <=> \E j \in DOMAIN p : at[j] = k + r
    BY <1>1, <1>2, <2>1
  <2>4. ASSUME NEW j \in DOMAIN p PROVE at[j] = k + r <=> to[j] = k
    BY <1>2, <1>4
  <2> QED BY <2>2, <2>3, <2>4
<1> QED BY <1>5, <1>6, <1>7, <1>8 DEF Skeleton

LEMMA SkeletonAdd ==
  ASSUME NEW E, NEW s \in Seq(E), NEW t \in Seq(E), NEW p \in Seq(E), NEW kind,
         Suffix(t, s, 1), s[1] = kind, Skeleton(t, kind, p)
  PROVE  Skeleton(s, kind, p)
<1>1. PICK at \in [DOMAIN p -> DOMAIN t] :
        /\ \A j, k \in DOMAIN p : j < k => at[j] < at[k]
        /\ \A j \in DOMAIN p : t[at[j]] = p[j]
        /\ \A k \in DOMAIN t : t[k] # kind <=> \E j \in DOMAIN p : at[j] = k
  BY DEF Skeleton
<1> DEFINE m == Len(s)
           n == Len(t)
           to == [j \in DOMAIN p |-> at[j] + 1]
<1>2. /\ m \in Nat /\ n \in Nat /\ m = n + 1
      /\ DOMAIN s = 1..m /\ DOMAIN t = 1..n
  BY DEF Suffix
<1>8. \A k \in 1..n : t[k] = s[k + 1]
  BY DEF Suffix
<1> HIDE DEF m, n
<1>3. \A j \in DOMAIN p : at[j] \in 1..n /\ to[j] = at[j] + 1 /\ to[j] \in 1..m
  BY <1>1, <1>2
<1>4. to \in [DOMAIN p -> DOMAIN s]
  BY <1>2, <1>3
<1> HIDE DEF to
<1>5. \A j, k \in DOMAIN p : j < k => to[j] < to[k]
  BY <1>1, <1>3
<1>6. \A j \in DOMAIN p : s[to[j]] = p[j]
  BY <1>1, <1>2, <1>3, <1>8
<1>7. ASSUME NEW k \in DOMAIN s
      PROVE  s[k] # kind <=> \E j \in DOMAIN p : to[j] = k
  <2>1. CASE k = 1
    BY <1>3, <2>1
  <2>2. CASE k # 1
    <3>1. k - 1 \in 1..n /\ s[k] = t[k - 1]
      BY <1>2, <1>8, <2>2
    <3>2. t[k - 1] # kind <=> \E j \in DOMAIN p : at[j] = k - 1
      BY <1>1, <1>2, <3>1
    <3>3. ASSUME NEW j \in DOMAIN p PROVE at[j] = k - 1 <=> to[j] = k
      BY <1>2, <1>3, <3>1
    <3> QED BY <3>1, <3>2, <3>3
  <2> QED BY <2>1, <2>2
<1> QED BY <1>4, <1>5, <1>6, <1>7 DEF Skeleton

\* What is of another kind is the first of the skeleton.
LEMMA SkeletonPush ==
  ASSUME NEW E, NEW s \in Seq(E), NEW t \in Seq(E), NEW p \in Seq(E), NEW kind,
         NEW c \in E, Suffix(t, s, 1), s[1] = c, c # kind, Skeleton(t, kind, p)
  PROVE  Skeleton(s, kind, <<c>> \o p)
<1>1. PICK at \in [DOMAIN p -> DOMAIN t] :
        /\ \A j, k \in DOMAIN p : j < k => at[j] < at[k]
        /\ \A j \in DOMAIN p : t[at[j]] = p[j]
        /\ \A k \in DOMAIN t : t[k] # kind <=> \E j \in DOMAIN p : at[j] = k
  BY DEF Skeleton
<1> DEFINE m == Len(s)
           n == Len(t)
           l == Len(p)
           q == <<c>> \o p
           to == [j \in 1..(l + 1) |-> IF j = 1 THEN 1 ELSE at[j - 1] + 1]
<1>2. /\ m \in Nat /\ n \in Nat /\ l \in Nat /\ m = n + 1
      /\ DOMAIN s = 1..m /\ DOMAIN t = 1..n /\ DOMAIN p = 1..l
  BY DEF Suffix
<1>3. \A k \in 1..n : t[k] = s[k + 1]
  BY DEF Suffix
<1>4. /\ DOMAIN q = 1..(l + 1) /\ q[1] = c /\ \A j \in 1..l : q[j + 1] = p[j]
  OBVIOUS
<1> HIDE DEF m, n, l, q
<1>5. \A j \in 1..l : at[j] \in 1..n /\ t[at[j]] = p[j]
  BY <1>1, <1>2
<1>6. to[1] = 1 /\ \A j \in 1..l : to[j + 1] = at[j] + 1
  BY <1>2
<1>7. \A j \in 1..(l + 1) : j = 1 \/ (j # 1 /\ j - 1 \in 1..l /\ (j - 1) + 1 = j)
  BY <1>2
<1>8. \A j \in 1..(l + 1) : to[j] \in 1..m
  <2> SUFFICES ASSUME NEW j \in 1..(l + 1) PROVE to[j] \in 1..m
    OBVIOUS
  <2>1. CASE j = 1
    BY <1>2, <1>6, <2>1
  <2>2. CASE j # 1
    BY <1>2, <1>5, <1>6, <1>7, <2>2
  <2> QED BY <2>1, <2>2
<1>9. to \in [DOMAIN q -> DOMAIN s]
  BY <1>2, <1>4, <1>8
<1> HIDE DEF to
<1>10. \A j, k \in DOMAIN q : j < k => to[j] < to[k]
  <2> SUFFICES ASSUME NEW j \in 1..(l + 1), NEW k \in 1..(l + 1), j < k
               PROVE  to[j] < to[k]
    BY <1>4
  <2>1. k - 1 \in 1..l /\ to[k] = at[k - 1] + 1 /\ at[k - 1] \in 1..n
    BY <1>2, <1>5, <1>6, <1>7
  <2>2. CASE j = 1
    BY <1>2, <1>6, <2>1, <2>2
  <2>3. CASE j # 1
    <3>1. j - 1 \in 1..l /\ to[j] = at[j - 1] + 1 /\ j - 1 < k - 1
      BY <1>2, <1>6, <1>7, <2>3
    <3>2. at[j - 1] < at[k - 1] /\ at[j - 1] \in 1..n
      BY <1>1, <1>2, <1>5, <2>1, <3>1
    <3> QED BY <1>2, <2>1, <3>1, <3>2
  <2> QED BY <2>2, <2>3
<1>11. \A j \in DOMAIN q : s[to[j]] = q[j]
  <2> SUFFICES ASSUME NEW j \in 1..(l + 1) PROVE s[to[j]] = q[j]
    BY <1>4
  <2>1. CASE j = 1
    BY <1>4, <1>6, <2>1
  <2>2. CASE j # 1
    <3> DEFINE i0 == j - 1
    <3>1. i0 \in 1..l /\ j = i0 + 1
      BY <1>7, <2>2
    <3> HIDE DEF i0
    <3>2. at[i0] \in 1..n /\ t[at[i0]] = p[i0] /\ q[j] = p[i0] /\ to[j] = at[i0] + 1
      BY <1>4, <1>5, <1>6, <3>1
    <3>3. t[at[i0]] = s[at[i0] + 1]
      BY <1>3, <3>2
    <3> QED BY <3>2, <3>3
  <2> QED BY <2>1, <2>2
<1>12. ASSUME NEW k \in DOMAIN s
       PROVE  s[k] # kind <=> \E j \in DOMAIN q : to[j] = k
  <2>1. CASE k = 1
    <3>1. 1 \in 1..(l + 1)
      BY <1>2
    <3> QED BY <1>4, <1>6, <2>1, <3>1
  <2>2. CASE k # 1
    <3>1. k - 1 \in 1..n /\ s[k] = t[k - 1]
      BY <1>2, <1>3, <2>2
    <3>2. t[k - 1] # kind <=> \E j \in 1..l : at[j] = k - 1
      BY <1>1, <1>2, <3>1
    <3>3. ASSUME NEW j \in 1..l PROVE at[j] = k - 1 <=> to[j + 1] = k
      <4>1. to[j + 1] = at[j] + 1 /\ at[j] \in Int
        BY <1>2, <1>5, <1>6
      <4>2. k \in Int /\ to[j + 1] \in Int
        BY <1>2, <4>1
      <4> QED BY <4>1, <4>2, OneMore
    <3>4. (\E j \in 1..l : to[j + 1] = k) <=> \E j \in 1..(l + 1) : to[j] = k
      <4>1. \A j \in 1..l : j + 1 \in 1..(l + 1)
        BY <1>2
      <4>2. ASSUME NEW j \in 1..(l + 1), to[j] = k PROVE \E i0 \in 1..l : to[i0 + 1] = k
        <5>1. j # 1
          BY <1>6, <2>2, <4>2
        <5>2. j - 1 \in 1..l /\ to[(j - 1) + 1] = k
          BY <1>7, <4>2, <5>1
        <5> QED BY <5>2
      <4> QED BY <4>1, <4>2
    <3> QED BY <1>4, <3>1, <3>2, <3>3, <3>4
  <2> QED BY <2>1, <2>2
<1>13. Skeleton(s, kind, q)
  BY <1>9, <1>10, <1>11, <1>12 DEF Skeleton
<1> QED BY <1>13 DEF q

LEMMA SkeletonPop ==
  ASSUME NEW E, NEW s \in Seq(E), NEW t \in Seq(E), NEW p \in Seq(E), NEW kind,
         Suffix(t, s, 1), s[1] # kind, Skeleton(s, kind, p)
  PROVE  p # <<>> /\ Head(p) = s[1] /\ Skeleton(t, kind, Tail(p))
<1>1. PICK at \in [DOMAIN p -> DOMAIN s] :
        /\ \A j, k \in DOMAIN p : j < k => at[j] < at[k]
        /\ \A j \in DOMAIN p : s[at[j]] = p[j]
        /\ \A k \in DOMAIN s : s[k] # kind <=> \E j \in DOMAIN p : at[j] = k
  BY DEF Skeleton
<1> DEFINE m == Len(s)
           n == Len(t)
           l == Len(p)
<1>2. /\ m \in Nat /\ n \in Nat /\ l \in Nat /\ m = n + 1
      /\ DOMAIN s = 1..m /\ DOMAIN t = 1..n /\ DOMAIN p = 1..l
  BY DEF Suffix
<1>3. \A k \in 1..n : t[k] = s[k + 1]
  BY DEF Suffix
<1>4. p # <<>> => Head(p) = p[1] /\ Len(Tail(p)) = l - 1 /\ Tail(p) \in Seq(E)
                  /\ \A j \in 1..(l - 1) : Tail(p)[j] = p[j + 1]
  OBVIOUS
<1>5. l = 0 <=> p = <<>>
  OBVIOUS
<1> HIDE DEF m, n, l
<1>6. \A j \in 1..l : at[j] \in 1..m /\ s[at[j]] = p[j]
  BY <1>1, <1>2
<1>17. \A j \in 1..l : \A k \in 1..l : j < k => at[j] < at[k]
  BY <1>1, <1>2
<1>18. \A k \in 1..m : s[k] # kind <=> \E j \in 1..l : at[j] = k
  BY <1>1, <1>2
<1>7. PICK f \in 1..l : at[f] = 1
  BY <1>2, <1>18
<1>8. f = 1
  <2>1. CASE 1 < f
    <3>1. 1 \in 1..l
      BY <1>2, <1>7
    <3>2. at[1] < at[f] /\ at[1] \in 1..m
      BY <1>6, <1>7, <1>17, <2>1, <3>1
    <3> QED BY <1>2, <1>7, <3>2
  <2> QED BY <1>2, <1>7, <2>1
<1>9. p # <<>> /\ Head(p) = s[1]
  BY <1>2, <1>4, <1>5, <1>6, <1>7, <1>8
<1> DEFINE q == Tail(p)
           to == [j \in 1..(l - 1) |-> at[j + 1] - 1]
<1>10. /\ l - 1 \in Nat /\ q \in Seq(E) /\ DOMAIN q = 1..(l - 1)
       /\ \A j \in 1..(l - 1) : q[j] = p[j + 1] /\ j + 1 \in 1..l
  BY <1>2, <1>4, <1>9, <1>7
<1> HIDE DEF q
<1>11. \A j \in 1..(l - 1) : to[j] = at[j + 1] - 1 /\ to[j] \in 1..n
  <2> SUFFICES ASSUME NEW j \in 1..(l - 1) PROVE to[j] = at[j + 1] - 1 /\ to[j] \in 1..n
    OBVIOUS
  <2>1. j + 1 \in 1..l /\ 1 < j + 1
    BY <1>10
  <2>2. at[1] < at[j + 1]
    BY <1>7, <1>8, <1>17, <2>1
  <2> QED BY <1>2, <1>6, <1>7, <1>8, <2>1, <2>2
<1>12. to \in [DOMAIN q -> DOMAIN t]
  BY <1>2, <1>10, <1>11
<1> HIDE DEF to
<1>13. \A j, k \in DOMAIN q : j < k => to[j] < to[k]
  <2> SUFFICES ASSUME NEW j \in 1..(l - 1), NEW k \in 1..(l - 1), j < k
               PROVE  to[j] < to[k]
    BY <1>10
  <2>1. j + 1 \in 1..l /\ k + 1 \in 1..l /\ j + 1 < k + 1
    BY <1>10
  <2>2. at[j + 1] < at[k + 1] /\ at[j + 1] \in 1..m /\ at[k + 1] \in 1..m
    BY <1>6, <1>17, <2>1
  <2>3. to[j] = at[j + 1] - 1 /\ to[k] = at[k + 1] - 1
    BY <1>11
  <2> QED BY <1>2, <2>2, <2>3
<1>14. \A j \in DOMAIN q : t[to[j]] = q[j]
  <2> SUFFICES ASSUME NEW j \in 1..(l - 1) PROVE t[to[j]] = q[j]
    BY <1>10
  <2>1. /\ to[j] \in 1..n /\ to[j] = at[j + 1] - 1 /\ at[j + 1] \in 1..m
        /\ s[at[j + 1]] = p[j + 1] /\ q[j] = p[j + 1]
    BY <1>6, <1>10, <1>11
  <2>2. t[to[j]] = s[to[j] + 1]
    BY <1>3, <2>1
  <2>3. to[j] + 1 = at[j + 1]
    <3> DEFINE a == at[j + 1]
    <3>1. a \in Int /\ to[j] = a - 1
      BY <1>2, <2>1
    <3> HIDE DEF a
    <3>2. to[j] + 1 = a
      BY <3>1
    <3> QED BY <3>2 DEF a
  <2> QED BY <2>1, <2>2, <2>3
<1>15. ASSUME NEW k \in DOMAIN t
       PROVE  t[k] # kind <=> \E j \in DOMAIN q : to[j] = k
  <2>1. k + 1 \in 1..m /\ t[k] = s[k + 1]
    BY <1>2, <1>3
  <2>2. t[k] # kind <=> \E j \in 1..l : at[j] = k + 1
    BY <1>18, <2>1
  <2>3. ASSUME NEW j \in 1..(l - 1) PROVE to[j] = k <=> at[j + 1] = k + 1
    <3>1. to[j] = at[j + 1] - 1 /\ at[j + 1] \in Int /\ to[j] \in Int
      <4>1. j + 1 \in 1..l
        BY <1>10
      <4>2. at[j + 1] \in 1..m
        BY <1>6, <4>1
      <4>3. to[j] = at[j + 1] - 1 /\ to[j] \in 1..n
        BY <1>11
      <4> QED BY <1>2, <4>2, <4>3
    <3>2. at[j + 1] = to[j] + 1 /\ k \in Int /\ k + 1 \in Int /\ (k + 1) - 1 = k
      <4>1. k \in Int
        BY <1>2
      <4> QED BY <3>1, <4>1
    <3> QED BY <3>1, <3>2, OneMore
  <2>4. ASSUME NEW j \in 1..l, at[j] = k + 1 PROVE j - 1 \in 1..(l - 1) /\ (j - 1) + 1 = j
    BY <1>2, <1>7, <1>8, <2>4
  <2>5. (\E j \in 1..l : at[j] = k + 1) <=> \E j \in 1..(l - 1) : at[j + 1] = k + 1
    BY <1>10, <2>4
  <2> QED BY <1>10, <2>2, <2>3, <2>5
<1>16. Skeleton(t, kind, q)
  BY <1>12, <1>13, <1>14, <1>15 DEF Skeleton
<1> QED BY <1>9, <1>16 DEF q

\* With no element of another kind, the skeleton is empty.
LEMMA SkeletonEmpty ==
  ASSUME NEW E, NEW s \in Seq(E), NEW p \in Seq(E), NEW kind, Skeleton(s, kind, p)
  PROVE  p # <<>> <=> \E k \in 1..Len(s) : s[k] # kind
<1>1. PICK at \in [DOMAIN p -> DOMAIN s] :
        \A k \in DOMAIN s : s[k] # kind <=> \E j \in DOMAIN p : at[j] = k
  BY DEF Skeleton
<1>2. p # <<>> <=> \E j \in DOMAIN p : TRUE
  <2>1. p # <<>> => 1 \in DOMAIN p
    OBVIOUS
  <2> QED BY <2>1
<1>3. DOMAIN s = 1..Len(s) /\ \A j \in DOMAIN p : at[j] \in DOMAIN s
  OBVIOUS
<1> QED BY <1>1, <1>2, <1>3

\* The bottom of what is left, when what is not of the kind is left or was first.
LEMMA HangingDrop ==
  ASSUME NEW E, NEW s \in Seq(E), NEW t \in Seq(E), NEW kind, NEW d, NEW r,
         Suffix(t, s, r), Hanging(s, kind, d),
         (\E k \in 1..Len(t) : t[k] # kind) \/ (r > 0 /\ s[r] # kind)
  PROVE  Hanging(t, kind, d)
<1> DEFINE m == Len(s)
           n == Len(t)
<1>1. /\ m \in Nat /\ n \in Nat /\ r \in 0..m /\ n = m - r /\ d \in 0..m
      /\ \A k \in 1..n : t[k] = s[k + r]
      /\ \A k \in (m - d + 1)..m : s[k] = kind
      /\ d < m => s[m - d] # kind
  BY DEF Suffix, Hanging
<1> HIDE DEF m, n
<1>2. d <= n
  <2>1. CASE \E k \in 1..n : t[k] # kind
    <3>1. PICK k \in 1..n : s[k + r] # kind
      BY <1>1, <2>1
    <3>2. k + r \in 1..m /\ k + r \notin (m - d + 1)..m
      BY <1>1, <3>1
    <3> QED BY <1>1, <3>2
  <2>2. CASE r > 0 /\ s[r] # kind
    <3>1. r \notin (m - d + 1)..m
      BY <1>1, <2>2
    <3> QED BY <1>1, <2>2, <3>1
  <2> QED BY <2>1, <2>2 DEF n
<1>3. ASSUME NEW k \in (n - d + 1)..n PROVE t[k] = kind
  <2>1. k \in 1..n /\ k + r \in (m - d + 1)..m
    BY <1>1, <1>2
  <2> QED BY <1>1, <2>1
<1>4. ASSUME d < n PROVE t[n - d] # kind
  <2>1. n - d \in 1..n /\ (n - d) + r = m - d /\ d < m
    BY <1>1, <1>2, <1>4
  <2> QED BY <1>1, <2>1
<1> QED BY <1>1, <1>2, <1>3, <1>4 DEF Hanging, n

\* One more on top of what is not all of the kind, or of another kind.
LEMMA HangingAdd ==
  ASSUME NEW E, NEW s \in Seq(E), NEW t \in Seq(E), NEW kind, NEW d,
         Suffix(t, s, 1), Hanging(t, kind, d),
         (\E k \in 1..Len(t) : t[k] # kind) \/ s[1] # kind
  PROVE  Hanging(s, kind, d)
<1> DEFINE m == Len(s)
           n == Len(t)
<1>1. /\ m \in Nat /\ n \in Nat /\ m = n + 1 /\ d \in 0..n
      /\ \A k \in (n - d + 1)..n : t[k] = kind
      /\ d < n => t[n - d] # kind
  BY DEF Suffix, Hanging
<1>2. \A k \in 1..n : t[k] = s[k + 1]
  BY DEF Suffix
<1>3. (\E k \in 1..n : t[k] # kind) \/ s[1] # kind
  OBVIOUS
<1> HIDE DEF m, n
<1>4. ASSUME NEW k \in (m - d + 1)..m PROVE s[k] = kind
  <2>1. k - 1 \in (n - d + 1)..n /\ k - 1 \in 1..n /\ (k - 1) + 1 = k
    BY <1>1
  <2> QED BY <1>1, <1>2, <2>1
<1>5. ASSUME d < m PROVE s[m - d] # kind
  <2>1. CASE d < n
    <3>1. n - d \in 1..n /\ (n - d) + 1 = m - d
      BY <1>1, <2>1
    <3> QED BY <1>1, <1>2, <2>1, <3>1
  <2>2. CASE d = n
    <3>1. \A k \in 1..n : k \in (n - d + 1)..n
      BY <1>1, <2>2
    <3>2. s[1] # kind /\ m - d = 1
      BY <1>1, <1>3, <2>2, <3>1
    <3> QED BY <3>2
  <2> QED BY <1>1, <2>1, <2>2
<1>6. d \in 0..m
  BY <1>1
<1> QED BY <1>4, <1>5, <1>6 DEF Hanging, m

\* All of the kind: the bottom is everything, and changes with the top.
LEMMA HangingAll ==
  ASSUME NEW E, NEW s \in Seq(E), NEW kind, NEW d, Hanging(s, kind, d)
  PROVE  (~\E k \in 1..Len(s) : s[k] # kind) <=> d = Len(s)
<1> DEFINE m == Len(s)
<1>1. /\ m \in Nat /\ d \in 0..m
      /\ \A k \in (m - d + 1)..m : s[k] = kind
      /\ d < m => s[m - d] # kind
  BY DEF Hanging
<1> HIDE DEF m
<1>2. CASE d = m
  BY <1>1, <1>2 DEF m
<1>3. CASE d < m
  <2>1. m - d \in 1..m /\ s[m - d] # kind
    BY <1>1, <1>3
  <2> QED BY <1>1, <1>3, <2>1 DEF m
<1> QED BY <1>1, <1>2, <1>3

LEMMA HangingOneMore ==
  ASSUME NEW E, NEW s \in Seq(E), NEW t \in Seq(E), NEW kind, NEW d,
         Suffix(t, s, 1), s[1] = kind, d = Len(t)
  PROVE  Hanging(t, kind, d) <=> Hanging(s, kind, d + 1)
<1> DEFINE m == Len(s)
<1>1. d \in Nat /\ m = d + 1 /\ \A k \in 1..d : t[k] = s[k + 1]
  BY DEF Suffix
<1> HIDE DEF m
<1>2. Hanging(t, kind, d) <=> \A k \in 1..d : t[k] = kind
  BY <1>1 DEF Hanging
<1>3. Hanging(s, kind, d + 1) <=> \A k \in 1..m : s[k] = kind
  BY <1>1 DEF Hanging, m
<1>4. (\A k \in 1..d : t[k] = kind) => \A k \in 1..m : s[k] = kind
  <2> SUFFICES ASSUME \A k \in 1..d : t[k] = kind, NEW k \in 1..m PROVE s[k] = kind
    OBVIOUS
  <2>1. CASE k = 1
    BY <2>1
  <2>2. CASE k # 1
    <3>1. k - 1 \in 1..d /\ (k - 1) + 1 = k
      BY <1>1, <2>2
    <3> QED BY <1>1, <3>1
  <2> QED BY <2>1, <2>2
<1>5. (\A k \in 1..m : s[k] = kind) => \A k \in 1..d : t[k] = kind
  <2>1. \A k \in 1..d : k + 1 \in 1..m
    BY <1>1
  <2> QED BY <1>1, <2>1
<1> QED BY <1>2, <1>3, <1>4, <1>5

Shape(s, kind, p, d) == Skeleton(s, kind, p) /\ Hanging(s, kind, d)

LEMMA ShapeEmpty == \A kind : Shape(<<>>, kind, <<>>, 0)
<1> SUFFICES ASSUME NEW kind PROVE Shape(<<>>, kind, <<>>, 0)
  OBVIOUS
<1>1. [j \in {} |-> 0] \in [DOMAIN <<>> -> DOMAIN <<>>]
  OBVIOUS
<1>2. Skeleton(<<>>, kind, <<>>)
  BY <1>1 DEF Skeleton
<1>3. Hanging(<<>>, kind, 0)
  BY DEF Hanging
<1> QED BY <1>2, <1>3 DEF Shape

LEMMA ShapeOne ==
  ASSUME NEW kind
  PROVE  Shape(<<kind>>, kind, <<>>, 1)
<1>1. Skeleton(<<kind>>, kind, <<>>)
  <2>1. [j \in {} |-> 0] \in [DOMAIN <<>> -> DOMAIN <<kind>>]
    OBVIOUS
  <2>2. DOMAIN <<kind>> = {1} /\ <<kind>>[1] = kind /\ DOMAIN <<>> = {}
    OBVIOUS
  <2> QED BY <2>1, <2>2 DEF Skeleton
<1>2. Hanging(<<kind>>, kind, 1)
  BY DEF Hanging
<1> QED BY <1>1, <1>2 DEF Shape

LEMMA ShapeIsEmpty ==
  ASSUME NEW E, NEW s \in Seq(E), NEW p \in Seq(E), NEW kind, NEW d, Shape(s, kind, p, d)
  PROVE  /\ d \in Nat
         /\ s = <<>> <=> p = <<>> /\ d = 0
         /\ p = <<>> => d = Len(s)
         /\ p = <<>> /\ s # <<>> => Head(s) = kind
<1>1. /\ Skeleton(s, kind, p) /\ Hanging(s, kind, d)
      /\ d \in 0..Len(s)
  BY DEF Shape, Hanging
<1>2. p = <<>> <=> d = Len(s)
  BY <1>1, SkeletonEmpty, HangingAll
<1>3. p = <<>> => \A k \in 1..Len(s) : s[k] = kind
  BY <1>1, SkeletonEmpty
<1>4. s # <<>> => Head(s) = s[1] /\ 1 \in 1..Len(s)
  OBVIOUS
<1>5. s = <<>> <=> Len(s) = 0
  OBVIOUS
<1> QED BY <1>1, <1>2, <1>3, <1>4, <1>5

LEMMA ShapePushOther ==
  ASSUME NEW E, NEW s \in Seq(E), NEW p \in Seq(E), NEW kind, NEW d, NEW c \in E,
         Shape(s, kind, p, d), c # kind
  PROVE  Shape(<<c>> \o s, kind, <<c>> \o p, d)
<1> DEFINE t == <<c>> \o s
<1>1. Suffix(s, t, 1) /\ t \in Seq(E) /\ t[1] = c
  BY PushSuffix
<1> HIDE DEF t
<1>2. Skeleton(t, kind, <<c>> \o p)
  BY <1>1, SkeletonPush DEF Shape
<1>3. Hanging(t, kind, d)
  BY <1>1, HangingAdd DEF Shape
<1>4. Shape(t, kind, <<c>> \o p, d)
  BY <1>2, <1>3 DEF Shape
<1> QED BY <1>4 DEF t

LEMMA ShapePushKind ==
  ASSUME NEW E, NEW s \in Seq(E), NEW p \in Seq(E), NEW kind \in E, NEW d,
         Shape(s, kind, p, d)
  PROVE  /\ p # <<>> => Shape(<<kind>> \o s, kind, p, d)
         /\ p = <<>> => Shape(<<kind>> \o s, kind, p, d + 1)
<1> DEFINE t == <<kind>> \o s
<1>1. Suffix(s, t, 1) /\ t \in Seq(E) /\ t[1] = kind
  BY PushSuffix
<1> HIDE DEF t
<1>2. Skeleton(t, kind, p)
  BY <1>1, SkeletonAdd DEF Shape
<1>3. p # <<>> => Hanging(t, kind, d)
  BY <1>1, HangingAdd, SkeletonEmpty DEF Shape
<1>4. p = <<>> => Hanging(t, kind, d + 1)
  BY <1>1, HangingOneMore, ShapeIsEmpty DEF Shape
<1>5. /\ p # <<>> => Shape(t, kind, p, d)
      /\ p = <<>> => Shape(t, kind, p, d + 1)
  BY <1>2, <1>3, <1>4 DEF Shape
<1> QED BY <1>5 DEF t

LEMMA ShapePopKind ==
  ASSUME NEW E, NEW s \in Seq(E), NEW p \in Seq(E), NEW kind, NEW d,
         Shape(s, kind, p, d), s # <<>>, Head(s) = kind
  PROVE  /\ Tail(s) \in Seq(E)
         /\ p # <<>> => Shape(Tail(s), kind, p, d)
         /\ p = <<>> => d > 0 /\ Shape(Tail(s), kind, p, d - 1)
<1> DEFINE t == Tail(s)
<1>1. Suffix(t, s, 1) /\ t \in Seq(E) /\ s[1] = kind
  BY TailSuffix
<1>2. Skeleton(s, kind, p) /\ Hanging(s, kind, d)
  BY DEF Shape
<1> HIDE DEF t
<1>3. Skeleton(t, kind, p)
  <2>1. \A k \in 1..1 : s[k] = kind
    BY <1>1
  <2> QED BY <1>1, <1>2, <2>1, SkeletonDrop
<1>4. p # <<>> => Hanging(t, kind, d)
  BY <1>1, <1>2, <1>3, HangingDrop, SkeletonEmpty
<1>5. ASSUME p = <<>> PROVE d > 0 /\ Hanging(t, kind, d - 1)
  <2>1. d \in Nat /\ d = Len(s) /\ d > 0 /\ Len(t) = d - 1
    <3>1. d \in Nat /\ d = Len(s) /\ d # 0
      BY <1>5, ShapeIsEmpty
    <3>2. Len(t) = Len(s) - 1
      BY <1>1 DEF Suffix
    <3> QED BY <3>1, <3>2
  <2> DEFINE e == d - 1
  <2>2. e = Len(t) /\ d = e + 1
    BY <2>1
  <2> HIDE DEF e
  <2>3. Hanging(t, kind, e)
    BY <1>1, <1>2, <2>2, HangingOneMore
  <2> QED BY <2>1, <2>3 DEF e
<1> QED BY <1>1, <1>3, <1>4, <1>5 DEF Shape, t

\* What Without() leaves, and what is below its head.
LEMMA ShapeWithout ==
  ASSUME NEW E, NEW s \in Seq(E), NEW p \in Seq(E), NEW kind, NEW d, Shape(s, kind, p, d)
  PROVE  /\ Without(s, kind) \in Seq(E)
         /\ p = <<>> => Without(s, kind) = <<>>
         /\ p # <<>> => /\ Without(s, kind) # <<>> /\ Head(Without(s, kind)) = Head(p)
                        /\ Shape(Without(s, kind), kind, p, d)
                        /\ Tail(Without(s, kind)) \in Seq(E)
                        /\ Shape(Tail(Without(s, kind)), kind, Tail(p), d)
<1> DEFINE t == Without(s, kind)
<1>1. PICK r \in 0..Len(s) : Suffix(t, s, r) /\ \A k \in 1..r : s[k] = kind
  BY WithoutSuffix
<1>2. t \in Seq(E) /\ (t # <<>> => Head(t) # kind)
  BY WithoutSuffix
<1>3. Skeleton(s, kind, p) /\ Hanging(s, kind, d)
  BY DEF Shape
<1> HIDE DEF t
<1>4. Skeleton(t, kind, p)
  BY <1>1, <1>2, <1>3, SkeletonDrop
<1>5. t # <<>> => Head(t) = t[1] /\ 1 \in 1..Len(t)
  BY <1>2
<1>6. p = <<>> => t = <<>>
  <2>1. p # <<>> <=> \E k \in 1..Len(t) : t[k] # kind
    BY <1>2, <1>4, SkeletonEmpty
  <2> QED BY <1>2, <1>5, <2>1
<1>7. ASSUME p # <<>>
      PROVE  /\ t # <<>> /\ Head(t) = Head(p)
             /\ Shape(t, kind, p, d)
             /\ Tail(t) \in Seq(E) /\ Shape(Tail(t), kind, Tail(p), d)
  <2>1. PICK k \in 1..Len(t) : t[k] # kind
    BY <1>2, <1>4, <1>7, SkeletonEmpty
  <2>2. t # <<>>
    BY <2>1
  <2>3. Hanging(t, kind, d)
    BY <1>1, <1>2, <1>3, <2>1, HangingDrop
  <2> DEFINE u == Tail(t)
  <2>4. Suffix(u, t, 1) /\ u \in Seq(E) /\ t[1] = Head(t) /\ t[1] # kind
    BY <1>2, <2>2, TailSuffix
  <2> HIDE DEF u
  <2>5. Head(p) = t[1] /\ Skeleton(u, kind, Tail(p))
    BY <1>2, <1>4, <2>4, SkeletonPop
  <2>6. Hanging(u, kind, d)
    BY <1>2, <2>3, <2>4, HangingDrop
  <2> QED BY <1>4, <2>2, <2>3, <2>4, <2>5, <2>6 DEF Shape, u
<1> QED BY <1>2, <1>6, <1>7 DEF t
----------------------------------------------------------------------------
(* Types.                                                                  *)

Kept == Opens \cup Closes \cup {"<", ">"}

\* No character is of two kinds.
LEMMA Kinds ==
  /\ Opens \cap Closes = {}
  /\ (Opens \cup Closes) \cap (Nothing \cup {"<", ">", "ge", ";"}) = {}
  /\ Nothing \cap {"<", ">", "ge", ";"} = {}
  /\ AllChars = Opens \cup Closes \cup Nothing \cup {"<", ">", "ge", ";"}
BY DEF Opens, Closes, Nothing, AllChars

LEMMA AfterIs ==
  ASSUME NEW c \in AllChars
  PROVE  /\ Passes(c) => After(c) = stack
         /\ c \in {">", "ge"} /\ ~Passes(c) => After(c) = Tail(stack) /\ On(stack, "<")
         /\ c \in Opens => After(c) = <<c>> \o stack
         /\ c \in Closes => LET s == Pending(stack, "<")
                            IN  After(c) = IF s # <<>> /\ <<Head(s), c>> \in Pair
                                           THEN Tail(s) ELSE <<>>
         /\ c = ";" => After(c) = Pending(stack, "<")
         /\ c = "<" /\ ~Passes(c) =>
              After(c) = IF Last(1) # "<" THEN <<c>> \o stack
                         ELSE IF On(stack, "<") THEN Tail(stack) ELSE stack
<1>1. Passes(c) => c \notin Opens \cup Closes \cup {";"}
  BY Kinds DEF Passes
<1>2. c \in {">", "ge"} /\ ~Passes(c) => On(stack, "<")
  BY DEF Passes
<1>3. c = "<" => c \notin {">", "ge", ";"} /\ c \notin Opens \cup Closes
  BY Kinds
<1>4. c \in {">", "ge"} => c \notin {"<", ";"} /\ c \notin Opens \cup Closes
  BY Kinds
<1>5. c = ";" => c \notin {"<", ">", "ge"} /\ c \notin Opens \cup Closes
  BY Kinds
<1>6. c \in Opens \cup Closes => c \notin {"<", ">", "ge", ";"}
  BY Kinds
<1>7. c \in Opens => c \notin Closes
  BY Kinds
<1>8. Passes(c) => After(c) = stack
  BY <1>1 DEF After
<1>9. c \in {">", "ge"} /\ ~Passes(c) => After(c) = Tail(stack)
  BY <1>4 DEF After
<1>10. c \in Opens => After(c) = <<c>> \o stack
  BY <1>1, <1>6, <1>7 DEF After
<1>11. c \in Closes => LET s == Pending(stack, "<")
                       IN  After(c) = IF s # <<>> /\ <<Head(s), c>> \in Pair
                                      THEN Tail(s) ELSE <<>>
  BY <1>1, <1>6, <1>7 DEF After
<1>12. c = ";" => After(c) = Pending(stack, "<")
  BY <1>1, <1>5 DEF After
<1>13. c = "<" /\ ~Passes(c) =>
         After(c) = IF Last(1) # "<" THEN <<c>> \o stack
                    ELSE IF On(stack, "<") THEN Tail(stack) ELSE stack
  BY <1>3 DEF After
<1> QED BY <1>2, <1>8, <1>9, <1>10, <1>11, <1>12, <1>13

LEMMA BeforeIs ==
  ASSUME NEW c \in AllChars
  PROVE  /\ c \in Closes \cup {">"} => Before(c) = <<c>> \o stack
         /\ c = "<" => Before(c) = IF Begins(c) THEN Tail(stack) ELSE stack
         /\ c \in Opens => Before(c) = IF Begins(c) THEN Tail(Without(stack, ">")) ELSE <<>>
         /\ c = ";" => Before(c) = Without(stack, ">")
         /\ c \in Nothing \cup {"ge"} => Before(c) = stack
<1>1. c \in Closes \cup {">"} => c \notin Opens \cup Nothing \cup {"<", ";", "ge"}
  BY Kinds
<1>2. c = "<" => c \notin Opens \cup Closes \cup Nothing \cup {">", ";", "ge"}
  BY Kinds
<1>3. c \in Opens => c \notin Closes \cup Nothing \cup {"<", ">", ";", "ge"}
  BY Kinds
<1>4. c = ";" => c \notin Opens \cup Closes \cup Nothing \cup {"<", ">", "ge"}
  BY Kinds
<1>5. c \in Nothing \cup {"ge"} => c \notin Opens \cup Closes \cup {"<", ">", ";"}
  BY Kinds
<1>6. c \in Closes \cup {">"} => Before(c) = <<c>> \o stack
  BY <1>1 DEF Before
<1>7. c = "<" => Before(c) = IF Begins(c) THEN Tail(stack) ELSE stack
  BY <1>2 DEF Before
<1>8. c \in Opens => Before(c) = IF Begins(c) THEN Tail(Without(stack, ">")) ELSE <<>>
  BY <1>3 DEF Before
<1>9. c = ";" => Before(c) = Without(stack, ">")
  BY <1>4 DEF Before
<1>10. c \in Nothing \cup {"ge"} => Before(c) = stack
  BY <1>5 DEF Before
<1> QED BY <1>6, <1>7, <1>8, <1>9, <1>10

\* What either scan makes of its stack is a stack.
LEMMA AfterTypes ==
  ASSUME TypeOK, NEW c \in Char
  PROVE  After(c) \in Seq(Kept) /\ PlainAfter(c) \in Seq(Opens)
<1>1. c \in AllChars /\ stack \in Seq(Kept) /\ plain \in Seq(Opens)
  BY CharAssumption DEF TypeOK, Kept
<1> DEFINE s == Pending(stack, "<")
<1>2. s \in Seq(Kept)
  BY <1>1, WithoutSuffix DEF Pending
<1>3. PlainAfter(c) \in Seq(Opens)
  BY <1>1 DEF PlainAfter
<1>4. /\ On(stack, "<") => stack # <<>>
      /\ c \in Opens \cup {"<"} => c \in Kept
      /\ c \in Nothing => Passes(c)
  BY DEF On, Kept, Passes
<1> HIDE DEF s
<1>5. CASE Passes(c)
  BY <1>1, <1>3, <1>5, AfterIs
<1>6. CASE c \in {">", "ge"} /\ ~Passes(c)
  <2>1. After(c) = Tail(stack) /\ stack # <<>>
    BY <1>1, <1>4, <1>6, AfterIs
  <2> QED BY <1>1, <1>3, <2>1
<1>7. CASE c \in Opens
  <2>1. After(c) = <<c>> \o stack /\ c \in Kept
    BY <1>1, <1>4, <1>7, AfterIs
  <2> QED BY <1>1, <1>3, <2>1
<1>8. CASE c \in Closes
  <2>1. After(c) = IF s # <<>> /\ <<Head(s), c>> \in Pair THEN Tail(s) ELSE <<>>
    BY <1>1, <1>8, AfterIs DEF s
  <2> QED BY <1>2, <1>3, <2>1
<1>9. CASE c = ";"
  BY <1>1, <1>2, <1>3, <1>9, AfterIs DEF s
<1>10. CASE c = "<" /\ ~Passes(c)
  <2>1. After(c) = IF Last(1) # "<" THEN <<c>> \o stack
                   ELSE IF On(stack, "<") THEN Tail(stack) ELSE stack
    BY <1>1, <1>10, AfterIs
  <2>2. c \in Kept /\ (On(stack, "<") => stack # <<>>)
    BY <1>4, <1>10
  <2> QED BY <1>1, <1>3, <2>1, <2>2
<1> QED BY <1>1, <1>4, <1>5, <1>6, <1>7, <1>8, <1>9, <1>10, Kinds

LEMMA BeforeTypes ==
  ASSUME TypeOK, NEW c \in Char
  PROVE  Before(c) \in Seq(Kept)
<1>1. c \in AllChars /\ stack \in Seq(Kept)
  BY CharAssumption DEF TypeOK, Kept
<1>2. Without(stack, ">") \in Seq(Kept)
  BY <1>1, WithoutSuffix
<1>3. CASE c \in Closes \cup {">"}
  <2>1. Before(c) = <<c>> \o stack /\ c \in Kept
    BY <1>1, <1>3, BeforeIs DEF Kept
  <2> QED BY <1>1, <2>1
<1>4. CASE c = "<"
  <2>1. Before(c) = IF Begins(c) THEN Tail(stack) ELSE stack
    BY <1>1, <1>4, BeforeIs
  <2>2. Begins(c) => stack # <<>>
    BY <1>4 DEF Begins, On
  <2> QED BY <1>1, <2>1, <2>2
<1>5. CASE c \in Opens
  <2>1. Before(c) = IF Begins(c) THEN Tail(Without(stack, ">")) ELSE <<>>
    BY <1>1, <1>5, BeforeIs
  <2>2. Begins(c) => Without(stack, ">") # <<>>
    BY <1>5, Kinds DEF Begins
  <2> QED BY <1>2, <2>1, <2>2
<1>6. CASE c = ";" \/ c \in Nothing \cup {"ge"}
  BY <1>1, <1>2, <1>6, BeforeIs
<1> QED BY <1>1, <1>3, <1>4, <1>5, <1>6, Kinds

\* The first character of the text.
LEMMA InitTypes == Init => TypeOK
<1> SUFFICES ASSUME Init PROVE TypeOK
  OBVIOUS
<1>1. PICK c \in (Opens \cup {"<"}) \cap Char : text = <<c>> /\ stack = <<c>>
  BY DEF Init
<1>2. text \in Seq(Char) /\ Len(text) = 1 /\ text[1] = c
  BY <1>1
<1>3. 1 \in 1..MaxText /\ 0 \in 0..1
  BY MaxTextAssumption
<1>4. stack \in Seq(Opens \cup Closes \cup {"<", ">"})
  BY <1>1
<1>5. plain \in Seq(Opens)
  BY <1>1, <1>2 DEF Init
<1> QED BY <1>2, <1>3, <1>4, <1>5 DEF Init, TypeOK

\* The stacks, the text and the place in it keep their types in any text: the backward
\* scan never leaves its beginning behind.
THEOREM TypeCorrect == Spec => []TypeOK
<1>1. TypeOK /\ [Next]_vars => TypeOK'
  <2> SUFFICES ASSUME TypeOK, [Next]_vars PROVE TypeOK'
    OBVIOUS
  <2>1. CASE ReadsOn
    <3>1. PICK c \in Char :
            /\ text' = Append(text, c)
            /\ stack' = IF Finds(c) THEN <<>> ELSE After(c)
            /\ phase' = IF Finds(c) THEN "backward"
                        ELSE IF After(c) = <<>> THEN "unclosed" ELSE "forward"
            /\ i' = IF Finds(c) THEN Len(text') ELSE 0
            /\ plain' = PlainAfter(c)
            /\ legal' = (legal /\ (c \in Closes => plain # <<>> /\ <<Head(plain), c>> \in Pair))
      BY <2>1 DEF ReadsOn
    <3>2. Len(text) < MaxText /\ text \in Seq(Char) /\ Len(text) \in 1..MaxText
      BY <2>1 DEF ReadsOn, TypeOK
    <3>3. text' \in Seq(Char) /\ Len(text') \in 1..MaxText
      BY <3>1, <3>2, MaxTextAssumption
    <3>4. stack' \in Seq(Kept) /\ plain' \in Seq(Opens)
      BY <3>1, AfterTypes
    <3>5. i' \in 0..Len(text')
      BY <3>1, <3>3
    <3>6. phase' \in {"forward", "backward", "unclosed"} /\ legal' \in BOOLEAN
      BY <3>1
    <3> QED BY <3>3, <3>4, <3>5, <3>6 DEF TypeOK, Kept
  <2>2. CASE GivesUp
    BY <2>2 DEF GivesUp, TypeOK
  <2>3. CASE PassesOver
    <3>1. i \in 1..Len(text) /\ i - 1 \in DOMAIN text
      BY <2>3 DEF PassesOver, Shift, At, TypeOK
    <3>2. i' \in 0..Len(text)
      BY <2>3, <3>1 DEF PassesOver, TypeOK
    <3> QED BY <2>3, <3>2 DEF PassesOver, TypeOK
  <2>4. CASE ReadsBack
    <3>1. i \in 1..Len(text) /\ text[i] \in Char
      <4>1. i > 0
        BY <2>4 DEF ReadsBack
      <4>2. i \in 0..Len(text) /\ text \in Seq(Char) /\ Len(text) \in Nat
        BY DEF TypeOK
      <4>3. i \in 1..Len(text)
        BY <4>1, <4>2
      <4> QED BY <4>2, <4>3
    <3>2. stack' \in Seq(Opens \cup Closes \cup {"<", ">"})
      BY <2>4, <3>1, BeforeTypes DEF ReadsBack, Kept
    <3>3. phase' \in {"backward", "start", "lost"} /\ i' \in {i - 1, i}
      BY <2>4 DEF ReadsBack
    <3>4. i' \in 0..Len(text)
      BY <3>1, <3>3
    <3> QED BY <2>4, <3>2, <3>3, <3>4 DEF ReadsBack, TypeOK
  <2>5. CASE GoesPast \/ UNCHANGED vars
    BY <2>5 DEF GoesPast, vars, TypeOK
  <2> QED BY <2>1, <2>2, <2>3, <2>4, <2>5 DEF Next
<1> QED BY InitTypes, <1>1, PTL DEF Spec
----------------------------------------------------------------------------
(* What the two scans have in common.                                      *)

\* A place of the text is described by the brackets that are open there, p, and the
\* number d of < below all of them: how c, after b, changes both.
Hung(d, b, c) ==
  IF c = "<" THEN IF b = "<" THEN d - 1 ELSE d + 1
  ELSE IF c = ">" /\ b # "-" THEN d - 1 ELSE d

Moves(p, d, b, c, p2, d2) ==
  \/ c \in Opens /\ p2 = <<c>> \o p /\ d2 = d
  \/ c \in Closes /\ p # <<>> /\ <<Head(p), c>> \in Pair /\ p2 = Tail(p) /\ d2 = d
  \/ c \notin Opens \cup Closes /\ p # <<>> /\ p2 = p /\ d2 = d
  \/ c \notin Opens \cup Closes \cup {";"} /\ p = <<>> /\ p2 = p /\ d2 = Hung(d, b, c)

\* Each closing bracket closes its like.
Rightly(c) == c \in Closes => plain # <<>> /\ <<Head(plain), c>> \in Pair

\* The text reads alike so far, c included.
Alike(c) ==
  \/ text[1] \in Opens
  \/ text[1] = "<" /\ c \notin {"operator", "ge"}
       /\ \A k \in DOMAIN text : text[k] \notin {"operator", "ge"}

\* One character forward: the scan goes on as described, finds the end where nothing is
\* open any more, or ends otherwise.
LEMMA OneForward ==
  ASSUME TypeOK, NEW c \in Char, Alike(c), NEW d \in Nat, text[1] \in Opens => d = 0,
         stack # <<>>, Shape(stack, "<", plain, d)
  PROVE  \/ /\ After(c) # <<>> /\ ~Finds(c) /\ Rightly(c)
            /\ \E d2 \in Nat : /\ Moves(plain, d, Last(1), c, PlainAfter(c), d2)
                               /\ Shape(After(c), "<", PlainAfter(c), d2)
                               /\ text[1] \in Opens => d2 = 0
         \/ /\ Finds(c) /\ Rightly(c) /\ c # "<"
            /\ PlainAfter(c) = <<>> /\ Moves(plain, d, Last(1), c, <<>>, 0)
         \/ /\ After(c) = <<>> /\ ~Finds(c)
            /\ text[1] \in Opens => ~Rightly(c)
<1>1. /\ c \in AllChars /\ stack \in Seq(Kept) /\ plain \in Seq(Opens) /\ plain \in Seq(Kept)
      /\ "<" \in Kept
  BY CharAssumption DEF TypeOK, Kept
<1>2. /\ plain = <<>> => d = Len(stack) /\ d > 0 /\ Head(stack) = "<" /\ text[1] \notin Opens
  BY <1>1, ShapeIsEmpty
<1> DEFINE s == Pending(stack, "<")
<1>3. /\ s \in Seq(Kept)
      /\ plain = <<>> => s = <<>>
      /\ plain # <<>> => /\ s # <<>> /\ Head(s) = Head(plain)
                         /\ Shape(s, "<", plain, d)
                         /\ Tail(s) \in Seq(Kept) /\ Shape(Tail(s), "<", Tail(plain), d)
  BY <1>1, ShapeWithout DEF Pending
<1> HIDE DEF s
<1>4. CASE c \in Opens
  <2>1. /\ After(c) = <<c>> \o stack /\ PlainAfter(c) = <<c>> \o plain
        /\ c \notin Closes /\ c # "<" /\ c \in Kept
    BY <1>1, <1>4, AfterIs, Kinds DEF PlainAfter, Kept
  <2>2. After(c) # <<>>
    BY <1>1, <2>1
  <2>3. Shape(After(c), "<", PlainAfter(c), d)
    BY <1>1, <2>1, ShapePushOther
  <2>4. Moves(plain, d, Last(1), c, PlainAfter(c), d)
    BY <1>4, <2>1 DEF Moves
  <2> QED BY <2>1, <2>2, <2>3, <2>4 DEF Rightly, Finds
<1>5. CASE c \in Closes
  <2>1. /\ After(c) = IF s # <<>> /\ <<Head(s), c>> \in Pair THEN Tail(s) ELSE <<>>
        /\ c \notin Opens /\ c # "<" /\ c \notin {">", "ge"}
    BY <1>1, <1>5, AfterIs, Kinds DEF s
  <2>2. Finds(c) <=> After(c) = <<>> /\ s # <<>> /\ <<Head(s), c>> \in Pair
    BY <1>5, <2>1 DEF Finds, s
  <2>3. CASE Rightly(c)
    <3>1. plain # <<>> /\ <<Head(plain), c>> \in Pair
      BY <1>5, <2>3 DEF Rightly
    <3>2. /\ After(c) = Tail(s) /\ PlainAfter(c) = Tail(plain)
          /\ Finds(c) <=> After(c) = <<>>
      BY <1>3, <1>5, <2>1, <2>2, <3>1 DEF PlainAfter
    <3>3. Moves(plain, d, Last(1), c, PlainAfter(c), d)
      BY <1>5, <3>1, <3>2 DEF Moves
    <3>4. Shape(After(c), "<", PlainAfter(c), d)
      BY <1>3, <3>1, <3>2
    <3>5. After(c) = <<>> => PlainAfter(c) = <<>> /\ d = 0
      <4>1. /\ Tail(s) \in Seq(Kept) /\ Tail(plain) \in Seq(Kept)
            /\ Shape(Tail(s), "<", Tail(plain), d)
        BY <1>1, <1>3, <3>1
      <4> DEFINE u == Tail(s)
                 q == Tail(plain)
      <4> HIDE DEF u, q
      <4>2. u \in Seq(Kept) /\ q \in Seq(Kept) /\ Shape(u, "<", q, d)
        BY <4>1 DEF u, q
      <4>3. u = <<>> => q = <<>> /\ d = 0
        BY <4>2, ShapeIsEmpty
      <4> QED BY <3>2, <4>3 DEF u, q
    <3> QED BY <2>1, <2>3, <3>2, <3>3, <3>4, <3>5
  <2>4. CASE ~Rightly(c)
    <3>1. ~(s # <<>> /\ <<Head(s), c>> \in Pair)
      BY <1>3, <1>5, <2>4 DEF Rightly
    <3> QED BY <2>1, <2>2, <2>4, <3>1
  <2> QED BY <2>3, <2>4
<1>6. CASE c \notin Opens \cup Closes
  <2>1. PlainAfter(c) = plain /\ Rightly(c)
    BY <1>6 DEF PlainAfter, Rightly
  <2>2. Finds(c) <=> After(c) = <<>> /\ c \in {">", "ge"}
    BY <1>6 DEF Finds
  <2>3. CASE plain # <<>>
    <3>1. Moves(plain, d, Last(1), c, PlainAfter(c), d)
      BY <1>6, <2>1, <2>3 DEF Moves
    <3>2. Shape(After(c), "<", plain, d) /\ After(c) \in Seq(Kept)
      <4>1. /\ On(stack, "<") => Shape(Tail(stack), "<", plain, d)
                                 /\ Tail(stack) \in Seq(Kept)
        BY <1>1, <2>3, ShapePopKind DEF On
      <4>2. Shape(<<"<">> \o stack, "<", plain, d) /\ <<"<">> \o stack \in Seq(Kept)
        BY <1>1, <2>3, ShapePushKind
      <4>3. \/ After(c) = stack
            \/ On(stack, "<") /\ After(c) = Tail(stack)
            \/ After(c) = <<"<">> \o stack
            \/ After(c) = s
        <5>1. c \in Nothing => Passes(c)
          BY DEF Passes
        <5> QED BY <1>1, <1>6, <5>1, AfterIs, Kinds DEF s
      <4> QED BY <1>1, <1>3, <2>3, <4>1, <4>2, <4>3
    <3>3. After(c) # <<>>
      BY <1>1, <2>3, <3>2, ShapeIsEmpty
    <3> QED BY <2>1, <2>2, <3>1, <3>2, <3>3
  <2>4. CASE plain = <<>>
    <3>1. /\ c \notin {"operator", "ge"}
          /\ \A k \in DOMAIN text : text[k] \notin {"operator", "ge"}
          /\ On(stack, "<") /\ d > 0
      BY <1>2, <2>4 DEF Alike, On
    <3>2. Last(1) # "operator" /\ Last(2) # "operator"
      BY <3>1 DEF Last, TypeOK
    <3>3. /\ Tail(stack) \in Seq(Kept) /\ Shape(Tail(stack), "<", plain, d - 1)
          /\ Tail(stack) = <<>> <=> d - 1 = 0
          /\ d - 1 \in Nat
      <4> DEFINE u == Tail(stack)
                 e == d - 1
      <4>1. u \in Seq(Kept) /\ Shape(u, "<", plain, e)
        BY <1>1, <2>4, <3>1, ShapePopKind DEF On
      <4>2. e \in Nat
        BY <3>1
      <4> HIDE DEF u, e
      <4>3. u = <<>> <=> plain = <<>> /\ e = 0
        BY <1>1, <4>1, ShapeIsEmpty
      <4> QED BY <2>4, <4>1, <4>2, <4>3 DEF u, e
    <3>4. CASE c = ";"
      <4>1. After(c) = <<>>
        BY <1>1, <1>3, <2>4, <3>4, AfterIs DEF s
      <4> QED BY <1>2, <2>2, <2>4, <3>4, <4>1
    <3>5. CASE c \in Nothing \/ (c = ">" /\ Last(1) = "-")
      <4>1. Passes(c) /\ c # "<"
        BY <3>5, Kinds DEF Passes
      <4>2. After(c) = stack
        BY <1>1, <4>1, AfterIs
      <4>3. Moves(plain, d, Last(1), c, PlainAfter(c), d)
        BY <1>6, <2>1, <2>4, <3>5, <4>1, Kinds DEF Moves, Hung
      <4> QED BY <1>2, <2>1, <2>2, <2>4, <4>2, <4>3
    <3>6. CASE c = ">" /\ Last(1) # "-"
      <4>1. ~Passes(c)
        BY <3>1, <3>2, <3>6 DEF Passes, Nothing
      <4>2. After(c) = Tail(stack)
        BY <1>1, <3>6, <4>1, AfterIs
      <4>3. Moves(plain, d, Last(1), c, PlainAfter(c), d - 1)
        BY <1>6, <2>1, <2>4, <3>6 DEF Moves, Hung
      <4> QED BY <1>2, <2>1, <2>2, <2>4, <3>3, <3>6, <4>2, <4>3
    <3>7. CASE c = "<"
      <4>1. ~Passes(c)
        BY <3>2, <3>7 DEF Passes, Nothing
      <4>2. After(c) = IF Last(1) # "<" THEN <<c>> \o stack
                       ELSE IF On(stack, "<") THEN Tail(stack) ELSE stack
        BY <1>1, <3>7, <4>1, AfterIs
      <4>3. CASE Last(1) # "<"
        <5>1. Shape(After(c), "<", plain, d + 1) /\ After(c) # <<>>
          <6>1. After(c) = <<"<">> \o stack
            BY <3>7, <4>2, <4>3
          <6>2. Shape(<<"<">> \o stack, "<", plain, d + 1)
            BY <1>1, <2>4, ShapePushKind
          <6>3. <<"<">> \o stack # <<>>
            BY <1>1
          <6> QED BY <6>1, <6>2, <6>3
        <5>2. Moves(plain, d, Last(1), c, PlainAfter(c), d + 1)
          BY <1>6, <2>1, <2>4, <3>7, <4>3 DEF Moves, Hung
        <5> QED BY <1>2, <2>1, <2>2, <2>4, <3>7, <5>1, <5>2
      <4>4. CASE Last(1) = "<"
        <5>1. After(c) = Tail(stack)
          BY <3>1, <4>2, <4>4
        <5>2. Moves(plain, d, Last(1), c, PlainAfter(c), d - 1)
          BY <1>6, <2>1, <2>4, <3>7, <4>4 DEF Moves, Hung
        <5> QED BY <1>2, <2>1, <2>2, <2>4, <3>3, <3>7, <5>1, <5>2
      <4> QED BY <4>3, <4>4
    <3> QED BY <1>1, <1>6, <3>1, <3>4, <3>5, <3>6, <3>7, Kinds
  <2> QED BY <2>3, <2>4
<1> QED BY <1>4, <1>5, <1>6

\* The places of the text t so far: what is open after each, and that something is,
\* but perhaps after the last.
History(t, P, D) ==
  /\ P \in [1..Len(t) -> Seq(Opens)] /\ D \in [1..Len(t) -> Nat]
  /\ P[1] = IF t[1] = "<" THEN <<>> ELSE <<t[1]>>
  /\ D[1] = IF t[1] = "<" THEN 1 ELSE 0
  /\ t[1] \in Opens => \A k \in 1..Len(t) : D[k] = 0
  /\ \A k \in 1..(Len(t) - 1) :
       /\ P[k] # <<>> \/ D[k] > 0
       /\ Moves(P[k], D[k], t[k], t[k + 1], P[k + 1], D[k + 1])

LEMMA HistoryGrows ==
  ASSUME NEW t \in Seq(Char), t # <<>>, NEW c \in Char, NEW P, NEW D, History(t, P, D),
         NEW p \in Seq(Opens), NEW d \in Nat, t[1] \in Opens => d = 0,
         P[Len(t)] # <<>> \/ D[Len(t)] > 0,
         Moves(P[Len(t)], D[Len(t)], t[Len(t)], c, p, d)
  PROVE  \E P2, D2 : /\ History(Append(t, c), P2, D2)
                     /\ P2[Len(Append(t, c))] = p /\ D2[Len(Append(t, c))] = d
<1> DEFINE n == Len(t)
           t2 == Append(t, c)
           P2 == [k \in 1..(n + 1) |-> IF k = n + 1 THEN p ELSE P[k]]
           D2 == [k \in 1..(n + 1) |-> IF k = n + 1 THEN d ELSE D[k]]
<1>1. /\ n \in Nat \ {0} /\ Len(t2) = n + 1 /\ t2[n + 1] = c
      /\ \A k \in 1..n : t2[k] = t[k]
  OBVIOUS
<1>2. /\ P \in [1..n -> Seq(Opens)] /\ D \in [1..n -> Nat]
      /\ P[1] = IF t[1] = "<" THEN <<>> ELSE <<t[1]>>
      /\ D[1] = IF t[1] = "<" THEN 1 ELSE 0
      /\ t[1] \in Opens => \A k \in 1..n : D[k] = 0
      /\ \A k \in 1..(n - 1) :
           /\ P[k] # <<>> \/ D[k] > 0
           /\ Moves(P[k], D[k], t[k], t[k + 1], P[k + 1], D[k + 1])
  BY DEF History
<1>3. (P[n] # <<>> \/ D[n] > 0) /\ Moves(P[n], D[n], t[n], c, p, d)
  OBVIOUS
<1> HIDE DEF n, t2
<1>4. /\ P2 \in [1..(n + 1) -> Seq(Opens)] /\ D2 \in [1..(n + 1) -> Nat]
  <2>1. \A k \in 1..(n + 1) : k = n + 1 \/ k \in 1..n
    BY <1>1
  <2> QED BY <1>2, <2>1
<1>5. /\ P2[n + 1] = p /\ D2[n + 1] = d
      /\ \A k \in 1..n : P2[k] = P[k] /\ D2[k] = D[k]
  BY <1>1
<1> HIDE DEF P2, D2
<1>6. 1 \in 1..n /\ t2[1] = t[1]
  BY <1>1
<1>7. t2[1] \in Opens => \A k \in 1..(n + 1) : D2[k] = 0
  <2> SUFFICES ASSUME t[1] \in Opens, NEW k \in 1..(n + 1) PROVE D2[k] = 0
    BY <1>6
  <2>1. CASE k = n + 1
    BY <1>5, <2>1
  <2>2. CASE k \in 1..n
    BY <1>2, <1>5, <2>2
  <2> QED BY <1>1, <2>1, <2>2
<1>8. ASSUME NEW k \in 1..n
      PROVE  /\ P2[k] # <<>> \/ D2[k] > 0
             /\ Moves(P2[k], D2[k], t2[k], t2[k + 1], P2[k + 1], D2[k + 1])
  <2>1. CASE k = n
    BY <1>1, <1>3, <1>5, <2>1
  <2>2. CASE k # n
    <3>1. k \in 1..(n - 1) /\ k + 1 \in 1..n
      BY <1>1, <2>2
    <3> QED BY <1>1, <1>2, <1>5, <3>1
  <2> QED BY <2>1, <2>2
<1>9. Len(t2) = n + 1 /\ (n + 1) - 1 = n
  BY <1>1
<1>10. History(t2, P2, D2)
  BY <1>2, <1>4, <1>5, <1>6, <1>7, <1>8, <1>9 DEF History
<1> QED BY <1>5, <1>9, <1>10 DEF t2

\* q closes what p has open.
Mirror(p, q) == Len(q) = Len(p) /\ \A k \in 1..Len(p) : <<p[k], q[k]>> \in Pair

LEMMA MirrorEmpty ==
  ASSUME NEW p \in Seq(Opens), NEW q \in Seq(Closes), Mirror(p, q)
  PROVE  p = <<>> <=> q = <<>>
BY DEF Mirror

LEMMA MirrorPush ==
  ASSUME NEW p \in Seq(Opens), NEW q \in Seq(Closes), NEW c \in Closes,
         p # <<>>, <<Head(p), c>> \in Pair, Mirror(Tail(p), q)
  PROVE  Mirror(p, <<c>> \o q)
<1> DEFINE m == Len(q)
           r == <<c>> \o q
           u == Tail(p)
<1>1. m \in Nat /\ Len(r) = m + 1 /\ r[1] = c /\ \A k \in 1..m : r[k + 1] = q[k]
  OBVIOUS
<1>2. /\ Len(p) = Len(u) + 1 /\ p[1] = Head(p) /\ \A k \in 1..Len(u) : u[k] = p[k + 1]
      /\ Len(u) \in Nat
  OBVIOUS
<1>3. Len(u) = m /\ \A k \in 1..m : <<u[k], q[k]>> \in Pair
  BY DEF Mirror
<1> HIDE DEF m, r, u
<1>4. ASSUME NEW k \in 1..Len(p) PROVE <<p[k], r[k]>> \in Pair
  <2>1. CASE k = 1
    BY <1>1, <1>2, <2>1
  <2>2. CASE k # 1
    <3> DEFINE j == k - 1
    <3>1. j \in 1..m /\ k = j + 1
      BY <1>1, <1>2, <1>3, <2>2
    <3> HIDE DEF j
    <3> QED BY <1>1, <1>2, <1>3, <3>1
  <2> QED BY <2>1, <2>2
<1>5. Len(r) = Len(p)
  BY <1>1, <1>2, <1>3
<1> QED BY <1>4, <1>5 DEF Mirror, r

LEMMA MirrorPop ==
  ASSUME NEW p \in Seq(Opens), NEW c \in Opens, NEW q \in Seq(Closes),
         Mirror(<<c>> \o p, q)
  PROVE  q # <<>> /\ <<c, Head(q)>> \in Pair /\ Mirror(p, Tail(q)) /\ Tail(q) \in Seq(Closes)
<1> DEFINE m == Len(p)
           r == <<c>> \o p
           u == Tail(q)
<1>1. m \in Nat /\ Len(r) = m + 1 /\ r[1] = c /\ \A k \in 1..m : r[k + 1] = p[k]
  OBVIOUS
<1>2. Len(q) = Len(r) /\ \A k \in 1..Len(r) : <<r[k], q[k]>> \in Pair
  BY DEF Mirror
<1> HIDE DEF r
<1>3. q # <<>>
  BY <1>1, <1>2
<1>4. /\ Len(u) = Len(q) - 1 /\ q[1] = Head(q) /\ \A k \in 1..Len(u) : u[k] = q[k + 1]
      /\ u \in Seq(Closes)
  BY <1>3
<1> HIDE DEF m, u
<1>5. Len(u) = m /\ 1 \in 1..Len(r) /\ \A k \in 1..m : k + 1 \in 1..Len(r)
  BY <1>1, <1>2, <1>4
<1>6. Mirror(p, u)
  BY <1>1, <1>2, <1>4, <1>5 DEF Mirror, m
<1> QED BY <1>1, <1>2, <1>3, <1>4, <1>5, <1>6 DEF u

\* The backward scan at the place i, after which the text is closed by the stack.
Place(P, D, k) ==
  /\ k \in 1..Len(text)
  /\ \E q \in Seq(Closes) : Mirror(P[k], q) /\ Shape(stack, ">", q, D[k])

\* A text that CloseExpression() has found the end of.
Ended(P, D) ==
  /\ History(text, P, D) /\ Len(text) > 1
  /\ P[Len(text)] = <<>> /\ D[Len(text)] = 0 /\ text[Len(text)] # "<"

\* What a history says of a place that is not the first.
LEMMA PlaceBefore ==
  ASSUME TypeOK, NEW P, NEW D, History(text, P, D), NEW k \in 2..Len(text)
  PROVE  /\ P[k] \in Seq(Opens) /\ P[k - 1] \in Seq(Opens) /\ D[k] \in Nat /\ D[k - 1] \in Nat
         /\ text[k] \in AllChars /\ text[k - 1] \in AllChars /\ At(k - 1) = text[k - 1]
         /\ P[k - 1] # <<>> \/ D[k - 1] > 0
         /\ Moves(P[k - 1], D[k - 1], text[k - 1], text[k], P[k], D[k])
<1>1. text \in Seq(Char) /\ Len(text) \in Nat /\ Char \subseteq AllChars
  BY CharAssumption DEF TypeOK
<1>2. k \in 1..Len(text) /\ k - 1 \in 1..Len(text) /\ k - 1 \in 1..(Len(text) - 1)
      /\ (k - 1) + 1 = k
  BY <1>1
<1>3. text[k] \in AllChars /\ text[k - 1] \in AllChars /\ At(k - 1) = text[k - 1]
  BY <1>1, <1>2 DEF At
<1>4. P[k] \in Seq(Opens) /\ P[k - 1] \in Seq(Opens) /\ D[k] \in Nat /\ D[k - 1] \in Nat
  BY <1>2 DEF History
<1>5. /\ P[k - 1] # <<>> \/ D[k - 1] > 0
      /\ Moves(P[k - 1], D[k - 1], text[k - 1], text[(k - 1) + 1], P[(k - 1) + 1], D[(k - 1) + 1])
  BY <1>2 DEF History
<1> QED BY <1>2, <1>3, <1>4, <1>5

\* One character backward, which is not the first: the stack closes what is before it.
LEMMA OneBack ==
  ASSUME TypeOK, ReadAlike, NEW P, NEW D, Ended(P, D), Place(P, D, i), i # 1,
         ~Shift(text[i])
  PROVE  Before(text[i]) # <<>>
         /\ \E q \in Seq(Closes) : /\ Mirror(P[i - 1], q)
                                   /\ Shape(Before(text[i]), ">", q, D[i - 1])
<1>1. i \in 2..Len(text) /\ Len(text) \in Nat /\ History(text, P, D)
  BY DEF Place, TypeOK, Ended
<1> DEFINE c == text[i]
           b == text[i - 1]
           p == P[i]
           p0 == P[i - 1]
           d == D[i]
           d0 == D[i - 1]
<1>2. /\ p \in Seq(Opens) /\ p0 \in Seq(Opens) /\ d \in Nat /\ d0 \in Nat
      /\ c \in AllChars /\ b \in AllChars /\ At(i - 1) = b
      /\ p0 # <<>> \/ d0 > 0
      /\ Moves(p0, d0, b, c, p, d)
  BY <1>1, PlaceBefore
<1>3. PICK q \in Seq(Closes) : Mirror(p, q) /\ Shape(stack, ">", q, d)
  BY DEF Place
<1>4. text[1] \in Opens => d0 = 0
  BY <1>1 DEF History
<1>5. ~Shift(c) /\ (c = ">" => b \notin {"-", "operator"}) /\ (c = "<" => b # "<")
  BY <1>2 DEF Shift
<1>6. text[1] \notin Opens => c \notin {"operator", "ge"}
  BY <1>1 DEF ReadAlike
<1>7. stack \in Seq(Kept) /\ q \in Seq(Kept) /\ ">" \in Kept /\ Before(c) \in Seq(Kept)
  <2>1. c \in Char
    BY <1>1 DEF TypeOK
  <2> QED BY <2>1, BeforeTypes DEF TypeOK, Kept
<1> SUFFICES /\ Before(c) # <<>>
             /\ \E u \in Seq(Closes) : Mirror(p0, u) /\ Shape(Before(c), ">", u, d0)
  OBVIOUS
<1> HIDE DEF c, b, p, p0, d, d0
\* A stack of that shape is not empty, for something is open.
<1>8. ASSUME NEW r \in Seq(Closes), Mirror(p0, r), Shape(Before(c), ">", r, d0)
      PROVE  /\ Before(c) # <<>>
             /\ \E u \in Seq(Closes) : Mirror(p0, u) /\ Shape(Before(c), ">", u, d0)
  <2>1. r \in Seq(Kept)
    BY DEF Kept
  <2>2. p0 = <<>> <=> r = <<>>
    BY <1>2, <1>8, MirrorEmpty
  <2>3. Before(c) = <<>> => r = <<>> /\ d0 = 0
    BY <1>7, <1>8, <2>1, ShapeIsEmpty
  <2> QED BY <1>2, <1>8, <2>2, <2>3
<1>9. CASE c \in Opens /\ p = <<c>> \o p0 /\ d = d0
  <2>1. q # <<>> /\ <<c, Head(q)>> \in Pair /\ Mirror(p0, Tail(q)) /\ Tail(q) \in Seq(Closes)
    BY <1>2, <1>3, <1>9, MirrorPop
  <2> DEFINE w == Without(stack, ">")
  <2>2. w # <<>> /\ Head(w) = Head(q) /\ Shape(Tail(w), ">", Tail(q), d)
    BY <1>3, <1>7, <2>1, ShapeWithout
  <2>3. c # "<"
    BY <1>9, Kinds
  <2>4. Begins(c)
    BY <2>1, <2>2, <2>3 DEF Begins
  <2>5. Before(c) = Tail(w)
    BY <1>2, <1>9, <2>4, BeforeIs
  <2> HIDE DEF w
  <2> QED BY <1>8, <1>9, <2>1, <2>2, <2>5
<1>10. CASE c \in Closes /\ p0 # <<>> /\ <<Head(p0), c>> \in Pair /\ p = Tail(p0) /\ d = d0
  <2>1. Before(c) = <<c>> \o stack /\ c # ">" /\ c \in Kept
    BY <1>2, <1>10, BeforeIs, Kinds DEF Kept
  <2>2. Shape(<<c>> \o stack, ">", <<c>> \o q, d)
    BY <1>3, <1>7, <2>1, ShapePushOther
  <2>3. <<c>> \o q \in Seq(Closes) /\ Mirror(p0, <<c>> \o q)
    BY <1>2, <1>3, <1>10, MirrorPush
  <2> QED BY <1>8, <1>10, <2>1, <2>2, <2>3
<1>11. CASE c \notin Opens \cup Closes /\ p0 # <<>> /\ p = p0 /\ d = d0
  <2>1. q # <<>>
    BY <1>2, <1>3, <1>11, MirrorEmpty
  <2>2. /\ On(stack, ">") => Shape(Tail(stack), ">", q, d)
        /\ Shape(<<">">> \o stack, ">", q, d)
        /\ Shape(Without(stack, ">"), ">", q, d)
    <3>1. On(stack, ">") => Shape(Tail(stack), ">", q, d)
      BY <1>3, <1>7, <2>1, ShapePopKind DEF On
    <3>2. Shape(<<">">> \o stack, ">", q, d)
      BY <1>3, <1>7, <2>1, ShapePushKind
    <3>3. Shape(Without(stack, ">"), ">", q, d)
      BY <1>3, <1>7, <2>1, ShapeWithout
    <3> QED BY <3>1, <3>2, <3>3
  <2>3. \/ Before(c) = stack
        \/ On(stack, ">") /\ Before(c) = Tail(stack)
        \/ Before(c) = <<">">> \o stack
        \/ Before(c) = Without(stack, ">")
    <3>1. c = "<" => (Begins(c) <=> On(stack, ">"))
      BY DEF Begins
    <3> QED BY <1>2, <1>11, <3>1, BeforeIs, Kinds
  <2>4. Shape(Before(c), ">", q, d0)
    BY <1>3, <1>11, <2>2, <2>3
  <2> QED BY <1>3, <1>8, <1>11, <2>4
<1>12. CASE c \notin Opens \cup Closes \cup {";"} /\ p0 = <<>> /\ p = p0 /\ d = Hung(d0, b, c)
  <2>1. q = <<>> /\ d0 > 0 /\ c \notin {"operator", "ge"}
    <3>1. q = <<>>
      BY <1>2, <1>3, <1>12, MirrorEmpty
    <3>2. d0 > 0
      BY <1>2, <1>12
    <3>3. text[1] \notin Opens
      BY <1>4, <3>2
    <3> QED BY <1>6, <3>1, <3>2, <3>3
  <2>2. CASE c = "<"
    <3>1. d = d0 + 1
      BY <1>5, <1>12, <2>2 DEF Hung
    <3>2. stack # <<>> /\ Head(stack) = ">"
      <4>1. d # 0
        BY <1>2, <3>1
      <4>2. Shape(stack, ">", q, d)
        BY <1>3
      <4>3. stack # <<>>
        BY <1>7, <4>1, <4>2, ShapeIsEmpty
      <4> QED BY <1>7, <2>1, <4>2, <4>3, ShapeIsEmpty
    <3>3. Shape(Tail(stack), ">", q, d - 1)
      BY <1>3, <1>7, <2>1, <3>2, ShapePopKind
    <3>4. Before(c) = Tail(stack) /\ d - 1 = d0
      <4>1. d - 1 = d0
        BY <1>2, <3>1
      <4>2. Begins(c)
        BY <2>2, <3>2 DEF Begins, On
      <4> QED BY <1>2, <2>2, <4>1, <4>2, BeforeIs
    <3> QED BY <1>3, <1>8, <1>12, <3>3, <3>4
  <2>3. CASE c = ">"
    <3>1. d + 1 = d0
      BY <1>2, <1>5, <1>12, <2>3 DEF Hung
    <3>2. Shape(<<">">> \o stack, ">", q, d + 1)
      BY <1>3, <1>7, <2>1, ShapePushKind
    <3>3. Before(c) = <<">">> \o stack
      BY <1>2, <2>3, BeforeIs
    <3> QED BY <1>3, <1>8, <1>12, <3>1, <3>2, <3>3
  <2>4. CASE c \in Nothing
    <3>1. d = d0 /\ Before(c) = stack
      BY <1>2, <1>12, <2>4, BeforeIs, Kinds DEF Hung
    <3> QED BY <1>3, <1>8, <1>12, <3>1
  <2> QED BY <1>2, <1>12, <2>1, <2>2, <2>3, <2>4, Kinds
<1> QED BY <1>2, <1>9, <1>10, <1>11, <1>12 DEF Moves

\* The first character: the search ends there.
LEMMA OneFirst ==
  ASSUME TypeOK, text[1] \in Opens \cup {"<"}, NEW P, NEW D, Ended(P, D), Place(P, D, 1), i = 1
  PROVE  ~Shift(text[1]) /\ Begins(text[1]) /\ Before(text[1]) = <<>>
<1>1. PICK q \in Seq(Closes) : Mirror(P[1], q) /\ Shape(stack, ">", q, D[1])
  BY DEF Place
<1>2. /\ stack \in Seq(Kept) /\ q \in Seq(Kept) /\ text[1] \in AllChars
  <2>1. stack \in Seq(Kept) /\ q \in Seq(Kept)
    BY DEF TypeOK, Kept
  <2>2. text[1] \in AllChars
    BY Kinds
  <2> QED BY <2>1, <2>2
<1>6. /\ P[1] = IF text[1] = "<" THEN <<>> ELSE <<text[1]>>
      /\ D[1] = IF text[1] = "<" THEN 1 ELSE 0
  BY DEF Ended, History
<1>7. P[1] \in Seq(Opens)
  BY <1>6
<1>3. ~Shift(text[1])
  <2>1. At(i - 1) = "newline"
    BY DEF At, TypeOK
  <2> QED BY <2>1 DEF Shift
<1>4. CASE text[1] = "<"
  <2>1. q = <<>> /\ Shape(stack, ">", q, 1)
    BY <1>1, <1>4, <1>6, <1>7, MirrorEmpty
  <2>2. stack # <<>> /\ Head(stack) = ">"
    <3>1. 1 # 0
      OBVIOUS
    <3> QED BY <1>2, <2>1, <3>1, ShapeIsEmpty
  <2>3. Shape(Tail(stack), ">", <<>>, 1 - 1) /\ Tail(stack) \in Seq(Kept)
    BY <1>2, <2>1, <2>2, ShapePopKind
  <2> DEFINE u == Tail(stack)
  <2> HIDE DEF u
  <2>4. u \in Seq(Kept) /\ Shape(u, ">", <<>>, 0) /\ <<>> \in Seq(Kept)
    BY <2>3 DEF u
  <2>5. u = <<>>
    BY <2>4, ShapeIsEmpty
  <2>6. Begins(text[1])
    BY <1>4, <2>2 DEF Begins, On
  <2> QED BY <1>2, <1>3, <1>4, <2>5, <2>6, BeforeIs DEF u
<1>5. CASE text[1] \in Opens
  <2>1. text[1] # "<" /\ P[1] = <<text[1]>> \o <<>> /\ D[1] = 0 /\ <<>> \in Seq(Opens)
    <3>1. text[1] # "<"
      BY <1>5, Kinds
    <3> QED BY <1>6, <3>1
  <2>2. q # <<>> /\ <<text[1], Head(q)>> \in Pair /\ Mirror(<<>>, Tail(q))
        /\ Tail(q) \in Seq(Closes)
    BY <1>1, <1>5, <2>1, MirrorPop
  <2>3. Tail(q) = <<>>
    <3> DEFINE r == Tail(q)
    <3> HIDE DEF r
    <3>1. Mirror(<<>>, r) /\ r \in Seq(Closes) /\ <<>> \in Seq(Opens)
      BY <2>2 DEF r
    <3>2. r = <<>>
      BY <3>1, MirrorEmpty
    <3> QED BY <3>2 DEF r
  <2> DEFINE w == Without(stack, ">")
             u == Tail(w)
  <2>4. w # <<>> /\ Head(w) = Head(q) /\ Shape(u, ">", <<>>, 0) /\ u \in Seq(Kept)
    <3>1. Shape(stack, ">", q, 0)
      BY <1>1, <2>1
    <3>2. /\ w # <<>> /\ Head(w) = Head(q)
          /\ Tail(w) \in Seq(Kept) /\ Shape(Tail(w), ">", Tail(q), 0)
      BY <1>2, <2>2, <3>1, ShapeWithout
    <3> QED BY <2>3, <3>2
  <2> HIDE DEF u
  <2>5. <<>> \in Seq(Kept)
    OBVIOUS
  <2>6. u = <<>>
    BY <2>4, <2>5, ShapeIsEmpty
  <2>7. Begins(text[1])
    BY <2>1, <2>2, <2>4 DEF Begins
  <2> QED BY <1>2, <1>3, <1>5, <2>6, <2>7, BeforeIs DEF u
<1> QED BY <1>4, <1>5

\* A shift or a -> is passed over by both scans: nothing changes in its two characters.
LEMMA OneShift ==
  ASSUME TypeOK, text[1] \in Opens \cup {"<"}, ReadAlike,
         NEW P, NEW D, Ended(P, D), Place(P, D, i), Shift(text[i])
  PROVE  Place(P, D, i - 2)
<1>1. i \in 1..Len(text) /\ Len(text) \in Nat /\ History(text, P, D)
  BY DEF Place, TypeOK, Ended
<1>2. i # 1
  <2>1. At(1 - 1) = "newline"
    BY DEF At, TypeOK
  <2> QED BY <2>1 DEF Shift
<1>3. i \in 2..Len(text)
  BY <1>1, <1>2
<1> DEFINE c == text[i]
           b == text[i - 1]
           p == P[i]
           p0 == P[i - 1]
           d == D[i]
           d0 == D[i - 1]
<1>4. /\ p \in Seq(Opens) /\ p0 \in Seq(Opens) /\ d \in Nat /\ d0 \in Nat
      /\ At(i - 1) = b
      /\ p0 # <<>> \/ d0 > 0
      /\ Moves(p0, d0, b, c, p, d)
  BY <1>1, <1>3, PlaceBefore
<1>5. /\ \/ c = ">" /\ b \in {"-", "operator"}
         \/ c = "<" /\ b = "<"
      /\ c \notin Opens \cup Closes /\ b \notin Opens \cup Closes
  BY <1>4, Kinds DEF Shift, Nothing
\* It is not the first of the text that would be passed over.
<1>6. i # 2
  <2> SUFFICES ASSUME i = 2 PROVE FALSE
    OBVIOUS
  <2>1. b = "<" /\ c = "<" /\ p0 = <<>> /\ d0 = 1
    <3>1. i - 1 = 1
      OBVIOUS
    <3>2. text[1] \in Opens \cup {"<"} /\ text[1] = b
      BY <3>1
    <3>3. b = "<" /\ c = "<"
      BY <1>5, <3>2 DEF Opens
    <3>4. P[1] = <<>> /\ D[1] = 1
      BY <1>1, <3>2, <3>3 DEF History
    <3> QED BY <3>1, <3>3, <3>4
  <2>2. p = <<>> /\ d = 0
    BY <1>4, <1>5, <2>1 DEF Moves, Hung
  <2>3. CASE 2 < Len(text)
    <3>1. P[2] # <<>> \/ D[2] > 0
      BY <1>1, <2>3 DEF History
    <3> QED BY <2>2, <3>1
  <2>4. CASE Len(text) = 2
    BY <2>1, <2>4 DEF Ended
  <2>5. 2 < Len(text) \/ Len(text) = 2
    <3> DEFINE n == Len(text)
    <3>1. n \in Nat /\ 2 \in 2..n
      BY <1>1, <1>3
    <3> HIDE DEF n
    <3>2. 2 < n \/ n = 2
      BY <3>1
    <3> QED BY <3>2 DEF n
  <2> QED BY <2>3, <2>4, <2>5
<1>7. i - 1 \in 2..Len(text) /\ i - 2 \in 1..Len(text) /\ (i - 1) - 1 = i - 2
  BY <1>3, <1>6
<1> DEFINE a == text[i - 2]
           p1 == P[i - 2]
           d1 == D[i - 2]
<1>8. /\ p1 \in Seq(Opens) /\ d1 \in Nat
      /\ p1 # <<>> \/ d1 > 0
      /\ Moves(p1, d1, a, b, p0, d0)
  BY <1>1, <1>7, PlaceBefore
<1>9. text[1] \in Opens => d1 = 0
  BY <1>1, <1>7 DEF History
<1>10. text[1] \notin Opens => b # "operator" /\ (a = "<" => b # "<" \/ c # "<")
  <2>1. /\ At((i - 2) + 1) = b /\ At((i - 2) + 2) = c
        /\ i - 1 \in DOMAIN text /\ i - 2 \in DOMAIN text
    BY <1>1, <1>3, <1>7 DEF At, TypeOK
  <2> QED BY <2>1 DEF ReadAlike
<1> HIDE DEF c, b, p, p0, d, d0, a, p1, d1
<1>11. p = p1 /\ d = d1
  <2>1. CASE p1 # <<>>
    <3>1. p0 = p1 /\ d0 = d1
      BY <1>5, <1>8, <2>1 DEF Moves
    <3> QED BY <1>4, <1>5, <2>1, <3>1 DEF Moves
  <2>2. CASE p1 = <<>>
    <3>1. text[1] \notin Opens
      BY <1>8, <1>9, <2>2
    <3>2. p0 = <<>> /\ d0 = Hung(d1, a, b)
      BY <1>5, <1>8, <2>2 DEF Moves
    <3>3. p = <<>> /\ d = Hung(d0, b, c)
      BY <1>4, <1>5, <3>2 DEF Moves
    <3>4. CASE c = ">" /\ b = "-"
      BY <2>2, <3>2, <3>3, <3>4 DEF Hung
    <3>5. CASE c = "<" /\ b = "<"
      <4>1. d0 = d1 + 1 /\ d = d0 - 1
        BY <1>10, <3>1, <3>2, <3>3, <3>5 DEF Hung
      <4> QED BY <1>8, <2>2, <3>3, <4>1
    <3> QED BY <1>5, <1>10, <3>1, <3>4, <3>5
  <2> QED BY <2>1, <2>2
<1> QED BY <1>7, <1>11 DEF Place, p, d, p1, d1

----------------------------------------------------------------------------
(* The scans: EndsAsCounted and GoesBack.                                  *)

\* While CloseExpression() reads on, its stack is what the text so far leaves open.
Forward ==
  phase = "forward" =>
    /\ legal /\ stack # <<>>
    /\ \E P, D : /\ History(text, P, D) /\ P[Len(text)] = plain
                 /\ Shape(stack, "<", plain, D[Len(text)])

\* While ReverseCloseExpression() reads back, its stack closes it.
Backward == phase = "backward" => \E P, D : Ended(P, D) /\ Place(P, D, i)

ScanInv ==
  /\ TypeOK /\ text[1] \in Opens \cup {"<"}
  /\ EndsAsCounted /\ GoesBack
  /\ ReadAlike => Forward /\ Backward

\* What is read alike with c is so without it.
LEMMA AlikeGrows ==
  ASSUME TypeOK, text[1] \in Opens \cup {"<"}, NEW c \in Char, text' = Append(text, c),
         ReadAlike'
  PROVE  ReadAlike /\ Alike(c) /\ text'[1] = text[1]
<1> DEFINE n == Len(text)
<1>1. text \in Seq(Char) /\ n \in Nat \ {0} /\ DOMAIN text = 1..n
  BY DEF TypeOK
<1>2. /\ DOMAIN text' = 1..(n + 1) /\ text'[n + 1] = c
      /\ \A k \in 1..n : text'[k] = text[k]
  BY <1>1
<1> HIDE DEF n
<1>3. text'[1] = text[1]
  BY <1>1, <1>2
<1>4. CASE text[1] \in Opens
  BY <1>3, <1>4 DEF ReadAlike, Alike
<1>5. CASE text[1] = "<"
  <2>1. text'[1] \notin Opens
    BY <1>3, <1>5, Kinds
  <2>2. \A k \in 1..(n + 1) :
          /\ text'[k] \notin {"operator", "ge"}
          /\ text'[k] = "<" => At(k + 1)' # "<" \/ At(k + 2)' # "<"
    BY <1>2, <2>1 DEF ReadAlike
  <2>3. c \notin {"operator", "ge"}
    BY <1>1, <1>2, <2>2
  <2>4. \A k \in 1..n : k \in 1..(n + 1) /\ text[k] \notin {"operator", "ge"}
    BY <1>1, <1>2, <2>2
  <2>5. ASSUME NEW k \in 1..n, text[k] = "<" PROVE At(k + 1) # "<" \/ At(k + 2) # "<"
    <3>1. At(k + 1)' # "<" \/ At(k + 2)' # "<"
      BY <1>2, <2>2, <2>4, <2>5
    <3>2. ASSUME NEW j \in {k + 1, k + 2}, At(j) = "<" PROVE At(j)' = "<"
      <4>1. j \in 1..n
        BY <1>1, <3>2 DEF At
      <4>2. j \in 1..(n + 1) /\ text'[j] = text[j]
        BY <1>1, <1>2, <4>1
      <4> QED BY <1>1, <1>2, <3>2, <4>1, <4>2 DEF At
    <3> QED BY <3>1, <3>2
  <2>6. ReadAlike
    BY <1>1, <2>4, <2>5 DEF ReadAlike
  <2> QED BY <1>1, <1>3, <1>5, <2>3, <2>4, <2>6 DEF Alike
<1> QED BY <1>4, <1>5

\* CloseExpression() reads one more character.
LEMMA ReadsOnScans == ScanInv /\ TypeOK' /\ ReadsOn => ScanInv'
<1> SUFFICES ASSUME ScanInv, TypeOK', ReadsOn PROVE ScanInv'
  OBVIOUS
<1> DEFINE n == Len(text)
<1>1. PICK c \in Char :
        /\ text' = Append(text, c)
        /\ stack' = IF Finds(c) THEN <<>> ELSE After(c)
        /\ phase' = IF Finds(c) THEN "backward"
                    ELSE IF After(c) = <<>> THEN "unclosed" ELSE "forward"
        /\ i' = IF Finds(c) THEN Len(text') ELSE 0
        /\ plain' = PlainAfter(c)
        /\ legal' = (legal /\ Rightly(c))
  BY DEF ReadsOn, Rightly
<1>2. /\ phase = "forward" /\ TypeOK /\ text[1] \in Opens \cup {"<"}
      /\ text \in Seq(Char) /\ n \in Nat \ {0} /\ text # <<>>
      /\ plain \in Seq(Opens) /\ plain \in Seq(Kept) /\ stack \in Seq(Kept)
  <2>1. phase = "forward" /\ TypeOK /\ text[1] \in Opens \cup {"<"}
    BY DEF ReadsOn, ScanInv
  <2>2. text \in Seq(Char) /\ n \in Nat \ {0} /\ plain \in Seq(Opens) /\ stack \in Seq(Kept)
    BY <2>1 DEF TypeOK, Kept
  <2>3. plain \in Seq(Kept)
    BY <2>2 DEF Kept
  <2> QED BY <2>1, <2>2, <2>3
<1>3. text'[1] = text[1] /\ Len(text') = n + 1 /\ text'[n + 1] = c
  BY <1>1, <1>2
<1>4. text[1] \in Opens => ReadAlike /\ ReadAlike'
  BY <1>3 DEF ReadAlike
<1>5. ASSUME ReadAlike'
      PROVE  /\ phase' # "lost" /\ phase' # "start"
             /\ phase' = "forward" => Forward'
             /\ phase' = "backward" => Backward'
             /\ text[1] \in Opens =>
                  /\ phase' = "forward" => legal' /\ plain' # <<>>
                  /\ phase' = "backward" => legal' /\ plain' = <<>>
                  /\ phase' = "unclosed" => ~legal'
  <2>1. ReadAlike /\ Alike(c)
    BY <1>1, <1>2, <1>5, AlikeGrows
  <2>2. legal /\ stack # <<>>
    BY <1>2, <2>1 DEF ScanInv, Forward
  <2>3. PICK P, D : /\ History(text, P, D) /\ P[n] = plain
                    /\ Shape(stack, "<", plain, D[n])
    BY <1>2, <2>1 DEF ScanInv, Forward
  <2> DEFINE d == D[n]
  <2>4. /\ d \in Nat /\ Last(1) = text[n]
        /\ text[1] \in Opens => d = 0
    BY <1>2, <2>3 DEF History, Last
  <2> HIDE DEF d
  <2>5. Shape(stack, "<", plain, d) /\ (plain # <<>> \/ d > 0)
    <3>1. Shape(stack, "<", plain, d)
      BY <2>3 DEF d
    <3>2. ~(plain = <<>> /\ d = 0)
      BY <1>2, <2>2, <3>1, ShapeIsEmpty
    <3> QED BY <2>4, <3>1, <3>2
  <2>6. CASE /\ After(c) # <<>> /\ ~Finds(c) /\ Rightly(c)
             /\ \E d2 \in Nat : /\ Moves(plain, d, Last(1), c, PlainAfter(c), d2)
                                /\ Shape(After(c), "<", PlainAfter(c), d2)
                                /\ text[1] \in Opens => d2 = 0
    <3>1. PICK d2 \in Nat : /\ Moves(plain, d, Last(1), c, PlainAfter(c), d2)
                            /\ Shape(After(c), "<", PlainAfter(c), d2)
                            /\ text[1] \in Opens => d2 = 0
      BY <2>6
    <3>2. PICK P2, D2 : /\ History(text', P2, D2)
                        /\ P2[Len(text')] = plain' /\ D2[Len(text')] = d2
      <4>1. PlainAfter(c) \in Seq(Opens)
        BY <1>2, AfterTypes
      <4>2. Moves(P[n], D[n], text[n], c, PlainAfter(c), d2) /\ (P[n] # <<>> \/ D[n] > 0)
        BY <2>3, <2>4, <2>5, <3>1 DEF d
      <4> QED BY <1>1, <1>2, <2>3, <3>1, <4>1, <4>2, HistoryGrows
    <3>3. /\ phase' = "forward" /\ stack' = After(c) /\ plain' = PlainAfter(c)
          /\ legal' /\ stack' # <<>>
      BY <1>1, <2>2, <2>6
    <3>4. Forward'
      BY <3>1, <3>2, <3>3 DEF Forward
    <3>5. text[1] \in Opens => plain' # <<>>
      <4>1. /\ stack' \in Seq(Kept) /\ plain' \in Seq(Kept)
            /\ Shape(stack', "<", plain', d2)
        BY <1>2, <3>1, <3>3, AfterTypes DEF TypeOK, Kept
      <4>2. stack' = <<>> <=> plain' = <<>> /\ d2 = 0
        BY <4>1, ShapeIsEmpty
      <4> QED BY <3>1, <3>3, <4>2
    <3> QED BY <3>3, <3>4, <3>5
  <2>7. CASE /\ Finds(c) /\ Rightly(c) /\ c # "<"
             /\ PlainAfter(c) = <<>> /\ Moves(plain, d, Last(1), c, <<>>, 0)
    <3>1. PICK P2, D2 : /\ History(text', P2, D2)
                        /\ P2[Len(text')] = <<>> /\ D2[Len(text')] = 0
      <4> DEFINE none == <<>>
                 zero == 0
      <4>1. none \in Seq(Opens) /\ zero \in Nat /\ (text[1] \in Opens => zero = 0)
        OBVIOUS
      <4>2. Moves(P[n], D[n], text[n], c, none, zero) /\ (P[n] # <<>> \/ D[n] > 0)
        BY <2>3, <2>4, <2>5, <2>7 DEF d
      <4> HIDE DEF none, zero
      <4>3. \E P2, D2 : /\ History(Append(text, c), P2, D2)
                        /\ P2[Len(Append(text, c))] = none /\ D2[Len(Append(text, c))] = zero
        BY <1>2, <2>3, <4>1, <4>2, HistoryGrows
      <4> QED BY <1>1, <4>3 DEF none, zero
    <3>2. /\ phase' = "backward" /\ stack' = <<>> /\ plain' = <<>> /\ legal'
          /\ i' = Len(text')
      BY <1>1, <2>2, <2>7
    <3>3. Ended(P2, D2)'
      BY <1>2, <1>3, <2>7, <3>1 DEF Ended
    <3>4. Place(P2, D2, i)'
      <4>1. <<>> \in Seq(Closes) /\ Mirror(<<>>, <<>>)
        BY DEF Mirror
      <4>2. Shape(<<>>, ">", <<>>, 0)
        BY ShapeEmpty
      <4>3. i' \in 1..Len(text')
        BY <1>2, <1>3, <3>2
      <4> QED BY <3>1, <3>2, <4>1, <4>2, <4>3 DEF Place
    <3>5. Backward'
      BY <3>3, <3>4 DEF Backward
    <3> QED BY <3>2, <3>5
  <2>8. CASE /\ After(c) = <<>> /\ ~Finds(c)
             /\ text[1] \in Opens => ~Rightly(c)
    BY <1>1, <2>8
  <2> QED BY <1>2, <2>1, <2>2, <2>4, <2>5, <2>6, <2>7, <2>8, OneForward
<1>6. phase' \in {"forward", "backward", "unclosed"}
  BY <1>1
<1>7. EndsAsCounted'
  BY <1>3, <1>4, <1>5, <1>6 DEF EndsAsCounted, Found
<1>8. GoesBack'
  BY <1>6 DEF GoesBack
<1>9. ReadAlike' => Forward' /\ Backward'
  BY <1>5 DEF Forward, Backward
<1> QED BY <1>2, <1>3, <1>7, <1>8, <1>9 DEF ScanInv

\* ReverseCloseExpression() reads back one character, or two.
LEMMA ReadsBackScans ==
  ASSUME TypeOK, text[1] \in Opens \cup {"<"}, ReadAlike, phase = "backward", Backward,
         PassesOver \/ ReadsBack \/ GoesPast
  PROVE  /\ phase' # "lost"
         /\ phase' = "start" => i' = 1
         /\ Backward'
<1>1. PICK P, D : Ended(P, D) /\ Place(P, D, i)
  BY DEF Backward
<1>2. text' = text /\ (Ended(P, D) => Ended(P, D)')
  <2>1. text' = text
    BY DEF PassesOver, ReadsBack, GoesPast
  <2> QED BY <2>1 DEF Ended, History
<1>3. i \in 1..Len(text)
  BY <1>1 DEF Place
<1>4. CASE PassesOver
  <2>1. phase' = "backward" /\ i' = i - 2 /\ stack' = stack /\ Shift(text[i])
    BY <1>4 DEF PassesOver
  <2>2. Place(P, D, i - 2)
    BY <1>1, <2>1, OneShift
  <2>3. Place(P, D, i)'
    BY <1>2, <2>1, <2>2 DEF Place
  <2> QED BY <1>1, <1>2, <2>1, <2>3 DEF Backward
<1>5. CASE ReadsBack /\ i = 1
  <2>1. ~Shift(text[1]) /\ Begins(text[1]) /\ Before(text[1]) = <<>>
    BY <1>1, <1>5, OneFirst
  <2>2. phase' = "start"
    BY <1>5, <2>1 DEF ReadsBack
  <2>3. i' = i
    BY <1>5, <2>2 DEF ReadsBack
  <2> QED BY <1>5, <2>2, <2>3 DEF Backward
<1>6. CASE ReadsBack /\ i # 1
  <2>1. ~Shift(text[i]) /\ stack' = Before(text[i])
    BY <1>6 DEF ReadsBack
  <2>2. /\ Before(text[i]) # <<>>
        /\ \E q \in Seq(Closes) : /\ Mirror(P[i - 1], q)
                                  /\ Shape(Before(text[i]), ">", q, D[i - 1])
    BY <1>1, <1>6, <2>1, OneBack
  <2>3. phase' = "backward"
    BY <1>6, <2>2 DEF ReadsBack
  <2>4. i' = i - 1
    BY <1>6, <2>3 DEF ReadsBack
  <2>5. i' \in 1..Len(text')
    BY <1>2, <1>3, <1>6, <2>4 DEF TypeOK
  <2>6. Place(P, D, i)'
    BY <2>1, <2>2, <2>4, <2>5 DEF Place
  <2> QED BY <1>1, <1>2, <2>3, <2>6 DEF Backward
<1>7. CASE GoesPast
  BY <1>3, <1>7 DEF GoesPast
<1> QED BY <1>4, <1>5, <1>6, <1>7

\* The two invariants with what the stacks hold meanwhile: both scans keep the stack in
\* the shape that one and the same history of the text gives it.
LEMMA ScanInvariant == Spec => []ScanInv
<1>1. Init => ScanInv
  <2> SUFFICES ASSUME Init, TypeOK PROVE ScanInv
    BY InitTypes
  <2>1. PICK c \in Opens \cup {"<"} : text = <<c>> /\ stack = <<c>>
    BY DEF Init
  <2>2. phase = "forward" /\ i = 0 /\ legal /\ text[1] = c /\ Len(text) = 1
        /\ plain = IF c = "<" THEN <<>> ELSE <<c>>
    BY <2>1 DEF Init
  <2> DEFINE d0 == IF c = "<" THEN 1 ELSE 0
             P0 == [k \in 1..1 |-> plain]
             D0 == [k \in 1..1 |-> d0]
  <2>3. History(text, P0, D0)
    <3>1. plain \in Seq(Opens) /\ d0 \in Nat
      BY DEF TypeOK
    <3>2. P0 \in [1..Len(text) -> Seq(Opens)] /\ D0 \in [1..Len(text) -> Nat]
      BY <2>2, <3>1
    <3>3. c \in Opens => d0 = 0
      BY Kinds
    <3> QED BY <2>2, <3>2, <3>3 DEF History
  <2>4. Shape(stack, "<", plain, d0)
    <3>1. CASE c = "<"
      BY <2>1, <2>2, <3>1, ShapeOne
    <3>2. CASE c # "<"
      <4> DEFINE none == <<>>
      <4>1. /\ none \in Seq(Kept) /\ c \in Kept /\ d0 = 0
            /\ <<c>> \o none = <<c>>
        BY <3>2 DEF Kept
      <4>2. Shape(none, "<", none, d0)
        BY <4>1, ShapeEmpty
      <4> HIDE DEF none, d0
      <4>3. Shape(<<c>> \o none, "<", <<c>> \o none, d0)
        BY <3>2, <4>1, <4>2, ShapePushOther
      <4> QED BY <2>1, <2>2, <3>2, <4>1, <4>3
    <3> QED BY <3>1, <3>2
  <2>5. Forward
    <3>1. P0[Len(text)] = plain /\ D0[Len(text)] = d0 /\ stack # <<>>
      BY <2>1, <2>2
    <3> HIDE DEF P0, D0, d0
    <3> QED BY <2>2, <2>3, <2>4, <3>1 DEF Forward
  <2>6. EndsAsCounted
    <3>1. c \in Opens => plain # <<>>
      BY <2>2, Kinds
    <3> QED BY <2>2, <3>1 DEF EndsAsCounted, Found
  <2> QED BY <2>1, <2>2, <2>5, <2>6 DEF ScanInv, GoesBack, Backward
<1>2. ScanInv /\ TypeOK' /\ [Next]_vars => ScanInv'
  <2> SUFFICES ASSUME ScanInv, TypeOK', [Next]_vars PROVE ScanInv'
    OBVIOUS
  <2>1. CASE ReadsOn
    BY <2>1, ReadsOnScans
  <2>2. CASE GivesUp
    <3>1. /\ phase = "forward" /\ phase' = "unclosed"
          /\ UNCHANGED <<text, stack, i, plain, legal>>
      BY <2>2 DEF GivesUp
    <3>2. text'[1] = text[1]
      BY <3>1
    <3>3. EndsAsCounted'
      BY <3>1, <3>2 DEF ScanInv, EndsAsCounted, Found
    <3> QED BY <3>1, <3>2, <3>3 DEF ScanInv, GoesBack, Forward, Backward
  <2>3. CASE PassesOver \/ ReadsBack \/ GoesPast
    <3>1. phase = "backward" /\ text' = text /\ plain' = plain /\ legal' = legal
      BY <2>3 DEF PassesOver, ReadsBack, GoesPast
    <3>2. phase' \in {"backward", "start", "lost"}
      BY <2>3 DEF PassesOver, ReadsBack, GoesPast
    <3>3. EndsAsCounted'
      BY <3>1, <3>2 DEF ScanInv, EndsAsCounted, Found
    <3>4. ReadAlike' <=> ReadAlike
      BY <3>1 DEF ReadAlike, At
    <3>5. ReadAlike => phase' # "lost" /\ (phase' = "start" => i' = 1) /\ Backward'
      BY <2>3, <3>1, ReadsBackScans DEF ScanInv
    <3>6. GoesBack'
      BY <3>4, <3>5 DEF GoesBack
    <3> QED BY <3>1, <3>2, <3>3, <3>4, <3>5, <3>6 DEF ScanInv, Forward
  <2>4. CASE UNCHANGED vars
    BY <2>4 DEF vars, ScanInv, EndsAsCounted, GoesBack, Found, ReadAlike, At, Forward,
                Backward, Ended, Place, History
  <2> QED BY <2>1, <2>2, <2>3, <2>4 DEF Next
<1> QED BY <1>1, <1>2, TypeCorrect, PTL DEF Spec

\* Where CloseExpression() says that the expression of a ( [ or { ends, and that it has
\* none, is what counting those brackets alone says, for a text of any length and
\* whatever its < and > are.
THEOREM CountedCorrect == Spec => []EndsAsCounted
<1>1. ScanInv => EndsAsCounted
  BY DEF ScanInv
<1> QED BY <1>1, ScanInvariant, PTL

\* From the end that CloseExpression() found, ReverseCloseExpression() comes back to the
\* first character and to no other, for a text of any length that both read alike.
THEOREM BackCorrect == Spec => []GoesBack
<1>1. ScanInv => GoesBack
  BY DEF ScanInv
<1> QED BY <1>1, ScanInvariant, PTL
=============================================================================
