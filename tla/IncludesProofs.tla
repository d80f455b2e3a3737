---------------------------- MODULE IncludesProofs ----------------------------
(***************************************************************************)
(* Proofs about Includes, for any paths, any file and any number of lines.  *)
(***************************************************************************)
EXTENDS Includes, SequenceTheorems, TLAPS

\* One line of NextLine, by its kind.
Step(l) == Include(l) \/ If(l) \/ Else(l) \/ Endif(l) \/ Other(l)

Types == {"c", "cpp", "mine", "other"}

LEMMA ClassifyType == \A l : ClassifyInclude(l) \in Types
  BY DEF ClassifyInclude, Types

LEMMA SectionType ==
  ASSUME NEW type \in Types
  PROVE  NextSection(type) \in Sections \cup {"error"}
  BY DEF Types, NextSection, Sections

LEMMA PlaceType == \A s \in Sections : Place(s) \in 0..4
  BY DEF Sections, Place

LEMMA RankType ==
  ASSUME NEW n \in Name
  PROVE  Paths[n].rank \in Nat \ {0}
  BY PathsAssumption DEF Path

\* A sequence without its last element.
LEMMA WithoutLast ==
  ASSUME NEW S, NEW s \in Seq(S), NEW t, t = SubSeq(s, 1, Len(s) - 1), Len(s) > 1
  PROVE  /\ t \in Seq(S) /\ Len(t) = Len(s) - 1 /\ t # <<>>
         /\ \A i \in 1..(Len(s) - 1) : t[i] = s[i]
<1>1. \A i \in 1..(Len(s) - 1) : s[i] \in S
  OBVIOUS
<1>2. 1 \in Int /\ Len(s) - 1 \in Int
  OBVIOUS
<1>3. /\ t \in Seq(S) /\ Len(t) = Len(s) - 1
      /\ \A i \in 1..(Len(s) - 1) : t[i] = s[i]
  BY <1>1, <1>2, SubSeqProperties
<1>4. t # <<>>
  <2>1. Len(t) # 0
    BY <1>3
  <2>2. Len(<<>>) = 0
    OBVIOUS
  <2> QED
    BY <2>1, <2>2, Zenon
<1> QED
  BY <1>3, <1>4

\* A sequence of which an element is replaced, and one that is extended.
LEMMA Replaced ==
  ASSUME NEW S, NEW s \in Seq(S), NEW k \in 1..Len(s), NEW x \in S
  PROVE  LET t == [s EXCEPT ![k] = x]
         IN  /\ t \in Seq(S) /\ Len(t) = Len(s) /\ (s # <<>> => t # <<>>)
             /\ t[k] = x /\ \A i \in 1..Len(s) : i # k => t[i] = s[i]
  OBVIOUS

\* What a counted include changes.
LEMMA IncludedFacts ==
  ASSUME TypeOK, NEW l \in Line, Include(l)
  PROVE  /\ l.name \in Name
         /\ branches' = [branches EXCEPT ![Len(branches)] = @ \cup {l.name}]
         /\ starts' = starts
         /\ Counts(l) =>
              /\ include_list' = [include_list EXCEPT ![Len(include_list)] = @ \cup {l.name}]
              /\ section' = IF NextSection(ClassifyInclude(l)) = "error" THEN section
                            ELSE NextSection(ClassifyInclude(l))
              /\ last_header' = Paths[l.name].rank
              /\ group' = Append(group, [type |-> ClassifyInclude(l),
                                         rank |-> Paths[l.name].rank])
         /\ ~Counts(l) => UNCHANGED <<include_list, section, last_header, group>>
         /\ reports' \in SUBSET Report
<1>1. l.name \in Name
  BY DEF Line, Include
<1> QED
  BY <1>1 DEF Include, Included, DirectoryError, Report
----------------------------------------------------------------------------
(* Types.                                                                  *)

LEMMA TypeInit == Init => TypeOK
<1> SUFFICES ASSUME Init PROVE TypeOK
  OBVIOUS
<1>1. include_list \in Seq(SUBSET Name) /\ include_list # <<>>
  BY DEF Init
<1>2. branches \in Seq(SUBSET Name) /\ branches # <<>>
  BY DEF Init
<1>3. starts \in Seq(Nat) /\ Len(starts) = Len(branches)
  BY DEF Init
<1>4. group \in Seq([type : {"c", "cpp", "mine", "other"}, rank : Nat])
  BY DEF Init
<1>5. linenum \in 0..MaxLines
  BY MaxLinesAssumption DEF Init
<1> QED
  BY <1>1, <1>2, <1>3, <1>4, <1>5 DEF Init, TypeOK, Sections, Report

LEMMA TypeStep ==
  ASSUME TypeOK, NEW l \in Line, Step(l)
  PROVE  /\ section' \in Sections /\ last_header' \in Nat
         /\ include_list' \in Seq(SUBSET Name) /\ include_list' # <<>>
         /\ reports' \in SUBSET Report
         /\ branches' \in Seq(SUBSET Name) /\ branches' # <<>>
         /\ starts' \in Seq(Nat) /\ Len(starts') = Len(branches')
         /\ group' \in Seq([type : Types, rank : Nat])
<1> USE DEF TypeOK, Types
<1>0. Len(include_list) \in 1..Len(include_list) /\ Len(branches) \in 1..Len(branches)
  BY EmptySeq
<1>1. CASE Include(l)
  <2>1. l.name \in Name
    BY <1>1, IncludedFacts
  <2>2. include_list' \in Seq(SUBSET Name) /\ include_list' # <<>>
    <3>1. include_list[Len(include_list)] \in SUBSET Name
      BY <1>0, ElementOfSeq
    <3>2. include_list[Len(include_list)] \cup {l.name} \in SUBSET Name
      BY <2>1, <3>1
    <3>3. \/ include_list' = include_list
          \/ include_list' = [include_list EXCEPT ![Len(include_list)] = @ \cup {l.name}]
      BY <1>1, IncludedFacts
    <3>4. CASE include_list' = [include_list EXCEPT ![Len(include_list)] = @ \cup {l.name}]
      BY <1>0, <3>2, <3>4, Replaced
    <3> QED
      BY <3>3, <3>4
  <2>3. branches' \in Seq(SUBSET Name) /\ branches' # <<>> /\ Len(branches') = Len(branches)
    <3>1. branches[Len(branches)] \in SUBSET Name
      BY <1>0, ElementOfSeq
    <3>2. branches[Len(branches)] \cup {l.name} \in SUBSET Name
      BY <2>1, <3>1
    <3>3. branches' = [branches EXCEPT ![Len(branches)] = @ \cup {l.name}]
      BY <1>1, IncludedFacts
    <3> QED
      BY <1>0, <3>2, <3>3, Replaced
  <2>4. section' \in Sections
    <3> DEFINE next == NextSection(ClassifyInclude(l))
    <3>1. next \in Sections \cup {"error"}
      BY ClassifyType, SectionType
    <3>2. section' \in {section, next} /\ (next = "error" => section' = section)
      BY <1>1, IncludedFacts
    <3> QED
      BY <3>1, <3>2
  <2>5. group' \in Seq([type : Types, rank : Nat])
    <3> DEFINE new == [type |-> ClassifyInclude(l), rank |-> Paths[l.name].rank]
    <3>1. new \in [type : Types, rank : Nat]
      BY <2>1, ClassifyType, RankType
    <3>2. group' = group \/ group' = Append(group, new)
      BY <1>1, IncludedFacts
    <3>3. group \in Seq([type : Types, rank : Nat])
      OBVIOUS
    <3> HIDE DEF new
    <3>4. Append(group, new) \in Seq([type : Types, rank : Nat])
      BY <3>1, <3>3, AppendProperties
    <3> QED
      BY <3>2, <3>3, <3>4, Zenon
  <2>6. last_header' \in Nat
    BY <2>1, <1>1, IncludedFacts, RankType
  <2> QED
    BY <2>2, <2>3, <2>4, <2>5, <2>6, <1>1, IncludedFacts
<1>2. CASE If(l)
  <2>1. include_list \in Seq(SUBSET Name) /\ branches \in Seq(SUBSET Name) /\ starts \in Seq(Nat)
    OBVIOUS
  <2>2. include_list' \in Seq(SUBSET Name) /\ Len(include_list') = Len(include_list) + 1
    <3>1. include_list' = Append(include_list, {}) /\ {} \in SUBSET Name
      BY <1>2 DEF If
    <3> QED
      BY <2>1, <3>1, AppendProperties
  <2>3. branches' \in Seq(SUBSET Name) /\ Len(branches') = Len(branches) + 1
    <3>1. branches' = Append(branches, {}) /\ {} \in SUBSET Name
      BY <1>2 DEF If
    <3> QED
      BY <2>1, <3>1, AppendProperties
  <2>4. starts' \in Seq(Nat) /\ Len(starts') = Len(starts) + 1
    <3>1. Len(include_list') \in Nat
      BY <2>2, LenProperties
    <3>2. starts' = Append(starts, Len(include_list'))
      BY <1>2 DEF If
    <3> QED
      BY <2>1, <3>1, <3>2, AppendProperties
  <2>5. include_list' # <<>> /\ branches' # <<>> /\ Len(starts') = Len(branches')
    BY <1>0, <2>2, <2>3, <2>4
  <2>6. /\ section' \in Sections /\ last_header' \in Nat /\ reports' \in SUBSET Report
        /\ group' \in Seq([type : Types, rank : Nat])
    BY <1>2 DEF If, Resets, Sections, Report
  <2> QED
    BY <2>2, <2>3, <2>4, <2>5, <2>6
<1>3. CASE Else(l)
  <2>1. /\ include_list' = [include_list EXCEPT ![Len(include_list)] = {}]
        /\ branches' = [branches EXCEPT ![Len(branches)] = {}] /\ starts' = starts
    BY <1>3 DEF Else
  <2>2. include_list' \in Seq(SUBSET Name) /\ include_list' # <<>>
    BY <1>0, <2>1, Replaced
  <2>3. branches' \in Seq(SUBSET Name) /\ branches' # <<>> /\ Len(branches') = Len(branches)
    BY <1>0, <2>1, Replaced
  <2>4. /\ section' \in Sections /\ last_header' \in Nat /\ reports' \in SUBSET Report
        /\ group' \in Seq([type : Types, rank : Nat])
    BY <1>3 DEF Else, Resets, Sections, Report
  <2> QED
    BY <2>1, <2>2, <2>3, <2>4
<1>4. CASE Endif(l)
  <2>1. Len(branches) > 1 /\ Len(starts) > 1
    BY <1>4 DEF Endif
  <2>2. branches' \in Seq(SUBSET Name) /\ Len(branches') = Len(branches) - 1 /\ branches' # <<>>
    BY <1>4, <2>1, WithoutLast DEF Endif
  <2>3. starts' \in Seq(Nat) /\ Len(starts') = Len(starts) - 1
    BY <1>4, <2>1, WithoutLast DEF Endif
  <2> QED
    BY <1>4, <2>2, <2>3 DEF Endif, Resets, Sections, Report
<1>5. CASE Other(l)
  BY <1>5 DEF Other, Report
<1> QED
  BY <1>1, <1>2, <1>3, <1>4, <1>5 DEF Step

LEMMA TypeNext == TypeOK /\ [Next]_vars => TypeOK'
<1> SUFFICES ASSUME TypeOK, [Next]_vars PROVE TypeOK'
  OBVIOUS
<1>1. CASE NextLine
  <2>1. PICK l \in Line : Step(l) /\ previous' = l.kind
    BY <1>1 DEF NextLine, Step
  <2>2. previous' \in {"include", "if", "else", "endif", "other"}
    BY <2>1 DEF Line
  <2>3. linenum' \in 0..MaxLines /\ missing' \subseteq Name /\ done' \in BOOLEAN
    BY <1>1, MaxLinesAssumption DEF NextLine, TypeOK
  <2>4. /\ section' \in Sections /\ last_header' \in Nat
        /\ include_list' \in Seq(SUBSET Name) /\ include_list' # <<>>
        /\ reports' \in SUBSET Report
        /\ branches' \in Seq(SUBSET Name) /\ branches' # <<>>
        /\ starts' \in Seq(Nat) /\ Len(starts') = Len(branches')
        /\ group' \in Seq([type : Types, rank : Nat])
    BY <2>1, TypeStep
  <2> QED
    BY <2>2, <2>3, <2>4, Zenon DEF TypeOK, Types
<1>2. CASE CompletesFile
  BY <1>2 DEF CompletesFile, TypeOK, Report
<1>3. CASE UNCHANGED vars
  BY <1>3 DEF vars, TypeOK
<1> QED
  BY <1>1, <1>2, <1>3 DEF Next

\* Every variable keeps its type (_IncludeState).
THEOREM TypeCorrect == Spec => []TypeOK
  BY TypeInit, TypeNext, PTL DEF Spec
----------------------------------------------------------------------------
(* What is included is in include_list.                                    *)

\* A header of a branch is in a list that an #else of a conditional that began
\* inside of the branch does not reach.
Kept(list, begun, k, n) ==
  \E j \in DOMAIN list : n \in list[j] /\ (k + 1 \in DOMAIN begun => j < begun[k + 1])

Listing ==
  /\ \A k \in DOMAIN starts : starts[k] \in 1..Len(include_list)
  /\ \A k, m \in DOMAIN starts : k < m => starts[k] < starts[m]
  /\ \A k \in DOMAIN branches : \A n \in branches[k] :
       Ordinary(n) => Kept(include_list, starts, k, n)

LEMMA ListingInit == Init => Listing
<1> SUFFICES ASSUME Init PROVE Listing
  OBVIOUS
<1>1. starts = <<1>> /\ Len(include_list) = 1
  BY DEF Init
<1>2. branches = <<{}>>
  BY DEF Init
<1> QED
  BY <1>1, <1>2 DEF Listing

LEMMA ListingInclude ==
  ASSUME TypeOK, Listing, NEW l \in Line, Include(l)
  PROVE  Listing'
<1> DEFINE L == Len(include_list)
<1>1. L \in 1..L /\ L \in Nat /\ Len(branches) \in 1..Len(branches)
  BY EmptySeq DEF TypeOK
<1>2. /\ starts' = starts /\ l.name \in Name
      /\ branches' = [branches EXCEPT ![Len(branches)] = @ \cup {l.name}]
  BY IncludedFacts
<1>3. /\ Len(include_list') = L
      /\ \A j \in 1..L : include_list[j] \subseteq include_list'[j]
      /\ Counts(l) => l.name \in include_list'[L]
  <2>1. CASE Counts(l)
    <3>1. include_list' = [include_list EXCEPT ![L] = @ \cup {l.name}]
      BY <2>1, IncludedFacts
    <3> QED
      BY <3>1, <1>1 DEF TypeOK
  <2>2. CASE ~Counts(l)
    BY <2>2, IncludedFacts
  <2> QED
    BY <2>1, <2>2
<1>4. DOMAIN include_list = 1..L /\ DOMAIN include_list' = 1..L
  <2>1. include_list' \in Seq(SUBSET Name)
    BY TypeStep DEF Step
  <2> QED
    BY <2>1, <1>3 DEF TypeOK
<1>5. ASSUME NEW k \in DOMAIN starts, NEW n, Kept(include_list, starts, k, n)
      PROVE  Kept(include_list', starts', k, n)
  BY <1>2, <1>3, <1>4, <1>5 DEF Kept
<1>6. Ordinary(l.name) => \E j \in 1..L : l.name \in include_list'[j]
  <2>1. CASE Counts(l)
    BY <2>1, <1>1, <1>3
  <2>2. CASE ~Counts(l) /\ Ordinary(l.name)
    BY <2>2, <1>3, <1>4 DEF Counts, Ordinary, Listed
  <2> QED
    BY <2>1, <2>2
<1>7. DOMAIN branches' = DOMAIN branches /\ DOMAIN starts = DOMAIN branches
      /\ DOMAIN branches = 1..Len(branches)
  BY <1>2 DEF TypeOK
<1>8. ASSUME NEW k \in DOMAIN branches', NEW n \in branches'[k], Ordinary(n)
      PROVE  Kept(include_list', starts', k, n)
  <2>1. CASE n \in branches[k]
    BY <2>1, <1>5, <1>7, <1>8 DEF Listing
  <2>2. CASE n \notin branches[k]
    <3>1. k = Len(branches) /\ n = l.name
      BY <2>2, <1>1, <1>2, <1>7, <1>8
    <3>2. PICK j \in DOMAIN include_list' : n \in include_list'[j]
      BY <3>1, <1>4, <1>6, <1>8
    <3>3. DOMAIN starts' = 1..Len(branches) /\ Len(branches) \in Nat
      BY <1>1, <1>2, <1>7
    <3>4. k + 1 \notin DOMAIN starts'
      BY <3>1, <3>3
    <3> QED
      BY <3>2, <3>4, Zenon DEF Kept
  <2> QED
    BY <2>1, <2>2
<1> QED
  BY <1>2, <1>3, <1>8 DEF Listing

LEMMA ListingIf ==
  ASSUME TypeOK, Listing, NEW l \in Line, If(l)
  PROVE  Listing'
<1> DEFINE L == Len(include_list)
           N == Len(branches)
<1>1. L \in Nat /\ N \in Nat /\ Len(starts) = N
  BY DEF TypeOK
<1>2. /\ Len(include_list') = L + 1
      /\ \A j \in 1..L : include_list'[j] = include_list[j]
      /\ DOMAIN include_list = 1..L /\ DOMAIN include_list' = 1..(L + 1)
  BY DEF If, TypeOK
<1>3. /\ DOMAIN starts = 1..N /\ DOMAIN starts' = 1..(N + 1) /\ starts'[N + 1] = L + 1
      /\ \A k \in 1..N : starts'[k] = starts[k]
  BY <1>1, <1>2 DEF If, TypeOK
<1>4. /\ DOMAIN branches = 1..N /\ DOMAIN branches' = 1..(N + 1) /\ branches'[N + 1] = {}
      /\ \A k \in 1..N : branches'[k] = branches[k]
  BY <1>1 DEF If, TypeOK
<1>5. \A k \in 1..N : starts[k] \in 1..L
  BY <1>3 DEF Listing
<1>6. \A k, m \in DOMAIN starts' : k < m => starts'[k] < starts'[m]
  BY <1>1, <1>3, <1>5 DEF Listing
<1>7. \A k \in DOMAIN starts' : starts'[k] \in 1..(L + 1)
  BY <1>1, <1>3, <1>5
<1>8. ASSUME NEW k \in DOMAIN branches', NEW n \in branches'[k], Ordinary(n)
      PROVE  Kept(include_list', starts', k, n)
  <2>1. k \in 1..N /\ n \in branches[k]
    BY <1>1, <1>4, <1>8
  <2>2. PICK j \in 1..L : n \in include_list[j] /\ (k + 1 \in 1..N => j < starts[k + 1])
    BY <2>1, <1>2, <1>3, <1>4, <1>8 DEF Listing, Kept
  <2>3. k + 1 \in 1..(N + 1) => j < starts'[k + 1]
    BY <2>1, <2>2, <1>1, <1>3
  <2>4. j \in DOMAIN include_list' /\ n \in include_list'[j]
    BY <2>2, <1>1, <1>2
  <2>5. k + 1 \in DOMAIN starts' => j < starts'[k + 1]
    BY <2>3, <1>3
  <2> QED
    BY <2>4, <2>5 DEF Kept
<1> QED
  BY <1>2, <1>6, <1>7, <1>8 DEF Listing

LEMMA ListingElse ==
  ASSUME TypeOK, Listing, NEW l \in Line, Else(l)
  PROVE  Listing'
<1> DEFINE L == Len(include_list)
           N == Len(branches)
<1>1. L \in 1..L /\ L \in Nat /\ N \in Nat /\ N > 1 /\ Len(starts) = N
  BY EmptySeq DEF TypeOK, Else
<1>2. /\ Len(include_list') = L /\ DOMAIN include_list' = 1..L /\ DOMAIN include_list = 1..L
      /\ \A j \in 1..(L - 1) : include_list'[j] = include_list[j]
  BY <1>1 DEF Else, TypeOK
<1>3. starts' = starts /\ DOMAIN starts = 1..N
  BY <1>1 DEF Else, TypeOK
<1>4. /\ DOMAIN branches = 1..N /\ DOMAIN branches' = 1..N /\ branches'[N] = {}
      /\ \A k \in 1..(N - 1) : branches'[k] = branches[k]
  BY <1>1 DEF Else, TypeOK
<1>5. ASSUME NEW k \in DOMAIN branches', NEW n \in branches'[k], Ordinary(n)
      PROVE  Kept(include_list', starts', k, n)
  <2>1. k \in 1..(N - 1) /\ n \in branches[k] /\ k + 1 \in 1..N
    BY <1>1, <1>4, <1>5
  <2>2. PICK j \in 1..L : n \in include_list[j] /\ j < starts[k + 1]
    BY <2>1, <1>2, <1>3, <1>4, <1>5 DEF Listing, Kept
  <2>3. starts[k + 1] \in 1..L
    BY <2>1, <1>3 DEF Listing
  <2>4. j \in DOMAIN include_list' /\ n \in include_list'[j]
    BY <2>2, <2>3, <1>1, <1>2
  <2> QED
    BY <2>2, <2>4, <1>3 DEF Kept
<1> QED
  BY <1>2, <1>3, <1>5 DEF Listing

LEMMA ListingEndif ==
  ASSUME TypeOK, Listing, NEW l \in Line, Endif(l)
  PROVE  Listing'
<1> DEFINE N == Len(branches)
<1>1. N \in Nat /\ N > 1 /\ Len(starts) = N /\ include_list' = include_list
  BY DEF TypeOK, Endif
<1>2. /\ DOMAIN starts = 1..N /\ DOMAIN starts' = 1..(N - 1)
      /\ \A k \in 1..(N - 1) : starts'[k] = starts[k]
  <2>1. starts \in Seq(Nat) /\ starts' = SubSeq(starts, 1, Len(starts) - 1)
    BY DEF TypeOK, Endif
  <2>2. /\ starts' \in Seq(Nat) /\ Len(starts') = Len(starts) - 1
        /\ \A i \in 1..(Len(starts) - 1) : starts'[i] = starts[i]
    BY <2>1, <1>1, WithoutLast
  <2> QED
    BY <2>1, <2>2, <1>1
<1>3. /\ DOMAIN branches = 1..N /\ DOMAIN branches' = 1..(N - 1)
      /\ \A k \in 1..(N - 1) : branches'[k] = branches[k]
  <2>1. branches \in Seq(SUBSET Name) /\ branches' = SubSeq(branches, 1, N - 1)
    BY DEF TypeOK, Endif
  <2>2. /\ branches' \in Seq(SUBSET Name) /\ Len(branches') = N - 1
        /\ \A i \in 1..(N - 1) : branches'[i] = branches[i]
    BY <2>1, <1>1, WithoutLast
  <2> QED
    BY <2>1, <2>2, <1>1
<1>4. ASSUME NEW k \in DOMAIN branches', NEW n \in branches'[k], Ordinary(n)
      PROVE  Kept(include_list', starts', k, n)
  <2>1. k \in 1..N /\ n \in branches[k]
    BY <1>1, <1>3, <1>4
  <2>2. PICK j \in DOMAIN include_list :
          n \in include_list[j] /\ (k + 1 \in 1..N => j < starts[k + 1])
    BY <2>1, <1>2, <1>3, <1>4 DEF Listing, Kept
  <2>3. k + 1 \in DOMAIN starts' => j < starts'[k + 1]
    BY <2>2, <1>1, <1>2
  <2> QED
    BY <2>2, <2>3, <1>1 DEF Kept
<1>5. \A k \in DOMAIN starts' : k \in DOMAIN starts /\ starts'[k] = starts[k]
  BY <1>1, <1>2
<1> QED
  BY <1>1, <1>4, <1>5 DEF Listing

LEMMA ListingNext == TypeOK /\ Listing /\ [Next]_vars => Listing'
<1> SUFFICES ASSUME TypeOK, Listing, [Next]_vars PROVE Listing'
  OBVIOUS
<1>1. CASE NextLine
  <2>1. PICK l \in Line : Step(l)
    BY <1>1 DEF NextLine, Step
  <2>2. CASE Other(l)
    BY <2>2 DEF Other, Listing, Kept
  <2> QED
    BY <2>1, <2>2, ListingInclude, ListingIf, ListingElse, ListingEndif DEF Step
<1>2. CASE CompletesFile \/ UNCHANGED vars
  BY <1>2 DEF CompletesFile, vars, Listing, Kept
<1> QED
  BY <1>1, <1>2 DEF Next

LEMMA ListingListed == Listing => InEffectListed
  BY DEF Listing, Kept, InEffectListed, InEffect, Listed

\* Whatever the conditionals before, what is included is known to be: ResetSection()
\* never clears a list that holds a header of a branch that is still open.
THEOREM InEffectIsListed == Spec => []InEffectListed
  BY TypeInit, TypeNext, ListingInit, ListingNext, ListingListed, PTL DEF Spec
----------------------------------------------------------------------------
(* The order.                                                              *)

Entry == [type : Types, rank : Nat]

\* _section is the last place that an include since the last conditional has, and
\* _last_header the last of them.
Ordering ==
  /\ group = <<>> => section = "initial" /\ last_header = 0
  /\ group # <<>> => last_header = group[Len(group)].rank
  /\ group # <<>> => \E i \in 1..Len(group) : Rank(group, i) = Place(section)
  /\ \A i \in 1..Len(group) : Rank(group, i) <= Place(section)

LEMMA RankValue ==
  ASSUME NEW g \in Seq(Entry), NEW i \in 1..Len(g)
  PROVE  /\ g[i].type \in Types
         /\ Rank(g, i) \in 1..4
         /\ g[i].type = "c" => Rank(g, i) = 2
         /\ g[i].type = "cpp" => Rank(g, i) = 3
         /\ g[i].type = "other" => Rank(g, i) = 4
         /\ g[i].type = "mine" =>
              Rank(g, i) = IF \A j \in 1..(i - 1) : g[j].type = "mine" THEN 1 ELSE 4
<1>1. g[i] \in Entry
  BY ElementOfSeq
<1>2. g[i].type \in Types
  BY <1>1 DEF Entry
<1> QED
  BY <1>2 DEF Types, Rank

\* The place of an include does not depend on the later ones.
LEMMA RankKept ==
  ASSUME NEW g \in Seq(Entry), NEW e \in Entry, NEW i \in 1..Len(g)
  PROVE  Rank(Append(g, e), i) = Rank(g, i)
<1> DEFINE h == Append(g, e)
<1>1. h \in Seq(Entry) /\ Len(h) = Len(g) + 1 /\ \A j \in 1..Len(g) : h[j] = g[j]
  BY AppendProperties
<1> HIDE DEF h
<1>2. i \in 1..Len(h) /\ h[i] = g[i] /\ \A j \in 1..(i - 1) : h[j] = g[j]
  BY <1>1
<1>3. Rank(h, i) = Rank(g, i)
  BY <1>1, <1>2, RankValue DEF Types
<1> QED
  BY <1>3 DEF h

\* As long as the file's own headers alone were included, the section is theirs.
LEMMA OnlyMine ==
  ASSUME group \in Seq(Entry), section \in Sections, Ordering
  PROVE  Place(section) <= 1 <=> \A j \in 1..Len(group) : group[j].type = "mine"
<1>1. CASE Place(section) <= 1
  <2>1. ASSUME NEW j \in 1..Len(group) PROVE group[j].type = "mine"
    <3>1. Rank(group, j) <= 1
      BY <1>1, PlaceType, RankValue DEF Ordering
    <3> QED
      BY <3>1, RankValue DEF Types
  <2> QED
    BY <1>1, <2>1
<1>2. CASE \A j \in 1..Len(group) : group[j].type = "mine"
  <2>1. ASSUME NEW j \in 1..Len(group) PROVE Rank(group, j) = 1
    BY <1>2, RankValue
  <2>2. CASE group = <<>>
    BY <1>2, <2>2 DEF Ordering, Place
  <2>3. CASE group # <<>>
    BY <1>2, <2>1, <2>3 DEF Ordering
  <2> QED
    BY <2>2, <2>3
<1> QED
  BY <1>1, <1>2

\* The section that CheckNextIncludeOrder() chooses is the place of the header among
\* those before it, or an error if one of them belongs after it.
LEMMA Placed ==
  ASSUME group \in Seq(Entry), section \in Sections, Ordering, NEW e \in Entry
  PROVE  LET r == Rank(Append(group, e), Len(group) + 1)
             next == NextSection(e.type)
         IN  /\ r \in 1..4
             /\ next = "error" => Place(section) > r
             /\ next # "error" => next \in Sections /\ Place(next) = r
                                  /\ Place(section) <= r
<1> DEFINE h == Append(group, e)
           r == Rank(h, Len(group) + 1)
<1>1. /\ h \in Seq(Entry) /\ Len(h) = Len(group) + 1 /\ h[Len(group) + 1] = e
      /\ \A j \in 1..Len(group) : h[j] = group[j]
  BY AppendProperties
<1> HIDE DEF h
<1>2. Len(group) \in Nat /\ Len(group) + 1 \in 1..Len(h)
  BY <1>1
<1>3. /\ e.type \in Types /\ r \in 1..4
      /\ e.type = "c" => r = 2
      /\ e.type = "cpp" => r = 3
      /\ e.type = "other" => r = 4
      /\ e.type = "mine" => r = IF \A j \in 1..Len(group) : group[j].type = "mine"
                                THEN 1 ELSE 4
  BY <1>1, <1>2, RankValue
<1>4. e.type = "mine" => r = IF Place(section) <= 1 THEN 1 ELSE 4
  BY <1>3, OnlyMine
<1>5. Place(section) \in 0..4
  BY PlaceType
<1>6. CASE e.type = "c"
  BY <1>3, <1>5, <1>6 DEF NextSection, Sections, Place, h
<1>7. CASE e.type = "cpp"
  BY <1>3, <1>5, <1>7 DEF NextSection, Sections, Place, h
<1>8. CASE e.type = "mine"
  BY <1>3, <1>4, <1>5, <1>8 DEF NextSection, Sections, Place, h
<1>9. CASE e.type = "other"
  BY <1>3, <1>5, <1>9 DEF NextSection, Sections, Place, h
<1> QED
  BY <1>3, <1>6, <1>7, <1>8, <1>9 DEF Types

LEMMA GroupType == TypeOK => group \in Seq(Entry) /\ section \in Sections
  BY DEF TypeOK, Entry, Types

LEMMA EntryType ==
  ASSUME NEW l, l.name \in Name
  PROVE  [type |-> ClassifyInclude(l), rank |-> Paths[l.name].rank] \in Entry
  BY ClassifyType, RankType DEF Entry

\* Only a counted include adds to the group; the other lines leave it or empty it.
LEMMA OtherSteps ==
  ASSUME TypeOK, [Next]_vars,
         ~\E l \in Line : Include(l) /\ Counts(l) /\ previous' = l.kind
  PROVE  \/ UNCHANGED <<group, section, last_header>>
         \/ group' = <<>> /\ section' = "initial" /\ last_header' = 0
<1>1. CASE NextLine
  <2>1. PICK l \in Line : Step(l) /\ previous' = l.kind
    BY <1>1 DEF NextLine, Step
  <2>2. CASE Include(l)
    BY <2>1, <2>2, IncludedFacts
  <2> QED
    BY <2>1, <2>2 DEF Step, If, Else, Endif, Other, Resets
<1> QED
  BY <1>1 DEF Next, CompletesFile, vars

LEMMA OrderingNext == TypeOK /\ Ordering /\ [Next]_vars => Ordering'
<1> SUFFICES ASSUME TypeOK, Ordering, [Next]_vars PROVE Ordering'
  OBVIOUS
<1>1. CASE \E l \in Line : Include(l) /\ Counts(l) /\ previous' = l.kind
  <2>1. PICK l \in Line : Include(l) /\ Counts(l)
    BY <1>1
  <2> DEFINE e == [type |-> ClassifyInclude(l), rank |-> Paths[l.name].rank]
             next == NextSection(e.type)
             N == Len(group) + 1
  <2>2. /\ e \in Entry /\ group' = Append(group, e) /\ last_header' = e.rank
        /\ section' = IF next = "error" THEN section ELSE next
    BY <2>1, IncludedFacts, EntryType
  <2> HIDE DEF e
  <2>3. group \in Seq(Entry) /\ section \in Sections
    BY GroupType
  <2>4. /\ Len(group) \in Nat /\ Len(group') = N /\ group' # <<>> /\ group'[N] = e
        /\ \A i \in 1..Len(group) : Rank(group', i) = Rank(group, i)
    BY <2>2, <2>3, AppendProperties, RankKept
  <2>5. /\ Rank(group', N) \in 1..4
        /\ next = "error" => Place(section) > Rank(group', N)
        /\ next # "error" => Place(next) = Rank(group', N)
                             /\ Place(section) <= Rank(group', N)
    BY <2>2, <2>3, Placed
  <2>6. Place(section) \in 0..4 /\ \A i \in 1..Len(group) : Rank(group, i) \in 1..4
    BY <2>3, PlaceType, RankValue
  <2>7. \A i \in 1..N : i \in 1..Len(group) \/ i = N
    BY <2>4
  <2>8. CASE next = "error"
    <3>1. section' = section /\ Place(section) > 1
      BY <2>2, <2>5, <2>6, <2>8
    <3>2. group # <<>>
      BY <3>1 DEF Ordering, Place
    <3>3. PICK i \in 1..Len(group) : Rank(group, i) = Place(section)
      BY <3>2 DEF Ordering
    <3>4. i \in 1..Len(group') /\ Rank(group', i) = Place(section')
      BY <2>4, <3>1, <3>3
    <3>5. ASSUME NEW k \in 1..Len(group') PROVE Rank(group', k) <= Place(section')
      BY <2>4, <2>5, <2>6, <2>7, <2>8, <3>1 DEF Ordering
    <3> QED
      BY <2>2, <2>4, <3>4, <3>5 DEF Ordering
  <2>9. CASE next # "error"
    <3>1. N \in 1..Len(group') /\ Rank(group', N) = Place(section')
      BY <2>2, <2>4, <2>5, <2>9
    <3>2. ASSUME NEW k \in 1..Len(group') PROVE Rank(group', k) <= Place(section')
      BY <2>2, <2>4, <2>5, <2>6, <2>7, <2>9 DEF Ordering
    <3> QED
      BY <2>2, <2>4, <3>1, <3>2 DEF Ordering
  <2> QED
    BY <2>8, <2>9
<1>2. CASE ~\E l \in Line : Include(l) /\ Counts(l) /\ previous' = l.kind
  <2>1. CASE UNCHANGED <<group, section, last_header>>
    BY <2>1 DEF Ordering, Rank
  <2>2. CASE group' = <<>> /\ section' = "initial" /\ last_header' = 0
    BY <2>2 DEF Ordering
  <2> QED
    BY <1>2, <2>1, <2>2, OtherSteps
<1> QED
  BY <1>1, <1>2

LEMMA OrderingInit == Init => Ordering
  BY DEF Init, Ordering

\* What a counted include reports.
LEMMA CountedReports ==
  ASSUME TypeOK, NEW l \in Line, Include(l), Counts(l)
  PROVE  LET next == NextSection(ClassifyInclude(l))
         IN  /\ "order" \in reports' <=> next = "error"
             /\ "alpha" \in reports' <=> /\ LastHeader(next) > Paths[l.name].rank
                                         /\ previous = "include"
  BY DEF Include, Included, DirectoryError, IsInAlphabeticalOrder

LEMMA StepReports ==
  ASSUME TypeOK, Ordering, [Next]_vars, Looked
  PROVE  /\ "order" \in reports' <=>
              \E i \in Earlier : Rank(group', i) > Rank(group', Newest)
         /\ "alpha" \in reports' <=>
              /\ previous = "include" /\ group # <<>>
              /\ group'[Newest - 1].rank > group'[Newest].rank
              /\ \A i \in Earlier : Rank(group', i) <= Rank(group', Newest)
              /\ \E i \in Earlier : Rank(group', i) = Rank(group', Newest)
<1>1. group \in Seq(Entry) /\ section \in Sections /\ Len(group) \in Nat
  BY GroupType
<1>2. PICK l \in Line : Include(l) /\ Counts(l)
  BY <1>1, OtherSteps DEF Looked
<1> DEFINE e == [type |-> ClassifyInclude(l), rank |-> Paths[l.name].rank]
           next == NextSection(e.type)
           N == Len(group) + 1
           r == Rank(group', N)
<1>3. e \in Entry /\ group' = Append(group, e)
  BY <1>2, IncludedFacts, EntryType
<1>4. /\ "order" \in reports' <=> next = "error"
      /\ "alpha" \in reports' <=> LastHeader(next) > e.rank /\ previous = "include"
  BY <1>2, CountedReports
<1> HIDE DEF e
<1>5. /\ Len(group') = N /\ group'[N] = e
      /\ \A i \in 1..Len(group) : group'[i] = group[i] /\ Rank(group', i) = Rank(group, i)
  BY <1>1, <1>3, AppendProperties, RankKept
<1>6. Earlier = 1..Len(group) /\ Newest = N
  BY <1>1, <1>5 DEF Earlier, Newest
<1>7. /\ r \in 1..4
      /\ next = "error" => Place(section) > r
      /\ next # "error" => next \in Sections /\ Place(next) = r /\ Place(section) <= r
  BY <1>1, <1>3, Placed
<1>8. Place(section) \in 0..4 /\ \A i \in 1..Len(group) : Rank(group, i) \in 1..4
  BY <1>1, PlaceType, RankValue
<1>9. next = "error" <=> Place(section) > r
  BY <1>7, <1>8
<1>10. Place(section) > r <=> \E i \in 1..Len(group) : Rank(group, i) > r
  <2>1. Place(section) > r => group # <<>>
    BY <1>7 DEF Ordering, Place
  <2>2. \A i \in 1..Len(group) : Rank(group, i) > r => Place(section) > r
    BY <1>7, <1>8 DEF Ordering
  <2> QED
    BY <1>7, <2>1, <2>2 DEF Ordering
<1>11. "order" \in reports' <=> \E i \in Earlier : Rank(group', i) > Rank(group', Newest)
  BY <1>4, <1>5, <1>6, <1>9, <1>10
<1>12. next = section <=> Place(section) = r
  BY <1>1, <1>7, <1>8 DEF Sections, Place
<1>13. group # <<>> =>
         (Place(section) = r <=> /\ \A i \in 1..Len(group) : Rank(group, i) <= r
                                 /\ \E i \in 1..Len(group) : Rank(group, i) = r)
  BY <1>7, <1>8 DEF Ordering
<1>14. e.rank \in Nat
  BY <1>3 DEF Entry
<1>15. LastHeader(next) > e.rank <=>
         group # <<>> /\ next = section /\ group[Len(group)].rank > e.rank
  <2>1. CASE group = <<>>
    BY <2>1, <1>14 DEF Ordering, LastHeader
  <2>2. CASE group # <<>>
    BY <2>2, <1>14 DEF Ordering, LastHeader
  <2> QED
    BY <2>1, <2>2
<1>16. group # <<>> => group'[Newest - 1] = group[Len(group)] /\ group'[Newest] = e
  BY <1>1, <1>5, <1>6, EmptySeq
<1>17. "alpha" \in reports' <=>
         /\ previous = "include" /\ group # <<>>
         /\ group'[Newest - 1].rank > group'[Newest].rank
         /\ \A i \in Earlier : Rank(group', i) <= Rank(group', Newest)
         /\ \E i \in Earlier : Rank(group', i) = Rank(group', Newest)
  BY <1>4, <1>5, <1>6, <1>12, <1>13, <1>15, <1>16
<1> QED
  BY <1>11, <1>17

\* An include is reported as out of order exactly when one before it belongs after it.
THEOREM OrderIsReported == Spec => OrderReported
<1>1. TypeOK /\ Ordering /\ [Next]_vars =>
        [Looked => ("order" \in reports' <=>
                      \E i \in Earlier : Rank(group', i) > Rank(group', Newest))]_vars
  BY StepReports
<1> QED
  BY <1>1, TypeInit, TypeNext, OrderingInit, OrderingNext, PTL DEF Spec, OrderReported

\* An include is reported as unsorted exactly when it directly follows a line with an include,
\* it is in place but not its section's first, and the last include looked at since the last
\* conditional is greater: that one may be lines above, or out of order and of another section.
THEOREM AlphaIsReported == Spec => AlphaReported
<1>1. TypeOK /\ Ordering /\ [Next]_vars =>
        [Looked =>
           ("alpha" \in reports' <=>
              /\ previous = "include" /\ group # <<>>
              /\ group'[Newest - 1].rank > group'[Newest].rank
              /\ \A i \in Earlier : Rank(group', i) <= Rank(group', Newest)
              /\ \E i \in Earlier : Rank(group', i) = Rank(group', Newest))]_vars
  BY StepReports
<1> QED
  BY <1>1, TypeInit, TypeNext, OrderingInit, OrderingNext, PTL DEF Spec, AlphaReported
----------------------------------------------------------------------------
(* The end of the file.                                                    *)

LEMMA NothingNext ==
  TypeOK /\ InEffectListed /\ NothingInEffectAsked /\ [Next]_vars => NothingInEffectAsked'
<1> SUFFICES ASSUME TypeOK, InEffectListed, NothingInEffectAsked, [Next]_vars
             PROVE  NothingInEffectAsked'
  OBVIOUS
<1>1. CASE NextLine
  BY <1>1 DEF NextLine, NothingInEffectAsked
<1>2. CASE CompletesFile
  <2>1. InEffect' = InEffect
    BY <1>2 DEF CompletesFile, InEffect
  <2>2. missing' \cap Known = {}
    BY <1>2 DEF CompletesFile
  <2>3. InEffect \subseteq Known
    BY DEF InEffectListed, Known
  <2>4. \A n \in InEffect : Own.source /\ Paths[n].ours => Paths[n].includes \subseteq Known
    BY DEF InEffectListed, Known, Ours
  <2>5. "own" \in reports' => Own.header \cap InEffect = {}
    BY <1>2 DEF CompletesFile, InEffectListed
  <2> QED
    BY <2>1, <2>2, <2>3, <2>4, <2>5 DEF NothingInEffectAsked
<1>3. CASE UNCHANGED vars
  BY <1>3 DEF vars, NothingInEffectAsked, InEffect
<1> QED
  BY <1>1, <1>2, <1>3 DEF Next

\* No header is asked for that the file, or a header of its module, includes.
THEOREM NothingIsAsked == Spec => []NothingInEffectAsked
<1>1. Init => NothingInEffectAsked
  BY DEF Init, NothingInEffectAsked
<1> QED
  BY <1>1, TypeInit, TypeNext, NothingNext, InEffectIsListed, PTL DEF Spec
=============================================================================
