------------------------------- MODULE Includes -------------------------------
(***************************************************************************)
(* _IncludeState of cpplint.py, for one file: what CheckLanguage() and      *)
(* CheckIncludeLine() do with it at each #include and at each conditional,  *)
(* and the checks at the end of the file that read it.                      *)
(***************************************************************************)
EXTENDS Integers, Sequences, FiniteSets

CONSTANTS
  Name,       \* the paths that are included
  Paths,      \* what each path is; see Path
  Own,        \* the file that is linted; see File
  MaxLines    \* bound on the lines of the file

\* A path: a standard C++ header or not, its directory, its base name without common
\* suffixes and the first component of it, whether it is a .h without directory or a
\* .cc, whether third parties name theirs so, its place in alphabetical order, and
\* whether it belongs to the same module and can be read: then, what it includes.
Path == [cpp : BOOLEAN, dir : STRING, base : STRING, first : STRING, bare : BOOLEAN,
         cc : BOOLEAN, third : BOOLEAN, rank : Nat \ {0}, ours : BOOLEAN,
         includes : SUBSET Name]
\* The file: its directory, the public one beside it, its base name and the first
\* component; whether it is source, a .cc, a test; whether its header exists, and the
\* paths that contain its header's name or are contained in it.
File == [dir : STRING, public : STRING, base : STRING, first : STRING,
         source : BOOLEAN, cc : BOOLEAN, test : BOOLEAN, hasHeader : BOOLEAN, header : SUBSET Name]

ASSUME MaxLinesAssumption == MaxLines \in Nat
ASSUME PathsAssumption == Paths \in [Name -> Path]
ASSUME OwnAssumption == Own \in File

Line == [kind : {"include"}, name : Name, system : BOOLEAN]
          \cup [kind : {"if", "else", "endif", "other"}]

VARIABLES
  linenum,
  section,       \* _section
  last_header,   \* _last_header, by its place in alphabetical order; 0 is ''
  include_list,  \* the names, and not their lines
  previous,      \* the line before
  reports,       \* the errors the last step reported
  missing, done, \* at the end: the headers asked for
  branches,      \* history: what is included in each branch that is open
  starts,        \* history: the length of include_list when each began
  group          \* history: the includes looked at since the last conditional

vars == <<linenum, section, last_header, include_list, previous, reports,
          missing, done, branches, starts, group>>

Report == {"directory", "duplicate", "foreign", "order", "alpha", "own"}
Sections == {"initial", "my_h", "c", "cpp", "other_h"}
Place(s) == CASE s = "initial" -> 0 [] s = "my_h" -> 1 [] s = "c" -> 2
              [] s = "cpp" -> 3 [] s = "other_h" -> 4

TypeOK ==
  /\ linenum \in 0..MaxLines
  /\ section \in Sections
  /\ last_header \in Nat
  /\ include_list \in Seq(SUBSET Name) /\ include_list # <<>>
  /\ previous \in {"include", "if", "else", "endif", "other"}
  /\ reports \in SUBSET Report
  /\ missing \subseteq Name /\ done \in BOOLEAN
  /\ branches \in Seq(SUBSET Name) /\ branches # <<>>
  /\ starts \in Seq(Nat) /\ Len(starts) = Len(branches)
  /\ group \in Seq([type : {"c", "cpp", "mine", "other"}, rank : Nat])

Init ==
  /\ linenum = 0
  /\ section = "initial" /\ last_header = 0
  /\ include_list = <<{}>>
  /\ previous = "other" /\ reports = {} /\ missing = {} /\ done = FALSE
  /\ branches = <<{}>> /\ starts = <<1>> /\ group = <<>>

----------------------------------------------------------------------------
(* CheckNextIncludeOrder().                                                *)

\* _ClassifyInclude().  A header that is likely, and one that is possibly, the
\* file's own are treated alike.
ClassifyInclude(l) ==
  LET p == Paths[l.name]
  IN  IF l.system THEN IF p.cpp THEN "cpp" ELSE "c"
      ELSE IF \/ p.base = Own.base /\ p.dir \in {Own.dir, Own.public}
              \/ p.first = Own.first /\ p.first # ""
           THEN "mine" ELSE "other"

\* Mutation: a header of the file's own is still its first after a C header.
NextSectionLax(type) ==
  CASE type = "c" -> IF Place(section) <= 2 THEN "c" ELSE "error"
    [] type = "cpp" -> IF Place(section) <= 3 THEN "cpp" ELSE "error"
    [] type = "mine" -> IF Place(section) <= 2 THEN "my_h" ELSE "other_h"
    [] type = "other" -> "other_h"

\* The section that a header begins or continues.
NextSection(type) ==
  CASE type = "c" -> IF Place(section) <= 2 THEN "c" ELSE "error"
    [] type = "cpp" -> IF Place(section) <= 3 THEN "cpp" ELSE "error"
    [] type = "mine" -> IF Place(section) <= 1 THEN "my_h" ELSE "other_h"
    [] type = "other" -> "other_h"

\* Mutation: only an error forgets the last header.
LastHeaderKept(next) == IF next = "error" THEN 0 ELSE last_header

\* The header the next is compared with: none in a new section, none after an error.
LastHeader(next) == IF next # section THEN 0 ELSE last_header

\* The line before decides whether the order is meant: only an include is compared.
IsInAlphabeticalOrder(rank, next) == ~(LastHeader(next) > rank /\ previous = "include")

----------------------------------------------------------------------------
(* CheckIncludeLine().                                                     *)

Listed == UNION {include_list[i] : i \in DOMAIN include_list}

DirectoryError(l) ==
  IF ~l.system /\ Paths[l.name].bare /\ ~Paths[l.name].third THEN {"directory"} ELSE {}

\* The include that takes part in the order: neither a duplicate, nor a .cc of another
\* directory, nor a third party's.
Counts(l) ==
  LET p == Paths[l.name]
  IN  l.name \notin Listed /\ ~(p.cc /\ p.dir # Own.dir) /\ ~p.third

Included(l) ==
  LET p == Paths[l.name]
      type == ClassifyInclude(l)
      next == NextSection(type)
  IN  IF Counts(l)
      THEN /\ include_list' = [include_list EXCEPT ![Len(include_list)] = @ \cup {l.name}]
           /\ section' = IF next = "error" THEN section ELSE next
           /\ last_header' = p.rank
           /\ group' = Append(group, [type |-> type, rank |-> p.rank])
           /\ reports' = DirectoryError(l)
                           \cup (IF next = "error" THEN {"order"} ELSE {})
                           \cup (IF IsInAlphabeticalOrder(p.rank, next) THEN {} ELSE {"alpha"})
      ELSE /\ UNCHANGED <<include_list, section, last_header, group>>
           /\ reports' = DirectoryError(l)
                           \cup (IF l.name \in Listed THEN {"duplicate"}
                                 ELSE IF p.cc /\ p.dir # Own.dir THEN {"foreign"} ELSE {})

Include(l) ==
  /\ l.kind = "include"
  /\ Included(l)
  /\ branches' = [branches EXCEPT ![Len(branches)] = @ \cup {l.name}]
  /\ UNCHANGED starts

----------------------------------------------------------------------------
(* ResetSection().                                                         *)

Resets == section' = "initial" /\ last_header' = 0 /\ group' = <<>> /\ reports' = {}

If(l) ==
  /\ l.kind = "if"
  /\ Resets
  /\ include_list' = Append(include_list, {})
  /\ branches' = Append(branches, {})
  /\ starts' = Append(starts, Len(include_list'))

\* Mutation: the branch before #else is looked for from the first list on.
ElseClearsFirst(l) ==
  /\ l.kind = "else" /\ Len(branches) > 1
  /\ Resets
  /\ include_list' = [include_list EXCEPT ![Len(branches) - 1] = {}]
  /\ branches' = [branches EXCEPT ![Len(branches)] = {}]
  /\ UNCHANGED starts

\* Mutation: #else drops the list instead of emptying it.
ElseDrops(l) ==
  /\ l.kind = "else" /\ Len(branches) > 1
  /\ Resets
  /\ include_list' = SubSeq(include_list, 1, Len(include_list) - 1)
  /\ branches' = [branches EXCEPT ![Len(branches)] = {}]
  /\ UNCHANGED starts

\* #else or #elif.
Else(l) ==
  /\ l.kind = "else" /\ Len(branches) > 1
  /\ Resets
  /\ include_list' = [include_list EXCEPT ![Len(include_list)] = {}]
  /\ branches' = [branches EXCEPT ![Len(branches)] = {}]
  /\ UNCHANGED starts

Endif(l) ==
  /\ l.kind = "endif" /\ Len(branches) > 1
  /\ branches' = SubSeq(branches, 1, Len(branches) - 1)
  /\ starts' = SubSeq(starts, 1, Len(starts) - 1)
  /\ Resets
  /\ UNCHANGED include_list

Other(l) ==
  /\ l.kind = "other"
  /\ reports' = {}
  /\ UNCHANGED <<include_list, section, last_header, group, branches, starts>>

\* CheckLanguage() of a line that is not empty, outside of asm blocks; a conditional
\* is closed and continued only where one is open.
NextLine ==
  /\ ~done /\ linenum < MaxLines
  /\ linenum' = linenum + 1
  /\ \E l \in Line :
       /\ Include(l) \/ If(l) \/ Else(l) \/ Endif(l) \/ Other(l)
       /\ previous' = l.kind
  /\ UNCHANGED <<missing, done>>

----------------------------------------------------------------------------
(* CheckForIncludeWhatYouUse() and CheckHeaderFileIncluded().              *)

Ours == {n \in Listed : Own.source /\ Paths[n].ours}

\* Mutation: only the last list is copied into include_dict.
KnownLast == include_list[Len(include_list)] \cup UNION {Paths[n].includes : n \in Ours}

\* include_dict, with the includes of the file's own header.
Known == Listed \cup UNION {Paths[n].includes : n \in Ours}

\* uses: the headers of what the file's lines use.
CompletesFile ==
  /\ ~done /\ Len(branches) = 1
  /\ done' = TRUE
  /\ \E uses \in SUBSET {n \in Name : Paths[n].cpp} :
       missing' = IF Own.cc /\ Ours = {} THEN {} ELSE uses \ Known
  /\ reports' = IF /\ Own.source /\ ~Own.test /\ Own.hasHeader
                   /\ Own.header \cap Listed = {} THEN {"own"} ELSE {}
  /\ UNCHANGED <<linenum, section, last_header, include_list, previous, branches, starts,
                 group>>

Next == NextLine \/ CompletesFile

Spec == Init /\ [][Next]_vars
----------------------------------------------------------------------------
(* Properties.                                                             *)

\* A header that CheckIncludeLine() lists: a third party's is not, nor a .cc of another
\* directory.
Ordinary(n) == ~Paths[n].third /\ ~(Paths[n].cc /\ Paths[n].dir # Own.dir)
InEffect == {n \in UNION {branches[i] : i \in DOMAIN branches} : Ordinary(n)}

\* Whatever the conditionals before a line, an Ordinary header that is included there (in
\* a branch that is still open, or outside of all) is in include_list: no duplicate of it
\* goes by unseen, though #else drops headers and #endif drops none (ResetSection()).  A
\* third party's header is never listed, and its duplicates do go by unseen.
InEffectListed == InEffect \subseteq Listed

\* At the end of the file no header is asked for that it includes, or that a header of
\* its own module that it includes, includes; nor its own header, if it is included
\* (CheckForIncludeWhatYouUse(), CheckHeaderFileIncluded()).
NothingInEffectAsked ==
  done =>
    /\ missing \cap InEffect = {}
    /\ Own.source =>
         \A n \in InEffect : Paths[n].ours => missing \cap Paths[n].includes = {}
    /\ "own" \in reports => Own.header \cap InEffect = {}

\* The place of an include among those since the last conditional: the file's own
\* first, then C, then C++ headers, then the others; the file's own are first only
\* as long as nothing else was.
Rank(g, i) ==
  CASE g[i].type = "c" -> 2
    [] g[i].type = "cpp" -> 3
    [] g[i].type = "mine" -> IF \A j \in 1..(i - 1) : g[j].type = "mine" THEN 1 ELSE 4
    [] g[i].type = "other" -> 4

Earlier == 1..(Len(group') - 1)
Looked == Len(group') = Len(group) + 1
Newest == Len(group')

\* An include is reported as out of order exactly when one before it, since the last
\* conditional, belongs after it: an error is no excuse for the next
\* (CheckNextIncludeOrder()).
OrderReported ==
  [][Looked =>
       ("order" \in reports' <=>
          \E i \in Earlier : Rank(group', i) > Rank(group', Newest))]_vars

\* An include is reported as unsorted exactly when the line before it is an include, of
\* whatever kind, it is in place but not its section's first, and the last include that
\* was looked at since the last conditional is greater.  That one may be lines above, if
\* third parties' headers or duplicates are between, and it may belong to an earlier
\* section, if it was itself out of order (CheckNextIncludeOrder() keeps the section then,
\* CheckIncludeLine() the header).
AlphaReported ==
  [][Looked =>
       ("alpha" \in reports' <=>
          /\ previous = "include" /\ group # <<>>
          /\ group'[Newest - 1].rank > group'[Newest].rank
          /\ \A i \in Earlier : Rank(group', i) <= Rank(group', Newest)
          /\ \E i \in Earlier : Rank(group', i) = Rank(group', Newest))]_vars
=============================================================================
