---------------------------- MODULE LintFilesProofs ----------------------------
(***************************************************************************)
(* Which filters and comments judge an error, for any files, directories,   *)
(* configurations, comments and number of errors.                          *)
(***************************************************************************)
EXTENDS LintFiles, TLAPS

Base == DefaultFilters \o CommandFilters

----------------------------------------------------------------------------
(* Types.                                                                  *)

\* The file, the directory and the option that are looked at are there.
PlaceInv ==
  /\ pc \notin {"file", "exit", "died"} => index \in DOMAIN Files
  /\ pc \in {"config", "read"} => level \in 1..Len(Path[File])
  /\ pc = "read" => /\ level < Len(Path[File]) /\ Config[Directory].kind = "options"
                    /\ option \in 1..(Len(Options) + 1)

\* What the constants say of one file.
LEMMA OfFile ==
  ASSUME NEW f, \E k \in DOMAIN Files : f = Files[k]
  PROVE  /\ Path[f] \in Seq(STRING) /\ Len(Path[f]) \in Nat \ {0}
         /\ \A k \in 2..Len(Path[f]) :
              /\ Path[f][k] \in DOMAIN Config
              /\ Config[Path[f][k]].kind \in {"none", "unreadable", "options"}
              /\ Config[Path[f][k]].options \in Seq(Setting)
         /\ Text[f].comments \in Seq(Comment)
         /\ Text[f].global \subseteq Category
         /\ Text[f].guard.ifndef \in 0..Len(Text[f].comments)
         /\ Text[f].guard.endif \in 0..Len(Text[f].comments)
<1>1. /\ Path[f] \in Seq(STRING) /\ Len(Path[f]) > 0
      /\ \A k \in 2..Len(Path[f]) : Path[f][k] \in DOMAIN Config
      /\ Text[f].comments \in Seq(Comment) /\ Text[f].global \subseteq Category
      /\ {Text[f].guard.ifndef, Text[f].guard.endif} \subseteq 0..Len(Text[f].comments)
  BY FilesAssumption
<1>2. Len(Path[f]) \in Nat \ {0}
  BY <1>1
<1> QED BY <1>1, <1>2, ConfigAssumption

LEMMA Counts ==
  /\ \A n \in 0..MaxErrors : Min({n + 1, MaxErrors}) \in 0..MaxErrors
<1> SUFFICES ASSUME NEW n \in 0..MaxErrors PROVE Min({n + 1, MaxErrors}) \in 0..MaxErrors
  OBVIOUS
<1>1. n + 1 \in Nat /\ MaxErrors \in Nat
  BY CountAssumption
<1> DEFINE least == IF n + 1 <= MaxErrors THEN n + 1 ELSE MaxErrors
<1>2. least \in {n + 1, MaxErrors} /\ \A y \in {n + 1, MaxErrors} : least <= y
  BY <1>1
<1>3. Min({n + 1, MaxErrors}) \in {n + 1, MaxErrors}
      /\ \A y \in {n + 1, MaxErrors} : Min({n + 1, MaxErrors}) <= y
  BY <1>2 DEF Min
<1> QED BY <1>1, <1>3

\* Error() of an error of this file.
Judged == [category : Category \cup {"none"}, line : Nat, confidence : 0..5, printed : BOOLEAN]

LEMMA ErrorTypes ==
  ASSUME TypeOK, NEW category \in Category, NEW confidence \in 0..5, NEW line \in Nat,
         NEW silenced, Error(category, confidence, line, silenced)
  PROVE  judged' \in Judged /\ error_count' \in 0..MaxErrors
<1>1. ShouldPrintError(category, confidence, line, silenced) \in BOOLEAN
  BY Zenon DEF ShouldPrintError
<1> DEFINE printed == ShouldPrintError(category, confidence, line, silenced)
<1>2. /\ judged' = [category |-> category, line |-> line, confidence |-> confidence,
                    printed |-> printed]
      /\ error_count' = IF printed THEN Min({error_count + 1, MaxErrors}) ELSE error_count
  BY DEF Error
<1> HIDE DEF printed
<1>3. judged' \in Judged
  BY <1>1, <1>2 DEF printed, Judged
<1> QED BY <1>2, <1>3, Counts DEF TypeOK

\* ParseNolintSuppressions() of a line of this file.
LEMMA ParseTypes ==
  ASSUME TypeOK, index \in DOMAIN Files, NEW line \in 1..Len(Comments),
         ParseNolintSuppressions(line)
  PROVE  /\ suppressions' \subseteq (Category \cup {"all"}) \X Nat /\ parsed' \subseteq Nat
         /\ judged' \in Judged /\ error_count' \in 0..MaxErrors
<1>1. Comments \in Seq(Comment) /\ line \in Nat
  BY OfFile DEF Comments, File
<1> DEFINE c == Comments[line]
<1>2. c \in Comment
  BY <1>1
<1>3. /\ suppressions' = suppressions \cup Suppressed(line, c)
      /\ parsed' = parsed \cup {line}
      /\ \/ Error("nolint", 5, line, suppressions)
         \/ UNCHANGED <<error_count, judged>>
  BY DEF ParseNolintSuppressions
<1> HIDE DEF c
<1>4. Suppressed(line, c) \subseteq (Category \cup {"all"}) \X Nat
  BY <1>1, <1>2 DEF Suppressed, Comment
<1>5. judged' \in Judged /\ error_count' \in 0..MaxErrors
  <2>1. "nolint" \in Category /\ 5 \in 0..5
    BY CategoryAssumption
  <2> QED BY <1>1, <1>3, <2>1, ErrorTypes DEF TypeOK, Judged
<1> QED BY <1>1, <1>3, <1>4, <1>5 DEF TypeOK

Inv == TypeOK /\ PlaceInv

LEMMA InvInit == Init => Inv
<1> SUFFICES ASSUME Init PROVE Inv
  OBVIOUS
<1>1. /\ pc \in {"died", "file"} /\ index = 1 /\ error_count = 0 /\ judged = NoError
      /\ filters \in Seq(Filter) /\ filters_backup \in Seq(Filter)
  BY FiltersAssumption DEF Init
<1>2. 1 \in 1..(Len(Files) + 1) /\ 0 \in 0..MaxErrors
  BY FilesAssumption, CountAssumption
<1>3. judged \in Judged
  BY <1>1 DEF NoError, Judged
<1>4. line_length \in Int /\ cfg_filters \in Seq(Seq(Filter))
  BY CountAssumption DEF Init
<1> QED
  BY <1>1, <1>2, <1>3, <1>4 DEF Init, Inv, TypeOK, PlaceInv, Judged

\* An option of a CPPLINT.cfg, and the list of filters it may add to.
LEMMA ReadsOptionTypes ==
  ASSUME Inv, ReadsOption
  PROVE  /\ cfg_filters' \in Seq(Seq(Filter)) /\ line_length' \in Int
         /\ looking' \in BOOLEAN /\ option \in 1..Len(Options)
<1>1. /\ pc = "read" /\ option <= Len(Options) /\ index \in DOMAIN Files
      /\ level \in 1..Len(Path[File]) /\ level < Len(Path[File])
      /\ option \in 1..(Len(Options) + 1)
  BY DEF ReadsOption, Inv, PlaceInv
<1>2. Options \in Seq(Setting)
  <2>1. level + 1 \in 2..Len(Path[File])
    BY <1>1, OfFile DEF File
  <2> QED BY <1>1, <2>1, OfFile DEF Options, Directory, File
<1>3. option \in 1..Len(Options)
  BY <1>1, <1>2
<1> DEFINE o == Options[option]
<1>4. o \in Setting
  BY <1>2, <1>3
<1> HIDE DEF o
<1>5. o.filters \in Seq(Filter) /\ o.length \in Int
  BY <1>4 DEF Setting
<1>6. /\ cfg_filters' \in {cfg_filters, Append(cfg_filters, o.filters)}
      /\ line_length' \in {line_length, o.length}
      /\ looking' \in BOOLEAN
  <2>1. looking \in BOOLEAN
    BY DEF Inv, TypeOK
  <2> QED BY <2>1 DEF ReadsOption, Leaves, o
<1>7. cfg_filters' \in Seq(Seq(Filter))
  <2> DEFINE F == Seq(Filter)
             fs == o.filters
  <2>1. cfg_filters \in Seq(F) /\ fs \in F /\ cfg_filters' \in {cfg_filters, Append(cfg_filters, fs)}
    BY <1>5, <1>6 DEF Inv, TypeOK
  <2> HIDE DEF F, fs
  <2>2. cfg_filters' \in Seq(F)
    BY <2>1
  <2> QED BY <2>2 DEF F
<1>8. line_length' \in Int
  BY <1>5, <1>6 DEF Inv, TypeOK
<1> QED BY <1>3, <1>6, <1>7, <1>8

LEMMA InvNext == Inv /\ [Next]_vars => Inv'
<1> SUFFICES ASSUME Inv, [Next]_vars PROVE Inv'
  OBVIOUS
<1>0. TypeOK /\ PlaceInv
  BY DEF Inv
<1>1. Len(Files) \in Nat /\ DOMAIN Files = 1..Len(Files)
  BY FilesAssumption
<1>2. \A n \in DOMAIN Files : n \in 1..(Len(Files) + 1) /\ n + 1 \in 1..(Len(Files) + 1)
  BY <1>1
<1> DEFINE path == Path[File]
<1>3. index \in DOMAIN Files =>
        /\ Len(path) \in Nat \ {0} /\ File' = Files[index'] /\ Comments \in Seq(Comment)
        /\ Len(Comments) \in Nat /\ DOMAIN Comments = 1..Len(Comments)
        /\ G.ifndef \in 0..Len(Comments) /\ G.endif \in 0..Len(Comments)
        /\ Text[File].global \subseteq Category
        /\ \A k \in 2..Len(path) : Config[path[k]].options \in Seq(Setting)
  <2> SUFFICES ASSUME index \in DOMAIN Files
               PROVE  /\ Len(path) \in Nat \ {0} /\ Comments \in Seq(Comment)
                      /\ G.ifndef \in 0..Len(Comments) /\ G.endif \in 0..Len(Comments)
                      /\ Text[File].global \subseteq Category
                      /\ \A k \in 2..Len(path) : Config[path[k]].options \in Seq(Setting)
    BY DEF File
  <2>1. \E k \in DOMAIN Files : File = Files[k]
    BY DEF File
  <2> QED BY <2>1, OfFile DEF Comments, G
<1>4. CASE StartsFile
  <2>1. /\ pc' = "config" /\ index' = index /\ index \in DOMAIN Files /\ File' = File
        /\ level' = 1 /\ option' = 0 /\ looking' = TRUE /\ cfg_filters' = <<>>
        /\ filters_backup' = filters
        /\ UNCHANGED <<filters, line_length, fileVars, error_count, judged>>
    BY <1>0, <1>1, <1>4 DEF StartsFile, TypeOK, File
  <2>2. level' \in 1..Len(Path[File'])
    BY <1>3, <2>1
  <2>3. PlaceInv'
    BY <2>1, <2>2 DEF PlaceInv
  <2>4. TypeOK'
    BY <1>0, <2>1 DEF TypeOK, fileVars
  <2> QED BY <2>3, <2>4 DEF Inv
<1>5. CASE SkipsDirectory \/ OpensConfig \/ ClosesConfig
  <2>1. /\ index \in DOMAIN Files /\ File' = File /\ level \in 1..Len(path)
        /\ level < Len(path)
    BY <1>0, <1>5 DEF SkipsDirectory, OpensConfig, ClosesConfig, LooksOn, PlaceInv, File
  <2>2. level + 1 \in 1..Len(path) /\ level + 1 \in 2..Len(path) /\ level + 1 \in Nat \ {0}
    BY <1>3, <2>1
  <2>3. CASE OpensConfig
    <3>1. /\ pc' = "read" /\ index' = index /\ level' = level /\ option' = 1
          /\ Config[Directory].kind = "options" /\ Directory' = Directory /\ Options' = Options
      BY <2>1, <2>3 DEF OpensConfig, Directory, Options
    <3>2. Options \in Seq(Setting)
      BY <1>3, <2>1, <2>2 DEF Options, Directory
    <3>3. option' \in 1..(Len(Options) + 1)
      BY <3>1, <3>2
    <3>4. PlaceInv'
      BY <2>1, <3>1, <3>3 DEF PlaceInv
    <3>5. TypeOK'
      BY <1>0, <2>3 DEF OpensConfig, TypeOK, fileVars
    <3> QED BY <3>4, <3>5 DEF Inv
  <2>4. CASE SkipsDirectory \/ ClosesConfig
    <3>1. /\ pc' = "config" /\ index' = index /\ level' = level + 1
          /\ looking' \in BOOLEAN
      BY <1>0, <2>4 DEF SkipsDirectory, ClosesConfig, TypeOK
    <3>2. PlaceInv'
      BY <2>1, <2>2, <3>1 DEF PlaceInv
    <3>3. TypeOK'
      BY <1>0, <2>2, <2>4, <3>1 DEF SkipsDirectory, ClosesConfig, TypeOK, fileVars
    <3> QED BY <3>2, <3>3 DEF Inv
  <2> QED BY <1>5, <2>3, <2>4
<1>6. CASE ReadsOption
  <2>1. /\ cfg_filters' \in Seq(Seq(Filter)) /\ line_length' \in Int
        /\ looking' \in BOOLEAN /\ option \in 1..Len(Options)
    BY <1>6, ReadsOptionTypes
  <2>2. pc = "read" /\ index \in DOMAIN Files /\ level \in 1..Len(path) /\ level < Len(path)
        /\ Config[Directory].kind = "options"
    BY <1>0, <1>6 DEF ReadsOption, PlaceInv
  <2>3. \/ Leaves
        \/ UNCHANGED <<pc, index, level, filters>> /\ option' = option + 1
    BY <1>6 DEF ReadsOption
  <2>4. CASE Leaves
    <3>1. PlaceInv'
      BY <2>4 DEF Leaves, PlaceInv
    <3>2. TypeOK'
      BY <1>0, <1>2, <1>6, <2>1, <2>2, <2>4 DEF Leaves, ReadsOption, TypeOK, fileVars
    <3> QED BY <3>1, <3>2 DEF Inv
  <2>5. CASE UNCHANGED <<pc, index, level, filters>> /\ option' = option + 1
    <3>1. File' = File /\ Directory' = Directory /\ Options' = Options
      BY <2>5 DEF File, Directory, Options
    <3>2. option' \in 1..(Len(Options) + 1) /\ option' \in Nat
      BY <2>1, <2>5
    <3>3. PlaceInv'
      BY <2>2, <2>5, <3>1, <3>2 DEF PlaceInv
    <3>4. TypeOK'
      BY <1>0, <1>6, <2>1, <2>5, <3>2 DEF ReadsOption, TypeOK, fileVars
    <3> QED BY <3>3, <3>4 DEF Inv
  <2> QED BY <2>3, <2>4, <2>5
<1>7. CASE AddsFilters
  <2>1. /\ filters' = filters \o Last(cfg_filters) /\ cfg_filters' = Front(cfg_filters)
        /\ pc = "config" /\ pc' \in {"died", "config"} /\ cfg_filters # <<>>
        /\ UNCHANGED <<index, level, option, looking, filters_backup, line_length, fileVars,
                       error_count, judged>>
    BY <1>7 DEF AddsFilters
  <2>2. Last(cfg_filters) \in Seq(Filter) /\ Front(cfg_filters) \in Seq(Seq(Filter))
    BY <1>0, <2>1 DEF TypeOK, Last, Front
  <2>3. TypeOK'
    BY <1>0, <2>1, <2>2 DEF TypeOK, fileVars
  <2>4. PlaceInv'
    BY <1>0, <2>1 DEF PlaceInv, File
  <2> QED BY <2>3, <2>4 DEF Inv
<1>8. CASE AppliesConfig \/ ReadsFile \/ ProcessGlobalSuppressions
  <2>1. index \in DOMAIN Files /\ index' = index /\ pc' \in {"open", "copyright", "guard"}
    BY <1>0, <1>8 DEF AppliesConfig, ReadsFile, ProcessGlobalSuppressions, PlaceInv
  <2>2. PlaceInv'
    BY <2>1 DEF PlaceInv
  <2>3. TypeOK'
    <3>1. CASE AppliesConfig
      BY <1>0, <3>1 DEF AppliesConfig, TypeOK, configVars, fileVars
    <3>2. CASE ReadsFile
      BY <1>0, <3>2 DEF ReadsFile, TypeOK, configVars, Linting
    <3>3. CASE ProcessGlobalSuppressions
      <4>1. global' \subseteq Category /\ pc' \in Linting
        BY <1>3, <2>1, <3>3 DEF ProcessGlobalSuppressions, Linting
      <4> QED BY <1>0, <3>3, <4>1 DEF ProcessGlobalSuppressions, TypeOK, configVars
    <3> QED BY <1>8, <3>1, <3>2, <3>3
  <2> QED BY <2>2, <2>3 DEF Inv
<1>9. CASE SkipsFile \/ FinishesFile
  <2>1. Leaves /\ index \in DOMAIN Files
        /\ UNCHANGED <<filters_backup, fileVars, error_count, judged>>
    BY <1>0, <1>9 DEF SkipsFile, FinishesFile, PlaceInv
  <2>2. PlaceInv'
    BY <2>1 DEF Leaves, PlaceInv
  <2>3. TypeOK'
    BY <1>0, <1>2, <2>1 DEF Leaves, TypeOK, fileVars
  <2> QED BY <2>2, <2>3 DEF Inv
<1>10. ASSUME pc \in Linting, pc' \in Linting, index' = index,
              UNCHANGED <<configVars, filters, filters_backup, line_length, global>>,
              at' \in Nat, suppressions' \subseteq (Category \cup {"all"}) \X Nat,
              parsed' \subseteq Nat, judged' \in Judged, error_count' \in 0..MaxErrors
       PROVE  Inv'
  <2>1. index \in DOMAIN Files
    BY <1>0, <1>10 DEF PlaceInv, Linting
  <2>2. PlaceInv'
    BY <1>10, <2>1 DEF PlaceInv, Linting
  <2>3. TypeOK'
    BY <1>0, <1>10 DEF TypeOK, configVars, Judged
  <2> QED BY <2>2, <2>3 DEF Inv
<1>11. /\ at \in Nat /\ suppressions \subseteq (Category \cup {"all"}) \X Nat
       /\ parsed \subseteq Nat /\ judged \in Judged /\ error_count \in 0..MaxErrors
  BY <1>0 DEF TypeOK, Judged
<1>12. CASE NoGuard \/ Misnamed \/ Unclosed
  <2>1. /\ pc \in Linting /\ pc' \in Linting /\ UNCHANGED Guarded
        /\ UNCHANGED <<parsed, suppressions>> /\ index \in DOMAIN Files
    BY <1>0, <1>12 DEF NoGuard, Misnamed, Unclosed, Linting, PlaceInv
  <2>2. G.ifndef \in Nat /\ G.endif \in Nat /\ "guard" \in Category
    BY <1>3, <2>1, CategoryAssumption
  <2>3. Level(G.name) \in 0..5 /\ Level(G.closing) \in 0..5 /\ 5 \in 0..5 /\ 0 \in Nat
    BY DEF Level
  <2>4. \/ UNCHANGED <<error_count, judged>>
        \/ Error("guard", 5, 0, suppressions)
        \/ Error("guard", Level(G.name), G.ifndef, suppressions)
        \/ Error("guard", Level(G.closing), G.endif, suppressions)
    BY <1>12 DEF NoGuard, Misnamed, Unclosed
  <2>5. judged' \in Judged /\ error_count' \in 0..MaxErrors
    BY <1>0, <1>11, <2>2, <2>3, <2>4, ErrorTypes
  <2> QED BY <1>10, <1>11, <2>1, <2>5 DEF Guarded
<1>13. CASE ChecksGuard \/ ChecksEndif
  <2>1. /\ pc \in Linting /\ pc' \in Linting /\ UNCHANGED Guarded /\ index \in DOMAIN Files
    BY <1>0, <1>13 DEF ChecksGuard, ChecksEndif, Linting, PlaceInv
  <2>2. \/ UNCHANGED <<suppressions, parsed, error_count, judged>>
        \/ G.ifndef \in 1..Len(Comments) /\ ParseNolintSuppressions(G.ifndef)
        \/ G.endif \in 1..Len(Comments) /\ ParseNolintSuppressions(G.endif)
    BY <1>3, <1>13, <2>1 DEF ChecksGuard, ChecksEndif, Parsed
  <2>3. /\ suppressions' \subseteq (Category \cup {"all"}) \X Nat /\ parsed' \subseteq Nat
        /\ judged' \in Judged /\ error_count' \in 0..MaxErrors
    BY <1>0, <1>11, <2>1, <2>2, ParseTypes
  <2> QED BY <1>10, <1>11, <2>1, <2>3 DEF Guarded
<1>14. CASE NextLine
  <2>1. /\ pc \in Linting /\ pc' \in Linting /\ index \in DOMAIN Files
        /\ UNCHANGED <<index, configVars, filters, filters_backup, line_length, global>>
    BY <1>0, <1>14 DEF NextLine, Linting, PlaceInv
  <2>2. \/ UNCHANGED <<at, parsed, suppressions, error_count, judged>>
        \/ \E line \in 1..Len(Comments) : at' = line /\ ParseNolintSuppressions(line)
    <3>1. CASE UNCHANGED <<at, parsed, suppressions, error_count, judged>>
      BY <3>1
    <3>2. CASE at < Len(Comments) /\ at' = at + 1 /\ ParseNolintSuppressions(at')
      <4>1. at + 1 \in 1..Len(Comments)
        BY <1>3, <1>11, <2>1, <3>2
      <4>2. ParseNolintSuppressions(at + 1)
        BY <3>2 DEF ParseNolintSuppressions, Error
      <4> QED BY <3>2, <4>1, <4>2
    <3> QED BY <1>14, <3>1, <3>2 DEF NextLine
  <2>3. /\ at' \in Nat
        /\ suppressions' \subseteq (Category \cup {"all"}) \X Nat /\ parsed' \subseteq Nat
        /\ judged' \in Judged /\ error_count' \in 0..MaxErrors
    <3>1. CASE UNCHANGED <<at, parsed, suppressions, error_count, judged>>
      BY <1>11, <3>1
    <3>2. ASSUME NEW line \in 1..Len(Comments), at' = line, ParseNolintSuppressions(line)
          PROVE  /\ at' \in Nat
                 /\ suppressions' \subseteq (Category \cup {"all"}) \X Nat
                 /\ parsed' \subseteq Nat
                 /\ judged' \in Judged /\ error_count' \in 0..MaxErrors
      <4>1. at' \in Nat
        BY <3>2
      <4> QED BY <1>0, <2>1, <3>2, <4>1, ParseTypes
    <3> QED BY <2>2, <3>1, <3>2
  <2> QED BY <1>10, <2>1, <2>3
<1>15. CASE FindsError
  <2>1. /\ pc \in Linting /\ pc' = pc /\ index \in DOMAIN Files
        /\ UNCHANGED <<index, configVars, filters, filters_backup, line_length, fileVars>>
    BY <1>0, <1>15 DEF FindsError, Linting, PlaceInv
  <2>2. PICK category \in Category, confidence \in 0..5, line \in Nat :
          Error(category, confidence, line, suppressions)
    <3>1. PICK category \in Category, confidence \in {0, 5}, line \in 0..(Len(Comments) + 1) :
            Error(category, confidence, line, suppressions)
      BY <1>15 DEF FindsError
    <3>2. confidence \in 0..5 /\ line \in Nat
      BY <1>3, <2>1
    <3> QED BY <3>1, <3>2
  <2>3. judged' \in Judged /\ error_count' \in 0..MaxErrors
    BY <1>0, <2>2, ErrorTypes
  <2> QED BY <1>10, <1>11, <2>1, <2>3 DEF fileVars
<1>16. CASE Exits
  BY <1>0, <1>16 DEF Exits, Inv, TypeOK, PlaceInv, configVars, fileVars
<1>17. CASE UNCHANGED vars
  BY <1>0, <1>17 DEF vars, Inv, TypeOK, PlaceInv, configVars, fileVars, File, Directory, Options
<1> QED
  BY <1>4, <1>5, <1>6, <1>7, <1>8, <1>9, <1>12, <1>13, <1>14, <1>15, <1>16, <1>17 DEF Next

LEMMA InvAlways == Spec => []Inv
  BY InvInit, InvNext, PTL DEF Spec

\* Everything that is kept from file to file, and for a file, keeps its type, whatever
\* the files, their directories and their comments.
THEOREM TypeCorrect == Spec => []TypeOK
<1>1. Inv => TypeOK
  BY DEF Inv
<1> QED BY <1>1, InvAlways, PTL

----------------------------------------------------------------------------
(* The filters between two files.                                          *)

\* From the moment they are saved to the moment they are put back the backup holds the
\* filters of the command line; they are in force while the CPPLINT.cfg are read.
Saved ==
  /\ pc \in {"file", "exit", "read"} \/ (pc = "config" /\ LooksOn) => filters = Base
  /\ pc \in Linting \cup {"config", "read", "open"} => filters_backup = Base

LEMMA SavedInit == Init => Saved
  BY DEF Init, Saved, Linting, Base

LEMMA SavedNext == Saved /\ [Next]_vars => Saved'
<1> SUFFICES ASSUME Saved, [Next]_vars PROVE Saved'
  OBVIOUS
<1> USE DEF Saved, Linting
<1>1. CASE StartsFile
  BY <1>1 DEF StartsFile
<1>2. CASE SkipsDirectory \/ OpensConfig \/ ClosesConfig
  BY <1>2 DEF SkipsDirectory, OpensConfig, ClosesConfig
<1>3. CASE ReadsOption
  BY <1>3 DEF ReadsOption, Leaves
<1>4. CASE AddsFilters
  <2>1. LooksOn' = LooksOn
    BY <1>4 DEF AddsFilters, LooksOn, File
  <2> QED BY <1>4, <2>1 DEF AddsFilters
<1>5. CASE AppliesConfig
  BY <1>5 DEF AppliesConfig
<1>6. CASE SkipsFile \/ FinishesFile
  BY <1>6 DEF SkipsFile, FinishesFile, Leaves
<1>7. CASE ReadsFile \/ ProcessGlobalSuppressions \/ NextLine \/ FindsError
  BY <1>7 DEF ReadsFile, ProcessGlobalSuppressions, NextLine, FindsError
<1>8. CASE NoGuard \/ ChecksGuard \/ Misnamed \/ ChecksEndif \/ Unclosed
  BY <1>8 DEF NoGuard, ChecksGuard, Misnamed, ChecksEndif, Unclosed, Guarded
<1>9. CASE Exits \/ UNCHANGED vars
  BY <1>9 DEF Exits, vars, configVars, LooksOn, File
<1> QED
  BY <1>1, <1>2, <1>3, <1>4, <1>5, <1>6, <1>7, <1>8, <1>9 DEF Next

LEMMA SavedAlways == Spec => []Saved
  BY SavedInit, SavedNext, PTL DEF Spec

\* Between two files only the filters of the command line are left, however the files
\* before were left: excluded, unreadable, of another kind or linted (ProcessFile()).
THEOREM FiltersRestored == Spec => []FiltersPutBack
<1>1. Saved => FiltersPutBack
  BY DEF Saved, FiltersPutBack, Base
<1> QED BY SavedAlways, <1>1, PTL
----------------------------------------------------------------------------
(* The filter options of the CPPLINT.cfg above a file.                     *)

\* The directory k of the path of f lets the search go on above it.
LetsOn(f, k) ==
  LET c == Config[Path[f][k]]
  IN  /\ c.kind # "unreadable"
      /\ c.kind = "options" => \A n \in DOMAIN c.options : c.options[n].name # "set noparent"

LEMMA HeardIs ==
  ASSUME NEW f, NEW k
  PROVE  k \in Heard(f) <=>
           /\ k \in 2..Len(Path[f]) /\ Config[Path[f][k]].kind = "options"
           /\ \A j \in 2..(k - 1) : LetsOn(f, j)
BY DEF Heard, LetsOn

IsPlace(f, k, n) ==
  /\ k \in Heard(f) /\ n \in DOMAIN Config[Path[f][k]].options
  /\ Config[Path[f][k]].options[n].name = "filter"

LEMMA PlacesAre ==
  ASSUME NEW f
  PROVE  /\ \A k, n : <<k, n>> \in Places(f) <=> IsPlace(f, k, n)
         /\ \A p \in Places(f) : p = <<p[1], p[2]>> /\ IsPlace(f, p[1], p[2])
<1> DEFINE Of(k) == {<<k, n>> : n \in {n \in DOMAIN Config[Path[f][k]].options :
                                        Config[Path[f][k]].options[n].name = "filter"}}
<1>1. Places(f) = UNION {Of(k) : k \in Heard(f)}
  BY DEF Places
<1>2. \A p : p \in Places(f) <=> \E k \in Heard(f) : p \in Of(k)
  BY <1>1
<1>3. \A p, k : p \in Of(k) <=> \E n \in DOMAIN Config[Path[f][k]].options :
                  p = <<k, n>> /\ Config[Path[f][k]].options[n].name = "filter"
  OBVIOUS
<1> HIDE DEF Of
<1>4. \A k, n : <<k, n>> \in Places(f) <=> IsPlace(f, k, n)
  BY <1>2, <1>3 DEF IsPlace
<1>5. \A p \in Places(f) : p = <<p[1], p[2]>> /\ IsPlace(f, p[1], p[2])
  BY <1>2, <1>3 DEF IsPlace
<1> QED BY <1>4, <1>5

\* The places of a file of the command line are pairs of numbers, and what they say are
\* filters.
LEMMA PlaceTypes ==
  ASSUME NEW f, \E k \in DOMAIN Files : f = Files[k], NEW p \in Places(f)
  PROVE  p[1] \in Nat \ {0, 1} /\ p[2] \in Nat \ {0} /\ Says(f, p) \in Seq(Filter)
<1>1. /\ p[1] \in 2..Len(Path[f]) /\ p[2] \in DOMAIN Config[Path[f][p[1]]].options
  BY PlacesAre, HeardIs DEF IsPlace
<1>2. Len(Path[f]) \in Nat /\ Config[Path[f][p[1]]].options \in Seq(Setting)
  BY <1>1, OfFile
<1> DEFINE o == Config[Path[f][p[1]]].options
<1> HIDE DEF o
<1>3. p[2] \in 1..Len(o) /\ Len(o) \in Nat /\ o[p[2]] \in Setting
  BY <1>1, <1>2 DEF o
<1>4. o[p[2]].filters \in Seq(Filter)
  BY <1>3 DEF Setting
<1> QED BY <1>1, <1>2, <1>3, <1>4 DEF Says, o

\* Before() orders them.
LEMMA Ordered ==
  ASSUME NEW f, \E k \in DOMAIN Files : f = Files[k]
  PROVE  \A p, q \in Places(f) : Before(p, q) => p # q /\ ~Before(q, p)
<1> TAKE p, q \in Places(f)
<1>1. /\ p[1] \in Nat /\ p[2] \in Nat /\ q[1] \in Nat /\ q[2] \in Nat
  BY PlaceTypes
<1> QED BY <1>1 DEF Before

\* cs lists what the options at the places S say, in their order.
Listed(f, cs, P) ==
  /\ P \in [DOMAIN cs -> Places(f)]
  /\ \A n \in DOMAIN cs : cs[n] = Says(f, P[n])
  /\ \A n, m \in DOMAIN cs : n < m => Before(P[n], P[m])
Held(P) == {P[n] : n \in DOMAIN P}
Lists(f, cs, S) == \E P : Listed(f, cs, P) /\ Held(P) = S

LEMMA ListsNone ==
  ASSUME NEW f, NEW S
  PROVE  Lists(f, <<>>, S) <=> S = {}
<1>1. ASSUME Lists(f, <<>>, S) PROVE S = {}
  BY <1>1 DEF Lists, Listed, Held
<1>2. Lists(f, <<>>, {})
  <2> DEFINE P == [n \in {} |-> <<>>]
  <2>1. Listed(f, <<>>, P) /\ Held(P) = {}
    BY DEF Listed, Held
  <2> QED BY <2>1 DEF Lists
<1> QED BY <1>1, <1>2

\* A list grows by a place behind all of its own.
LEMMA ListsMore ==
  ASSUME NEW f, NEW cs \in Seq(Seq(Filter)), NEW S, Lists(f, cs, S), NEW p \in Places(f),
         \A q \in S : Before(q, p)
  PROVE  Lists(f, Append(cs, Says(f, p)), S \cup {p})
<1>1. PICK P : Listed(f, cs, P) /\ Held(P) = S
  BY DEF Lists
<1> DEFINE more == Append(cs, Says(f, p))
           Q == [n \in DOMAIN more |-> IF n \in DOMAIN cs THEN P[n] ELSE p]
<1>2. /\ DOMAIN cs = 1..Len(cs) /\ Len(cs) \in Nat /\ DOMAIN more = 1..(Len(cs) + 1)
      /\ \A n \in DOMAIN cs : more[n] = cs[n]
      /\ more[Len(cs) + 1] = Says(f, p)
  OBVIOUS
<1> HIDE DEF more
<1>3. /\ DOMAIN P = DOMAIN cs /\ \A n \in DOMAIN cs : P[n] \in Places(f) /\ P[n] \in S
      /\ \A q \in S : \E n \in DOMAIN cs : q = P[n]
  BY <1>1 DEF Listed, Held
<1>4. /\ DOMAIN Q = DOMAIN more /\ \A n \in DOMAIN cs : n \in DOMAIN Q /\ Q[n] = P[n]
      /\ Len(cs) + 1 \in DOMAIN Q /\ Q[Len(cs) + 1] = p
      /\ \A n \in DOMAIN Q : n \in DOMAIN cs \/ n = Len(cs) + 1
  BY <1>2
<1>5. Q \in [DOMAIN more -> Places(f)]
  BY <1>3
<1> HIDE DEF Q
<1>6. \A n \in DOMAIN more : more[n] = Says(f, Q[n])
  BY <1>1, <1>2, <1>4 DEF Listed
<1>7. \A n, m \in DOMAIN more : n < m => Before(Q[n], Q[m])
  <2> SUFFICES ASSUME NEW n \in DOMAIN more, NEW m \in DOMAIN more, n < m
               PROVE  Before(Q[n], Q[m])
    OBVIOUS
  <2>1. n \in DOMAIN cs
    BY <1>2
  <2>2. CASE m \in DOMAIN cs
    BY <1>1, <1>4, <2>1, <2>2 DEF Listed
  <2>3. CASE m \notin DOMAIN cs
    BY <1>3, <1>4, <2>1, <2>3
  <2> QED BY <2>2, <2>3
<1>8. Held(Q) = S \cup {p}
  <2>1. \A q : q \in Held(Q) <=> \E n \in DOMAIN Q : q = Q[n]
    BY DEF Held
  <2> QED BY <1>3, <1>4, <2>1
<1> QED BY <1>5, <1>6, <1>7, <1>8 DEF Lists, Listed, more

\* The last of a list is of the place behind the others.
LEMMA ListsFewer ==
  ASSUME NEW f, \E k \in DOMAIN Files : f = Files[k], NEW cs \in Seq(Seq(Filter)), NEW S,
         Lists(f, cs, S), cs # <<>>
  PROVE  \E p \in S : /\ p \in Places(f) /\ Last(cs) = Says(f, p)
                      /\ \A q \in S \ {p} : Before(q, p)
                      /\ Lists(f, Front(cs), S \ {p})
<1>1. PICK P : Listed(f, cs, P) /\ Held(P) = S
  BY DEF Lists
<1> DEFINE last == Len(cs)
           fewer == Front(cs)
           p == P[last]
           Q == [n \in DOMAIN fewer |-> P[n]]
<1>2. /\ last \in DOMAIN cs /\ DOMAIN cs = 1..last /\ last \in Nat \ {0}
      /\ Last(cs) = cs[last] /\ DOMAIN fewer = 1..(last - 1)
      /\ \A n \in DOMAIN fewer : fewer[n] = cs[n]
  BY DEF Last, Front
<1> HIDE DEF last, fewer
<1>3. /\ DOMAIN P = DOMAIN cs /\ \A n \in DOMAIN cs : P[n] \in Places(f) /\ P[n] \in S
      /\ \A q \in S : \E n \in DOMAIN cs : q = P[n]
  BY <1>1 DEF Listed, Held
<1>4. /\ \A n \in DOMAIN fewer : n \in DOMAIN cs /\ n < last
      /\ \A n \in DOMAIN cs : n \in DOMAIN fewer \/ n = last
  BY <1>2
<1>5. /\ DOMAIN Q = DOMAIN fewer /\ \A n \in DOMAIN fewer : Q[n] = P[n]
      /\ Q \in [DOMAIN fewer -> Places(f)]
  BY <1>3, <1>4
<1> HIDE DEF Q, p
<1>6. p \in S /\ p \in Places(f) /\ Last(cs) = Says(f, p)
  BY <1>1, <1>2, <1>3 DEF Listed, p
<1>7. \A n \in DOMAIN fewer : Before(P[n], p) /\ P[n] # p
  <2> TAKE n \in DOMAIN fewer
  <2>1. Before(P[n], p)
    BY <1>1, <1>2, <1>4 DEF Listed, p
  <2> QED BY <1>3, <1>4, <1>6, <2>1, Ordered
<1>8. \A q \in S \ {p} : \E n \in DOMAIN fewer : q = P[n]
  BY <1>3, <1>4 DEF p
<1>9. Held(Q) = S \ {p}
  <2>1. \A q : q \in Held(Q) <=> \E n \in DOMAIN Q : q = Q[n]
    BY DEF Held
  <2> QED BY <1>3, <1>4, <1>5, <1>7, <1>8, <2>1
<1>10. Listed(f, fewer, Q)
  BY <1>1, <1>2, <1>4, <1>5 DEF Listed
<1> QED BY <1>6, <1>7, <1>8, <1>9, <1>10 DEF Lists, fewer

----------------------------------------------------------------------------
(* Which filter decides.                                                   *)

LEMMA Appended ==
  ASSUME NEW fs \in Seq(Filter), NEW o \in Seq(Filter), NEW c
  PROVE  Filtered(fs \o o, c) <=> IF Mentions(o, c) THEN Filtered(o, c) ELSE Filtered(fs, c)
<1> DEFINE all == fs \o o
           n == Len(fs)
           m == Len(o)
<1>1. /\ n \in Nat /\ m \in Nat /\ Len(all) = n + m
      /\ DOMAIN fs = 1..n /\ DOMAIN o = 1..m /\ DOMAIN all = 1..(n + m)
      /\ \A i \in 1..n : all[i] = fs[i]
      /\ \A i \in 1..m : all[n + i] = o[i]
  OBVIOUS
<1> HIDE DEF all, n, m
<1>2. ASSUME Mentions(o, c) PROVE Filtered(all, c) <=> Filtered(o, c)
  <2>1. PICK k \in 1..m : c \in o[k].of
    BY <1>1, <1>2 DEF Mentions
  <2>2. ASSUME Filtered(all, c) PROVE Filtered(o, c)
    <3>1. PICK i \in 1..(n + m) : /\ c \in all[i].of /\ all[i].sign = "-"
                                  /\ \A j \in (i + 1)..(n + m) : c \notin all[j].of
      BY <1>1, <2>2 DEF Filtered
    <3>2. i >= n + k
      <4>1. c \in all[n + k].of /\ n + k \in 1..(n + m)
        BY <1>1, <2>1
      <4> QED BY <1>1, <3>1, <4>1
    <3>3. i - n \in 1..m /\ i = n + (i - n) /\ all[i] = o[i - n]
      <4>1. i - n \in 1..m /\ i = n + (i - n)
        BY <1>1, <2>1, <3>2
      <4> QED BY <1>1, <4>1
    <3>4. \A j \in ((i - n) + 1)..m : c \notin o[j].of
      <4> TAKE j \in ((i - n) + 1)..m
      <4>1. n + j \in (i + 1)..(n + m) /\ j \in 1..m
        BY <1>1, <3>3
      <4> QED BY <1>1, <3>1, <4>1
    <3> QED BY <1>1, <3>1, <3>3, <3>4 DEF Filtered, m
  <2>3. ASSUME Filtered(o, c) PROVE Filtered(all, c)
    <3>1. PICK i \in 1..m : /\ c \in o[i].of /\ o[i].sign = "-"
                            /\ \A j \in (i + 1)..m : c \notin o[j].of
      BY <1>1, <2>3 DEF Filtered, m
    <3>2. n + i \in 1..(n + m) /\ all[n + i] = o[i]
      BY <1>1
    <3>3. \A j \in (n + i + 1)..(n + m) : c \notin all[j].of
      <4> TAKE j \in (n + i + 1)..(n + m)
      <4>1. j - n \in (i + 1)..m /\ j - n \in 1..m /\ j = n + (j - n)
        BY <1>1
      <4> QED BY <1>1, <3>1, <4>1
    <3> QED BY <1>1, <3>1, <3>2, <3>3 DEF Filtered
  <2> QED BY <2>2, <2>3
<1>3. ASSUME ~Mentions(o, c) PROVE Filtered(all, c) <=> Filtered(fs, c)
  <2>1. \A j \in (n + 1)..(n + m) : c \notin all[j].of
    <3> TAKE j \in (n + 1)..(n + m)
    <3>1. j - n \in 1..m /\ j = n + (j - n)
      BY <1>1
    <3> QED BY <1>1, <1>3, <3>1 DEF Mentions
  <2>2. ASSUME Filtered(all, c) PROVE Filtered(fs, c)
    <3>1. PICK i \in 1..(n + m) : /\ c \in all[i].of /\ all[i].sign = "-"
                                  /\ \A j \in (i + 1)..(n + m) : c \notin all[j].of
      BY <1>1, <2>2 DEF Filtered
    <3>2. i \in 1..n
      BY <1>1, <2>1, <3>1
    <3>3. \A j \in (i + 1)..n : c \notin fs[j].of
      <4> TAKE j \in (i + 1)..n
      <4>1. j \in (i + 1)..(n + m) /\ j \in 1..n
        BY <1>1, <3>2
      <4> QED BY <1>1, <3>1, <4>1
    <3> QED BY <1>1, <3>1, <3>2, <3>3 DEF Filtered, n
  <2>3. ASSUME Filtered(fs, c) PROVE Filtered(all, c)
    <3>1. PICK i \in 1..n : /\ c \in fs[i].of /\ fs[i].sign = "-"
                            /\ \A j \in (i + 1)..n : c \notin fs[j].of
      BY <1>1, <2>3 DEF Filtered, n
    <3>2. i \in 1..(n + m) /\ all[i] = fs[i]
      BY <1>1
    <3>3. \A j \in (i + 1)..(n + m) : c \notin all[j].of
      <4> TAKE j \in (i + 1)..(n + m)
      <4>1. CASE j \in 1..n
        <5>1. j \in (i + 1)..n
          BY <1>1, <4>1
        <5> QED BY <1>1, <3>1, <4>1, <5>1
      <4>2. CASE j \notin 1..n
        <5>1. j \in (n + 1)..(n + m)
          BY <1>1, <3>2, <4>2
        <5> QED BY <2>1, <5>1
      <4> QED BY <4>1, <4>2
    <3> QED BY <1>1, <3>1, <3>2, <3>3 DEF Filtered
  <2> QED BY <2>2, <2>3
<1> QED BY <1>2, <1>3 DEF all

\* A place before all the others decides on what it mentions.
LEMMA AmongMore ==
  ASSUME NEW f, \E k \in DOMAIN Files : f = Files[k], NEW T \in SUBSET Places(f),
         NEW p \in Places(f), \A q \in T : Before(p, q), NEW c
  PROVE  Among(f, T \cup {p}, c) = IF Mentions(Says(f, p), c) THEN Says(f, p)
                                   ELSE Among(f, T, c)
<1> DEFINE S == {q \in T : Mentions(Says(f, q), c)}
           M == {q \in T \cup {p} : Mentions(Says(f, q), c)}
           First(A) == CHOOSE r \in A : \A q \in A : q = r \/ Before(r, q)
<1>0. /\ Among(f, T, c) = IF S = {} THEN DefaultFilters \o CommandFilters ELSE Says(f, First(S))
      /\ Among(f, T \cup {p}, c) =
           IF M = {} THEN DefaultFilters \o CommandFilters ELSE Says(f, First(M))
  BY Zenon DEF Among
<1>1. CASE Mentions(Says(f, p), c)
  <2>1. p \in M /\ \A q \in M : q = p \/ Before(p, q)
    BY <1>1
  <2>2. \A r \in M : (\A q \in M : q = r \/ Before(r, q)) => r = p
    <3>1. \A r \in M \ {p} : ~Before(r, p)
      BY Ordered
    <3> QED BY <2>1, <3>1
  <2>3. First(M) = p /\ M # {}
    BY <2>1, <2>2
  <2> HIDE DEF M, First
  <2> QED BY <1>0, <1>1, <2>3
<1>2. CASE ~Mentions(Says(f, p), c)
  <2>1. M = S
    BY <1>2
  <2> HIDE DEF M, S, First
  <2> QED BY <1>0, <1>2, <2>1
<1> QED BY <1>1, <1>2

----------------------------------------------------------------------------
(* Reading the CPPLINT.cfg.                                                *)

\* The places read when the search is at an option of the directory above lv.
Passed(f, lv, n) == {p \in Places(f) : p[1] <= lv \/ (p[1] = lv + 1 /\ p[2] < n)}

LEMMA PassedNone ==
  ASSUME NEW f, \E k \in DOMAIN Files : f = Files[k]
  PROVE  Passed(f, 1, 1) = {}
<1> SUFFICES ASSUME NEW p \in Places(f), p \in Passed(f, 1, 1) PROVE FALSE
  BY DEF Passed
<1>1. p[1] \in Nat \ {0, 1} /\ p[2] \in Nat \ {0}
  BY PlaceTypes
<1> QED BY <1>1 DEF Passed

LEMMA PassedFilter ==
  ASSUME NEW f, \E k \in DOMAIN Files : f = Files[k], NEW lv \in Nat, NEW n \in Nat,
         IsPlace(f, lv + 1, n)
  PROVE  /\ <<lv + 1, n>> \in Places(f)
         /\ Passed(f, lv, n + 1) = Passed(f, lv, n) \cup {<<lv + 1, n>>}
         /\ \A q \in Passed(f, lv, n) : Before(q, <<lv + 1, n>>)
<1>1. <<lv + 1, n>> \in Places(f)
  BY PlacesAre
<1>2. ASSUME NEW q \in Places(f)
      PROVE  /\ q \in Passed(f, lv, n + 1) <=> q \in Passed(f, lv, n) \/ q = <<lv + 1, n>>
             /\ q \in Passed(f, lv, n) => Before(q, <<lv + 1, n>>)
  <2>1. q[1] \in Nat /\ q[2] \in Nat /\ q = <<q[1], q[2]>>
    BY PlaceTypes, PlacesAre
  <2> DEFINE a == q[1]
             b == q[2]
  <2>2. q = <<lv + 1, n>> <=> a = lv + 1 /\ b = n
    BY <2>1
  <2>3. /\ q \in Passed(f, lv, n) <=> a <= lv \/ (a = lv + 1 /\ b < n)
        /\ q \in Passed(f, lv, n + 1) <=> a <= lv \/ (a = lv + 1 /\ b < n + 1)
        /\ Before(q, <<lv + 1, n>>) <=> a < lv + 1 \/ (a = lv + 1 /\ b < n)
    BY DEF Passed, Before
  <2>4. a \in Nat /\ b \in Nat
    BY <2>1
  <2> HIDE DEF a, b
  <2> QED BY <2>2, <2>3, <2>4
<1>3. /\ \A q \in Passed(f, lv, n) : q \in Places(f)
      /\ \A q \in Passed(f, lv, n + 1) : q \in Places(f)
  BY DEF Passed
<1> QED BY <1>1, <1>2, <1>3

LEMMA PassedOther ==
  ASSUME NEW f, \E k \in DOMAIN Files : f = Files[k], NEW lv \in Nat, NEW n \in Nat,
         ~IsPlace(f, lv + 1, n)
  PROVE  Passed(f, lv, n + 1) = Passed(f, lv, n)
<1>1. ASSUME NEW q \in Places(f)
      PROVE  q \in Passed(f, lv, n + 1) <=> q \in Passed(f, lv, n)
  <2>1. q[1] \in Nat /\ q[2] \in Nat /\ IsPlace(f, q[1], q[2])
    BY PlaceTypes, PlacesAre
  <2>2. ~(q[1] = lv + 1 /\ q[2] = n)
    BY <2>1
  <2> DEFINE a == q[1]
             b == q[2]
  <2>3. /\ q \in Passed(f, lv, n) <=> a <= lv \/ (a = lv + 1 /\ b < n)
        /\ q \in Passed(f, lv, n + 1) <=> a <= lv \/ (a = lv + 1 /\ b < n + 1)
    BY DEF Passed
  <2>4. a \in Nat /\ b \in Nat /\ ~(a = lv + 1 /\ b = n)
    BY <2>1, <2>2
  <2> HIDE DEF a, b
  <2> QED BY <2>3, <2>4
<1>2. /\ \A q \in Passed(f, lv, n) : q \in Places(f)
      /\ \A q \in Passed(f, lv, n + 1) : q \in Places(f)
  BY DEF Passed
<1> QED BY <1>1, <1>2

LEMMA PassedDirectory ==
  ASSUME NEW f, \E k \in DOMAIN Files : f = Files[k], NEW lv \in Nat, NEW n \in Nat,
         \A i : IsPlace(f, lv + 1, i) => i < n
  PROVE  Passed(f, lv + 1, 1) = Passed(f, lv, n)
<1>1. ASSUME NEW q \in Places(f)
      PROVE  q \in Passed(f, lv + 1, 1) <=> q \in Passed(f, lv, n)
  <2>1. q[1] \in Nat /\ q[2] \in Nat \ {0} /\ IsPlace(f, q[1], q[2])
    BY PlaceTypes, PlacesAre
  <2>2. q[1] = lv + 1 => q[2] < n
    BY <2>1
  <2> DEFINE a == q[1]
             b == q[2]
  <2>3. /\ q \in Passed(f, lv, n) <=> a <= lv \/ (a = lv + 1 /\ b < n)
        /\ q \in Passed(f, lv + 1, 1) <=> a <= lv + 1 \/ (a = (lv + 1) + 1 /\ b < 1)
    BY DEF Passed
  <2>4. a \in Nat /\ b \in Nat \ {0} /\ (a = lv + 1 => b < n)
    BY <2>1, <2>2
  <2> HIDE DEF a, b
  <2> QED BY <2>3, <2>4
<1>2. /\ \A q \in Passed(f, lv, n) : q \in Places(f)
      /\ \A q \in Passed(f, lv + 1, 1) : q \in Places(f)
  BY DEF Passed
<1> QED BY <1>1, <1>2

\* The search is over: at the root, or at a directory that ends it.
LEMMA PassedAll ==
  ASSUME NEW f, \E k \in DOMAIN Files : f = Files[k], NEW lv \in Nat,
         lv >= Len(Path[f]) \/ \E j \in 2..lv : ~LetsOn(f, j)
  PROVE  Passed(f, lv, 1) = Places(f)
<1>1. ASSUME NEW p \in Places(f) PROVE p[1] <= lv
  <2>1. p[1] \in Heard(f) /\ p[1] \in Nat
    BY PlacesAre, PlaceTypes DEF IsPlace
  <2>2. p[1] \in 2..Len(Path[f]) /\ \A j \in 2..(p[1] - 1) : LetsOn(f, j)
    BY <2>1, HeardIs
  <2>3. Len(Path[f]) \in Nat
    BY OfFile
  <2>4. CASE lv >= Len(Path[f])
    BY <2>2, <2>3, <2>4
  <2>5. CASE \E j \in 2..lv : ~LetsOn(f, j)
    <3>1. PICK j \in 2..lv : ~LetsOn(f, j)
      BY <2>5
    <3>2. j \notin 2..(p[1] - 1)
      BY <2>2, <3>1
    <3> DEFINE a == p[1]
    <3>3. a \in Nat /\ j \notin 2..(a - 1)
      BY <2>1, <3>2
    <3> HIDE DEF a
    <3>4. a <= lv
      BY <3>1, <3>3
    <3> QED BY <3>4 DEF a
  <2> QED BY <2>4, <2>5
<1> QED BY <1>1 DEF Passed

----------------------------------------------------------------------------
(* Adding what they say, the top-most directory first.                     *)

\* The places that are left to add, S, are before those added: each category is judged
\* by the first of the places added that mentions it, or by the command line.
Applying(f, cs, fs) ==
  \E S \in SUBSET Places(f) :
    /\ Lists(f, cs, S)
    /\ \A p \in S, q \in Places(f) \ S : Before(p, q)
    /\ \A c \in Category : Filtered(fs, c) <=> Filtered(Among(f, Places(f) \ S, c), c)

LEMMA AppliesNone ==
  ASSUME NEW f, NEW cs, Lists(f, cs, Places(f))
  PROVE  Applying(f, cs, Base)
<1>1. \A c : Among(f, Places(f) \ Places(f), c) = Base
  BY DEF Among, Base
<1> QED BY <1>1 DEF Applying

LEMMA AppliesOne ==
  ASSUME NEW f, \E k \in DOMAIN Files : f = Files[k], NEW cs \in Seq(Seq(Filter)),
         NEW fs \in Seq(Filter), Applying(f, cs, fs), cs # <<>>
  PROVE  Applying(f, Front(cs), fs \o Last(cs))
<1>1. PICK S \in SUBSET Places(f) :
        /\ Lists(f, cs, S)
        /\ \A p \in S, q \in Places(f) \ S : Before(p, q)
        /\ \A c \in Category : Filtered(fs, c) <=> Filtered(Among(f, Places(f) \ S, c), c)
  BY DEF Applying
<1>2. PICK p \in S : /\ p \in Places(f) /\ Last(cs) = Says(f, p)
                     /\ \A q \in S \ {p} : Before(q, p)
                     /\ Lists(f, Front(cs), S \ {p})
  BY <1>1, ListsFewer
<1> DEFINE T == Places(f) \ S
           R == S \ {p}
<1>3. Places(f) \ R = T \cup {p}
  BY <1>2
<1>4. \A r \in R, q \in Places(f) \ R : Before(r, q)
  BY <1>1, <1>2, <1>3
<1>5. ASSUME NEW c \in Category
      PROVE  Filtered(fs \o Last(cs), c) <=> Filtered(Among(f, Places(f) \ R, c), c)
  <2>1. Says(f, p) \in Seq(Filter)
    BY PlaceTypes
  <2>2. Filtered(fs \o Last(cs), c) <=>
          IF Mentions(Says(f, p), c) THEN Filtered(Says(f, p), c) ELSE Filtered(fs, c)
    BY <1>2, <2>1, Appended
  <2>3. Among(f, T \cup {p}, c) = IF Mentions(Says(f, p), c) THEN Says(f, p)
                                  ELSE Among(f, T, c)
    <3>1. T \in SUBSET Places(f) /\ \A q \in T : Before(p, q)
      BY <1>1
    <3> HIDE DEF T
    <3> QED BY <1>2, <3>1, AmongMore
  <2>4. Filtered(fs, c) <=> Filtered(Among(f, T, c), c)
    BY <1>1
  <2> HIDE DEF T, R
  <2>5. CASE Mentions(Says(f, p), c)
    BY <1>3, <2>2, <2>3, <2>5
  <2>6. CASE ~Mentions(Says(f, p), c)
    BY <1>3, <2>2, <2>3, <2>4, <2>6
  <2> QED BY <2>5, <2>6
<1>6. R \in SUBSET Places(f) /\ Lists(f, Front(cs), R)
  BY <1>2
<1> QED BY <1>4, <1>5, <1>6 DEF Applying

LEMMA AppliesAll ==
  ASSUME NEW f, NEW fs, Applying(f, <<>>, fs), NEW c \in Category
  PROVE  Filtered(fs, c) <=> Filtered(OwnFilters(f, c), c)
<1>1. PICK S \in SUBSET Places(f) :
        /\ Lists(f, <<>>, S)
        /\ \A e \in Category : Filtered(fs, e) <=> Filtered(Among(f, Places(f) \ S, e), e)
  BY DEF Applying
<1>2. Places(f) \ S = Places(f)
  BY <1>1, ListsNone
<1> QED BY <1>1, <1>2 DEF OwnFilters

----------------------------------------------------------------------------
(* A file's own filters.                                                   *)

\* What keep_looking says: no directory so far has ended the search, and of the one that
\* is read, no line so far.
LookInv ==
  /\ pc = "config" => (looking <=> \A j \in 2..level : LetsOn(File, j))
  /\ pc = "read" =>
       /\ \A j \in 2..level : LetsOn(File, j)
       /\ looking <=> \A n \in 1..(option - 1) : Options[n].name # "set noparent"

LEMMA LookInit == Init => LookInv
  BY DEF Init, LookInv

LEMMA LookNext == Inv /\ LookInv /\ [Next]_vars => LookInv'
<1> SUFFICES ASSUME Inv, LookInv, [Next]_vars PROVE LookInv'
  OBVIOUS
<1>0. TypeOK /\ PlaceInv
  BY DEF Inv
<1>1. CASE StartsFile
  <2>1. pc' = "config" /\ looking' = TRUE /\ level' = 1
    BY <1>1 DEF StartsFile
  <2>2. \A j \in 2..level' : FALSE
    BY <2>1
  <2> QED BY <2>1, <2>2 DEF LookInv
<1>2. CASE SkipsDirectory
  <2>1. /\ pc' = "config" /\ pc = "config" /\ looking /\ level' = level + 1 /\ File' = File
        /\ looking' = (Config[Directory].kind = "none")
        /\ Config[Directory].kind \in {"none", "unreadable"}
        /\ level \in Nat \ {0}
    BY <1>0, <1>2 DEF SkipsDirectory, LooksOn, File, TypeOK
  <2>2. LetsOn(File, level + 1) <=> Config[Directory].kind = "none"
    BY <2>1 DEF LetsOn, Directory
  <2>3. \A j \in 2..level : LetsOn(File, j)
    BY <2>1 DEF LookInv
  <2>4. \A j : j \in 2..(level + 1) <=> j \in 2..level \/ j = level + 1
    BY <2>1
  <2>5. looking' <=> \A j \in 2..(level + 1) : LetsOn(File, j)
    BY <2>1, <2>2, <2>3, <2>4
  <2>6. (looking <=> \A j \in 2..level : LetsOn(File, j))'
    BY <2>1, <2>5 DEF LetsOn
  <2> QED BY <2>1, <2>6 DEF LookInv
<1>3. CASE OpensConfig
  <2>1. /\ pc' = "read" /\ pc = "config" /\ looking /\ looking' = looking /\ level' = level
        /\ File' = File /\ option' = 1
    BY <1>3 DEF OpensConfig, LooksOn, File
  <2>2. \A j \in 2..level : LetsOn(File, j)
    BY <2>1 DEF LookInv
  <2>3. \A n \in 1..(option' - 1) : FALSE
    BY <2>1
  <2> QED BY <2>1, <2>2, <2>3 DEF LookInv, LetsOn
<1>4. CASE ReadsOption
  <2>1. pc = "read" /\ option \in 1..Len(Options)
    BY <1>4, ReadsOptionTypes DEF ReadsOption
  <2>2. CASE Leaves
    BY <2>2 DEF Leaves, LookInv
  <2>3. CASE /\ looking' = (looking /\ Options[option].name # "set noparent")
             /\ option' = option + 1
             /\ UNCHANGED <<pc, index, level, filters>>
    <3>1. File' = File /\ Options' = Options /\ level' = level
      BY <2>3 DEF File, Options, Directory
    <3>2. option \in Nat \ {0}
      BY <2>1
    <3>3. \A n : n \in 1..((option + 1) - 1) <=> n \in 1..(option - 1) \/ n = option
      BY <3>2
    <3>4. looking <=> \A n \in 1..(option - 1) : Options[n].name # "set noparent"
      BY <2>1 DEF LookInv
    <3>5. looking' <=> \A n \in 1..(option' - 1) : Options'[n].name # "set noparent"
      BY <2>3, <3>1, <3>3, <3>4
    <3>6. \A j \in 2..level' : LetsOn(File', j)
      BY <2>1, <3>1 DEF LookInv
    <3> QED BY <2>1, <2>3, <3>5, <3>6 DEF LookInv, LetsOn
  <2> QED BY <1>4, <2>2, <2>3 DEF ReadsOption
<1>5. CASE ClosesConfig
  <2>1. /\ pc' = "config" /\ pc = "read" /\ looking' = looking /\ level' = level + 1
        /\ File' = File /\ option > Len(Options) /\ index \in DOMAIN Files
        /\ level \in 1..Len(Path[File]) /\ level < Len(Path[File])
        /\ Config[Directory].kind = "options" /\ option \in 1..(Len(Options) + 1)
    BY <1>0, <1>5 DEF ClosesConfig, File, PlaceInv
  <2>2. Options \in Seq(Setting) /\ level \in Nat \ {0}
    <3>1. Len(Path[File]) \in Nat
      BY <2>1, OfFile DEF File
    <3>2. level + 1 \in 2..Len(Path[File])
      BY <2>1, <3>1
    <3> QED BY <2>1, <3>1, <3>2, OfFile DEF Options, Directory, File
  <2>3. \A n : n \in 1..(option - 1) <=> n \in DOMAIN Options
    BY <2>1, <2>2
  <2>4. LetsOn(File, level + 1) <=> looking
    BY <2>1, <2>3 DEF LetsOn, LookInv, Directory, Options
  <2>5. \A j \in 2..level : LetsOn(File, j)
    BY <2>1 DEF LookInv
  <2>6. \A j : j \in 2..(level + 1) <=> j \in 2..level \/ j = level + 1
    BY <2>2
  <2>7. looking' <=> \A j \in 2..level' : LetsOn(File', j)
    BY <2>1, <2>4, <2>5, <2>6
  <2> QED BY <2>1, <2>7 DEF LookInv, LetsOn
<1>6. CASE AddsFilters \/ UNCHANGED vars
  <2>1. /\ UNCHANGED <<index, level, option, looking>> /\ pc' \in {pc, "died"}
        /\ File' = File /\ Options' = Options
    BY <1>6 DEF AddsFilters, vars, configVars, File, Options, Directory
  <2>2. CASE pc' = pc
    <3>1. /\ (\A j \in 2..level : LetsOn(File, j))' <=> \A j \in 2..level : LetsOn(File, j)
          /\ (\A n \in 1..(option - 1) : Options[n].name # "set noparent")' <=>
               \A n \in 1..(option - 1) : Options[n].name # "set noparent"
      BY <2>1 DEF LetsOn
    <3> QED BY <2>1, <2>2, <3>1 DEF LookInv
  <2>3. CASE pc' = "died"
    BY <2>3 DEF LookInv
  <2> QED BY <2>1, <2>2, <2>3
<1>7. ASSUME pc' \notin {"config", "read"} PROVE LookInv'
  BY <1>7 DEF LookInv
<1>8. CASE AppliesConfig \/ SkipsFile \/ ReadsFile \/ ProcessGlobalSuppressions \/ FinishesFile
           \/ Exits
  BY <1>7, <1>8
    DEF AppliesConfig, SkipsFile, ReadsFile, ProcessGlobalSuppressions, FinishesFile, Leaves, Exits
<1>9. CASE NoGuard \/ ChecksGuard \/ Misnamed \/ ChecksEndif \/ Unclosed \/ NextLine \/ FindsError
  BY <1>7, <1>9 DEF NoGuard, ChecksGuard, Misnamed, ChecksEndif, Unclosed, NextLine, FindsError
<1> QED
  BY <1>1, <1>2, <1>3, <1>4, <1>5, <1>6, <1>8, <1>9 DEF Next

\* The list of filters holds what was read, and then what is left to add.
OwnInv ==
  /\ pc = "config" /\ LooksOn => Lists(File, cfg_filters, Passed(File, level, 1))
  /\ pc = "read" => Lists(File, cfg_filters, Passed(File, level, option))
  /\ pc = "config" /\ ~LooksOn => Applying(File, cfg_filters, filters)
  /\ pc \in Linting \cup {"open"} =>
       \A c \in Category : Filtered(filters, c) <=> Filtered(OwnFilters(File, c), c)

\* Back to the search: on, or over with nothing added.
LEMMA Searches ==
  ASSUME Inv', LookInv', pc' = "config", filters' = Base,
         Lists(File', cfg_filters', Passed(File', level', 1))
  PROVE  OwnInv'
<1>1. /\ \E k \in DOMAIN Files : File' = Files[k]
      /\ level' \in Nat /\ (looking' <=> \A j \in 2..level' : LetsOn(File', j))
      /\ Len(Path[File']) \in Nat
  <2>1. \E k \in DOMAIN Files : File' = Files[k]
    BY DEF Inv, PlaceInv, File
  <2>2. level' \in Nat
    BY DEF Inv, TypeOK
  <2>3. looking' <=> \A j \in 2..level' : LetsOn(File', j)
    BY DEF LookInv, LetsOn
  <2> QED BY <2>1, <2>2, <2>3, OfFile
<1>2. CASE LooksOn'
  BY <1>2 DEF OwnInv, Linting, Lists, Listed, Held, Passed, Places, Says, Heard, Before
<1>3. CASE ~LooksOn'
  <2>1. level' >= Len(Path[File']) \/ \E j \in 2..level' : ~LetsOn(File', j)
    BY <1>1, <1>3 DEF LooksOn
  <2>2. Passed(File', level', 1) = Places(File')
    BY <1>1, <2>1, PassedAll
  <2>3. Applying(File', cfg_filters', Base)
    BY <2>2, AppliesNone
  <2>4. Applying(File, cfg_filters, filters)'
    BY <2>3
  <2> QED BY <1>3, <2>4 DEF OwnInv, Linting
<1> QED BY <1>2, <1>3

LEMMA OwnInit == Init => OwnInv
  BY DEF Init, OwnInv, Linting

LEMMA OwnNext == Inv /\ LookInv /\ Saved /\ OwnInv /\ [Next]_vars => OwnInv'
<1> SUFFICES ASSUME Inv, LookInv, Saved, OwnInv, [Next]_vars PROVE OwnInv'
  OBVIOUS
<1>0. TypeOK /\ PlaceInv /\ Inv' /\ LookInv'
  BY InvNext, LookNext DEF Inv
<1>1. index \in DOMAIN Files => \E k \in DOMAIN Files : File = Files[k]
  BY DEF File
<1>2. CASE StartsFile
  <2>1. /\ pc = "file" /\ pc' = "config" /\ index' = index /\ level' = 1
        /\ cfg_filters' = <<>> /\ filters' = filters /\ index \in DOMAIN Files
    BY <1>0, <1>2, FilesAssumption DEF StartsFile, TypeOK
  <2>2. filters' = Base /\ \E k \in DOMAIN Files : File' = Files[k]
    BY <2>1 DEF Saved, File
  <2>3. Lists(File', <<>>, Passed(File', 1, 1))
    BY <2>2, PassedNone, ListsNone
  <2> QED BY <1>0, <2>1, <2>2, <2>3, Searches
<1>3. CASE SkipsDirectory
  <2>1. /\ pc = "config" /\ pc' = "config" /\ LooksOn /\ File' = File /\ level' = level + 1
        /\ cfg_filters' = cfg_filters /\ filters' = filters /\ index \in DOMAIN Files
        /\ Config[Path[File][level + 1]].kind # "options" /\ level \in Nat
    BY <1>0, <1>3 DEF SkipsDirectory, File, PlaceInv, Directory, TypeOK
  <2>2. Lists(File, cfg_filters, Passed(File, level, 1)) /\ filters = Base
    BY <2>1 DEF OwnInv, Saved
  <2>3. Passed(File, level + 1, 1) = Passed(File, level, 1)
    <3>1. \A i : ~IsPlace(File, level + 1, i)
      BY <2>1, HeardIs DEF IsPlace
    <3> QED BY <1>1, <2>1, <3>1, PassedDirectory
  <2>4. Lists(File', cfg_filters', Passed(File', level', 1))
    BY <2>1, <2>2, <2>3
  <2> QED BY <1>0, <2>1, <2>2, <2>4, Searches
<1>4. CASE OpensConfig
  <2>1. /\ pc = "config" /\ pc' = "read" /\ LooksOn /\ File' = File /\ level' = level
        /\ cfg_filters' = cfg_filters /\ option' = 1
    BY <1>4 DEF OpensConfig, File
  <2>2. Lists(File, cfg_filters, Passed(File, level, 1))
    BY <2>1 DEF OwnInv
  <2>3. (Lists(File, cfg_filters, Passed(File, level, option)))'
    BY <2>1, <2>2
  <2> QED BY <2>1, <2>3 DEF OwnInv, Linting
<1>5. CASE ReadsOption
  <2>1. pc = "read" /\ option \in 1..Len(Options)
    BY <1>5, ReadsOptionTypes DEF ReadsOption
  <2>2. CASE Leaves
    BY <2>2 DEF Leaves, OwnInv, Linting
  <2>3. CASE /\ cfg_filters' = IF Options[option].name = "filter"
                               THEN Append(cfg_filters, Options[option].filters)
                               ELSE cfg_filters
             /\ option' = option + 1
             /\ UNCHANGED <<pc, index, level, filters>>
    <3>1. /\ index \in DOMAIN Files /\ level \in Nat /\ option \in Nat /\ File' = File
          /\ Config[Path[File][level + 1]].kind = "options"
          /\ Options = Config[Path[File][level + 1]].options
          /\ Options \in Seq(Setting) /\ level + 1 \in 2..Len(Path[File])
      <4>1. /\ index \in DOMAIN Files /\ level \in 1..Len(Path[File])
            /\ level < Len(Path[File]) /\ Config[Path[File][level + 1]].kind = "options"
        BY <1>0, <2>1 DEF PlaceInv, Directory
      <4>2. Len(Path[File]) \in Nat
        BY <1>1, <4>1, OfFile
      <4>3. level + 1 \in 2..Len(Path[File])
        BY <4>1, <4>2
      <4> QED BY <1>1, <2>1, <2>3, <4>1, <4>2, <4>3, OfFile DEF Options, Directory, File
    <3>2. Lists(File, cfg_filters, Passed(File, level, option))
      BY <2>1 DEF OwnInv
    <3>3. level + 1 \in Heard(File)
      <4>1. \A j \in 2..((level + 1) - 1) : LetsOn(File, j)
        <5>1. (level + 1) - 1 = level
          BY <3>1
        <5> QED BY <2>1, <5>1 DEF LookInv
      <4> QED BY <3>1, <4>1, HeardIs
    <3>4. IsPlace(File, level + 1, option) <=> Options[option].name = "filter"
      BY <2>1, <3>1, <3>3 DEF IsPlace
    <3>5. Lists(File, cfg_filters', Passed(File, level, option + 1))
      <4>1. CASE Options[option].name = "filter"
        <5> DEFINE p == <<level + 1, option>>
        <5>1. /\ p \in Places(File)
              /\ Passed(File, level, option + 1) = Passed(File, level, option) \cup {p}
              /\ \A q \in Passed(File, level, option) : Before(q, p)
          BY <1>1, <3>1, <3>4, <4>1, PassedFilter
        <5>2. Says(File, p) = Options[option].filters
          BY <3>1 DEF Says
        <5>3. cfg_filters \in Seq(Seq(Filter))
          BY <1>0 DEF TypeOK
        <5> HIDE DEF p
        <5>4. Lists(File, Append(cfg_filters, Says(File, p)), Passed(File, level, option) \cup {p})
          BY <3>2, <5>1, <5>3, ListsMore
        <5> QED BY <2>3, <4>1, <5>1, <5>2, <5>4
      <4>2. CASE Options[option].name # "filter"
        BY <1>1, <2>3, <3>1, <3>2, <3>4, <4>2, PassedOther
      <4> QED BY <4>1, <4>2
    <3>6. (Lists(File, cfg_filters, Passed(File, level, option)))'
      BY <2>3, <3>1, <3>5
    <3>7. pc' = "read"
      BY <2>1, <2>3
    <3> QED BY <3>6, <3>7 DEF OwnInv, Linting
  <2> QED BY <1>5, <2>2, <2>3 DEF ReadsOption
<1>6. CASE ClosesConfig
  <2>1. /\ pc = "read" /\ pc' = "config" /\ File' = File /\ level' = level + 1
        /\ cfg_filters' = cfg_filters /\ filters' = filters /\ index \in DOMAIN Files
        /\ level \in Nat /\ option \in Nat /\ option > Len(Options)
        /\ level \in 1..Len(Path[File]) /\ level < Len(Path[File])
    BY <1>0, <1>6 DEF ClosesConfig, File, PlaceInv, TypeOK
  <2>2. Lists(File, cfg_filters, Passed(File, level, option)) /\ filters = Base
    BY <2>1 DEF OwnInv, Saved
  <2>3. Passed(File, level + 1, 1) = Passed(File, level, option)
    <3>1. Options = Config[Path[File][level + 1]].options
      BY DEF Options, Directory
    <3>2. Options \in Seq(Setting)
      <4>1. Len(Path[File]) \in Nat
        BY <1>1, <2>1, OfFile
      <4>2. level + 1 \in 2..Len(Path[File])
        BY <2>1, <4>1
      <4> QED BY <1>1, <2>1, <3>1, <4>2, OfFile
    <3>3. \A i \in DOMAIN Options : i < option
      BY <2>1, <3>2
    <3>4. \A i : IsPlace(File, level + 1, i) => i < option
      BY <3>1, <3>3 DEF IsPlace
    <3> QED BY <1>1, <2>1, <3>4, PassedDirectory
  <2>4. Lists(File', cfg_filters', Passed(File', level', 1))
    BY <2>1, <2>2, <2>3
  <2> QED BY <1>0, <2>1, <2>2, <2>4, Searches
<1>7. CASE AddsFilters
  <2>1. /\ pc = "config" /\ ~LooksOn /\ LooksOn' = LooksOn /\ File' = File
        /\ pc' \in {"died", "config"} /\ cfg_filters # <<>> /\ index \in DOMAIN Files
        /\ filters' = filters \o Last(cfg_filters) /\ cfg_filters' = Front(cfg_filters)
    BY <1>0, <1>7 DEF AddsFilters, LooksOn, File, PlaceInv
  <2>2. Applying(File, cfg_filters, filters)
    BY <2>1 DEF OwnInv
  <2>3. Applying(File, Front(cfg_filters), filters \o Last(cfg_filters))
    BY <1>0, <1>1, <2>1, <2>2, AppliesOne DEF TypeOK
  <2>4. (Applying(File, cfg_filters, filters))'
    BY <2>1, <2>3
  <2> QED BY <2>1, <2>4 DEF OwnInv, Linting
<1>8. CASE AppliesConfig
  <2>1. /\ pc = "config" /\ ~LooksOn /\ File' = File /\ pc' = "open" /\ cfg_filters = <<>>
        /\ filters' = filters
    BY <1>8 DEF AppliesConfig, File
  <2>2. Applying(File, <<>>, filters)
    BY <2>1 DEF OwnInv
  <2>3. \A c \in Category : Filtered(filters, c) <=> Filtered(OwnFilters(File, c), c)
    BY <2>2, AppliesAll
  <2>4. (\A c \in Category : Filtered(filters, c) <=> Filtered(OwnFilters(File, c), c))'
    BY <2>1, <2>3
  <2> QED BY <2>1, <2>4 DEF OwnInv, Linting
<1>9. ASSUME pc \in Linting \cup {"open"}, pc' \in Linting, index' = index, filters' = filters
      PROVE  OwnInv'
  <2>1. File' = File
    BY <1>9 DEF File
  <2>2. \A c \in Category : Filtered(filters, c) <=> Filtered(OwnFilters(File, c), c)
    BY <1>9 DEF OwnInv
  <2>3. (\A c \in Category : Filtered(filters, c) <=> Filtered(OwnFilters(File, c), c))'
    BY <1>9, <2>1, <2>2
  <2> QED BY <1>9, <2>3 DEF OwnInv, Linting
<1>10. CASE ReadsFile \/ ProcessGlobalSuppressions
  BY <1>9, <1>10 DEF ReadsFile, ProcessGlobalSuppressions, configVars, Linting
<1>11. CASE NoGuard \/ ChecksGuard \/ Misnamed \/ ChecksEndif \/ Unclosed
  BY <1>9, <1>11
    DEF NoGuard, ChecksGuard, Misnamed, ChecksEndif, Unclosed, Guarded, Linting
<1>12. CASE NextLine \/ FindsError
  BY <1>9, <1>12 DEF NextLine, FindsError, Linting
<1>13. CASE SkipsFile \/ FinishesFile \/ Exits
  BY <1>13 DEF SkipsFile, FinishesFile, Exits, Leaves, OwnInv, Linting
<1>14. CASE UNCHANGED vars
  <2>1. /\ pc' = pc /\ File' = File /\ cfg_filters' = cfg_filters /\ filters' = filters
        /\ level' = level /\ option' = option /\ LooksOn' = LooksOn
    BY <1>14 DEF vars, configVars, File, LooksOn
  <2>2. /\ pc' = "config" /\ LooksOn' => (Lists(File, cfg_filters, Passed(File, level, 1)))'
        /\ pc' = "read" => (Lists(File, cfg_filters, Passed(File, level, option)))'
    BY <2>1 DEF OwnInv
  <2>3. pc' = "config" /\ ~LooksOn' => (Applying(File, cfg_filters, filters))'
    BY <2>1 DEF OwnInv
  <2>4. pc' \in Linting \cup {"open"} =>
          (\A c \in Category : Filtered(filters, c) <=> Filtered(OwnFilters(File, c), c))'
    BY <2>1 DEF OwnInv
  <2> QED BY <2>2, <2>3, <2>4 DEF OwnInv, Linting
<1> QED
  BY <1>2, <1>3, <1>4, <1>5, <1>6, <1>7, <1>8, <1>10, <1>11, <1>12, <1>13, <1>14 DEF Next

LEMMA OwnAlways == Spec => [](Inv /\ LookInv /\ Saved /\ OwnInv)
<1>1. Init => Inv /\ LookInv /\ Saved /\ OwnInv
  BY InvInit, LookInit, SavedInit, OwnInit
<1>2. (Inv /\ LookInv /\ Saved /\ OwnInv) /\ [Next]_vars
        => (Inv /\ LookInv /\ Saved /\ OwnInv)'
  BY InvNext, LookNext, SavedNext, OwnNext
<1> QED BY <1>1, <1>2, PTL DEF Spec

\* Whatever files were linted before and however they were left, a category is filtered for
\* a file as the nearest CPPLINT.cfg that mentions it says, or as the command line does: the
\* search upwards collects each filter option once and they are added from the top down
\* (ProcessConfigOverrides()).
THEOREM OwnCorrect == Spec => []FiltersAreOwn
<1>1. OwnInv => FiltersAreOwn
  BY DEF OwnInv, FiltersAreOwn
<1> QED BY <1>1, OwnAlways, PTL

----------------------------------------------------------------------------
(* What silences an error.                                                 *)

\* The suppressions are those of the comments that were parsed, and of this file alone.
SupInv ==
  pc \in Linting =>
    /\ parsed \subseteq DOMAIN Comments
    /\ \A x : x \in suppressions <=> \E l \in parsed : x \in Suppressed(l, Comments[l])
    /\ global = IF pc = "copyright" THEN {} ELSE Text[File].global

LEMMA SupInit == Init => SupInv
  BY DEF Init, SupInv, Linting

LEMMA SupNext == Inv /\ SupInv /\ [Next]_vars => SupInv'
<1> SUFFICES ASSUME Inv, SupInv, [Next]_vars PROVE SupInv'
  OBVIOUS
<1>0. TypeOK /\ PlaceInv
  BY DEF Inv
<1>1. index \in DOMAIN Files =>
        /\ Comments \in Seq(Comment) /\ DOMAIN Comments = 1..Len(Comments)
        /\ Len(Comments) \in Nat
        /\ G.ifndef \in 0..Len(Comments) /\ G.endif \in 0..Len(Comments)
  <2>1. ASSUME index \in DOMAIN Files
        PROVE  /\ Comments \in Seq(Comment)
               /\ G.ifndef \in 0..Len(Comments) /\ G.endif \in 0..Len(Comments)
    BY <2>1, OfFile DEF Comments, File, G
  <2> QED BY <2>1
<1>2. CASE ReadsFile
  <2>1. parsed' = {} /\ suppressions' = {} /\ global' = {} /\ pc' = "copyright"
    BY <1>2 DEF ReadsFile
  <2> QED BY <2>1 DEF SupInv
<1>3. CASE ProcessGlobalSuppressions
  <2>1. /\ pc = "copyright" /\ pc' = "guard" /\ parsed' = parsed /\ suppressions' = suppressions
        /\ File' = File /\ global' = Text[File].global /\ Comments' = Comments
    BY <1>3 DEF ProcessGlobalSuppressions, File, Comments
  <2>2. /\ parsed \subseteq DOMAIN Comments
        /\ \A x : x \in suppressions <=> \E l \in parsed : x \in Suppressed(l, Comments[l])
    BY <2>1 DEF SupInv, Linting
  <2> QED BY <2>1, <2>2 DEF SupInv, Suppressed
<1>4. ASSUME pc \in Linting, pc' \in Linting, pc' = "copyright" <=> pc = "copyright",
             UNCHANGED <<index, global>>,
             \/ UNCHANGED <<parsed, suppressions>>
             \/ \E line \in 1..Len(Comments) :
                  /\ parsed' = parsed \cup {line}
                  /\ suppressions' = suppressions \cup Suppressed(line, Comments[line])
      PROVE  SupInv'
  <2>1. File' = File /\ Comments' = Comments /\ DOMAIN Comments = 1..Len(Comments)
    BY <1>0, <1>1, <1>4 DEF File, Comments, PlaceInv, Linting
  <2>2. /\ parsed \subseteq DOMAIN Comments
        /\ \A x : x \in suppressions <=> \E l \in parsed : x \in Suppressed(l, Comments[l])
        /\ global = IF pc = "copyright" THEN {} ELSE Text[File].global
    BY <1>4 DEF SupInv
  <2> DEFINE S(l) == Suppressed(l, Comments[l])
  <2>3. /\ parsed' \subseteq DOMAIN Comments
        /\ \A x : x \in suppressions' <=> \E l \in parsed' : x \in S(l)
    <3>0. \A l : S(l) = Suppressed(l, Comments[l])
      OBVIOUS
    <3> HIDE DEF S
    <3>1. CASE UNCHANGED <<parsed, suppressions>>
      BY <2>2, <3>0, <3>1
    <3>2. CASE \E line \in 1..Len(Comments) :
                 /\ parsed' = parsed \cup {line}
                 /\ suppressions' = suppressions \cup Suppressed(line, Comments[line])
      BY <2>1, <2>2, <3>0, <3>2
    <3> QED BY <1>4, <3>1, <3>2
  <2>4. \A l : (Suppressed(l, Comments[l]))' = S(l)
    BY <2>1 DEF Suppressed
  <2>5. global' = IF pc' = "copyright" THEN {} ELSE Text[File'].global
    BY <1>4, <2>1, <2>2
  <2> HIDE DEF S
  <2>6. (\A x : x \in suppressions <=> \E l \in parsed : x \in Suppressed(l, Comments[l]))'
    BY <2>3, <2>4
  <2> QED BY <2>1, <2>3, <2>5, <2>6 DEF SupInv
<1>5. CASE NoGuard \/ Misnamed \/ Unclosed
  <2>1. /\ pc \in Linting /\ pc' \in Linting /\ pc # "copyright" /\ pc' # "copyright"
        /\ UNCHANGED <<index, global>> /\ UNCHANGED <<parsed, suppressions>>
    BY <1>5 DEF NoGuard, Misnamed, Unclosed, Guarded, Linting
  <2> QED BY <1>4, <2>1
<1>6. CASE ChecksGuard \/ ChecksEndif
  <2>1. /\ pc \in Linting /\ pc' \in Linting /\ pc # "copyright" /\ pc' # "copyright"
        /\ UNCHANGED <<index, global>> /\ index \in DOMAIN Files
    BY <1>0, <1>6 DEF ChecksGuard, ChecksEndif, Guarded, Linting, PlaceInv
  <2>2. \/ UNCHANGED <<suppressions, parsed>>
        \/ G.ifndef \in 1..Len(Comments) /\ ParseNolintSuppressions(G.ifndef)
        \/ G.endif \in 1..Len(Comments) /\ ParseNolintSuppressions(G.endif)
    BY <1>1, <1>6, <2>1 DEF ChecksGuard, ChecksEndif, Parsed
  <2> QED BY <1>4, <2>1, <2>2 DEF ParseNolintSuppressions
<1>7. CASE NextLine
  <2>1. /\ pc \in Linting /\ pc' \in Linting /\ pc # "copyright" /\ pc' # "copyright"
        /\ UNCHANGED <<index, global>> /\ index \in DOMAIN Files
    BY <1>0, <1>7 DEF NextLine, Linting, PlaceInv
  <2>2. CASE UNCHANGED <<at, parsed, suppressions, error_count, judged>>
    BY <1>4, <2>1, <2>2
  <2>3. CASE at < Len(Comments) /\ at' = at + 1 /\ ParseNolintSuppressions(at')
    <3>1. at + 1 \in 1..Len(Comments)
      BY <1>0, <1>1, <2>1, <2>3 DEF TypeOK
    <3>2. /\ parsed' = parsed \cup {at + 1}
          /\ suppressions' = suppressions \cup Suppressed(at + 1, Comments[at + 1])
      BY <2>3 DEF ParseNolintSuppressions
    <3> QED BY <1>4, <2>1, <3>1, <3>2
  <2> QED BY <1>7, <2>2, <2>3 DEF NextLine
<1>8. CASE FindsError
  <2>1. /\ pc \in Linting /\ pc' = pc
        /\ UNCHANGED <<index, global>> /\ UNCHANGED <<parsed, suppressions>>
    BY <1>8 DEF FindsError, fileVars, Linting
  <2> QED BY <1>4, <2>1
<1>9. ASSUME pc' \notin Linting PROVE SupInv'
  BY <1>9 DEF SupInv, Linting
<1>10. CASE StartsFile \/ SkipsDirectory \/ OpensConfig \/ ReadsOption \/ ClosesConfig
            \/ AddsFilters \/ AppliesConfig
  BY <1>9, <1>10
    DEF StartsFile, SkipsDirectory, OpensConfig, ReadsOption, Leaves, ClosesConfig, AddsFilters,
        AppliesConfig, Linting
<1>11. CASE SkipsFile \/ FinishesFile \/ Exits
  BY <1>9, <1>11 DEF SkipsFile, FinishesFile, Exits, Leaves, Linting
<1>12. CASE UNCHANGED vars
  <2>1. pc' = pc /\ UNCHANGED <<index, global>> /\ UNCHANGED <<parsed, suppressions>>
    BY <1>12 DEF vars, fileVars
  <2>2. pc' \in Linting => SupInv'
    BY <1>4, <2>1
  <2> QED BY <1>9, <2>2
<1> QED
  BY <1>2, <1>3, <1>5, <1>6, <1>7, <1>8, <1>10, <1>11, <1>12 DEF Next

\* A suppression of an error's line is a comment that silences it.
LEMMA SilencedIs ==
  ASSUME NEW f, \E k \in DOMAIN Files : f = Files[k],
         NEW known \in SUBSET DOMAIN Text[f].comments, NEW sup,
         \A x : x \in sup <=> \E l \in known : x \in Suppressed(l, Text[f].comments[l]),
         NEW e, e.category \in Category, e.line \in Nat
  PROVE  Silenced(f, e, known) <=> {<<e.category, e.line>>, <<"all", e.line>>} \cap sup # {}
<1> DEFINE c(l) == Text[f].comments[l]
           By(l) == /\ c(l).of \in {e.category, "all"}
                    /\ \/ c(l).on = "this" /\ e.line = l
                       \/ c(l).on = "next" /\ e.line = l + 1
<1>1. ASSUME NEW l \in known
      PROVE  By(l) <=> \/ <<e.category, e.line>> \in Suppressed(l, c(l))
                       \/ <<"all", e.line>> \in Suppressed(l, c(l))
  <2>1. c(l) \in Comment /\ l \in Nat
    BY OfFile
  <2>2. c(l).on \in {"none", "this", "next"}
    BY <2>1 DEF Comment
  <2>3. e.category \notin {"unknown", "legacy"}
    BY CategoryAssumption
  <2> QED BY <2>1, <2>2, <2>3 DEF Suppressed
<1>2. Silenced(f, e, known) <=> \E l \in known : By(l)
  BY DEF Silenced
<1>3. {<<e.category, e.line>>, <<"all", e.line>>} \cap sup # {} <=>
        <<e.category, e.line>> \in sup \/ <<"all", e.line>> \in sup
  OBVIOUS
<1>4. (<<e.category, e.line>> \in sup \/ <<"all", e.line>> \in sup) <=>
        \E l \in known : \/ <<e.category, e.line>> \in Suppressed(l, c(l))
                         \/ <<"all", e.line>> \in Suppressed(l, c(l))
  OBVIOUS
<1> HIDE DEF By, c
<1> QED BY <1>1, <1>2, <1>3, <1>4

\* What a step says of the error that it finds.
Verdict(e, known) == e.printed <=> Allowed(e, known)

\* Error() judges by the comments parsed so far.
LEMMA Judges ==
  ASSUME Inv, OwnInv, SupInv, pc \in Linting, NEW category \in Category,
         NEW confidence, NEW line \in Nat, Error(category, confidence, line, suppressions)
  PROVE  Verdict(judged', parsed) /\ judged'.category = category
<1> DEFINE e == judged'
           own == OwnFilters(File, category)
           pairs == {<<category, line>>, <<"all", line>>}
<1>1. /\ e.category = category /\ e.line = line /\ e.confidence = confidence
      /\ e.printed = ShouldPrintError(category, confidence, line, suppressions)
  BY Zenon DEF Error
<1>2. /\ \E k \in DOMAIN Files : File = Files[k]
      /\ parsed \subseteq DOMAIN Text[File].comments
      /\ \A x : x \in suppressions <=>
           \E l \in parsed : x \in Suppressed(l, Text[File].comments[l])
      /\ global = IF pc = "copyright" THEN {} ELSE Text[File].global
      /\ Filtered(filters, category) <=> Filtered(own, category)
  BY DEF SupInv, OwnInv, Inv, PlaceInv, Comments, File, Linting
<1> HIDE DEF e, own
<1>3. Silenced(File, e, parsed) <=> pairs \cap suppressions # {}
  BY <1>1, <1>2, SilencedIs
<1>4. e.printed <=> /\ ~(category \in global \/ pairs \cap suppressions # {})
                    /\ confidence >= Verbosity /\ ~Filtered(filters, category)
  BY <1>1 DEF ShouldPrintError, IsErrorSuppressedByNolint
<1> HIDE DEF pairs
<1>5. category \notin global <=> pc = "copyright" \/ category \notin Text[File].global
  BY <1>2
<1>6. Wanted(File, e, parsed) <=>
        /\ confidence >= Verbosity /\ ~Silenced(File, e, parsed) /\ ~Filtered(own, category)
  BY <1>1 DEF Wanted, own
<1>7. e.printed <=> /\ Wanted(File, e, parsed)
                    /\ pc = "copyright" \/ e.category \notin Text[File].global
  BY <1>1, <1>2, <1>3, <1>4, <1>5, <1>6
<1> QED BY <1>1, <1>7 DEF Verdict, Allowed, e

\* A comment with an unknown category is an error that the comment itself does not silence.
LEMMA JudgesParsed ==
  ASSUME Inv, OwnInv, SupInv, pc \in Linting, NEW line \in 1..Len(Comments),
         ParseNolintSuppressions(line), judged' # judged
  PROVE  Verdict(judged', parsed') /\ parsed' \subseteq DOMAIN Comments
<1>1. Comments[line].of = "unknown" /\ parsed' = parsed \cup {line}
      /\ Error("nolint", 5, line, suppressions)
  BY DEF ParseNolintSuppressions
<1>2. "nolint" \in Category /\ line \in Nat /\ "unknown" \notin Category \cup {"all"}
  BY CategoryAssumption
<1>3. Verdict(judged', parsed) /\ judged'.category = "nolint"
  BY <1>1, <1>2, Judges
<1> DEFINE e == judged'
           known == parsed'
           By(l) == LET c == Text[File].comments[l]
                    IN  /\ c.of \in {e.category, "all"}
                        /\ \/ c.on = "this" /\ e.line = l
                           \/ c.on = "next" /\ e.line = l + 1
<1>4. /\ Silenced(File, e, known) <=> \E l \in known : By(l)
      /\ Silenced(File, e, parsed) <=> \E l \in parsed : By(l)
  BY DEF Silenced
<1>5. ~By(line)
  BY <1>1, <1>2, <1>3 DEF Comments
<1>6. known = parsed \cup {line}
  BY <1>1
<1>9. parsed' \subseteq DOMAIN Comments
  BY <1>1 DEF SupInv
<1> HIDE DEF e, known, By
<1>7. Silenced(File, e, known) <=> Silenced(File, e, parsed)
  BY <1>4, <1>5, <1>6
<1>8. Verdict(e, known) <=> Verdict(e, parsed)
  BY <1>7 DEF Verdict, Allowed, Wanted
<1> QED BY <1>3, <1>8, <1>9 DEF e, known

LEMMA JudgedNext ==
  Inv /\ OwnInv /\ SupInv /\ [Next]_vars =>
    (judged' # judged => Verdict(judged', parsed') /\ parsed' \subseteq DOMAIN Comments)
<1> SUFFICES ASSUME Inv, OwnInv, SupInv, [Next]_vars, judged' # judged
             PROVE  Verdict(judged', parsed') /\ parsed' \subseteq DOMAIN Comments
  OBVIOUS
<1>0. TypeOK /\ PlaceInv
  BY DEF Inv
<1>1. index \in DOMAIN Files =>
        /\ Len(Comments) \in Nat /\ DOMAIN Comments = 1..Len(Comments)
        /\ G.ifndef \in 0..Len(Comments) /\ G.endif \in 0..Len(Comments)
  <2>1. ASSUME index \in DOMAIN Files
        PROVE  /\ Comments \in Seq(Comment)
               /\ G.ifndef \in 0..Len(Comments) /\ G.endif \in 0..Len(Comments)
    BY <2>1, OfFile DEF Comments, File, G
  <2> QED BY <2>1
<1>2. CASE NoGuard \/ Misnamed \/ Unclosed
  <2>1. pc \in Linting /\ parsed' = parsed /\ index \in DOMAIN Files /\ "guard" \in Category
    BY <1>0, <1>2, CategoryAssumption DEF NoGuard, Misnamed, Unclosed, Linting, PlaceInv
  <2>2. \/ Error("guard", 5, 0, suppressions)
        \/ Error("guard", Level(G.name), G.ifndef, suppressions)
        \/ Error("guard", Level(G.closing), G.endif, suppressions)
    BY <1>2 DEF NoGuard, Misnamed, Unclosed
  <2>3. 0 \in Nat /\ G.ifndef \in Nat /\ G.endif \in Nat
    BY <1>1, <2>1
  <2>4. Verdict(judged', parsed)
    BY <2>1, <2>2, <2>3, Judges
  <2> QED BY <2>1, <2>4 DEF SupInv
<1>3. CASE ChecksGuard \/ ChecksEndif
  <2>1. pc \in Linting /\ index \in DOMAIN Files
    BY <1>0, <1>3 DEF ChecksGuard, ChecksEndif, Linting, PlaceInv
  <2>2. \/ G.ifndef \in 1..Len(Comments) /\ ParseNolintSuppressions(G.ifndef)
        \/ G.endif \in 1..Len(Comments) /\ ParseNolintSuppressions(G.endif)
    BY <1>1, <1>3, <2>1 DEF ChecksGuard, ChecksEndif, Parsed
  <2> QED BY <2>1, <2>2, JudgesParsed
<1>4. CASE NextLine
  <2>1. pc \in Linting /\ index \in DOMAIN Files
    BY <1>0, <1>4 DEF NextLine, Linting, PlaceInv
  <2>2. at < Len(Comments) /\ at' = at + 1 /\ ParseNolintSuppressions(at')
    BY <1>4 DEF NextLine
  <2>3. at + 1 \in 1..Len(Comments)
    BY <1>0, <1>1, <2>1, <2>2 DEF TypeOK
  <2>4. ParseNolintSuppressions(at + 1)
    BY <2>2 DEF ParseNolintSuppressions, Error
  <2> QED BY <2>1, <2>3, <2>4, JudgesParsed
<1>5. CASE FindsError
  <2>1. pc \in Linting /\ parsed' = parsed /\ index \in DOMAIN Files
    BY <1>0, <1>5 DEF FindsError, Linting, PlaceInv, fileVars
  <2>2. PICK category \in Category, confidence \in {0, 5}, line \in 0..(Len(Comments) + 1) :
          Error(category, confidence, line, suppressions)
    BY <1>5 DEF FindsError
  <2>3. line \in Nat
    BY <1>1, <2>1
  <2>4. Verdict(judged', parsed)
    BY <2>1, <2>2, <2>3, Judges
  <2> QED BY <2>1, <2>4 DEF SupInv
<1>6. ~(StartsFile \/ SkipsDirectory \/ OpensConfig \/ ReadsOption \/ ClosesConfig)
  BY DEF StartsFile, SkipsDirectory, OpensConfig, ReadsOption, ClosesConfig
<1>7. ~(AddsFilters \/ AppliesConfig \/ SkipsFile \/ ReadsFile \/ ProcessGlobalSuppressions
        \/ FinishesFile \/ Exits \/ UNCHANGED vars)
  BY DEF AddsFilters, AppliesConfig, SkipsFile, ReadsFile, ProcessGlobalSuppressions,
         FinishesFile, Exits, vars
<1> QED BY <1>2, <1>3, <1>4, <1>5, <1>6, <1>7 DEF Next

\* More comments allow no more errors.
LEMMA AllowedMore ==
  ASSUME NEW e, NEW known, NEW more, known \subseteq more, Allowed(e, more)
  PROVE  Allowed(e, known)
BY Zenon DEF Allowed, Wanted, Silenced

\* Whatever was linted before, an error is printed only if this file's own filters,
\* directives and the comments parsed so far allow it, and it is printed if no comment of
\* the file, parsed yet or not, is against it (Error(), ParseNolintSuppressions()).
THEOREM JudgedCorrect == Spec => EveryErrorJudged
<1>1. Inv /\ OwnInv /\ SupInv /\ [Next]_vars =>
        [judged' # judged =>
           /\ judged'.printed => Allowed(judged', parsed')
           /\ Allowed(judged', DOMAIN Comments) => judged'.printed]_vars
  BY JudgedNext, AllowedMore DEF Verdict
<1>2. Spec => []SupInv
  <2>1. Init => SupInv
    BY SupInit
  <2>2. Inv /\ SupInv /\ [Next]_vars => SupInv'
    BY SupNext
  <2> QED BY <2>1, <2>2, InvAlways, PTL DEF Spec
<1> QED BY <1>1, <1>2, OwnAlways, PTL DEF Spec, EveryErrorJudged
=============================================================================
