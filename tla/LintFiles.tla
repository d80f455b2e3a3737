------------------------------- MODULE LintFiles -------------------------------
(***************************************************************************)
(* A run of cpplint.py over several files: what is kept in module-wide      *)
(* state (filters, the line length, the suppressions of NOLINT comments,    *)
(* the count of errors), and when each file sets it, uses it and puts it    *)
(* back.  The errors that the checks find are left open: any, at any line.  *)
(***************************************************************************)
EXTENDS Integers, Sequences, SequencesExt, FiniteSetsExt

CONSTANTS
  Category,        \* the categories of errors; "nolint" is readability/nolint
  Files,           \* the file names of the command line, in order
  Path,            \* a file's base name and the directories above it, nearest first
  Config,          \* a directory's CPPLINT.cfg: its options, "none" or "unreadable"
  Text,            \* what cpplint.py finds in a file: its kind, comments, directives and guard
  DefaultFilters, CommandFilters,  \* _DEFAULT_FILTERS, and those of --filter
  CommandLength,   \* --linelength
  Verbosity,       \* --verbose
  MaxErrors        \* bound on the count of errors: it stops there

ASSUME CategoryAssumption ==
  {"nolint", "guard"} \subseteq Category /\ {"all", "unknown", "legacy", "none"} \cap Category = {}
ASSUME CountAssumption == Verbosity \in Nat /\ MaxErrors \in Nat /\ CommandLength \in Int

\* A filter stands for the categories that begin with its text.
Filter == [sign : {"+", "-", ""}, of : SUBSET Category]
\* A NOLINT comment: of the line it is on, or of the next.
Comment == [on : {"none", "this", "next"}, of : Category \cup {"all", "unknown", "legacy"}]
\* The lines of #ifndef and of the last #endif (0: none), and how well they name the guard.
Guard == [ifndef : Nat, endif : Nat, name : {"right", "underscore", "wrong"},
          closing : {"right", "underscore", "wrong"}]

ASSUME FiltersAssumption ==
  DefaultFilters \in Seq(Filter) /\ CommandFilters \in Seq(Filter)
\* A line of a CPPLINT.cfg: an exclude_files matches names, a linelength may be any number.
Setting == [name : STRING, filters : Seq(Filter), matches : SUBSET STRING, length : Int]

ASSUME ConfigAssumption ==
  \A d \in DOMAIN Config :
    /\ Config[d].kind \in {"none", "unreadable", "options"}
    /\ Config[d].options \in Seq(Setting)
ASSUME FilesAssumption ==
  /\ Files \in Seq(STRING)
  /\ \A i \in DOMAIN Files :
    /\ Path[Files[i]] \in Seq(STRING) /\ Len(Path[Files[i]]) > 0
    /\ \A k \in 2..Len(Path[Files[i]]) : Path[Files[i]][k] \in DOMAIN Config
    /\ Text[Files[i]].kind \in {"unreadable", "ignored", "source", "header"}
    /\ Text[Files[i]].comments \in Seq(Comment) /\ Text[Files[i]].global \subseteq Category
    /\ Text[Files[i]].guard \in Guard
    /\ {Text[Files[i]].guard.ifndef, Text[Files[i]].guard.endif}
         \subseteq 0..Len(Text[Files[i]].comments)

VARIABLES
  pc, index,       \* the place in ProcessFile(), and the file
  level, option,   \* in ProcessConfigOverrides(): the directory, and the option
  looking,         \* keep_looking
  cfg_filters,
  filters, filters_backup,  \* of _cpplint_state
  line_length,     \* _line_length
  at,              \* the line that ProcessLine() is at
  parsed,          \* the lines whose NOLINT comment was parsed
  suppressions,    \* _error_suppressions, as pairs
  global,          \* _global_error_suppressions
  error_count,
  judged           \* the last error found, and whether it was printed

configVars == <<level, option, looking, cfg_filters>>
fileVars == <<at, parsed, suppressions, global>>
vars == <<pc, index, configVars, filters, filters_backup, line_length, fileVars,
          error_count, judged>>

File == Files[index]
Directory == Path[File][level + 1]
Comments == Text[File].comments
NoError == [category |-> "none", line |-> 0, confidence |-> 0, printed |-> FALSE]

\* ProcessFileData() is under way.
Linting == {"copyright", "guard", "misnamed", "endif", "unclosed", "lines", "tail"}

TypeOK ==
  /\ pc \in Linting \cup {"file", "config", "read", "open", "exit", "died"}
  /\ index \in 1..(Len(Files) + 1)
  /\ level \in Nat \ {0} /\ option \in Nat /\ looking \in BOOLEAN
  /\ cfg_filters \in Seq(Seq(Filter))
  /\ filters \in Seq(Filter) /\ filters_backup \in Seq(Filter)
  /\ line_length \in Int
  /\ at \in Nat /\ parsed \subseteq Nat
  /\ suppressions \subseteq (Category \cup {"all"}) \X Nat
  /\ global \subseteq Category
  /\ error_count \in 0..MaxErrors
  /\ judged \in [category : Category \cup {"none"}, line : Nat, confidence : 0..5,
                 printed : BOOLEAN]

\* ParseArguments(): a filter without sign raises ValueError.
BadFilter(fs) == \E i \in DOMAIN fs : fs[i].sign = ""

Init ==
  /\ filters = DefaultFilters \o CommandFilters
  /\ pc = IF BadFilter(filters) THEN "died" ELSE "file"
  /\ index = 1
  /\ level = 1 /\ option = 0 /\ looking = TRUE /\ cfg_filters = <<>>
  /\ filters_backup = DefaultFilters
  /\ line_length = CommandLength
  /\ at = 0 /\ parsed = {} /\ suppressions = {} /\ global = {}
  /\ error_count = 0
  /\ judged = NoError

----------------------------------------------------------------------------
(* ProcessConfigOverrides().                                               *)

\* ProcessFile() begins: the filters are saved.
StartsFile ==
  /\ pc = "file" /\ index <= Len(Files)
  /\ filters_backup' = filters
  /\ level' = 1 /\ option' = 0 /\ looking' = TRUE /\ cfg_filters' = <<>>
  /\ pc' = "config"
  /\ UNCHANGED <<index, filters, line_length, fileVars, error_count, judged>>

LooksOn == looking /\ level < Len(Path[File])

SkipsDirectory ==
  /\ pc = "config" /\ LooksOn
  /\ Config[Directory].kind \in {"none", "unreadable"}
  /\ looking' = (Config[Directory].kind = "none")
  /\ level' = level + 1
  /\ UNCHANGED <<pc, index, option, cfg_filters, filters, filters_backup, line_length,
                 fileVars, error_count, judged>>

OpensConfig ==
  /\ pc = "config" /\ LooksOn
  /\ Config[Directory].kind = "options"
  /\ option' = 1
  /\ pc' = "read"
  /\ UNCHANGED <<index, level, looking, cfg_filters, filters, filters_backup, line_length,
                 fileVars, error_count, judged>>

Options == Config[Directory].options

\* Mutation: the filters are not put back for a file that cannot be opened or has no
\* valid extension.
LeavesSkipped ==
  /\ pc' = "file" /\ index' = index + 1
  /\ filters' = IF pc = "open" THEN filters ELSE filters_backup
  /\ UNCHANGED <<level, option, looking, cfg_filters, line_length>>

\* The file is skipped: the filters are put back, the line length is not.
Leaves ==
  /\ pc' = "file" /\ index' = index + 1
  /\ filters' = filters_backup
  /\ UNCHANGED <<level, option, looking, cfg_filters, line_length>>

ReadsOption ==
  /\ pc = "read" /\ option <= Len(Options)
  /\ LET o == Options[option]
     IN  \/ /\ o.name = "exclude_files" /\ Path[File][level] \in o.matches
            /\ Leaves
         \/ /\ o.name = "exclude_files" => Path[File][level] \notin o.matches
            /\ looking' = (looking /\ o.name # "set noparent")
            /\ cfg_filters' = IF o.name = "filter" THEN Append(cfg_filters, o.filters)
                              ELSE cfg_filters
            /\ line_length' = IF o.name = "linelength" THEN o.length ELSE line_length
            /\ option' = option + 1
            /\ UNCHANGED <<pc, index, level, filters>>
  /\ UNCHANGED <<filters_backup, fileVars, error_count, judged>>

ClosesConfig ==
  /\ pc = "read" /\ option > Len(Options)
  /\ level' = level + 1
  /\ pc' = "config"
  /\ UNCHANGED <<index, option, looking, cfg_filters, filters, filters_backup, line_length,
                 fileVars, error_count, judged>>

\* Mutation: they are added in the order they were read.
AddsFiltersInOrder ==
  /\ pc = "config" /\ ~LooksOn /\ cfg_filters # <<>>
  /\ filters' = filters \o Head(cfg_filters)
  /\ cfg_filters' = Tail(cfg_filters)
  /\ pc' = IF BadFilter(filters') THEN "died" ELSE pc
  /\ UNCHANGED <<index, level, option, looking, filters_backup, line_length, fileVars,
                 error_count, judged>>

\* _AddFilters() of the last that is left: the top-most directory comes first.
AddsFilters ==
  /\ pc = "config" /\ ~LooksOn /\ cfg_filters # <<>>
  /\ filters' = filters \o Last(cfg_filters)
  /\ cfg_filters' = Front(cfg_filters)
  /\ pc' = IF BadFilter(filters') THEN "died" ELSE pc
  /\ UNCHANGED <<index, level, option, looking, filters_backup, line_length, fileVars,
                 error_count, judged>>

AppliesConfig ==
  /\ pc = "config" /\ ~LooksOn /\ cfg_filters = <<>>
  /\ pc' = "open"
  /\ UNCHANGED <<index, configVars, filters, filters_backup, line_length, fileVars,
                 error_count, judged>>

----------------------------------------------------------------------------
(* Error().                                                                *)

\* The last filter that applies decides.
Filtered(fs, category) ==
  \E i \in DOMAIN fs :
    /\ category \in fs[i].of /\ fs[i].sign = "-"
    /\ \A j \in (i + 1)..Len(fs) : category \notin fs[j].of

IsErrorSuppressedByNolint(category, line, silenced) ==
  category \in global \/ {<<category, line>>, <<"all", line>>} \cap silenced # {}

ShouldPrintError(category, confidence, line, silenced) ==
  /\ ~IsErrorSuppressedByNolint(category, line, silenced)
  /\ confidence >= Verbosity
  /\ ~Filtered(filters, category)

Error(category, confidence, line, silenced) ==
  LET printed == ShouldPrintError(category, confidence, line, silenced)
  IN  /\ judged' = [category |-> category, line |-> line, confidence |-> confidence,
                    printed |-> printed]
      /\ error_count' = IF printed THEN Min({error_count + 1, MaxErrors}) ELSE error_count

\* Mutation: a category is not looked up before it is kept.
SuppressedAny(line, c) ==
  IF c.on = "none" THEN {} ELSE {<<c.of, IF c.on = "next" THEN line + 1 ELSE line>>}

\* ParseNolintSuppressions(): what the comment of a line adds.
Suppressed(line, c) ==
  IF c.on = "none" \/ c.of \in {"unknown", "legacy"} THEN {}
  ELSE {<<c.of, IF c.on = "next" THEN line + 1 ELSE line>>}

ParseNolintSuppressions(line) ==
  LET c == Comments[line]
  IN  /\ suppressions' = suppressions \cup Suppressed(line, c)
      /\ parsed' = parsed \cup {line}
      /\ IF c.on # "none" /\ c.of = "unknown"
         THEN Error("nolint", 5, line, suppressions)
         ELSE UNCHANGED <<error_count, judged>>

----------------------------------------------------------------------------
(* ProcessFile(), once the overrides are applied, and ProcessFileData().    *)

\* It cannot be opened, or has no valid extension.
SkipsFile ==
  /\ pc = "open" /\ Text[File].kind \in {"unreadable", "ignored"}
  /\ Leaves
  /\ UNCHANGED <<filters_backup, fileVars, error_count, judged>>

\* Mutation: the suppressions of the last file stay.
ReadsFileKeeping ==
  /\ pc = "open" /\ Text[File].kind \in {"source", "header"}
  /\ at' = 0 /\ parsed' = {}
  /\ pc' = "copyright"
  /\ UNCHANGED <<suppressions, global, index, configVars, filters, filters_backup,
                 line_length, error_count, judged>>

\* ResetNolintSuppressions(), and CheckForCopyright().
ReadsFile ==
  /\ pc = "open" /\ Text[File].kind \in {"source", "header"}
  /\ at' = 0 /\ parsed' = {} /\ suppressions' = {} /\ global' = {}
  /\ pc' = "copyright"
  /\ UNCHANGED <<index, configVars, filters, filters_backup, line_length, error_count, judged>>

ProcessGlobalSuppressions ==
  /\ pc = "copyright"
  /\ global' = Text[File].global
  /\ pc' = "guard"
  /\ UNCHANGED <<index, configVars, filters, filters_backup, line_length, at, parsed,
                 suppressions, error_count, judged>>

\* CheckForHeaderGuard(): a wrong name is an error at the line of the #ifndef, a
\* wrong #endif at its own; the NOLINT comments of both are parsed before their turn.
G == Text[File].guard
Exempt == \E l \in DOMAIN Comments : Comments[l] = [on |-> "this", of |-> "guard"]
Level(style) == IF style = "underscore" THEN 0 ELSE 5
Guarded == <<index, configVars, filters, filters_backup, line_length, at, global>>
Parsed(l) == IF l = 0 THEN UNCHANGED <<suppressions, parsed, error_count, judged>>
             ELSE ParseNolintSuppressions(l)

NoGuard ==
  /\ pc = "guard"
  /\ pc' = "lines"
  /\ IF Text[File].kind = "header" /\ ~Exempt
     THEN G.ifndef = 0 /\ Error("guard", 5, 0, suppressions)
     ELSE UNCHANGED <<error_count, judged>>
  /\ UNCHANGED <<Guarded, parsed, suppressions>>

ChecksGuard ==
  /\ pc = "guard"
  /\ Text[File].kind = "header" /\ ~Exempt /\ G.ifndef # 0
  /\ IF G.name = "right"
     THEN pc' = "endif" /\ UNCHANGED <<suppressions, parsed, error_count, judged>>
     ELSE pc' = "misnamed" /\ Parsed(G.ifndef)
  /\ UNCHANGED Guarded

Misnamed ==
  /\ pc = "misnamed"
  /\ pc' = "endif"
  /\ Error("guard", Level(G.name), G.ifndef, suppressions)
  /\ UNCHANGED <<Guarded, parsed, suppressions>>

ChecksEndif ==
  /\ pc = "endif"
  /\ pc' = IF G.closing = "right" THEN "lines" ELSE "unclosed"
  /\ Parsed(G.endif)
  /\ UNCHANGED Guarded

Unclosed ==
  /\ pc = "unclosed"
  /\ pc' = "lines"
  /\ Error("guard", Level(G.closing), G.endif, suppressions)
  /\ UNCHANGED <<Guarded, parsed, suppressions>>

\* ProcessLine() of the next line.
NextLine ==
  /\ pc = "lines"
  /\ \/ /\ at < Len(Comments)
        /\ at' = at + 1
        /\ ParseNolintSuppressions(at')
        /\ pc' = pc
     \/ /\ at = Len(Comments)
        /\ pc' = "tail"
        /\ UNCHANGED <<at, parsed, suppressions, error_count, judged>>
  /\ UNCHANGED <<index, configVars, filters, filters_backup, line_length, global>>

\* A check finds an error: CheckForCopyright() of line 0, RemoveMultiLineComments() of any
\* line or of one past the file, the checks of a line of it, an earlier line or a later
\* one (as in CheckEmptyBlockBody()), and those after the lines of any.
FindsError ==
  /\ pc \in {"copyright", "guard", "lines", "tail"}
  /\ \E category \in Category \ {"nolint"}, confidence \in {0, 5},
        line \in 0..(Len(Comments) + 1) :
       /\ pc = "copyright" => line = 0
       /\ Error(category, confidence, line, suppressions)
  /\ UNCHANGED <<pc, index, configVars, filters, filters_backup, line_length, fileVars>>

FinishesFile ==
  /\ pc = "tail"
  /\ Leaves
  /\ UNCHANGED <<filters_backup, fileVars, error_count, judged>>

Exits ==
  /\ pc = "file" /\ index > Len(Files)
  /\ pc' = "exit"
  /\ UNCHANGED <<index, configVars, filters, filters_backup, line_length, fileVars,
                 error_count, judged>>

Next ==
  \/ StartsFile \/ SkipsDirectory \/ OpensConfig \/ ReadsOption \/ ClosesConfig
  \/ AddsFilters \/ AppliesConfig \/ SkipsFile \/ ReadsFile \/ ProcessGlobalSuppressions
  \/ NoGuard \/ ChecksGuard \/ Misnamed \/ ChecksEndif \/ Unclosed
  \/ NextLine \/ FindsError \/ FinishesFile \/ Exits

Spec == Init /\ [][Next]_vars
----------------------------------------------------------------------------
(* Properties.                                                             *)

\* The directories whose CPPLINT.cfg has a say, by their place in the path.
Heard(f) ==
  {k \in 2..Len(Path[f]) :
     /\ Config[Path[f][k]].kind = "options"
     /\ \A j \in 2..(k - 1) :
          LET c == Config[Path[f][j]]
          IN  /\ c.kind # "unreadable"
              /\ c.kind = "options" =>
                   \A i \in DOMAIN c.options : c.options[i].name # "set noparent"}

\* Its filter options: the directory, and the line of it.
Places(f) ==
  UNION {{<<k, i>> : i \in {i \in DOMAIN Config[Path[f][k]].options :
                             Config[Path[f][k]].options[i].name = "filter"}} : k \in Heard(f)}

Says(f, p) == Config[Path[f][p[1]]].options[p[2]].filters
Mentions(fs, category) == \E i \in DOMAIN fs : category \in fs[i].of
Before(p, q) == p[1] < q[1] \/ (p[1] = q[1] /\ p[2] < q[2])

\* Of the options at some places, the one that decides on a category: the first in the
\* nearest directory that mention it, and the filters of the command line if none does.
Among(f, places, category) ==
  LET S == {p \in places : Mentions(Says(f, p), category)}
  IN  IF S = {} THEN DefaultFilters \o CommandFilters
      ELSE Says(f, CHOOSE p \in S : \A q \in S : q = p \/ Before(p, q))
OwnFilters(f, category) == Among(f, Places(f), category)

\* A file is linted under what the nearest CPPLINT.cfg above it says of a category, or
\* the filters of the command line: none of a file linted before it, however that one
\* was left (BackupFilters(), RestoreFilters()).
FiltersAreOwn ==
  pc \in Linting =>
    \A category \in Category :
      Filtered(filters, category) <=> Filtered(OwnFilters(File, category), category)

\* Between two files only the filters of the command line are left.
FiltersPutBack == pc \in {"file", "exit"} => filters = DefaultFilters \o CommandFilters

\* The comments of the lines in known silence an error of this file.
Silenced(f, e, known) ==
  \E l \in known :
    LET c == Text[f].comments[l]
    IN  /\ c.of \in {e.category, "all"}
        /\ \/ c.on = "this" /\ e.line = l
           \/ c.on = "next" /\ e.line = l + 1

Wanted(f, e, known) ==
  /\ e.confidence >= Verbosity
  /\ ~Silenced(f, e, known)
  /\ ~Filtered(OwnFilters(f, e.category), e.category)

Allowed(e, known) ==
  /\ Wanted(File, e, known)
  /\ pc = "copyright" \/ e.category \notin Text[File].global

\* An error is printed only if this file's own filters, its directives and the comments
\* parsed when the error is found allow it, and it is if they and all its comments do:
\* nothing of another file has a say (Error()).  What is left open is an error that the
\* check of an earlier line finds at a NOLINT comment: the code prints it, as that comment
\* is parsed later, where the usage says that it is suppressed (lines 73-75).
EveryErrorJudged ==
  [][judged' # judged =>
       /\ judged'.printed => Allowed(judged', parsed')
       /\ Allowed(judged', DOMAIN Comments) => judged'.printed]_vars
=============================================================================
