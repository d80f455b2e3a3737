----------------------------- MODULE MCLintFiles -----------------------------
(***************************************************************************)
(* Five files linted in one run: a header two directories down, a source    *)
(* file that is excluded, one under "set noparent", a file with another     *)
(* extension, and a header in a directory without CPPLINT.cfg.              *)
(***************************************************************************)
EXTENDS LintFiles

MCCategory == {"nolint", "guard", "style"}
MCFiles == <<"deep.h", "gone.cc", "apart.cc", "note.txt", "flat.h">>
MCFile == {MCFiles[i] : i \in DOMAIN MCFiles}

MCPath ==
  [f \in MCFile |->
     CASE f \in {"deep.h", "gone.cc"} -> <<f, "sub", "top">>
       [] f = "apart.cc" -> <<f, "apart", "top">>
       [] OTHER -> <<f, "other", "top">>]

Option(name) == [name |-> name, filters |-> <<>>, matches |-> {}, length |-> 0]
MCFilter(sign, of) == <<[sign |-> sign, of |-> of]>>
FilterOption(sign, of) == [Option("filter") EXCEPT !.filters = MCFilter(sign, of)]

MCConfig ==
  [d \in {"sub", "apart", "other", "top"} |->
     CASE d = "sub" ->
            [kind |-> "options",
             options |-> <<FilterOption("-", {"style"}),
                           FilterOption("+", {"style", "guard"}),
                           [Option("linelength") EXCEPT !.length = 120],
                           [Option("exclude_files") EXCEPT !.matches = {"gone.cc"}]>>]
       [] d = "apart" -> [kind |-> "options", options |-> <<Option("set noparent")>>]
       [] d = "other" -> [kind |-> "none", options |-> <<>>]
       [] d = "top" ->
            [kind |-> "options",
             options |-> <<[Option("linelength") EXCEPT !.length = 100],
                           FilterOption("-", {"guard"})>>]]

Nolint(on, of) == [on |-> on, of |-> of]
NoGuards == [ifndef |-> 0, endif |-> 0, name |-> "wrong", closing |-> "wrong"]
MCText ==
  [f \in MCFile |->
     CASE f = "deep.h" ->
            [kind |-> "header", global |-> {},
             comments |-> <<Nolint("next", "all"), Nolint("this", "unknown"),
                            Nolint("this", "style")>>,
             guard |-> [ifndef |-> 1, endif |-> 3, name |-> "wrong", closing |-> "wrong"]]
       [] f = "flat.h" ->
            [kind |-> "header", global |-> {"nolint"},
             comments |-> <<Nolint("none", "all"), Nolint("this", "legacy")>>,
             guard |-> [ifndef |-> 1, endif |-> 2, name |-> "underscore",
                        closing |-> "wrong"]]
       [] f = "note.txt" ->
            [kind |-> "ignored", global |-> {}, comments |-> <<>>, guard |-> NoGuards]
       [] OTHER ->
            [kind |-> "source", global |-> {"style"}, guard |-> NoGuards,
             comments |-> <<Nolint("none", "all"), Nolint("this", "all")>>]]

MCDefaultFilters == MCFilter("-", {"style"})
MCCommandFilters == MCFilter("+", {"guard", "style"})
=============================================================================
