------------------------------ MODULE MCIncludes ------------------------------
(***************************************************************************)
(* A source file with a header of its own, which includes a C++ header.     *)
(***************************************************************************)
EXTENDS Includes

MCName == {"own.h", "string", "vector", "x.h", "lua.h", "x.cc"}

MCPaths ==
  [n \in MCName |->
     [cpp |-> n \in {"string", "vector"},
      dir |-> CASE n = "own.h" -> "src" [] n = "x.cc" -> "lib" [] OTHER -> "",
      base |-> n, first |-> n, bare |-> n \in {"x.h", "lua.h"}, cc |-> n = "x.cc",
      third |-> n = "lua.h",
      rank |-> CASE n = "x.h" -> 1 [] n = "own.h" -> 2 [] n = "vector" -> 3
                 [] n = "string" -> 4 [] OTHER -> 5,
      ours |-> n = "own.h",
      includes |-> IF n = "own.h" THEN {"vector"} ELSE {}]]

MCOwn ==
  [dir |-> "src", public |-> "public", base |-> "own.h", first |-> "own.h",
   source |-> TRUE, cc |-> TRUE, test |-> FALSE, hasHeader |-> TRUE,
   header |-> {"own.h"}]
=============================================================================
