------------------------------ MODULE MCCleanse ------------------------------
(***************************************************************************)
(* Short files of any lexemes, raw strings of several lines, and the bodies *)
(* of functions.                                                           *)
(***************************************************************************)
EXTENDS Cleanse

Piece == {"x", "quote", "raw(", "raw)", "//", "/*", "*/"}
Upto2 == UNION {[1..k -> Piece] : k \in 0..2}
AnyFiles ==
  {<<a>> : a \in [1..5 -> Piece]} \cup {<<a, b>> : a \in Upto2, b \in [1..3 -> Piece]}
    \cup {<<a, b>> : a \in [1..3 -> Piece], b \in Upto2}

Code == <<"indent", "x", ";">>
Bodies == {
  Code, <<>>, <<"}">>, <<"indent", "{">>, <<"f(", ";">>,
  <<"indent", "//", "x">>, <<"indent", "/*", "x">>, <<"x", "*/">>,
  <<"x", "raw(">>, <<"raw)", ";">>, <<"quote", "//", "quote">>}
FunctionFiles ==
  {<<h, a, b, c, d>> : h \in {<<"f(", "{">>, <<"x", "f(">>}, a \in Bodies, b \in Bodies,
                       c \in Bodies, d \in {Code, <<"}">>}}
    \cup {<<<<"TEST(", "{">>, Code, Code, Code, a, b>> : a \in Bodies, b \in Bodies}

\* The second line may begin in the raw string as a comment does.
RawFiles ==
  {<<<<"raw(">>, a, b>> : a \in [1..3 -> Piece],
                          b \in {<<"x">>, <<"*/">>, <<"//", "*/">>, <<"raw)", "x">>}}

MCFiles == AnyFiles \cup RawFiles \cup {f \o <<<<"}">>>> : f \in FunctionFiles}
=============================================================================
