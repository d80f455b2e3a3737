------------------------------ MODULE MCEncoder ------------------------------
(* Values for Encoder, and what the encoding of a value is.                *)
EXTENDS Encoder

\* A scalar, a uint, an empty and a longer string, an empty array, arrays and
\* maps nested up to four deep, and an array and a map too large, one inside another.
MCNode == 1..13
MCKind == <<"scalar", "uint", "string", "string", "array", "array", "map", "map",
            "array", "map", "array", "map", "array">>
MCChildren == <<<<>>, <<>>, <<>>, <<>>, <<>>, <<1, 3>>, <<>>, <<3, 2, 4, 6>>,
                <<8, 5, 7>>, <<4, 9, 1, 2>>,
                <<1, 1, 1, 1>>, <<3, 1, 4, 1, 3, 2, 4, 2>>, <<2, 11, 1>>>>
MCSize == <<5, 6, 0, 7, 0, 0, 0, 0, 0, 0, 0, 0, 0>>

\* The external term format: the term of a value, and those of several.
RECURSIVE TermOf(_), TermsOf(_)
TermOf(n) ==
  CASE Kind[n] \in {"scalar", "uint"} -> <<Part("term", n)>>
    [] Kind[n] = "string" -> <<Part("header", n), Part("body", n)>>
    [] Kind[n] = "map" -> <<Part("header", n)>> \o TermsOf(Children[n])
    [] Kind[n] = "array" ->
         (IF Children[n] = <<>> THEN <<>> ELSE <<Part("header", n)>> \o TermsOf(Children[n]))
           \o <<Part("tail", n)>>
TermsOf(s) == IF s = <<>> THEN <<>> ELSE TermOf(Head(s)) \o TermsOf(Tail(s))

RECURSIVE DepthOf(_)
DepthOf(n) ==
  IF Children[n] = <<>> THEN 0
  ELSE 1 + (CHOOSE d \in Node \cup {0} :
              /\ \E i \in DOMAIN Children[n] : d = DepthOf(Children[n][i])
              /\ \A i \in DOMAIN Children[n] : d >= DepthOf(Children[n][i]))

RECURSIVE WithinOf(_)
WithinOf(n) == {n} \cup UNION {WithinOf(Children[n][i]) : i \in DOMAIN Children[n]}

MCTerm == [n \in Node |-> TermOf(n)]
MCTerms ==
  [n \in Node |-> [i \in 1..(Len(Children[n]) + 1) |->
                     TermsOf(SubSeq(Children[n], i, Len(Children[n])))]]
MCDepth == [n \in Node |-> DepthOf(n)]
MCWithin == [n \in Node |-> WithinOf(n)]
=============================================================================
