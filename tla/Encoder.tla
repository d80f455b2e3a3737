------------------------------- MODULE Encoder -------------------------------
(***************************************************************************)
(* etf::Encoder of include/etf/encoder.h and the buffer it writes to, of    *)
(* include/etf/encode_func.h: pack() walks a value recursively, and any of  *)
(* its writes may have to grow the buffer and fail.                         *)
(*                                                                         *)
(* A value is a node with a kind, children and a size; what is written is a *)
(* sequence of parts, each with its length.  The bytes of a part are left   *)
(* out.                                                                    *)
(***************************************************************************)
EXTENDS Integers, Sequences

CONSTANTS
  Node,          \* values
  Kind,          \* "scalar", "uint", "string", "array" or "map"
  Children,      \* the elements of an array; the keys and values of a map, in turn
  Size,          \* the bytes a scalar or a uint takes, and the length of a string
  RecurseLimit,  \* DEFAULT_RECURSE_LIMIT
  MaxCount,      \* the elements of an array, or entries of a map, that a header can say
  InitialSize,   \* INITIAL_BUFFER_SIZE
  SizeRange      \* 2^w: a size_t has w bits

Kinds == {"scalar", "uint", "string", "array", "map"}

ASSUME ValuesAssumption ==
  /\ Kind \in [Node -> Kinds]
  /\ Children \in [Node -> Seq(Node)]
  /\ Size \in [Node -> Nat]
  /\ \A n \in Node : Kind[n] \notin {"array", "map"} => Children[n] = <<>>
ASSUME SizesAssumption ==
  /\ RecurseLimit \in Nat /\ MaxCount \in Nat
  /\ InitialSize \in Nat \ {0} /\ SizeRange \in Nat
  /\ 2 * InitialSize < SizeRange

VARIABLES
  root,       \* the value given to pack()
  calls,      \* the calls of pack() in progress, innermost first
  returning,  \* whether a call has just returned to the top of calls
  ret,        \* Encoder::ret
  thrown,     \* whether pack() threw
  length, allocated,   \* of Encoder::pk
  written     \* the parts written so far, for the bytes in the buffer

bufferVars == <<length, allocated, written>>
vars == <<root, calls, returning, ret, thrown, bufferVars>>

\* What pack() does for a value, in order: it writes parts and packs children.
Step == [what : {"version", "term", "header", "body", "tail", "child"}, of : Node]
Part(w, n) == [what |-> w, of |-> n]
Elements(n) == [i \in DOMAIN Children[n] |-> Part("child", Children[n][i])]
Before(n) ==
  CASE Kind[n] \in {"scalar", "uint"} -> <<Part("term", n)>>
    [] Kind[n] = "string" -> <<Part("header", n), Part("body", n)>>
    [] Kind[n] = "array" -> IF Children[n] = <<>> THEN <<>> ELSE <<Part("header", n)>>
    [] Kind[n] = "map" -> <<Part("header", n)>>
After(n) == IF Kind[n] = "array" THEN <<Part("tail", n)>> ELSE <<>>
Steps(n) == Before(n) \o Elements(n) \o After(n)

\* How long a part may be.  For a uint pack() tests the sint of the same value,
\* which was never set: it may take it for one of the integers of two bytes.
Lengths(p) ==
  CASE p.what = "version" -> {1}
    [] p.what = "term" -> IF Kind[p.of] = "uint" THEN {2, Size[p.of]} ELSE {Size[p.of]}
    [] p.what = "header" -> {5}
    [] p.what = "body" -> {Size[p.of]}
    [] p.what = "tail" -> {1}
    [] OTHER -> {0}

Frame == [node : Node, next : Nat \ {0}, limit : Int]

TypeOK ==
  /\ root \in Node
  /\ calls \in Seq(Frame)
  /\ returning \in BOOLEAN /\ thrown \in BOOLEAN
  /\ ret \in {0, -1}
  /\ length \in Nat /\ allocated \in 0..(SizeRange - 1)
  /\ written \in Seq(Step)

\* Mutation: <= instead of <
TooDeepEarly(limit) == limit <= 0

TooDeep(limit) == limit < 0

\* A value of which the number of elements or entries does not fit in the header.
TooLarge(n) ==
  CASE Kind[n] = "array" -> Len(Children[n]) > MaxCount
    [] Kind[n] = "map" -> Len(Children[n]) > 2 * MaxCount
    [] OTHER -> FALSE

\* pack() throws before it writes anything of the value.
Throws(n, limit) == TooDeep(limit) \/ TooLarge(n)

\* The Encoder is constructed, which writes the version, and pack() is called.
Init ==
  /\ root \in Node
  /\ thrown = Throws(root, RecurseLimit)
  /\ calls = IF thrown THEN <<>>
             ELSE <<[node |-> root, next |-> 1, limit |-> RecurseLimit]>>
  /\ returning = FALSE
  /\ ret = 0
  /\ length = 1 /\ allocated = InitialSize
  /\ written = <<Part("version", root)>>

----------------------------------------------------------------------------
(* erlpack_buffer_write().                                                 *)

Grows(l) == length + l > allocated

\* Mutation: the buffer grows by what it held.
GrownTwice(l) == (2 * length) % SizeRange

\* Mutation: it is computed in a wider type.
GrownWide(l) == 2 * (length + l)

\* Twice what is needed, in a size_t.
Grown(l) == (2 * (length + l)) % SizeRange

\* realloc() succeeds if it is needed.  The bytes and the buffer lie in one
\* address space.
WriteSucceeds(p, l) ==
  /\ length + l < SizeRange
  /\ allocated' = IF Grows(l) THEN Grown(l) ELSE allocated
  /\ length' = length + l
  /\ written' = Append(written, p)
  /\ ret' = 0

\* It does not: the old buffer stays as it is.
WriteFails(l) ==
  /\ Grows(l)
  /\ ret' = -1
  /\ UNCHANGED bufferVars

----------------------------------------------------------------------------
(* pack().                                                                 *)

Top == Head(calls)
IsLast == Top.next = Len(Steps(Top.node))

\* Mutation: ret is not looked at before the next step.
ContinuesAnyway ==
  IF IsLast
  THEN calls' = Tail(calls) /\ returning' = TRUE
  ELSE calls' = <<[Top EXCEPT !.next = @ + 1]>> \o Tail(calls) /\ returning' = FALSE

\* After a step that left ret as it is now: return it, or take the next step.
Continues ==
  IF ret' # 0 \/ IsLast
  THEN calls' = Tail(calls) /\ returning' = TRUE
  ELSE calls' = <<[Top EXCEPT !.next = @ + 1]>> \o Tail(calls) /\ returning' = FALSE

\* The next step writes a part.
Write ==
  /\ calls # <<>> /\ ~returning
  /\ LET p == Steps(Top.node)[Top.next]
     IN  /\ p.what # "child"
         /\ \E l \in Lengths(p) : WriteSucceeds(p, l) \/ WriteFails(l)
  /\ Continues
  /\ UNCHANGED <<root, thrown>>

\* The next step packs a child.
Call ==
  /\ calls # <<>> /\ ~returning
  /\ LET p == Steps(Top.node)[Top.next]
     IN  /\ p.what = "child"
         /\ \/ /\ ~Throws(p.of, Top.limit - 1)
               /\ calls' = <<[node |-> p.of, next |-> 1, limit |-> Top.limit - 1]>> \o calls
               /\ UNCHANGED thrown
            \/ /\ Throws(p.of, Top.limit - 1)
               /\ calls' = <<>>
               /\ thrown' = TRUE
  /\ ret' = 0
  /\ UNCHANGED <<root, returning, bufferVars>>

\* A child's call has returned: ret = pack(...)
AfterCall ==
  /\ calls # <<>> /\ returning
  /\ ret' = ret
  /\ Continues
  /\ UNCHANGED <<root, thrown, bufferVars>>

Next == Write \/ Call \/ AfterCall

Spec == Init /\ [][Next]_vars
----------------------------------------------------------------------------
(* Properties.                                                             *)

\* What was written fits in what was allocated, so no memcpy() passes the end,
\* as long as twice its length is a size_t.
Fits == 2 * length < SizeRange => length <= allocated

CONSTANTS
  Term,    \* what a value is in the external term format
  Terms,   \* what its children are, from each of them on
  Depth,   \* how deep it is nested
  Within   \* it, and the values it has inside of it

\* The format, by the kind of a value.  A value has its children inside of it, so that
\* what it is follows from what they are.
ASSUME FormatAssumption ==
  \A n \in Node :
    /\ Terms[n] \in [1..(Len(Children[n]) + 1) -> Seq(Step)]
    /\ Terms[n][Len(Children[n]) + 1] = <<>>
    /\ \A i \in DOMAIN Children[n] : Terms[n][i] = Term[Children[n][i]] \o Terms[n][i + 1]
    /\ Kind[n] \in {"scalar", "uint"} => Term[n] = <<Part("term", n)>>
    /\ Kind[n] = "string" => Term[n] = <<Part("header", n), Part("body", n)>>
    /\ Kind[n] = "map" => Term[n] = <<Part("header", n)>> \o Terms[n][1]
    /\ Kind[n] = "array" =>
         Term[n] = IF Children[n] = <<>> THEN <<Part("tail", n)>>
                   ELSE <<Part("header", n)>> \o Terms[n][1] \o <<Part("tail", n)>>
ASSUME DepthAssumption ==
  \A n \in Node :
    /\ Depth[n] \in Nat
    /\ \A i \in DOMAIN Children[n] : Depth[n] > Depth[Children[n][i]]
    /\ Depth[n] # 0 => \E i \in DOMAIN Children[n] : Depth[n] = Depth[Children[n][i]] + 1
ASSUME WithinAssumption ==
  \A n \in Node : Within[n] = {n} \cup UNION {Within[Children[n][i]] : i \in DOMAIN Children[n]}

Encoding == <<Part("version", root)>> \o Term[root]

\* Whatever write fails, and however deep in the value, the buffer holds the
\* beginning of the encoding: nothing is written after a part that is missing.
HoldsPrefix == written = SubSeq(Encoding, 1, Len(written))

\* pack() returns 0 exactly if the whole value was written, so that an error below is never
\* lost on the way up, and throws only if the value is nested deeper than the limit or one
\* in it has more elements or entries than a header can say.
ResultTells ==
  calls = <<>> =>
    /\ thrown => Depth[root] > RecurseLimit \/ \E n \in Within[root] : TooLarge(n)
    /\ ~thrown => (ret = 0 <=> written = Encoding)
=============================================================================
