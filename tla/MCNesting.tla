------------------------------- MODULE MCNesting -------------------------------
(* Lines of C++ for Nesting.                                               *)
EXTENDS Nesting

MCNames == {"", "a"}

Blank ==
  [directive |-> "none", parens |-> 0, asm |-> FALSE, namespaces |-> <<>>,
   class |-> "none", name |-> "", argument |-> FALSE, access |-> "none",
   tokens |-> <<>>, comment |-> "none", disallow |-> FALSE, indented |-> FALSE,
   macro |-> FALSE, forward |-> FALSE]
Space(n, o) == [name |-> n, opens |-> o]

MCLines == {
  \* #if A
  [Blank EXCEPT !.directive = "if"],
  \* #else
  [Blank EXCEPT !.directive = "else"],
  \* #endif
  [Blank EXCEPT !.directive = "endif"],
  \* namespace a { namespace {
  [Blank EXCEPT !.namespaces = <<Space("a", TRUE), Space("", TRUE)>>],
  \* namespace a
  [Blank EXCEPT !.namespaces = <<Space("a", FALSE)>>],
  \* {
  [Blank EXCEPT !.tokens = <<"{">>],
  \* }
  [Blank EXCEPT !.tokens = <<"}">>],
  \* }  // namespace a
  [Blank EXCEPT !.tokens = <<"}">>, !.comment = "a"],
  \*   class a
  [Blank EXCEPT !.class = "class", !.name = "a", !.indented = TRUE],
  \* struct a { protected:
  [Blank EXCEPT !.class = "struct", !.name = "a", !.access = "protected", !.tokens = <<"{">>],
  \*   class a;
  [Blank EXCEPT !.class = "class", !.name = "a", !.indented = TRUE, !.forward = TRUE,
                !.tokens = <<";">>],
  \* f(struct a x,
  [Blank EXCEPT !.parens = 1],
  \* struct a x) {
  [Blank EXCEPT !.class = "struct", !.name = "a", !.parens = -1, !.tokens = <<")", "{">>],
  \* asm (
  [Blank EXCEPT !.parens = 1, !.asm = TRUE],
  \* DISALLOW_COPY_AND_ASSIGN(a);
  [Blank EXCEPT !.disallow = TRUE, !.tokens = <<")", ";">>]
}
=============================================================================
