----------------------------- MODULE MCViewport -----------------------------
(***************************************************************************)
(* Rows of one cell for a frame bound that admits two small rows, or a     *)
(* small and a large one, but not two large ones, and no huge one.         *)
(***************************************************************************)
EXTENDS Viewport

None == [kind |-> "None"]

Line(tag, background, content, text) ==
  [flags |-> {}, cells |-> <<[width |-> "Narrow", tag |-> tag, background |-> background,
                              content |-> content, text |-> text, link |-> <<>>]>>]

Text(n) == [i \in 1..n |-> 97]

Empty == Line("Codepoint", None, None, <<>>)
Painted == Line("Codepoint", [kind |-> "Palette", index |-> 0], None, <<98>>)
Filled == Line("BgColorPalette", None, [kind |-> "Palette", index |-> 0], <<>>)
Large == Line("Codepoint", None, None, Text(21))
Huge == Line("Codepoint", None, None, Text(46))

Printed == {<<Painted>>, <<Large>>, <<Huge>>, <<Filled, Painted>>, <<Large, Filled>>}

TwoPalettes == {<<<<1, 1, 1>>>>, <<<<2, 2, 2>>>>}
=============================================================================
