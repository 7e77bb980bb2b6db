--------------------------- MODULE MCSessionStream ---------------------------
(***************************************************************************)
(* The messages of the run of SessionStream: for every kind valid values   *)
(* at and within its limits, and values its encoder must refuse.           *)
(***************************************************************************)
EXTENDS SessionStream

Plain(type) == [type |-> type]

\* ---- What clients write.

Key == [type |-> "Key", action |-> "Press", key |-> 175, modifiers |-> 66, consumed |-> 64,
        composing |-> FALSE, text |-> <<>>, codepoint |-> <<>>]

Keys == {[Key EXCEPT !.modifiers = 2, !.consumed = 2, !.action = "Repeat"],
         [Key EXCEPT !.modifiers = 65, !.consumed = 65, !.text = <<<<>>>>],
         [Key EXCEPT !.modifiers = 1, !.consumed = 2],                   \* not active
         [Key EXCEPT !.consumed = 0],                                    \* a side alone
         [Key EXCEPT !.modifiers = 16, !.consumed = 0, !.text = <<<<97, 98>>>>, !.codepoint = <<97>>],
         [Key EXCEPT !.modifiers = 0, !.consumed = 0, !.text = <<<<9>>>>],           \* control
         [Key EXCEPT !.modifiers = 0, !.consumed = 0, !.text = <<<<97, 97, 97>>>>],
         [Key EXCEPT !.modifiers = 0, !.consumed = 0, !.text = <<PrivateUse>>],
         [Key EXCEPT !.modifiers = 0, !.consumed = 0, !.text = <<<<97, 97, 97, 97>>>>]}  \* too long

Mouse == [type |-> "Mouse", action |-> "Motion", button |-> <<>>, modifiers |-> 0,
          x |-> NegativeZero, y |-> MaxCoordinate]

Mice == {Mouse,
         [Mouse EXCEPT !.action = "Press"],                              \* no button
         [Mouse EXCEPT !.button = <<"Four">>],                           \* a wheel that moves
         [Mouse EXCEPT !.button = <<"Four">>, !.action = "Press", !.x = 0],
         [Mouse EXCEPT !.x = MaxCoordinate + 1]}

Surface == [type |-> "Resize", cols |-> 3, rows |-> 1, screenWidth |-> 7, screenHeight |-> 5,
            cellWidth |-> 2, cellHeight |-> 4, top |-> 1, bottom |-> 0, left |-> 0, right |-> 1]

Surfaces == {Surface,
             [Surface EXCEPT !.left = 1],                                \* too wide
             [Surface EXCEPT !.cellWidth = MaxU32],                      \* overflows
             [Surface EXCEPT !.rows = 2],                                \* too many cells
             [Surface EXCEPT !.bottom = MaxU32]}

Select(p) == [type |-> "Selection", phase |-> p]
Point(p) == [type |-> "Selection", phase |-> p, x |-> 5, y |-> 0]
Gesture(p) == [modifiers |-> 0] @@ Point(p)

Selections == {Select("Copy"), Select("Cancel"), Point("AutoscrollUp"), Gesture("Update"),
               [Gesture("Finish") EXCEPT !.x = MaxCoordinate + 1],
               [revision |-> 2, time |-> 300] @@ Gesture("Begin")}

Vertical(rows) == [type |-> "ScrollVertical", revision |-> 1, rows |-> rows]

FromClient ==
  {Plain("ReturnToLive"), Plain("Hello"), [type |-> "Focus", event |-> "Lost"],
   [type |-> "Paste", data |-> <<>>], [type |-> "Paste", data |-> <<0, 255>>],
   [type |-> "Paste", data |-> <<0, 0, 0>>],                             \* too long
   [type |-> "PreviewVertical", revision |-> 1, direction |-> "Down"],
   Vertical(-MaxScrollRows), Vertical(MaxScrollRows + 1), Vertical(0)}
  \union Keys \union Mice \union Surfaces \union Selections

FromPeer == {Plain("Hello"), Plain("ObserveMetadata"), [type |-> "Focus", event |-> "Gained"]}

\* ---- What the owner writes.

Style0 == [foreground |-> [kind |-> "None"], background |-> [kind |-> "None"],
           underlineColour |-> [kind |-> "None"], attributes |-> {}, underline |-> "None"]

Styled == [Style0 EXCEPT !.foreground = [kind |-> "Palette", index |-> 0],
                         !.background = [kind |-> "Rgb", rgb |-> <<0, 0, 0>>],
                         !.attributes = {0, 9}, !.underline = "Dashed"]

Cell(width) == [width |-> width, style |-> Style0, text |-> <<>>, link |-> <<>>]

Line(cells) == [flags |-> {}, cells |-> cells]

Frame == [revision |-> 1, cols |-> 1, count |-> 1, screen |-> "Primary",
          title |-> <<>>, cwd |-> <<>>, hyperlinks |-> TRUE, kitty |-> FALSE,
          background |-> <<0, 0, 0>>, foreground |-> <<1, 2, 3>>, colour |-> <<>>,
          palette |-> [i \in 1..PaletteLen |-> <<0, 0, 0>>],
          visible |-> TRUE, blinking |-> FALSE, password |-> FALSE, shape |-> "Bar",
          viewport |-> <<>>, fromLive |-> 0, history |-> 0,
          lines |-> <<Line(<<Cell("Narrow")>>)>>]

Wide == [Frame EXCEPT !.cols = 2, !.colour = <<<<4, 5, 6>>>>, !.shape = "BlockHollow",
                      !.viewport = <<[x |-> 1, y |-> 0, tail |-> TRUE]>>,
                      !.lines = <<Line(<<[Cell("Wide") EXCEPT !.style = Styled, !.text = <<97>>],
                                         Cell("SpacerTail")>>)>>]

Tall == [Frame EXCEPT !.revision = 2, !.count = 2, !.fromLive = 1, !.history = 1,
                      !.lines = <<[Line(<<Cell("Narrow")>>) EXCEPT !.flags = {0, 2}],
                                  [Line(<<Cell("Narrow")>>) EXCEPT !.flags = {1}]>>]

\* The longest title that leaves the frame within its bound.
Titled(n) == [Frame EXCEPT !.title = [i \in 1..n |-> 97]]

Frames == {Frame, Wide, Tall, Titled(MaxFrameBytes - MinFrameBytes),
           Titled(MaxFrameBytes - MinFrameBytes + 1),
           [Frame EXCEPT !.fromLive = 1],
           [Frame EXCEPT !.screen = "Alternate", !.history = 1],
           [Frame EXCEPT !.count = 2],
           [Frame EXCEPT !.kitty = TRUE],
           [Frame EXCEPT !.viewport = <<[x |-> 1, y |-> 0, tail |-> FALSE]>>],
           [Frame EXCEPT !.lines = <<Line(<<Cell("Wide")>>)>>],
           [Wide EXCEPT !.lines = <<[Line(<<Cell("Narrow"), Cell("SpacerHead")>>)
                                       EXCEPT !.flags = {Wrapped}]>>],
           [Wide EXCEPT !.lines = <<Line(<<Cell("Narrow"), Cell("SpacerHead")>>)>>]}

Showing1(frame) == [type |-> "Frame", frame |-> frame]

Window(edge, rows) == [kind |-> "Viewport", cols |-> 1, edge |-> edge, rows |-> rows]

\* The longest text that leaves a row alone within the bound, and one byte more.
Full(more) ==
  LET cell == Cell("Narrow")
      rest == MaxFrameBytes - SizeOfRows(0, <<Line(<<cell>>)>>)
  IN  Line(<<[cell EXCEPT !.text = [i \in 1..(rest + more) |-> 97]]>>)

Windows == {Window(FALSE, <<Full(0)>>), Window(FALSE, <<Full(1)>>),
            Window(TRUE, <<>>), Window(FALSE, <<>>), Window(FALSE, <<Line(<<Cell("Narrow")>>)>>),
            [Window(TRUE, <<>>) EXCEPT !.cols = 0],
            [Window(TRUE, <<Line(<<Cell("Wide"), Cell("SpacerTail")>>)>>) EXCEPT !.cols = 2],
            Window(TRUE, [i \in 1..(MaxCells + 1) |-> Line(<<Cell("Narrow")>>)])}

Preview(outcome) == [type |-> "VerticalPreview", revision |-> 1, direction |-> "Up",
                     outcome |-> outcome]

Scroll(requested, applied, next) ==
  [type |-> "ScrollViewport", requested |-> requested, applied |-> applied,
   frame |-> [Frame EXCEPT !.revision = 2], next |-> next]

\* Its payload is MaxPayloadBytes long.
LongestScroll == [Scroll(1, 1, Window(FALSE, <<Full(0)>>)) EXCEPT
                    !.frame = Titled(MaxFrameBytes - MinFrameBytes)]

Text(type, text) == [type |-> type, location |-> "Primary", text |-> text]

Meta(title, cwd) == [type |-> "Metadata", revision |-> 1, title |-> title, cwd |-> cwd]

Told(detail) == [type |-> "Failure", code |-> "Terminal", detail |-> detail]

FromOwner ==
  {Showing1(f) : f \in Frames}
  \union {[type |-> "WheelViewport", applied |-> n, frame |-> Frame] : n \in {-1, 1, 2}}
  \union {Preview(w) : w \in Windows} \union {Preview([kind |-> "TerminalRouted"])}
  \union {Scroll(-1, -1, Window(TRUE, <<>>)), Scroll(-1, 1, Window(TRUE, <<>>)),
          Scroll(1, 2, Window(TRUE, <<>>)), LongestScroll,
          Scroll(1, 1, [kind |-> "TerminalRouted"]),
          Scroll(1, 0, Window(FALSE, <<Line(<<Cell("Narrow")>>)>>))}
  \union {Text("CopiedText", <<>>), Text("CopiedText", <<0, 98>>), Text("ClipboardWrite", <<97>>),
          Text("ClipboardWrite", <<>>), Text("ClipboardWrite", <<0>>),
          Text("ClipboardWrite", <<97, 97, 97>>)}
  \union {Meta(<<>>, <<97>>), Meta(<<97>>, <<97>>)}
  \union {Told(<<97>>), Told(<<97, 97>>), Told(<<97, 97, 97>>)}
  \union {Plain("Attached"), [type |-> "Exited", code |-> 1],
          [type |-> "SelectionFinished", revision |-> 2],
          [type |-> "ScrollTerminalOwned", requested |-> -1],
          [type |-> "ScrollTerminalOwned", requested |-> 0]}

Later == {Showing1(Frame), Showing1([Frame EXCEPT !.revision = 2, !.blinking = TRUE])}
=============================================================================
