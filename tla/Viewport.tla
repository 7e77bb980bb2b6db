------------------------------ MODULE Viewport ------------------------------
(***************************************************************************)
(* What a client sees of the terminal's history: the frames of the         *)
(* viewport, the previews of the rows next to it and the answers to its    *)
(* scrolling (src/presentation.rs, the vertical handlers of                *)
(* src/interaction.rs), as values of the codec with their sizes.           *)
(*                                                                         *)
(* Here every message arrives at once: queueing is module OutputQueue,     *)
(* deferral under held output and the order of the turns is module         *)
(* Session.  What libghostty keeps and how it scrolls is external.         *)
(***************************************************************************)
EXTENDS SessionCodec

CONSTANTS
  Outputs,       \* what one read of the child's output may print: sequences of rows
  Blank,         \* a row nothing was printed to
  Palettes,      \* the palettes it may set
  ViewRows,      \* the rows of the viewport
  MaxLines,      \* the retained rows with the viewport: libghostty prunes older ones
  MaxRevision    \* bound: revisions of a behaviour

\* A line has the flags of a row and its cells.  A cell has its width, its text and
\* link, the colour of its style's background and what its content is: a tag
\* and, for one that is only a background, its colour.
ASSUME ViewportAssumption ==
  /\ ViewRows \in Nat \ {0} /\ MaxLines \in Nat /\ MaxLines >= ViewRows
  /\ Palettes # {} /\ \A p \in Palettes : Len(p) = PaletteLen
  /\ MaxRevision \in Nat

VARIABLES
  lines,      \* the rows of the primary screen, oldest first
  offset,     \* the row at the top of its viewport
  alternate,  \* the alternate screen is active, which has no history
  mouse,      \* the terminal takes the wheel
  palette,
  revision,   \* Presentation.revision
  client,     \* the frame shown to the client, the scroll it answered and the window next to it
  owner       \* "serving", or the error that run has ended with

terminal == <<lines, offset, alternate, mouse, palette>>
vars == <<terminal, revision, client, owner>>

NoClient == <<>>
NoWindow == [type |-> "None"]

Smaller(a, b) == IF a < b THEN a ELSE b
Larger(a, b) == IF a < b THEN b ELSE a

\* Terminal::scrollbar: all rows, and the first of the viewport.
Total == IF alternate THEN ViewRows ELSE Len(lines)
Offset == IF alternate THEN 0 ELSE offset

\* The row at a coordinate of the active screen; nothing is printed to the alternate one.
At(y) == IF alternate THEN Blank ELSE lines[y + 1]

-----------------------------------------------------------------------------
(***************************************************************************)
(* Extraction.                                                             *)
(***************************************************************************)
Coloured(colour) ==
  IF colour.kind = "Palette" THEN [kind |-> "Rgb", rgb |-> palette[colour.index + 1]] ELSE colour

\* The render state resolves the background of a cell, if it has one.
BgColor(cell) ==
  LET colour == IF cell.tag = "Codepoint" THEN cell.background ELSE cell.content
  IN  IF colour.kind = "None" THEN <<>> ELSE <<Coloured(colour)>>

\* A cell's style, without its other colours and its attributes, which frame and
\* row take over alike.
CellStyle(background) ==
  [foreground |-> [kind |-> "None"], background |-> background,
   underlineColour |-> [kind |-> "None"], attributes |-> {}, underline |-> "None"]

ProtocolCell(cell, background) ==
  [width |-> cell.width, style |-> CellStyle(background), text |-> cell.text, link |-> cell.link]

\* In Extractor::frame the render state's background overrides the style's.
FrameBackground(cell) ==
  IF BgColor(cell) = <<>> THEN cell.background ELSE BgColor(cell)[1]

FrameRow(line) ==
  [line EXCEPT !.cells = [x \in 1..Len(@) |-> ProtocolCell(@[x], FrameBackground(@[x]))]]

\* Extractor::row resolves it by itself.  Mutant: a palette colour stays one.
RowBackgroundUnresolved(cell) ==
  CASE cell.tag = "BgColorPalette" -> Coloured(cell.content)
    [] cell.tag = "BgColorRgb" -> cell.content
    [] cell.tag = "Codepoint" -> cell.background

RowBackground(cell) ==
  CASE cell.tag = "BgColorPalette" -> Coloured(cell.content)
    [] cell.tag = "BgColorRgb" -> cell.content
    [] cell.tag = "Codepoint" -> Coloured(cell.background)

WindowRow(line) ==
  [line EXCEPT !.cells = [x \in 1..Len(@) |-> ProtocolCell(@[x], RowBackground(@[x]))]]

Cols == Len(Blank.cells)

\* Extractor::frame, which counts every row and cell against the bound.
Extracted ==
  LET rows == [y \in 1..ViewRows |-> FrameRow(At(Offset + y - 1))]
      frame == [revision |-> revision, cols |-> Cols, count |-> ViewRows,
                screen |-> IF alternate THEN "Alternate" ELSE "Primary",
                title |-> <<>>, cwd |-> <<>>, hyperlinks |-> TRUE, kitty |-> FALSE,
                background |-> <<0, 0, 0>>, foreground |-> <<0, 0, 0>>, colour |-> <<>>,
                palette |-> palette, visible |-> TRUE, blinking |-> FALSE, password |-> FALSE,
                shape |-> "Block", viewport |-> <<>>,
                fromLive |-> Total - ViewRows - Offset, history |-> Total - ViewRows,
                lines |-> rows]
  IN  Checked(frame, Cols * ViewRows <= MaxCells /\ FrameSize(frame) <= MaxFrameBytes)

WindowStart == SizeStart(<<>>, <<>>, FALSE, FALSE)

\* Extractor::row, which counts the row alone.
RowAt(y) ==
  LET row == WindowRow(At(y))
  IN  Checked(row, SizeOfRows(WindowStart, <<row>>) <= MaxFrameBytes)

\* The rows next to the viewport, nearest first, as many as it has.
Targets(direction) ==
  LET below == Offset + ViewRows
      beyond == IF direction = "Up" THEN Offset ELSE Total - below
  IN  [i \in 1..Smaller(ViewRows, beyond) |->
         IF direction = "Up" THEN Offset - i ELSE below + i - 1]

\* The last row is known to be within the window.  Its mutants know the rows next to the
\* viewport only: a full window reaches the edge, or none does that ends at it.
EdgeReachedAlways(direction) == TRUE

EdgeReachedBefore(direction) ==
  IF direction = "Up" THEN Offset < ViewRows ELSE Offset + ViewRows + ViewRows > Total

EdgeReached(direction) ==
  IF direction = "Up" THEN Offset <= ViewRows ELSE Offset + ViewRows + ViewRows >= Total

\* Mutant of ViewportPreview: a window that was cut short reaches the edge all the same.
ViewportPreviewUncut(direction) ==
  LET targets == Targets(direction)
      Rows(k) == [i \in 1..k |-> RowAt(targets[i])]
      Fits(k) == SizeOfRows(WindowStart, Rows(k)) <= MaxFrameBytes
      kept == CHOOSE k \in 0..Len(targets) :
                /\ \A j \in 1..k : RowAt(targets[j]) # Bad /\ Fits(j)
                /\ k < Len(targets) => RowAt(targets[k + 1]) = Bad \/ ~Fits(k + 1)
      outcome == [kind |-> "Viewport", cols |-> Cols, edge |-> EdgeReached(direction),
                  rows |-> Rows(kept)]
  IN  Checked(outcome, kept = Len(targets) \/ RowAt(targets[kept + 1]) # Bad)

\* viewport_preview: rows are kept until one does not fit; one that cannot be
\* extracted is an error.
ViewportPreview(direction) ==
  LET targets == Targets(direction)
      Rows(k) == [i \in 1..k |-> RowAt(targets[i])]
      Fits(k) == SizeOfRows(WindowStart, Rows(k)) <= MaxFrameBytes
      kept == CHOOSE k \in 0..Len(targets) :
                /\ \A j \in 1..k : RowAt(targets[j]) # Bad /\ Fits(j)
                /\ k < Len(targets) => RowAt(targets[k + 1]) = Bad \/ ~Fits(k + 1)
      outcome == [kind |-> "Viewport", cols |-> Cols, rows |-> Rows(kept),
                  edge |-> EdgeReached(direction) /\ kept = Len(targets)]
  IN  Checked(outcome, kept = Len(targets) \/ RowAt(targets[kept + 1]) # Bad)

-----------------------------------------------------------------------------
(***************************************************************************)
(* The client takes what the codec makes of a message.  One that cannot be *)
(* encoded ends run with its error, and the client with it.                *)
(***************************************************************************)
NoOne == client' = NoClient /\ UNCHANGED owner

Ends(error) == owner' = error /\ client' = NoClient

\* What the client is left with when it takes a message.
Taken(m) ==
  CASE m.type \in {"Frame", "ScrollViewport"} ->
         LET shown == Push(IF client = NoClient THEN <<>> ELSE client.shown, m.frame)
         IN  [shown |-> shown,
              answered |-> IF m.type = "Frame" THEN 0 ELSE m.requested,
              window |->
                IF m.type = "Frame" THEN NoWindow
                ELSE [type |-> "VerticalPreview", revision |-> m.frame.revision,
                      direction |-> IF m.requested < 0 THEN "Up" ELSE "Down", outcome |-> m.next]]
    [] m.type = "VerticalPreview" -> [client EXCEPT !.window = m]
    [] m.type = "ScrollTerminalOwned" -> client

Deliver(message) ==
  \E bytes \in {EncodeServer(message)} :
    \/ /\ bytes = Bad
       /\ Ends("unencodable")
    \/ /\ bytes # Bad
       /\ \E m \in {DecodeServer(bytes)} : client' = Taken(m)
       /\ UNCHANGED owner

\* Mutant: a client whose frame cannot be extracted stays connected.
PublishKeeping ==
  \E frame \in {Extracted'} :
    IF frame = Bad THEN UNCHANGED <<client, owner>>
    ELSE Deliver([type |-> "Frame", frame |-> frame])

\* Presentation.publish of the terminal as it is now, to a client that is there.
Publish ==
  \E frame \in {Extracted'} :
    IF frame = Bad THEN NoOne ELSE Deliver([type |-> "Frame", frame |-> frame])

PublishTo == IF client = NoClient THEN NoOne ELSE Publish

\* Presentation.publish_change
PublishChange ==
  /\ revision < MaxRevision
  /\ revision' = revision + 1
  /\ PublishTo

-----------------------------------------------------------------------------
(***************************************************************************)
(* The child.                                                              *)
(***************************************************************************)
\* The rows of one read are printed and the oldest ones pruned; the viewport follows the
\* bottom when it was there, and otherwise stays with its rows.
Output(printed) ==
  LET all == lines \o printed
      pruned == Larger(Len(all) - MaxLines, 0)
      live == offset = Len(lines) - ViewRows
  IN  /\ owner = "serving"
      /\ ~alternate
      /\ lines' = SubSeq(all, pruned + 1, Len(all))
      /\ offset' = IF live THEN Len(lines') - ViewRows ELSE Larger(offset - pruned, 0)
      /\ UNCHANGED <<alternate, mouse, palette>>
      /\ PublishChange

SetPalette(colours) ==
  /\ owner = "serving"
  /\ palette # colours
  /\ palette' = colours
  /\ UNCHANGED <<lines, offset, alternate, mouse>>
  /\ PublishChange

SwitchScreen ==
  /\ owner = "serving"
  /\ alternate' = ~alternate
  /\ UNCHANGED <<lines, offset, mouse, palette>>
  /\ PublishChange

SetMouse ==
  /\ owner = "serving"
  /\ mouse' = ~mouse
  /\ UNCHANGED <<lines, offset, alternate, palette>>
  /\ PublishChange

-----------------------------------------------------------------------------
(***************************************************************************)
(* The client.  A failure is told and closes it.                           *)
(***************************************************************************)
Attach ==
  /\ owner = "serving"
  /\ client = NoClient
  /\ UNCHANGED <<terminal, revision>>
  /\ Publish

Asked(of) == owner = "serving" /\ client # NoClient /\ of \in {revision, revision + 1}

\* handle_vertical_preview
PreviewVertical(of, direction) ==
  /\ Asked(of)
  /\ UNCHANGED <<terminal, revision>>
  /\ \E outcome \in {IF mouse THEN [kind |-> "TerminalRouted"] ELSE ViewportPreview(direction)} :
         IF of > revision \/ outcome = Bad THEN NoOne
         ELSE Deliver([type |-> "VerticalPreview", revision |-> revision,
                       direction |-> direction, outcome |-> outcome])

\* The offset libghostty scrolls to.
Reached(rows) == Smaller(Larger(Offset + rows, 0), Total - ViewRows)

\* handle_vertical_scroll, once the terminal has not taken it
ScrollViewport(rows) ==
  LET applied == Reached(rows) - Offset
      direction == IF rows < 0 THEN "Up" ELSE "Down"
  IN  /\ revision < MaxRevision
      /\ revision' = revision + 1
      /\ offset' = IF alternate THEN offset ELSE Reached(rows)
      /\ UNCHANGED <<lines, alternate, mouse, palette>>
      /\ \E frame \in {Extracted'}, next \in {ViewportPreview(direction)'} :
           IF frame = Bad \/ next = Bad THEN Ends("unextractable")
           ELSE Deliver([type |-> "ScrollViewport", requested |-> rows, applied |-> applied,
                         frame |-> frame, next |-> next])

ScrollVertical(of, rows) ==
  /\ Asked(of)
  /\ \/ /\ of > revision
        /\ NoOne
        /\ UNCHANGED <<terminal, revision>>
     \/ /\ of <= revision /\ mouse
        /\ Deliver([type |-> "ScrollTerminalOwned", requested |-> rows])
        /\ UNCHANGED <<terminal, revision>>
     \/ /\ of <= revision /\ ~mouse
        /\ ScrollViewport(rows)

\* handle_return_to_live
ReturnToLive ==
  /\ Asked(revision)
  /\ \/ /\ alternate \/ mouse
        /\ NoOne
        /\ UNCHANGED <<terminal, revision>>
     \/ /\ ~alternate /\ ~mouse
        /\ offset' = Total - ViewRows
        /\ UNCHANGED <<lines, alternate, mouse, palette>>
        /\ PublishChange

-----------------------------------------------------------------------------
Init ==
  /\ lines = [y \in 1..ViewRows |-> Blank]
  /\ offset = 0
  /\ alternate = FALSE
  /\ mouse = FALSE
  /\ palette \in Palettes
  /\ revision = 1
  /\ client = NoClient
  /\ owner = "serving"

Distances == -MaxScrollRows..-1 \union 1..MaxScrollRows

Next ==
  \/ \E printed \in Outputs : Output(printed)
  \/ \E colours \in Palettes : SetPalette(colours)
  \/ SwitchScreen
  \/ SetMouse
  \/ Attach
  \/ \E of \in {revision, revision + 1} :
        \/ \E direction \in ToSet(Directions) : PreviewVertical(of, direction)
        \/ \E rows \in Distances : ScrollVertical(of, rows)
  \/ ReturnToLive

Spec == Init /\ [][Next]_vars

-----------------------------------------------------------------------------
(***************************************************************************)
(* Properties.                                                             *)
(***************************************************************************)
\* The client was told of rows next to the viewport, and nothing changed since.
WindowIsCurrent(direction) ==
  /\ client # NoClient
  /\ client.window # NoWindow
  /\ client.window.revision = revision
  /\ client.window.direction = direction
  /\ client.window.outcome.kind = "Viewport"

Distance(a, b) == IF a < b THEN b - a ELSE a - b

\* A client may show the previewed rows before the answer to its scroll: when the
\* answer comes, as long as nothing else changed, it scrolls at least over the previewed
\* rows it asked for, not beyond them at the edge, and its frame has just these rows, with
\* their colours, next to the ones shown before (handle_vertical_scroll, viewport_preview,
\* Extractor::row and Extractor::frame).
PreviewKept(rows) ==
  LET up == rows < 0
      window == client.window.outcome
      before == client.shown[1]
      after == client'.shown[1]
      known == Len(window.rows)
      asked == Distance(rows, 0)
      d == Distance(before.fromLive, after.fromLive)
      Place(i) == IF up THEN d - i + 1 ELSE ViewRows - d + i
      Kept(y) == IF up THEN y - d ELSE y + d
  IN  /\ d >= Smaller(asked, known)
      /\ window.edge => d = Smaller(asked, known)
      /\ \A i \in 1..known : Place(i) \in 1..ViewRows => after.lines[Place(i)] = window.rows[i]
      /\ \A y \in 1..ViewRows : Kept(y) \in 1..ViewRows => after.lines[y] = before.lines[Kept(y)]

ScrollShowsPreview ==
  [][\A rows \in Distances :
       /\ client' # NoClient /\ client'.answered = rows /\ revision' # revision
       /\ WindowIsCurrent(IF rows < 0 THEN "Up" ELSE "Down")
       => PreviewKept(rows)]_vars

\* A current window claims the edge of the history exactly when no row lies beyond its
\* own; it is shorter than the viewport only at the edge or when one row more would
\* exceed the bound of a frame (viewport_preview).
WindowIsHonest ==
  \A direction \in {"Up", "Down"} :
    WindowIsCurrent(direction) =>
      LET window == client.window.outcome
          known == Len(window.rows)
          beyond == IF direction = "Up" THEN Offset ELSE Total - Offset - ViewRows
          next == IF direction = "Up" THEN Offset - known - 1 ELSE Offset + ViewRows + known
      IN  /\ window.edge <=> known = beyond
          /\ known < ViewRows /\ ~window.edge =>
               SizeOfRows(WindowStart, Append(window.rows, WindowRow(At(next))))
                 > MaxFrameBytes

\* Every message the owner makes can be encoded and decoded, and whoever is connected
\* shows the terminal as it is: its rows with their colours, the screen, and where the
\* viewport is in the history (Presentation.publish, handle_vertical_scroll,
\* handle_return_to_live).
ShownIsCurrent ==
  /\ owner # "unencodable"
  /\ client # NoClient =>
       /\ client.shown # Bad
       /\ client.shown = <<Extracted>>
=============================================================================
