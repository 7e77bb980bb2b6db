----------------------------- MODULE FrameCodec -----------------------------
(***************************************************************************)
(* ORBF frames (crates/protocol/src/lib.rs): the values, what makes a      *)
(* frame valid, its encoding, its strict decoding, the accounting of its   *)
(* size and the reducer of a client.                                       *)
(*                                                                         *)
(* A colour is its three bytes; the boolean attributes of a row or a style *)
(* are the set of the bits that stand for them.                            *)
(***************************************************************************)
EXTENDS Wire

CONSTANTS
  MaxCells,        \* MAX_CELLS
  MaxFrameBytes,   \* MAX_FRAME_BYTES
  PaletteLen       \* PALETTE_LEN

ASSUME FrameAssumption == {MaxCells, MaxFrameBytes, PaletteLen} \subseteq Nat \ {0}

\* A frame is within what a u32 can count.
ASSUME FrameLimitAssumption == MaxFrameBytes <= MaxU32

FrameMagic == <<79, 82, 66, 70>>
FrameVersion == 2

\* The flags of a row are Wrapped, wrap continuation and Kitty placeholder.
RowFlagBits == 3
StyleFlagBits == 10
Wrapped == 0

(***************************************************************************)
(* The bytes of every frame that do not depend on its contents.  The       *)
(* lengths of the title and the working directory are counted with them.   *)
(***************************************************************************)
FrameFixedBytes == 4 + 2 + U64Bytes + 2 + 2 + 1      \* to the screen
                   + 2 + 3 + 3 + 1 + 3 * PaletteLen  \* capabilities, colours
                   + 3 + 1 + 1 + 2 * U64Bytes        \* cursor, scroll position
RowFixedBytes == 1
CellFixedBytes == 16
MinFrameBytes == FrameFixedBytes + RowFixedBytes + CellFixedBytes + 4 * U32Bytes

Screens == <<"Primary", "Alternate">>
CursorShapes == <<"Bar", "Block", "Underline", "BlockHollow">>
CellWidths == <<"Narrow", "Wide", "SpacerTail", "SpacerHead">>
Underlines == <<"None", "Single", "Double", "Curly", "Dotted", "Dashed">>

-----------------------------------------------------------------------------
(***************************************************************************)
(* The values.                                                             *)
(***************************************************************************)
RgbType == {s \in Seq(Byte) : Len(s) = 3}
ColourType ==
  [kind : {"None"}] \union [kind : {"Palette"}, index : Byte]
    \union [kind : {"Rgb"}, rgb : RgbType]
StyleType ==
  [foreground : ColourType, background : ColourType, underlineColour : ColourType,
   attributes : SUBSET (0..StyleFlagBits - 1), underline : ToSet(Underlines)]
CellType == [width : ToSet(CellWidths), style : StyleType, text : Utf8Text, link : Utf8Text]
RowType == [flags : SUBSET (0..RowFlagBits - 1), cells : Seq(CellType)]
CursorType == [x : U16, y : U16, tail : BOOLEAN]
FrameType ==
  [revision : U64, cols : U16, count : U16, screen : ToSet(Screens),
   title : Utf8Text, cwd : Utf8Text, hyperlinks : BOOLEAN, kitty : BOOLEAN,
   background : RgbType, foreground : RgbType, colour : Option(RgbType),
   palette : {p \in Seq(RgbType) : Len(p) = PaletteLen},
   visible : BOOLEAN, blinking : BOOLEAN, password : BOOLEAN, shape : ToSet(CursorShapes),
   viewport : Option(CursorType), fromLive : U64, history : U64, lines : Seq(RowType)]

\* An error is none of them.
ASSUME FrameErrorAssumption ==
  /\ Bad \notin ToSet(Screens) \union ToSet(CursorShapes) \union ToSet(CellWidths)
                  \union ToSet(Underlines)
  /\ Bad \notin ColourType \union StyleType \union CellType \union RowType \union FrameType
  /\ Bad \notin Seq(RowType)
  /\ Bad \notin Readers(CellType) \union Readers(RowType)

-----------------------------------------------------------------------------
(***************************************************************************)
(* What makes a frame valid.                                               *)
(***************************************************************************)
CellsWithin(cols, rows) == cols # 0 /\ rows <= MaxCells \div cols

ValidDimensions(cols, rows) == rows # 0 /\ CellsWithin(cols, rows)

ValidCapabilities(frame) == frame.hyperlinks /\ ~frame.kitty

ValidScrollPosition(frame) ==
  /\ frame.fromLive <= frame.history
  /\ frame.screen = "Alternate" => frame.history = 0

ValidCursor(frame) ==
  \A at \in ToSet(frame.viewport) : at.x < frame.cols /\ at.y < frame.count

ValidTopology(row) ==
  LET Width(i) == row.cells[i].width
  IN  \A i \in 1..Len(row.cells) :
        CASE Width(i) = "Narrow" -> TRUE
          [] Width(i) = "Wide" -> i < Len(row.cells) /\ Width(i + 1) = "SpacerTail"
          [] Width(i) = "SpacerTail" -> i > 1 /\ Width(i - 1) = "Wide"
          [] Width(i) = "SpacerHead" -> i > 1 /\ i = Len(row.cells) /\ Wrapped \in row.flags

ValidRow(row, cols) == Len(row.cells) = cols /\ ValidTopology(row)

(***************************************************************************)
(* FrameSize: what a producer counts before it keeps a string.             *)
(***************************************************************************)
\* Mutant: the position of the cursor is not counted.
SizeStartNoCursor(title, cwd, colour, viewport) ==
  FrameFixedBytes + (U32Bytes + Len(title)) + (U32Bytes + Len(cwd))
    + (IF colour THEN 3 ELSE 0)

SizeStart(title, cwd, colour, viewport) ==
  FrameFixedBytes + (U32Bytes + Len(title)) + (U32Bytes + Len(cwd))
    + (IF colour THEN 3 ELSE 0) + (IF viewport THEN 5 ELSE 0)

SizeOfCell(cell) == CellFixedBytes + (U32Bytes + Len(cell.text)) + (U32Bytes + Len(cell.link))

\* The size with the first i cells of a row, and with the first i rows, as functions of i.
CellSizes(cells) ==
  LET size[i \in 0..Len(cells)] ==
        IF i = 0 THEN RowFixedBytes ELSE size[i - 1] + SizeOfCell(cells[i])
  IN  size
SizeOfRow(row) == CellSizes(row.cells)[Len(row.cells)]

RowSizes(start, rows) ==
  LET size[i \in 0..Len(rows)] == IF i = 0 THEN start ELSE size[i - 1] + SizeOfRow(rows[i])
  IN  size
SizeOfRows(start, rows) == RowSizes(start, rows)[Len(rows)]

FrameSize(frame) ==
  SizeOfRows(SizeStart(frame.title, frame.cwd, frame.colour # <<>>, frame.viewport # <<>>),
             frame.lines)

\* validate_frame
ValidFrame(frame) ==
  /\ ValidDimensions(frame.cols, frame.count)
  /\ ValidCapabilities(frame)
  /\ ValidScrollPosition(frame)
  /\ Len(frame.lines) = frame.count
  /\ ValidCursor(frame)
  /\ \A row \in ToSet(frame.lines) : ValidRow(row, frame.cols)
  /\ FrameSize(frame) <= MaxFrameBytes

-----------------------------------------------------------------------------
(***************************************************************************)
(* Encoding.                                                               *)
(***************************************************************************)
\* The number that the i highest of 16 flags are, as a function of i.
HighFlags(bits) ==
  LET number[i \in 0..16] ==
        IF i = 0 THEN 0 ELSE (IF 16 - i \in bits THEN 1 ELSE 0) + 2 * number[i - 1]
  IN  number
Flags(bits) == HighFlags(bits)[16]

\* A tag and three bytes, of which those that say nothing are zero.
PutStyleColour(colour) ==
  CASE colour.kind = "None" -> <<0, 0, 0, 0>>
    [] colour.kind = "Palette" -> <<1, colour.index, 0, 0>>
    [] colour.kind = "Rgb" -> <<2>> \o colour.rgb

PutStyle(style) ==
  PutStyleColour(style.foreground) \o PutStyleColour(style.background)
    \o PutStyleColour(style.underlineColour)
    \o Put16(Flags(style.attributes)) \o Tag(Underlines, style.underline)

PutCell(cell) ==
  Tag(CellWidths, cell.width) \o PutStyle(cell.style) \o PutBytes(cell.text) \o PutBytes(cell.link)

PutRow(row) ==
  <<Flags(row.flags)>> \o FlattenSeq([i \in 1..Len(row.cells) |-> PutCell(row.cells[i])])

PutRows(rows) == FlattenSeq([i \in 1..Len(rows) |-> PutRow(rows[i])])

PutCursor(frame) ==
  PutBool(frame.visible) \o PutBool(frame.blinking) \o PutBool(frame.password)
    \o Tag(CursorShapes, frame.shape) \o PutBool(frame.viewport # <<>>)
    \o (IF frame.viewport = <<>> THEN <<>>
        ELSE LET at == frame.viewport[1] IN Put16(at.x) \o Put16(at.y) \o PutBool(at.tail))

EncodeFrame(frame) ==
  IF ~ValidFrame(frame) THEN Bad
  ELSE FrameMagic \o Put16(FrameVersion) \o Put64(frame.revision)
         \o Put16(frame.cols) \o Put16(frame.count) \o Tag(Screens, frame.screen)
         \o PutBytes(frame.title) \o PutBytes(frame.cwd)
         \o PutBool(frame.hyperlinks) \o PutBool(frame.kitty)
         \o frame.background \o frame.foreground
         \o PutBool(frame.colour # <<>>) \o FlattenSeq(frame.colour)
         \o FlattenSeq(frame.palette) \o PutCursor(frame)
         \o Put64(frame.fromLive) \o Put64(frame.history)
         \o PutRows(frame.lines)

\* encode_canonical_rows
EncodeRows(rows, cols) ==
  IF /\ CellsWithin(cols, Len(rows))
     /\ \A row \in ToSet(rows) : ValidRow(row, cols)
     /\ SizeOfRows(0, rows) <= MaxFrameBytes
  THEN PutRows(rows) ELSE Bad

-----------------------------------------------------------------------------
(***************************************************************************)
(* Decoding.  Each field is read with its width; what a field must not be  *)
(* refuses the frame.                                                      *)
(***************************************************************************)
Bits(n, count) == {k \in 0..(count - 1) : Bit(n, k)}

\* Mutant: the bytes that a palette index does not use are ignored.
StyleColourLenient(b) ==
  CASE b = <<0, 0, 0, 0>> -> [kind |-> "None"]
    [] b[1] = 1 -> [kind |-> "Palette", index |-> b[2]]
    [] b[1] = 2 -> [kind |-> "Rgb", rgb |-> Tail(b)]
    [] OTHER -> Bad

\* Whatever is not what PutStyleColour writes is an error.
StyleColour(b) ==
  CASE b = <<0, 0, 0, 0>> -> [kind |-> "None"]
    [] b[1] = 1 /\ b[3] = 0 /\ b[4] = 0 -> [kind |-> "Palette", index |-> b[2]]
    [] b[1] = 2 -> [kind |-> "Rgb", rgb |-> Tail(b)]
    [] OTHER -> Bad

Style(foreground, background, underlineColour, flags, underline) ==
  With([foreground |-> StyleColour(foreground),
        background |-> StyleColour(background),
        underlineColour |-> StyleColour(underlineColour),
        attributes |-> Bits(Num(flags), StyleFlagBits),
        underline |-> Member(Underlines, underline)],
       LAMBDA style : Checked(style, /\ Num(flags) < 2^StyleFlagBits
                                     /\ Sound(<<style.foreground, style.background,
                                              style.underlineColour, style.underline>>)))

CellFields == <<1, 4, 4, 4, 2, 1, Prefixed, Prefixed>>

\* The cell with the fields f.
CellOf(f) ==
  With([width |-> Member(CellWidths, f[1]), style |-> Style(f[2], f[3], f[4], f[5], f[6]),
        text |-> f[7], link |-> f[8]],
       LAMBDA cell : Checked(cell, Sound(<<cell.width, cell.style>>)))

TakeCell(reader) ==
  With(reader, LAMBDA before :
    With(Read(Reader(before.rest), CellFields), LAMBDA r :
      With(CellOf(r.got), LAMBDA cell :
        [rest |-> r.rest, got |-> Append(before.got, cell)])))

\* The reader that has taken i cells, as a function of i.
CellReadings(reader, cols) ==
  LET reading[i \in 0..cols] == IF i = 0 THEN reader ELSE TakeCell(reading[i - 1])
  IN  reading

\* The row with that byte of flags and those cells.
RowOf(flags, cells) ==
  With([flags |-> Bits(flags, RowFlagBits), cells |-> cells],
       LAMBDA row : Checked(row, flags < 2^RowFlagBits /\ ValidTopology(row)))

\* decode_row
TakeRow(reader, cols) ==
  With(reader, LAMBDA before :
    With(Take(Reader(before.rest), 1), LAMBDA flags :
      With(CellReadings(Reader(flags.rest), cols)[cols], LAMBDA r :
        With(RowOf(flags.got[1][1], r.got), LAMBDA row :
          [rest |-> r.rest, got |-> Append(before.got, row)]))))

\* The reader that has taken i rows, as a function of i.
RowReadings(reader, cols, count) ==
  LET reading[i \in 0..count] == IF i = 0 THEN reader ELSE TakeRow(reading[i - 1], cols)
  IN  reading

\* The rows that take up the rest of the reader.
RowsOf(reader, cols, count) ==
  With(RowReadings(Reader(reader.rest), cols, count)[count], LAMBDA last :
    Checked(last.got, last.rest = <<>>))

\* decode_canonical_rows
DecodeRows(bytes, cols, count) ==
  IF CellsWithin(cols, count) /\ Len(bytes) <= MaxFrameBytes
  THEN RowsOf(Reader(bytes), cols, count) ELSE Bad

(***************************************************************************)
(* The head of a frame, in three parts: to the presence of a cursor        *)
(* colour, to the presence of a cursor position, and to the rows.          *)
(***************************************************************************)
HeadFields == <<4, 2, U64Bytes, 2, 2, 1, Prefixed, Prefixed, 1, 1, 3, 3>>

ReadHead(bytes) ==
  LET colour == ReadOptional(Read(Reader(bytes), HeadFields), <<3>>)
      cursor == Read(colour, [i \in 1..PaletteLen |-> 3] \o <<1, 1, 1, 1>>)
  IN  Read(ReadOptional(cursor, <<2, 2, 1>>), <<U64Bytes, U64Bytes>>)

CursorAt(value) == [x |-> Num(value[1]), y |-> Num(value[2]), tail |-> Bool(value[3])]

\* The frame a head announces, with the rows still to come.
FrameOf(g) ==
  LET c == 13 + PaletteLen
  IN  [revision |-> Num(g[3]), cols |-> Num(g[4]), count |-> Num(g[5]),
       screen |-> Member(Screens, g[6]), title |-> g[7], cwd |-> g[8],
       hyperlinks |-> Bool(g[9]), kitty |-> Bool(g[10]),
       background |-> g[11], foreground |-> g[12], colour |-> g[13],
       palette |-> SubSeq(g, 14, c),
       visible |-> Bool(g[c + 1]), blinking |-> Bool(g[c + 2]), password |-> Bool(g[c + 3]),
       shape |-> Member(CursorShapes, g[c + 4]),
       viewport |-> IF g[c + 5] = <<>> THEN <<>> ELSE <<CursorAt(g[c + 5])>>,
       fromLive |-> Num(g[c + 6]), history |-> Num(g[c + 7]), lines |-> <<>>]

ValidHead(g, frame) ==
  /\ g[1] = FrameMagic
  /\ Num(g[2]) = FrameVersion
  /\ Sound(<<frame.screen, frame.hyperlinks, frame.kitty, frame.visible, frame.blinking,
             frame.password, frame.shape>>)
  /\ \A at \in ToSet(frame.viewport) : at.tail # Bad
  /\ ValidDimensions(frame.cols, frame.count)
  /\ ValidCapabilities(frame)
  /\ ValidCursor(frame)
  /\ ValidScrollPosition(frame)

DecodeFrame(bytes) ==
  IF Len(bytes) > MaxFrameBytes THEN Bad
  ELSE With(ReadHead(bytes), LAMBDA head :
         With(FrameOf(head.got), LAMBDA frame :
           With(IF ValidHead(head.got, frame) THEN RowsOf(head, frame.cols, frame.count) ELSE Bad,
                LAMBDA rows : [frame EXCEPT !.lines = rows])))

\* Mutant: a frame of the same revision replaces the current one.
AdmitsNotOlder(current, frame) ==
  /\ ValidCapabilities(frame)
  /\ ValidScrollPosition(frame)
  /\ \A row \in ToSet(frame.lines) : ValidTopology(row)
  /\ \A shown \in ToSet(current) : frame.revision >= shown.revision

\* What FrameReducer.push asks of a frame.
Admits(current, frame) ==
  /\ ValidCapabilities(frame)
  /\ ValidScrollPosition(frame)
  /\ \A row \in ToSet(frame.lines) : ValidTopology(row)
  /\ \A shown \in ToSet(current) : frame.revision > shown.revision

(***************************************************************************)
(* FrameReducer.push: the frame a client shows, none at first.  Bad when   *)
(* the frame is refused, and then the current one stays.                   *)
(***************************************************************************)
Push(current, frame) == IF Admits(current, frame) THEN <<frame>> ELSE Bad
=============================================================================
