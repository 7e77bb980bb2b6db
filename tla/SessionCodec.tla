---------------------------- MODULE SessionCodec ----------------------------
(***************************************************************************)
(* ORBS messages (crates/protocol/src/session/): the header and the length *)
(* it announces, the limits of every kind, and the encoding and the strict *)
(* decoding of the client's and the server's messages.                     *)
(*                                                                         *)
(* A message is a record with its type.  Coordinates are the bits of a     *)
(* float; floats from zero on are ordered as their bits.                   *)
(***************************************************************************)
EXTENDS FrameCodec

CONSTANTS
  MaxPasteBytes,      \* MAX_PASTE_BYTES
  MaxCopyBytes,       \* MAX_COPY_BYTES
  MaxKeyTextBytes,    \* MAX_KEY_TEXT_BYTES
  MaxFailureBytes,    \* MAX_FAILURE_BYTES
  MaxMetadataBytes,   \* MAX_METADATA_BYTES
  MaxScrollRows,      \* MAX_SCROLL_ROWS
  MaxCoordinate,      \* the bits of 65535.0
  NegativeZero        \* the bits of -0.0, which is within the range of coordinates

ASSUME SessionAssumption ==
  /\ {MaxPasteBytes, MaxCopyBytes, MaxKeyTextBytes, MaxFailureBytes, MaxMetadataBytes,
      MaxCoordinate, NegativeZero} \subseteq Nat
  /\ MaxScrollRows \in 1..32767
  /\ MaxMetadataBytes >= U64Bytes + 2 * U32Bytes

SessionMagic == <<79, 82, 66, 83>>
SessionVersion == 13
HeaderBytes == 8 + U32Bytes
MaxPayloadBytes == 2 * MaxFrameBytes + 9 + U32Bytes

\* The kinds in the order of their tags, from 1 and from 129.
ClientKinds ==
  <<"Hello", "Key", "Mouse", "Focus", "Paste", "Resize", "Selection", "PreviewVertical",
    "ObserveMetadata", "ScrollVertical", "ReturnToLive">>
ServerKinds ==
  <<"Attached", "Busy", "", "Frame", "Accepted", "Failure", "Exited", "CopiedText",
    "ClipboardWrite", "WheelTerminalRouted", "WheelViewportUp", "WheelViewportStill",
    "WheelViewportDown", "VerticalPreview", "ObservingMetadata", "Metadata",
    "ScrollTerminalOwned", "ScrollViewport", "SelectionFinished">>

KeyActions == <<"Press", "Release", "Repeat">>
MouseActions == <<"Press", "Release", "Motion">>
MouseButtons == <<"Unknown", "Left", "Middle", "Right", "Four", "Five", "Six", "Seven",
                  "Eight", "Nine", "Ten", "Eleven">>
WheelButtons == {"Four", "Five", "Six", "Seven"}
FocusEvents == <<"Gained", "Lost">>
Directions == <<"Up", "Down">>
FailureCodes == <<"InvalidInput", "Protocol", "Terminal">>
Locations == <<"Standard", "Selection", "Primary">>
Phases == <<"Begin", "Update", "Finish", "Copy", "Cancel", "AutoscrollUp">>

-----------------------------------------------------------------------------
(***************************************************************************)
(* The shortest and the longest payload of a kind.                         *)
(***************************************************************************)
ClientLimits(kind) ==
  CASE kind \in {"Hello", "ObserveMetadata", "ReturnToLive"} -> <<0, 0>>
    [] kind = "Key" -> <<8 + 2 * U32Bytes, 8 + 2 * U32Bytes + MaxKeyTextBytes>>
    [] kind = "Mouse" -> <<4 + 2 * U32Bytes, 4 + 2 * U32Bytes>>
    [] kind = "Focus" -> <<1, 1>>
    [] kind = "Paste" -> <<0, MaxPasteBytes>>
    [] kind = "Resize" -> <<4 + 8 * U32Bytes, 4 + 8 * U32Bytes>>
    [] kind = "Selection" -> <<1, 3 + 2 * U64Bytes + 2 * U32Bytes>>
    [] kind = "PreviewVertical" -> <<U64Bytes + 1, U64Bytes + 1>>
    [] kind = "ScrollVertical" -> <<U64Bytes + 2, U64Bytes + 2>>

WheelViewports == {"WheelViewportUp", "WheelViewportStill", "WheelViewportDown"}

ServerLimits(kind) ==
  CASE kind \in {"Attached", "Busy", "Accepted", "ObservingMetadata", "WheelTerminalRouted"} ->
         <<0, 0>>
    [] kind = "Metadata" -> <<U64Bytes + 2 * U32Bytes, MaxMetadataBytes>>
    [] kind = "Exited" -> <<U32Bytes, U32Bytes>>
    [] kind = "Frame" \/ kind \in WheelViewports -> <<MinFrameBytes, MaxFrameBytes>>
    [] kind = "Failure" -> <<1 + U32Bytes, 1 + U32Bytes + MaxFailureBytes>>
    [] kind = "CopiedText" -> <<1, 1 + MaxCopyBytes>>
    [] kind = "ClipboardWrite" -> <<2, 1 + MaxCopyBytes>>
    [] kind = "VerticalPreview" -> <<U64Bytes + 2, MaxFrameBytes + U64Bytes + 7>>
    [] kind = "ScrollTerminalOwned" -> <<2, 2>>
    [] kind = "ScrollViewport" -> <<MinFrameBytes + 9 + U32Bytes, MaxPayloadBytes>>
    [] kind = "SelectionFinished" -> <<U64Bytes, U64Bytes>>

\* The length of a message whose header has not arrived.
Incomplete == 0

\* The kind a tag names, counted from the first tag.
KindOf(kinds, first, tag) ==
  IF tag - first \in 0..(Len(kinds) - 1) /\ kinds[tag - first + 1] # ""
  THEN kinds[tag - first + 1] ELSE Bad

Within(payload, limits) == payload \in limits[1]..limits[2]

\* message_len: the whole length, once a valid header is there.
MessageLen(bytes, kinds, first, limits) ==
  LET kind == KindOf(kinds, first, bytes[7])
      payload == Num(SubSeq(bytes, 9, HeaderBytes))
  IN  IF Len(bytes) < HeaderBytes THEN Incomplete
      ELSE IF /\ SubSeq(bytes, 1, 4) = SessionMagic
              /\ Num(SubSeq(bytes, 5, 6)) = SessionVersion
              /\ bytes[8] = 0
              /\ kind # Bad
           THEN Checked(HeaderBytes + payload, Within(payload, limits[kind]))
           ELSE Bad

ClientMessageLen(bytes) ==
  MessageLen(bytes, ClientKinds, 1, [kind \in ToSet(ClientKinds) |-> ClientLimits(kind)])
ServerMessageLen(bytes) ==
  MessageLen(bytes, ServerKinds, 129, [kind \in ToSet(ServerKinds) |-> ServerLimits(kind)])

\* frame_message
Framed(kind, kinds, first, payload, limits) ==
  IF payload = Bad THEN Bad
  ELSE Checked(SessionMagic \o Put16(SessionVersion)
                 \o <<first + (CHOOSE i \in 1..Len(kinds) : kinds[i] = kind) - 1, 0>>
                 \o Put32(Len(payload)) \o payload,
               Len(payload) <= limits[2])

\* exact_message: the payload of a message that is there, whole, and alone.
Payload(bytes, length) ==
  IF length = Bad THEN Bad
  ELSE Checked(SubSeq(bytes, HeaderBytes + 1, Len(bytes)), length = Len(bytes))

-----------------------------------------------------------------------------
(***************************************************************************)
(* What makes a value valid.                                               *)
(***************************************************************************)
\* Modifiers.from_bits: the side of a modifier that is not active says nothing.
ValidModifiers(m) ==
  /\ m < 1024
  /\ \A k \in 0..3 : Bit(m, k + 6) => Bit(m, k)

\* Modifiers.contains
Contained(m, in) == \A k \in 0..9 : Bit(m, k) => Bit(in, k)

MaxPhysicalKey == 175

ValidChar(c) == c <= 1114111 /\ c \notin 55296..57343

ValidKey(m) ==
  /\ ValidModifiers(m.modifiers)
  /\ ValidModifiers(m.consumed)
  /\ Contained(m.consumed, m.modifiers)
  /\ \A text \in ToSet(m.text) :
       /\ Len(text) <= MaxKeyTextBytes
       /\ \A i \in 1..Len(text) : text[i] \notin (0..31 \union {127}) /\ ~PrivateUseAt(text, i)

ValidPosition(m) == \A c \in {m.x, m.y} : c <= MaxCoordinate \/ c = NegativeZero

ValidMouse(m) ==
  /\ ValidModifiers(m.modifiers)
  /\ m.button = <<>> => m.action = "Motion"
  /\ ToSet(m.button) \intersect WheelButtons # {} => m.action = "Press"
  /\ ValidPosition(m)

ValidSelection(m) ==
  /\ m.phase \in {"Begin", "Update", "Finish"} => ValidModifiers(m.modifiers) /\ ValidPosition(m)
  /\ m.phase = "AutoscrollUp" => ValidPosition(m)

\* checked_mul and checked_add: None is the empty sequence.
Mul(a, b) == IF b = 0 \/ a <= MaxU32 \div b THEN <<a * b>> ELSE <<>>
Add(a, b) == IF a <= MaxU32 - b THEN <<a + b>> ELSE <<>>

\* The cells and the padding of one axis lie within the screen.
ValidAxis(count, cell, screen, before, after) ==
  /\ count # 0 /\ cell # 0 /\ screen \in 1..MaxU16
  /\ \E padding \in ToSet(Add(before, after)), grid \in ToSet(Mul(count, cell)) :
       /\ padding < screen
       /\ \E used \in ToSet(Add(padding, grid)) : used <= screen

ValidSurface(m) ==
  /\ CellsWithin(m.cols, m.rows)
  /\ ValidAxis(m.cols, m.cellWidth, m.screenWidth, m.left, m.right)
  /\ ValidAxis(m.rows, m.cellHeight, m.screenHeight, m.top, m.bottom)

ValidScrollRows(n) == n # 0 /\ n \in -MaxScrollRows..MaxScrollRows

ValidApplied(requested, applied) ==
  /\ ValidScrollRows(requested)
  /\ applied = 0 \/ applied \in (IF requested < 0 THEN requested..-1 ELSE 1..requested)

ValidClipboard(text) == Len(text) \in 1..MaxCopyBytes /\ 0 \notin ToSet(text)

-----------------------------------------------------------------------------
(***************************************************************************)
(* The client's messages.                                                  *)
(***************************************************************************)
\* Modifiers and a position, as the phases of a selection write them.
PutPointer(m) == Put16(m.modifiers) \o Put32(m.x) \o Put32(m.y)

\* Mutant: no text is written as an empty one.
PutKeyEmptyText(m) ==
  IF ~ValidKey(m) THEN Bad
  ELSE Tag(KeyActions, m.action) \o Put16(m.key) \o Put16(m.modifiers) \o Put16(m.consumed)
         \o PutBool(m.composing)
         \o (IF m.text = <<>> THEN Put32(0) ELSE PutBytes(m.text[1]))
         \o Put32(IF m.codepoint = <<>> THEN MaxU32 ELSE m.codepoint[1])

PutKey(m) ==
  IF ~ValidKey(m) THEN Bad
  ELSE Tag(KeyActions, m.action) \o Put16(m.key) \o Put16(m.modifiers) \o Put16(m.consumed)
         \o PutBool(m.composing)
         \o (IF m.text = <<>> THEN Put32(MaxU32) ELSE PutBytes(m.text[1]))
         \o Put32(IF m.codepoint = <<>> THEN MaxU32 ELSE m.codepoint[1])

PutMouse(m) ==
  IF ~ValidMouse(m) THEN Bad
  ELSE Tag(MouseActions, m.action)
         \o (IF m.button = <<>> THEN <<0>>
             ELSE <<Tag(MouseButtons, m.button[1])[1] + 1>>)
         \o PutPointer(m)

PutResize(m) ==
  IF ~ValidSurface(m) THEN Bad
  ELSE Put16(m.cols) \o Put16(m.rows) \o Put32(m.screenWidth) \o Put32(m.screenHeight)
         \o Put32(m.cellWidth) \o Put32(m.cellHeight) \o Put32(m.top) \o Put32(m.bottom)
         \o Put32(m.left) \o Put32(m.right)

PutSelection(m) ==
  IF ~ValidSelection(m) THEN Bad
  ELSE Tag(Phases, m.phase) \o
         CASE m.phase = "Begin" -> Put64(m.revision) \o Put64(m.time) \o PutPointer(m)
           [] m.phase \in {"Update", "Finish"} -> PutPointer(m)
           [] m.phase = "AutoscrollUp" -> Put32(m.x) \o Put32(m.y)
           [] m.phase \in {"Copy", "Cancel"} -> <<>>

ClientPayload(m) ==
  CASE m.type \in {"Hello", "ObserveMetadata", "ReturnToLive"} -> <<>>
    [] m.type = "Key" -> PutKey(m)
    [] m.type = "Mouse" -> PutMouse(m)
    [] m.type = "Focus" -> Tag(FocusEvents, m.event)
    [] m.type = "Paste" -> Checked(m.data, Len(m.data) <= MaxPasteBytes)
    [] m.type = "Resize" -> PutResize(m)
    [] m.type = "Selection" -> PutSelection(m)
    [] m.type = "PreviewVertical" -> Put64(m.revision) \o Tag(Directions, m.direction)
    [] m.type = "ScrollVertical" ->
         Checked(Put64(m.revision) \o PutI16(m.rows), ValidScrollRows(m.rows))

EncodeClient(m) == Framed(m.type, ClientKinds, 1, ClientPayload(m), ClientLimits(m.type))

\* An optional text: its length, or the largest u32 for none.
TakeOptionalText(reader) ==
  IF reader = Bad THEN Bad
  ELSE IF Len(reader.rest) >= U32Bytes /\ Num(SubSeq(reader.rest, 1, U32Bytes)) = MaxU32
  THEN [rest |-> SubSeq(reader.rest, U32Bytes + 1, Len(reader.rest)),
        got |-> Append(reader.got, <<>>)]
  ELSE With(Take(reader, Prefixed), LAMBDA text : [text EXCEPT !.got[Len(text.got)] = <<@>>])

TakeKey(p) ==
  With(Read(TakeOptionalText(Read(Reader(p), <<1, 2, 2, 2, 1>>)), <<U32Bytes>>), LAMBDA r :
    With([type |-> "Key", action |-> Member(KeyActions, r.got[1]), key |-> Num(r.got[2]),
          modifiers |-> Num(r.got[3]), consumed |-> Num(r.got[4]),
          composing |-> Bool(r.got[5]), text |-> r.got[6],
          codepoint |-> IF Num(r.got[7]) = MaxU32 THEN <<>> ELSE <<Num(r.got[7])>>],
         LAMBDA m : Checked(m, /\ r.rest = <<>>
                               /\ Sound(<<m.action, m.composing>>)
                               /\ m.key <= MaxPhysicalKey
                               /\ \A c \in ToSet(m.codepoint) : ValidChar(c)
                               /\ ValidKey(m))))

TakeMouse(p) ==
  With(Fields(p, <<1, 1, 2, U32Bytes, U32Bytes>>), LAMBDA g :
    With([type |-> "Mouse", action |-> Member(MouseActions, g[1]),
          button |-> IF g[2] = <<0>> THEN <<>> ELSE <<Member(MouseButtons, <<g[2][1] - 1>>)>>,
          modifiers |-> Num(g[3]), x |-> Num(g[4]), y |-> Num(g[5])],
         LAMBDA m : Checked(m, m.action # Bad /\ Sound(m.button) /\ ValidMouse(m))))

TakeResize(p) ==
  With(Fields(p, <<2, 2>> \o [i \in 1..8 |-> U32Bytes]), LAMBDA g :
    With([type |-> "Resize", cols |-> Num(g[1]), rows |-> Num(g[2]),
          screenWidth |-> Num(g[3]), screenHeight |-> Num(g[4]),
          cellWidth |-> Num(g[5]), cellHeight |-> Num(g[6]),
          top |-> Num(g[7]), bottom |-> Num(g[8]), left |-> Num(g[9]), right |-> Num(g[10])],
         LAMBDA m : Checked(m, ValidSurface(m))))

\* The widths of the fields that follow the tag of a gesture's phase.
SelectionFields(phase) ==
  CASE phase = "Begin" -> <<U64Bytes, U64Bytes, 2, U32Bytes, U32Bytes>>
    [] phase \in {"Update", "Finish"} -> <<2, U32Bytes, U32Bytes>>
    [] phase = "AutoscrollUp" -> <<U32Bytes, U32Bytes>>
    [] phase \in {"Copy", "Cancel"} -> <<>>

\* The message of that phase with the fields g.
SelectionOf(phase, g) ==
  CASE phase = "Begin" ->
         [type |-> "Selection", phase |-> phase, revision |-> Num(g[1]), time |-> Num(g[2]),
          modifiers |-> Num(g[3]), x |-> Num(g[4]), y |-> Num(g[5])]
    [] phase \in {"Update", "Finish"} ->
         [type |-> "Selection", phase |-> phase, modifiers |-> Num(g[1]),
          x |-> Num(g[2]), y |-> Num(g[3])]
    [] phase = "AutoscrollUp" ->
         [type |-> "Selection", phase |-> phase, x |-> Num(g[1]), y |-> Num(g[2])]
    [] phase \in {"Copy", "Cancel"} -> [type |-> "Selection", phase |-> phase]

TakeSelection(p) ==
  With(Member(Phases, p), LAMBDA phase :
    With(Fields(Tail(p), SelectionFields(phase)), LAMBDA g :
      With(SelectionOf(phase, g), LAMBDA m : Checked(m, ValidSelection(m)))))

TakePreviewRequest(p) ==
  With(Fields(p, <<U64Bytes, 1>>), LAMBDA g :
    With(Member(Directions, g[2]), LAMBDA direction :
      [type |-> "PreviewVertical", revision |-> Num(g[1]), direction |-> direction]))

TakeScrollRequest(p) ==
  With(Fields(p, <<U64Bytes, 2>>), LAMBDA g :
    With(I16(g[2]), LAMBDA rows :
      Checked([type |-> "ScrollVertical", revision |-> Num(g[1]), rows |-> rows],
              ValidScrollRows(rows))))

DecodeClient(bytes) ==
  LET kind == ClientKinds[bytes[7]]
  IN  With(Payload(bytes, ClientMessageLen(bytes)), LAMBDA p :
        CASE kind \in {"Hello", "ObserveMetadata", "ReturnToLive"} -> [type |-> kind]
          [] kind = "Key" -> TakeKey(p)
          [] kind = "Mouse" -> TakeMouse(p)
          [] kind = "Focus" ->
               With(Member(FocusEvents, p), LAMBDA event : [type |-> kind, event |-> event])
          [] kind = "Paste" -> [type |-> kind, data |-> p]
          [] kind = "Resize" -> TakeResize(p)
          [] kind = "Selection" -> TakeSelection(p)
          [] kind = "PreviewVertical" -> TakePreviewRequest(p)
          [] kind = "ScrollVertical" -> TakeScrollRequest(p))

-----------------------------------------------------------------------------
(***************************************************************************)
(* A window of rows next to the viewport, as previews and scroll outcomes  *)
(* carry it.                                                               *)
(***************************************************************************)
PutWindow(w) ==
  IF w.kind # "Viewport" THEN Bad
  ELSE With(EncodeRows(w.rows, w.cols), LAMBDA rows :
         Checked(Put16(w.cols) \o PutBool(w.edge) \o Put16(Len(w.rows)) \o rows,
                 w.cols # 0 /\ (w.rows = <<>> => w.edge) /\ Len(w.rows) <= MaxU16))

TakeWindow(bytes) ==
  With(Read(Reader(bytes), <<2, 1, 2, Remains>>), LAMBDA r :
    IF Num(r.got[1]) = 0 \/ ~CellsWithin(Num(r.got[1]), Num(r.got[3])) THEN Bad
    ELSE With([kind |-> "Viewport", cols |-> Num(r.got[1]), edge |-> Bool(r.got[2]),
               rows |-> DecodeRows(r.got[4], Num(r.got[1]), Num(r.got[3]))],
              LAMBDA w : Checked(w, Sound(<<w.edge, w.rows>>) /\ (w.rows = <<>> => w.edge))))

PutPreview(m) ==
  With(IF m.outcome.kind = "TerminalRouted" THEN <<>> ELSE PutWindow(m.outcome), LAMBDA window :
    Put64(m.revision) \o Tag(Directions, m.direction)
      \o PutBool(m.outcome.kind # "TerminalRouted") \o window)

TakePreview(p) ==
  With(Read(Reader(p), <<U64Bytes, 1, 1, Remains>>), LAMBDA r :
    With([type |-> "VerticalPreview", revision |-> Num(r.got[1]),
          direction |-> Member(Directions, r.got[2]),
          outcome |-> CASE r.got[3] = <<0>> ->
                             Checked([kind |-> "TerminalRouted"], r.got[4] = <<>>)
                        [] r.got[3] = <<1>> -> TakeWindow(r.got[4])
                        [] OTHER -> Bad],
         LAMBDA m : Checked(m, Sound(<<m.direction, m.outcome>>))))

PutScroll(m) ==
  With(EncodeFrame(m.frame), LAMBDA frame :
    With(PutWindow(m.next), LAMBDA next :
      Checked(PutI16(m.requested) \o PutI16(m.applied) \o PutBytes(frame) \o next,
              ValidApplied(m.requested, m.applied))))

TakeScroll(p) ==
  With(Read(Reader(p), <<2, 2, U32Bytes, Remains>>), LAMBDA r :
    With(IF Num(r.got[3]) \in 1..MaxFrameBytes
         THEN Read(Reader(r.got[4]), <<Num(r.got[3]), Remains>>) ELSE Bad, LAMBDA s :
      With([type |-> "ScrollViewport", requested |-> I16(r.got[1]), applied |-> I16(r.got[2]),
            frame |-> DecodeFrame(s.got[1]), next |-> TakeWindow(s.got[2])],
           LAMBDA m : Checked(m, /\ ValidApplied(m.requested, m.applied)
                                 /\ Sound(<<m.frame, m.next>>)))))

-----------------------------------------------------------------------------
(***************************************************************************)
(* The server's messages.                                                  *)
(***************************************************************************)
\* A wheel outcome in the viewport has no field for its rows but its kind.
ServerKind(m) ==
  IF m.type # "WheelViewport" THEN m.type
  ELSE CASE m.applied = -1 -> "WheelViewportUp"
         [] m.applied = 0 -> "WheelViewportStill"
         [] m.applied = 1 -> "WheelViewportDown"
         [] OTHER -> Bad

WheelApplied(kind) ==
  CASE kind = "WheelViewportUp" -> -1
    [] kind = "WheelViewportStill" -> 0
    [] kind = "WheelViewportDown" -> 1

Empties == {"Attached", "Busy", "Accepted", "ObservingMetadata", "WheelTerminalRouted"}

ServerPayload(m) ==
  CASE m.type \in Empties -> <<>>
    [] m.type = "Metadata" ->
         Put64(m.revision) \o PutBytes(m.title) \o PutBytes(m.cwd)
    [] m.type \in {"Frame", "WheelViewport"} -> EncodeFrame(m.frame)
    [] m.type = "SelectionFinished" -> Put64(m.revision)
    [] m.type = "Failure" ->
         Checked(Tag(FailureCodes, m.code) \o PutBytes(m.detail), Len(m.detail) <= MaxFailureBytes)
    [] m.type = "Exited" -> Put32(m.code)
    [] m.type = "CopiedText" ->
         Checked(Tag(Locations, m.location) \o m.text, Len(m.text) <= MaxCopyBytes)
    [] m.type = "ClipboardWrite" ->
         Checked(Tag(Locations, m.location) \o m.text, ValidClipboard(m.text))
    [] m.type = "VerticalPreview" -> PutPreview(m)
    [] m.type = "ScrollTerminalOwned" ->
         Checked(PutI16(m.requested), ValidScrollRows(m.requested))
    [] m.type = "ScrollViewport" -> PutScroll(m)

EncodeServer(m) ==
  LET kind == ServerKind(m)
  IN  IF kind = Bad THEN Bad
      ELSE Framed(kind, ServerKinds, 129, ServerPayload(m), ServerLimits(kind))

TakeMetadata(p) ==
  With(Fields(p, <<U64Bytes, Prefixed, Prefixed>>), LAMBDA g :
    Checked([type |-> "Metadata", revision |-> Num(g[1]), title |-> g[2], cwd |-> g[3]],
            Len(g[2]) <= MaxMetadataBytes /\ Len(g[3]) <= MaxMetadataBytes))

TakeFailure(p) ==
  With(Fields(p, <<1, Prefixed>>), LAMBDA g :
    With(Member(FailureCodes, g[1]), LAMBDA code :
      Checked([type |-> "Failure", code |-> code, detail |-> g[2]], Len(g[2]) <= MaxFailureBytes)))

TakeCopied(kind, p) ==
  With(Fields(p, <<1, Remains>>), LAMBDA g :
    With(Member(Locations, g[1]), LAMBDA location :
      Checked([type |-> kind, location |-> location, text |-> g[2]],
              Utf8(g[2]) /\ (kind = "ClipboardWrite" => ValidClipboard(g[2])))))

\* A payload that is one frame, shown for its own sake or as a wheel's outcome.
TakeFrame(kind, p) ==
  With(DecodeFrame(p), LAMBDA frame :
    IF kind = "Frame" THEN [type |-> kind, frame |-> frame]
    ELSE [type |-> "WheelViewport", applied |-> WheelApplied(kind), frame |-> frame])

DecodeServer(bytes) ==
  LET kind == ServerKinds[bytes[7] - 128]
  IN  With(Payload(bytes, ServerMessageLen(bytes)), LAMBDA p :
        CASE kind \in Empties -> [type |-> kind]
          [] kind = "Frame" \/ kind \in WheelViewports -> TakeFrame(kind, p)
          [] kind = "Metadata" -> TakeMetadata(p)
          [] kind = "SelectionFinished" -> [type |-> kind, revision |-> Num(p)]
          [] kind = "Failure" -> TakeFailure(p)
          [] kind = "Exited" -> [type |-> kind, code |-> Num(p)]
          [] kind \in {"CopiedText", "ClipboardWrite"} -> TakeCopied(kind, p)
          [] kind = "VerticalPreview" -> TakePreview(p)
          [] kind = "ScrollTerminalOwned" ->
               Checked([type |-> kind, requested |-> I16(p)], ValidScrollRows(I16(p)))
          [] kind = "ScrollViewport" -> TakeScroll(p))
=============================================================================
