---------------------------- MODULE SessionStream ----------------------------
(***************************************************************************)
(* One connection, byte by byte: a peer writes ORBS messages to a stream,  *)
(* the reader gets the bytes in whatever pieces and takes the messages out *)
(* of its input buffer (Client in src/attachment.rs, the sections of the   *)
(* loop of run in src/runtime.rs).  The stream may also run the other way: *)
(* the owner writes and a client reads with the same library and keeps the *)
(* newest frame in a FrameReducer.                                         *)
(*                                                                         *)
(* One byte of one message may be other than what the encoder yields: the  *)
(* peer is of another revision, or its encoder has a defect.               *)
(***************************************************************************)
EXTENDS SessionCodec

CONSTANTS
  Openings,         \* what a peer may write first and third
  ClientMessages,   \* what it may write second
  ServerMessages,   \* what the owner may write first to a client
  Updates,          \* what it may write to it after that
  ReadSizes,        \* the most bytes one read yields: any of these
  MaxSent           \* bound: messages written

ASSUME StreamAssumption == ReadSizes \subseteq Nat \ {0} /\ MaxSent \in Nat

\* What an encoder yields is bytes (a Vec<u8>).
ASSUME BytesAssumption ==
  /\ \A m \in Openings \union ClientMessages :
       EncodeClient(m) # Bad => EncodeClient(m) \in Seq(Byte)
  /\ \A m \in ServerMessages \union Updates :
       EncodeServer(m) # Bad => EncodeServer(m) \in Seq(Byte)

VARIABLES
  phase,    \* "poll", or the section of the loop that is next
  ready,    \* poll found bytes to read
  conn,     \* role, closing, input: Client, or the reader in a client
  wire,     \* bytes written and not read
  hungUp,   \* the writer has closed its end
  sent,     \* history: the messages written
  written,  \* history: all bytes written
  garbled,  \* history: a byte was other than what the encoder yields
  taken,    \* history: the messages taken out of the input
  served,   \* history: how many of them reached their handler
  refused,  \* history: the peer was told Busy
  shown     \* the frame a FrameReducer keeps, none at first

vars == <<phase, ready, conn, wire, hungUp, sent, written, garbled, taken, served, refused, shown>>

Encode(m) == IF conn.role = "client" THEN EncodeServer(m) ELSE EncodeClient(m)

Init ==
  /\ phase = "poll"
  /\ ready = FALSE
  /\ conn \in [role : {"pending", "client"}, closing : {FALSE}, input : {<<>>}]
  /\ wire = <<>>
  /\ hungUp = FALSE
  /\ sent = <<>>
  /\ written = <<>>
  /\ garbled = FALSE
  /\ taken = <<>>
  /\ served = 0
  /\ refused = FALSE
  /\ shown = <<>>

-----------------------------------------------------------------------------
(***************************************************************************)
(* The writer.                                                             *)
(***************************************************************************)
\* The same bytes but one, which is a near miss or an extreme.
Garbles(bytes) ==
  {[bytes EXCEPT ![i] = b] : i \in 1..Len(bytes), b \in {0, 255}}
    \union {[bytes EXCEPT ![i] = (@ + 1) % 256] : i \in 1..Len(bytes)}

Offered ==
  IF conn.role = "client"
  THEN IF sent = <<>> THEN ServerMessages ELSE IF garbled THEN {} ELSE Updates
  ELSE IF Len(sent) = 1 THEN ClientMessages ELSE Openings

Put(m, bytes) ==
  /\ phase = "poll" /\ ~hungUp
  /\ Len(sent) < MaxSent
  /\ sent' = Append(sent, m)
  /\ written' = written \o bytes
  /\ wire' = wire \o bytes
  /\ UNCHANGED <<phase, ready, conn, hungUp, taken, served, refused, shown>>

Write ==
  \E m \in Offered :
    /\ Encode(m) # Bad
    /\ Put(m, Encode(m))
    /\ UNCHANGED garbled

\* Bound: to a client, only the first message.
WriteGarbled ==
  /\ ~garbled
  /\ conn.role = "client" => sent = <<>>
  /\ \E m \in Offered :
       /\ Encode(m) # Bad
       /\ \E bytes \in Garbles(Encode(m)) : Put(m, bytes) /\ bytes # Encode(m)
  /\ garbled' = TRUE

HangUp ==
  /\ phase = "poll" /\ ~hungUp
  /\ hungUp' = TRUE
  /\ UNCHANGED <<phase, ready, conn, wire, sent, written, garbled, taken, served, refused, shown>>

-----------------------------------------------------------------------------
(***************************************************************************)
(* The owner's end.  A step works on the state of the connection and what  *)
(* has been taken out of it.                                               *)
(***************************************************************************)
State == [conn |-> conn, taken |-> taken, served |-> served, shown |-> shown, more |-> TRUE]

\* Mutant: the rest of the input stays.
CloseKeepingInput(s) == [s EXCEPT !.conn.closing = TRUE, !.more = FALSE]

\* Client.close_when_flushed: what is left of the input is forgotten.
CloseWhenFlushed(s) ==
  [s EXCEPT !.conn.closing = TRUE, !.conn.input = <<>>, !.more = FALSE]

\* Client.reject_protocol: the failure is queued, or the connection is lost.
Rejections(s) == {CloseWhenFlushed(s), [s EXCEPT !.conn.role = "gone", !.more = FALSE]}

UnsupportedVersion(input) ==
  /\ Len(input) >= HeaderBytes
  /\ SubSeq(input, 1, 4) = SessionMagic
  /\ Num(SubSeq(input, 5, 6)) # SessionVersion

\* A complete message: the first on a connection names a role and no other does.
Decoded(s, message, length) ==
  LET rest == [s EXCEPT !.conn.input = SubSeq(@, length + 1, Len(@)),
                        !.taken = Append(@, message)]
      isRole == message.type \in {"Hello", "ObserveMetadata"}
  IN  IF message = Bad THEN Rejections(s)
      ELSE IF isRole # (s.conn.role = "pending") THEN Rejections(rest)
      ELSE {rest}

(***************************************************************************)
(* Client.next_incoming: the states it may leave.  One message is taken    *)
(* out of the input at most.                                               *)
(***************************************************************************)
NextIncoming(s) ==
  LET input == s.conn.input
      length == ClientMessageLen(input)
  IN  CASE UnsupportedVersion(input) -> {[s EXCEPT !.conn.role = "gone", !.more = FALSE]}
        [] length = Bad /\ ~UnsupportedVersion(input) -> Rejections(s)
        [] length = Incomplete -> {[s EXCEPT !.more = FALSE]}
        [] OTHER ->
             IF s.conn.role = "metadata" THEN Rejections(s)
             ELSE IF Len(input) < length THEN {[s EXCEPT !.more = FALSE]}
             ELSE Decoded(s, DecodeClient(SubSeq(input, 1, length)), length)

\* What read_ready may add to the input: nothing, when the stream has none.
Reads == IF wire = <<>> THEN {0} ELSE {Min({n, Len(wire)}) : n \in ReadSizes}

\* The connection after read_ready, unless the stream ended.
WithRead(s, n) ==
  IF s.conn.closing THEN s ELSE [s EXCEPT !.conn.input = @ \o SubSeq(wire, 1, n)]

Ended == ~conn.closing /\ wire = <<>> /\ hungUp

Lost(s) == [s EXCEPT !.conn.role = "gone"]

Settle(s, n, next) ==
  /\ conn' = s.conn
  /\ taken' = s.taken
  /\ served' = s.served
  /\ shown' = s.shown
  /\ ready' = FALSE
  /\ wire' = IF conn.closing THEN wire ELSE SubSeq(wire, n + 1, Len(wire))
  /\ phase' = next
  /\ UNCHANGED <<hungUp, sent, written, garbled>>

\* poll: a closing connection is not polled for reading.
Poll ==
  /\ phase = "poll" /\ conn.role \notin {"gone", "client"}
  /\ ready' = (~conn.closing /\ (wire # <<>> \/ hungUp))
  /\ phase' = conn.role
  /\ UNCHANGED <<conn, wire, hungUp, sent, written, garbled, taken, served, refused, shown>>

\* The section in which a negotiated connection is read in this turn.
After(role) == IF role \in {"interactive", "metadata"} THEN role ELSE "flush"

\* The role the message names, if its slot is free; or Busy.
Negotiated(s) ==
  LET role == IF Last(s.taken).type = "Hello" THEN "interactive" ELSE "metadata"
  IN  {[s EXCEPT !.conn.role = role], CloseWhenFlushed(s)}

\* read_pending
ReadPending ==
  /\ phase = "pending"
  /\ IF Ended
     THEN Settle(Lost(State), 0, "flush") /\ UNCHANGED refused
     ELSE \E n \in Reads : \E s \in NextIncoming(WithRead(State, n)) :
            IF ~s.more THEN Settle(s, n, "flush") /\ UNCHANGED refused
            ELSE \E t \in Negotiated(s) :
                   /\ Settle(t, n, After(t.conn.role))
                   /\ refused' = t.conn.closing

\* read_observer: it has no message to say, whether or not one was ready.
ReadObserver ==
  /\ phase = "metadata"
  /\ IF Ended
     THEN Settle(Lost(State), 0, "flush")
     ELSE \E n \in Reads : \E s \in NextIncoming(WithRead(State, n)) : Settle(s, n, "flush")
  /\ UNCHANGED refused

\* One round of the loop of read_client: the message is handled.
Round(states) ==
  UNION {IF s.more
         THEN {IF t.more THEN [t EXCEPT !.served = @ + 1] ELSE t : t \in NextIncoming(s)}
         ELSE {s} : s \in states}

\* The loop ends with the input that holds no more messages: it has no more rounds than
\* headers.  The states after the i-th round, as a function of i.
MaxRounds(s) == (Len(s.conn.input) \div HeaderBytes) + 1

Rounds(s) ==
  LET after[i \in 0..MaxRounds(s)] == IF i = 0 THEN {s} ELSE Round(after[i - 1])
  IN  after

Served(s) == Rounds(s)[MaxRounds(s)]

\* Mutant: poll's answer alone.
HasInputOnlyReady == ready

\* What makes run read the client: poll's answer, or input that is left over.
HasInput == ready \/ conn.input # <<>>

\* read_client.  A connection negotiated in this turn was not polled as a client.
ReadClient ==
  /\ phase = "interactive"
  /\ IF ~HasInput THEN Settle(State, 0, "flush")
     ELSE IF Ended THEN Settle(Lost(State), 0, "flush")
     ELSE \E n \in Reads : \E s \in Served(WithRead(State, n)) : Settle(s, n, "flush")
  /\ UNCHANGED refused

\* Client.flush: a closing connection ends when its output is sent.
Flush ==
  /\ phase = "flush"
  /\ phase' = "poll"
  /\ conn' \in {conn} \union (IF conn.closing THEN {[conn EXCEPT !.role = "gone"]} ELSE {})
  /\ UNCHANGED <<ready, wire, hungUp, sent, written, garbled, taken, served, refused, shown>>

-----------------------------------------------------------------------------
(***************************************************************************)
(* A client's end, which is outside the repository: it takes what the      *)
(* library finds complete, and gives every frame to its reducer.           *)
(***************************************************************************)
FramesIn(m) == IF m.type \in {"Frame", "WheelViewport", "ScrollViewport"} THEN <<m.frame>> ELSE <<>>

Showing(current, m) ==
  IF FramesIn(m) # <<>> /\ Admits(current, m.frame) THEN <<m.frame>> ELSE current

Shown(s, message, length) ==
  IF message = Bad THEN [Lost(s) EXCEPT !.more = FALSE]
  ELSE [s EXCEPT !.conn.input = SubSeq(@, length + 1, Len(@)),
                 !.taken = Append(@, message),
                 !.shown = Showing(@, message)]

ClientRound(s) ==
  LET length == ServerMessageLen(s.conn.input)
  IN  IF ~s.more THEN s
      ELSE IF length = Bad THEN [Lost(s) EXCEPT !.more = FALSE]
      ELSE IF length = Incomplete \/ Len(s.conn.input) < length THEN [s EXCEPT !.more = FALSE]
      ELSE Shown(s, DecodeServer(SubSeq(s.conn.input, 1, length)), length)

\* The state after i rounds, as a function of i.
ClientRounds(s) ==
  LET after[i \in 0..(MaxSent + 1)] == IF i = 0 THEN s ELSE ClientRound(after[i - 1])
  IN  after

ClientReads ==
  /\ phase = "poll" /\ conn.role = "client" /\ wire # <<>>
  /\ \E n \in Reads : Settle(ClientRounds(WithRead(State, n))[MaxSent + 1], n, "poll")
  /\ UNCHANGED refused

Next ==
  \/ Write
  \/ WriteGarbled
  \/ HangUp
  \/ Poll
  \/ ReadPending
  \/ ReadObserver
  \/ ReadClient
  \/ Flush
  \/ ClientReads

Spec == Init /\ [][Next]_vars

-----------------------------------------------------------------------------
(***************************************************************************)
(* Properties.                                                             *)
(***************************************************************************)
Open == conn.role # "gone" /\ ~conn.closing

EncodedTaken == FlattenSeq([i \in 1..Len(taken) |-> Encode(taken[i])])

(***************************************************************************)
(* The messages taken out of the input, the input and the stream are       *)
(* together, byte by byte, what was written: no byte is lost, read twice   *)
(* or skipped whatever the pieces in which it arrives, and the decoders    *)
(* admit no bytes that the encoders would not write for the same value     *)
(* (client_message_len and its decode against the encode; the drain of     *)
(* next_incoming).                                                         *)
(***************************************************************************)
FramingExact ==
  conn.role # "gone" =>
    IF conn.closing THEN IsPrefix(EncodedTaken, written)
    ELSE EncodedTaken \o conn.input \o wire = written

\* The messages of a peer that keeps to its role.
WellSpoken ==
  /\ Len(sent) > 0 => sent[1].type \in {"Hello", "ObserveMetadata"}
  /\ Len(sent) > 1 => sent[1].type = "Hello"
  /\ \A i \in 2..Len(sent) : sent[i].type \notin {"Hello", "ObserveMetadata"}

(***************************************************************************)
(* What an encoder writes a decoder takes, as the same value: the          *)
(* validation and the limits of the two sides agree, and with them the     *)
(* size that a producer has counted with FrameSize (the debug_assert of    *)
(* encode_frame).  A connection on which every byte is as encoded is not   *)
(* refused, unless its peer speaks out of its role, is told Busy, or hangs *)
(* up.                                                                     *)
(***************************************************************************)
SentIsTaken ==
  ~garbled =>
    /\ IsPrefix(taken, sent)
    /\ Open /\ phase = "poll" /\ wire = <<>> /\ conn.role # "pending" => taken = sent
    /\ ~Open => hungUp \/ refused \/ (conn.role # "client" /\ ~WellSpoken)
    /\ \A i \in 1..Len(sent) : \A frame \in ToSet(FramesIn(sent[i])) :
         FrameSize(frame) = Len(EncodeFrame(frame))

(***************************************************************************)
(* When the owner goes to wait in poll, no complete message of the         *)
(* interactive client lies in its input, although nothing on the socket    *)
(* would wake the owner for it: messages that arrived with the Hello, or   *)
(* several at once, are served in the same turn (has_input in run, the     *)
(* loop of read_client).                                                   *)
(***************************************************************************)
ServedBeforePolling ==
  Open /\ phase = "poll" /\ conn.role = "interactive" =>
    LET length == ClientMessageLen(conn.input)
    IN  length = Incomplete \/ (length # Bad /\ Len(conn.input) < length)

(***************************************************************************)
(* A connection that was refused has said its last word: what it sent with *)
(* the offending message, or after it, is not taken and not served while   *)
(* the failure waits to be flushed (close_when_flushed).                   *)
(***************************************************************************)
RefusalIsFinal == [][~Open => taken' = taken /\ served' = served]_vars

(***************************************************************************)
(* A client shows the first frame it took of the highest revision it took: *)
(* the reducer refuses no frame the decoder admitted but for its revision, *)
(* and a frame of the same or a lower revision replaces nothing            *)
(* (FrameReducer.push).                                                    *)
(***************************************************************************)
ShowsNewest ==
  LET withFrame == {i \in 1..Len(taken) : FramesIn(taken[i]) # <<>>}
      Revision(i) == taken[i].frame.revision
      IsNewest(i) == \A j \in withFrame : /\ Revision(j) <= Revision(i)
                                          /\ j < i => Revision(j) < Revision(i)
  IN  IF withFrame = {} THEN shown = <<>>
      ELSE \E i \in withFrame : IsNewest(i) /\ shown = <<taken[i].frame>>
=============================================================================
