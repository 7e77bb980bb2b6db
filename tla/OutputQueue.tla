----------------------------- MODULE OutputQueue -----------------------------
(***************************************************************************)
(* The bounded output queue of one connection: OutputQueue of             *)
(* src/attachment.rs, as operators on a queue record.  A message is a      *)
(* record with at least a class and a size; what else it carries is the    *)
(* business of the module that builds it.  Sizes are counted in abstract   *)
(* units: the constants keep the relations between the code's limits       *)
(* (a frame, a copied text, a whole payload, a header), not their values.  *)
(***************************************************************************)
EXTENDS Integers, Sequences

CONSTANTS
  MaxFrameBytes,    \* MAX_FRAME_BYTES: the largest complete frame
  MaxCopyBytes,     \* session::MAX_COPY_BYTES: the largest copied text
  MaxPayloadBytes,  \* session::MAX_PAYLOAD_BYTES: frame, row window, tags
  HeaderBytes,      \* session::HEADER_BYTES
  TagBytes,         \* the 9 bytes of a revision and a location tag
  SlackBytes        \* the 4096 bytes for small messages

ASSUME LimitsAssumption ==
  /\ MaxFrameBytes \in Nat \ {0}
  /\ MaxCopyBytes \in Nat \ {0}
  /\ MaxPayloadBytes \in Nat \ {0}
  /\ HeaderBytes \in Nat \ {0}
  /\ TagBytes \in Nat
  /\ SlackBytes \in Nat

\* The byte bound of the queue.
MaxOutputBytes == MaxFrameBytes + MaxPayloadBytes + 2 * HeaderBytes + SlackBytes

Classes == {"Ordered", "Preview", "Frame", "ScrollOutcome", "Metadata"}

\* Which class of waiting message a new message makes worthless.
Supersedes(class, older) ==
  \/ class = "Preview" /\ older = "Preview"
  \/ class \in {"Frame", "ScrollOutcome"} /\ older \in {"Preview", "Frame"}
  \/ class = "Metadata" /\ older = "Metadata"

Empty == [messages |-> <<>>, offset |-> 0, bytes |-> 0]

(***************************************************************************)
(* The bytes of the first n messages, as a function of n.                  *)
(***************************************************************************)
Sums(ms) ==
  LET upto[n \in 0 .. Len(ms)] == IF n = 0 THEN 0 ELSE upto[n - 1] + ms[n].size
  IN  upto

-----------------------------------------------------------------------------
(***************************************************************************)
(* replaceable_suffix: the messages at the back that a new message of a    *)
(* class replaces.  A message whose first bytes are on the wire is the     *)
(* head with a nonzero offset, and stays.  A preview replaces one preview; *)
(* the other classes replace a whole run.                                  *)
(***************************************************************************)
\* Mutant: a message cut off by a partial write is replaced too.
ReplaceableOnWire(q, class, i) == Supersedes(class, q.messages[i].class)

Replaceable(q, class, i) ==
  /\ Supersedes(class, q.messages[i].class)
  /\ i = 1 => q.offset = 0

\* The lengths the queue may be cut to for a message of this class; a mutant
\* gives up after one message for every class.
CutsOne(q, class) ==
  {n \in 0 .. Len(q.messages) :
     /\ \A i \in n + 1 .. Len(q.messages) : Replaceable(q, class, i)
     /\ Len(q.messages) - n <= 1}

Cuts(q, class) ==
  {n \in 0 .. Len(q.messages) :
     /\ \A i \in n + 1 .. Len(q.messages) : Replaceable(q, class, i)
     /\ class = "Preview" => Len(q.messages) - n <= 1}

Kept(q, class) == CHOOSE n \in Cuts(q, class) : \A k \in Cuts(q, class) : n <= k

RemovedBytes(q, class) ==
  Sums(q.messages)[Len(q.messages)] - Sums(q.messages)[Kept(q, class)]

\* Mutant: the bytes of what is removed still count.
CutKeepingBytes(q, class) ==
  [messages |-> SubSeq(q.messages, 1, Kept(q, class)),
   offset   |-> q.offset,
   bytes    |-> q.bytes]

\* The queue without its replaceable suffix; for class "Frame" this is
\* supersede_pending_frame.
Cut(q, class) ==
  [messages |-> SubSeq(q.messages, 1, Kept(q, class)),
   offset   |-> q.offset,
   bytes    |-> q.bytes - RemovedBytes(q, class)]

\* Mutant: everything that waits is discarded.
SupersedeAll(q) == Empty

SupersedePendingFrame(q) == Cut(q, "Frame")

-----------------------------------------------------------------------------
(***************************************************************************)
(* push and push_replaceable: the admission test, then the queue after it. *)
(***************************************************************************)
Fits(q, m) == q.bytes + m.size <= MaxOutputBytes

Push(q, m) ==
  [messages |-> Append(q.messages, m), offset |-> q.offset, bytes |-> q.bytes + m.size]

FitsReplaceable(q, m) == Fits(Cut(q, m.class), m)

PushReplaceable(q, m) == Push(Cut(q, m.class), m)

(***************************************************************************)
(* The preflights a handler asks before it changes the terminal.           *)
(***************************************************************************)
CanPushResultFrame(q) == q.bytes + MaxFrameBytes + 2 * HeaderBytes <= MaxOutputBytes

CanPushHostSelectionResult(q, finishing) ==
  Cut(q, "Frame").bytes
    + (IF finishing THEN MaxFrameBytes + MaxCopyBytes + TagBytes + 3 * HeaderBytes
                    ELSE MaxFrameBytes + 2 * HeaderBytes)
    <= MaxOutputBytes

CanPushFrameMessage(q) ==
  Cut(q, "Frame").bytes + MaxFrameBytes + HeaderBytes <= MaxOutputBytes

\* Mutant: the header of the message is forgotten.
CanPushScrollPayload(q) == Cut(q, "ScrollOutcome").bytes + MaxPayloadBytes <= MaxOutputBytes

CanPushScrollOutcome(q) ==
  Cut(q, "ScrollOutcome").bytes + MaxPayloadBytes + HeaderBytes <= MaxOutputBytes

-----------------------------------------------------------------------------
(***************************************************************************)
(* One write of the flush loop: the socket takes n bytes of the head.      *)
(***************************************************************************)
Write(q, n) ==
  IF q.offset + n = Head(q.messages).size
  THEN [messages |-> Tail(q.messages), offset |-> 0, bytes |-> q.bytes - n]
  ELSE [messages |-> q.messages, offset |-> q.offset + n, bytes |-> q.bytes - n]

(***************************************************************************)
(* What a queue is at all times.                                           *)
(***************************************************************************)

\* The byte count is exactly what is still to be sent, and within the bound.
Accounted(q) ==
  /\ q.bytes + q.offset = Sums(q.messages)[Len(q.messages)]
  /\ q.bytes <= MaxOutputBytes
  /\ IF q.messages = <<>> THEN q.offset = 0 ELSE q.offset < Head(q.messages).size

\* Between two messages that stay there is at most one frame and one preview
\* behind it, and at most one metadata update: replaceable messages never
\* pile up.  The head may escape this only while it is on the wire.
Coalesced(q) ==
  \A i \in 2 .. Len(q.messages) :
    Supersedes(q.messages[i].class, q.messages[i - 1].class)
      => /\ i = 2 
         /\ q.offset # 0
=============================================================================
