----------------------------- MODULE ClientOutput -----------------------------
(***************************************************************************)
(* One connection's output, from the owner's pushes to the bytes the peer  *)
(* reads: the output half of Client in src/attachment.rs.  The owner here  *)
(* is arbitrary: it pushes any message the session sends, in any order, at *)
(* any time; the socket takes any number of bytes of the head, at any      *)
(* time.  What this module shows of the queue therefore holds under every  *)
(* owner, in particular the one of module Session.                         *)
(*                                                                         *)
(* wire is the byte stream the peer reads, each byte with the message it   *)
(* belongs to and its place in it; wire, admitted and delivered are history  *)
(* variables.                                                              *)
(***************************************************************************)
EXTENDS OutputQueue

CONSTANTS
  Sizes,       \* the sizes a message may have
  MaxPushes    \* bound: messages admitted on one connection

ASSUME PushesAssumption ==
  /\ Sizes \subseteq Nat \ {0}
  /\ MaxPushes \in Nat

VARIABLES
  queue,            \* Client.output
  initialPending,   \* initial_frame_pending / initial_metadata_pending
  connected,        \* FALSE once the owner has dropped the client
  admitted,         \* every message admitted, oldest first
  delivered,        \* the messages whose last byte is sent, in order
  wire              \* the bytes sent

vars == <<queue, initialPending, connected, admitted, delivered, wire>>

Message == [id : Nat, class : Classes, size : Nat \ {0}]

\* Messages that may be pushed but never dropped once admitted.
DurableClasses == {"Ordered", "ScrollOutcome"}

Durable == {m \in Message : m.class \in DurableClasses}

NewMessage(class, size) == [id |-> Len(admitted) + 1, class |-> class, size |-> size]

-----------------------------------------------------------------------------
\* Client::new with its acknowledgement still to be pushed.
Init ==
  /\ queue = Empty
  /\ initialPending = TRUE
  /\ connected = TRUE
  /\ admitted = <<>>
  /\ delivered = <<>>
  /\ wire = <<>>

\* A refused push: every caller drops the client, or lets it go unsent.
Refuse ==
  /\ connected' \in {TRUE, FALSE}
  /\ UNCHANGED <<queue, initialPending, admitted, delivered, wire>>

Admit(m, q) ==
  /\ queue' = q
  /\ admitted' = Append(admitted, m)
  /\ UNCHANGED <<connected, delivered, wire>>

\* push_message: class Ordered never replaces, so push_replaceable is push.
PushMessage(class, size) ==
  /\ connected
  /\ Len(admitted) < MaxPushes
  /\ LET m == NewMessage(class, size)
     IN  \/ /\ FitsReplaceable(queue, m)
            /\ Admit(m, PushReplaceable(queue, m))
            /\ UNCHANGED initialPending
         \/ /\ ~FitsReplaceable(queue, m)
            /\ Refuse

\* push_frame and push_metadata: the first one is Ordered, later ones replace.
PushLatest(class, size) ==
  /\ connected
  /\ Len(admitted) < MaxPushes
  /\ LET m == NewMessage(IF initialPending THEN "Ordered" ELSE class, size)
         fits == IF initialPending THEN Fits(queue, m) ELSE FitsReplaceable(queue, m)
         q == IF initialPending THEN Push(queue, m) ELSE PushReplaceable(queue, m)
     IN  \/ /\ fits
            /\ Admit(m, q)
            /\ initialPending' = FALSE
         \/ /\ ~fits
            /\ Refuse

\* supersede_pending_frame, before a selection phase publishes its own frame.
Supersede ==
  /\ connected
  /\ queue' = SupersedePendingFrame(queue)
  /\ UNCHANGED <<initialPending, connected, admitted, delivered, wire>>

\* One successful write of the flush loop.  A flush that stops early
\* (WouldBlock) and one that goes on differ only in how many of these happen
\* before the owner's next push.
Send(n) ==
  /\ connected
  /\ queue.messages # <<>>
  /\ LET m == Head(queue.messages)
     IN  /\ n \in 1 .. m.size - queue.offset
         /\ wire' = wire \o [i \in 1 .. n |-> [msg |-> m, byte |-> queue.offset + i]]
         /\ delivered' = IF queue.offset + n = m.size
                         THEN Append(delivered, m)
                         ELSE delivered
  /\ queue' = Write(queue, n)
  /\ UNCHANGED <<initialPending, connected, admitted>>

\* The peer is gone: a failed write, or the owner dropped the client.
Disconnect ==
  /\ connected
  /\ connected' = FALSE
  /\ UNCHANGED <<queue, initialPending, admitted, delivered, wire>>

Next ==
  \/ \E class \in Classes, size \in Sizes : PushMessage(class, size)
  \/ \E class \in {"Frame", "Metadata"}, size \in Sizes : PushLatest(class, size)
  \/ Supersede
  \/ \E n \in 1 .. MaxOutputBytes : Send(n)
  \/ Disconnect

Spec == Init /\ [][Next]_vars

-----------------------------------------------------------------------------
TypeOK ==
  /\ queue \in [messages : Seq(Message), offset : Nat, bytes : Nat]
  /\ initialPending \in BOOLEAN
  /\ connected \in BOOLEAN
  /\ admitted \in Seq(Message)
  /\ delivered \in Seq(Message)
  /\ wire \in Seq([msg : Message, byte : Nat])

\* What the peer has been or will be sent, oldest first.
Stream == delivered \o queue.messages

\* The byte count that every admission test and preflight relies on is, after
\* any mix of pushes, replacements and partial writes, exactly the unsent
\* bytes, and never above MAX_OUTPUT_BYTES (push, push_replaceable, flush).
OutputAccounted == Accounted(queue)

\* A slow reader never makes replaceable messages pile up: at most one frame
\* and one preview wait between two messages that must arrive
\* (replaceable_suffix; "at most one coalesced latest frame between other
\* messages", docs/TERMINAL.md).
OutputCoalesced == Coalesced(queue)

\* Replacing messages at the back never tears the byte stream: bytes of one
\* message follow each other from its first to its last, and the message cut
\* off by a partial write is still the head, to be continued where it stopped
\* (the index == 0 && offset != 0 test of replaceable_suffix).
Framed ==
  /\ \A i \in 1 .. Len(wire) :
       IF wire[i].byte = 1
       THEN i > 1 => wire[i - 1].byte = wire[i - 1].msg.size
       ELSE /\ i > 1
            /\ wire[i].msg = wire[i - 1].msg
            /\ wire[i].byte = wire[i - 1].byte + 1
  /\ IF wire = <<>> \/ wire[Len(wire)].byte = wire[Len(wire)].msg.size
     THEN queue.offset = 0
     ELSE /\ queue.messages # <<>>
          /\ wire[Len(wire)] = [msg |-> Head(queue.messages), byte |-> queue.offset]

\* Messages leave in the order they were pushed, each at most once.
InOrder ==
  \A i, j \in 1 .. Len(Stream) : i < j => Stream[i].id < Stream[j].id

\* Coalescing loses no response, effect, initial frame or scroll outcome: each
\* one admitted has been sent or still waits.
DurableKept ==
  \A k \in 1 .. Len(admitted) :
    admitted[k].class \in DurableClasses => \E i \in 1 .. Len(Stream) : Stream[i] = admitted[k]

\* Whatever the owner pushes and however the socket stalls, the peer sees a
\* channel that keeps order and drops only replaceable messages at the back.
Channel == INSTANCE CoalescingChannel WITH waiting <- queue.messages, arrived <- delivered

ImplementsChannel == Channel!Spec
=============================================================================
