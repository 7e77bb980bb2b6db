-------------------------- MODULE ClientOutputProofs --------------------------
(***************************************************************************)
(* Theorems of ClientOutput, for every limit, every set of message sizes   *)
(* and every number of pushes.  The inductive invariant joins the types,   *)
(* the byte account and the coalescing rule: the account needs the types,  *)
(* coalescing needs the account to know that the head on the wire stays.   *)
(***************************************************************************)
EXTENDS ClientOutput, OutputQueueProofs, SequenceTheorems

IInv ==
  /\ TypeOK
  /\ OutputAccounted
  /\ OutputCoalesced

\* The messages of this module are messages of the queue.
LEMMA MessagesAreMessages == QueueMessages(Message)
BY DEF QueueMessages, Message

\* The queue is a queue of them.
LEMMA QueueType == TypeOK => queue \in QueueOf(Message)
BY DEF TypeOK, QueueOf

\* What PushMessage makes is a message.
LEMMA NewMessageType ==
  ASSUME TypeOK, NEW class \in Classes, NEW size \in Sizes
  PROVE  NewMessage(class, size) \in Message
<1>1. Len(admitted) + 1 \in Nat
  BY DEF TypeOK
<1>2. size \in Nat \ {0}
  BY PushesAssumption
<1> QED
  BY <1>1, <1>2 DEF NewMessage, Message

-----------------------------------------------------------------------------
\* A fresh connection is accounted for.
LEMMA InitIInv == Init => IInv
<1> SUFFICES ASSUME Init
             PROVE  IInv
  OBVIOUS
<1>1. Empty \in QueueOf(Message) /\ Accounted(Empty)
  BY MessagesAreMessages, EmptyAccounted
<1>2. TypeOK
  BY <1>1 DEF Init, TypeOK, QueueOf
<1>3. OutputAccounted
  BY <1>1 DEF Init, OutputAccounted
<1>4. OutputCoalesced
  BY DEF Init, OutputCoalesced, Coalesced, Empty
<1> QED
  BY <1>2, <1>3, <1>4 DEF IInv

\* push keeps the coalescing rule for an ordered message: it is the
\* replaceable push of a class that replaces nothing.
LEMMA PushIsPushReplaceable ==
  ASSUME NEW q \in QueueOf(Message), NEW m \in Message, m.class = "Ordered"
  PROVE  PushReplaceable(q, m) = Push(q, m) /\ FitsReplaceable(q, m) = Fits(q, m)
BY OrderedCutsNothing, MessagesAreMessages DEF PushReplaceable, FitsReplaceable

\* A push that fits keeps the accounts.
LEMMA AdmitIInv ==
  ASSUME IInv, NEW m \in Message, FitsReplaceable(queue, m),
         Admit(m, PushReplaceable(queue, m)), initialPending' \in BOOLEAN
  PROVE  IInv'
<1>1. queue \in QueueOf(Message) /\ Accounted(queue) /\ Coalesced(queue) /\ TypeOK
  BY QueueType DEF IInv, OutputAccounted, OutputCoalesced
<1>2. queue' = PushReplaceable(queue, m)
  BY DEF Admit
<1>3. queue' \in QueueOf(Message) /\ Accounted(queue')
  BY <1>1, <1>2, PushReplaceableAccounted, MessagesAreMessages
<1>4. Coalesced(queue')
  BY <1>1, <1>2, PushReplaceableCoalesced, MessagesAreMessages
<1>5. TypeOK'
  BY <1>1, <1>3 DEF Admit, TypeOK, QueueOf
<1> QED
  BY <1>3, <1>4, <1>5 DEF IInv, OutputAccounted, OutputCoalesced

\* A step that leaves everything but the flags alone.
LEMMA IdleIInv ==
  ASSUME IInv, UNCHANGED <<queue, admitted, delivered, wire>>,
         connected' \in BOOLEAN, initialPending' \in BOOLEAN
  PROVE  IInv'
BY DEF IInv, TypeOK, OutputAccounted, OutputCoalesced

\* Every step keeps the accounts of the queue.
LEMMA StepIInv == IInv /\ [Next]_vars => IInv'
<1> SUFFICES ASSUME IInv, [Next]_vars
             PROVE  IInv'
  OBVIOUS
<1>1. queue \in QueueOf(Message) /\ Accounted(queue) /\ Coalesced(queue) /\ TypeOK
  BY QueueType DEF IInv, OutputAccounted, OutputCoalesced
<1>2. ASSUME NEW class \in Classes, NEW size \in Sizes, PushMessage(class, size)
      PROVE  IInv'
  <2> DEFINE m == NewMessage(class, size)
  <2>1. m \in Message
    BY <1>1, NewMessageType
  <2>2. CASE /\ FitsReplaceable(queue, m)
             /\ Admit(m, PushReplaceable(queue, m))
             /\ UNCHANGED initialPending
    <3>1. initialPending' \in BOOLEAN
      BY <1>1, <2>2 DEF TypeOK
    <3> HIDE DEF m
    <3> QED
      BY <2>1, <2>2, <3>1, AdmitIInv
  <2>3. CASE Refuse
    BY <1>1, <2>3, IdleIInv DEF Refuse, TypeOK
  <2> QED
    BY <1>2, <2>2, <2>3 DEF PushMessage
<1>3. ASSUME NEW class \in {"Frame", "Metadata"}, NEW size \in Sizes, PushLatest(class, size)
      PROVE  IInv'
  <2> DEFINE m == NewMessage(IF initialPending THEN "Ordered" ELSE class, size)
  <2>1. m \in Message
    BY <1>1, NewMessageType DEF Classes
  <2>2. initialPending => m.class = "Ordered"
    BY DEF NewMessage
  <2>3. initialPending => /\ PushReplaceable(queue, m) = Push(queue, m)
                          /\ FitsReplaceable(queue, m) = Fits(queue, m)
    <3> HIDE DEF m
    <3> QED
      BY <1>1, <2>1, <2>2, PushIsPushReplaceable
  <2>4. \/ /\ FitsReplaceable(queue, m)
           /\ Admit(m, PushReplaceable(queue, m))
           /\ initialPending' = FALSE
        \/ Refuse
    BY <1>3, <2>3 DEF PushLatest
  <2> HIDE DEF m
  <2>5. CASE Refuse
    BY <1>1, <2>5, IdleIInv DEF Refuse, TypeOK
  <2> QED
    BY <2>1, <2>4, <2>5, AdmitIInv
<1>4. CASE Supersede
  <2>1. queue' = Cut(queue, "Frame")
    BY <1>4 DEF Supersede, SupersedePendingFrame
  <2>2. queue' \in QueueOf(Message) /\ Accounted(queue')
    BY <1>1, <2>1, CutAccounted, MessagesAreMessages
  <2>3. Coalesced(queue')
    BY <1>1, <2>1, CutCoalesced
  <2>4. TypeOK'
    BY <1>1, <1>4, <2>2 DEF Supersede, TypeOK, QueueOf
  <2> QED
    BY <2>2, <2>3, <2>4 DEF IInv, OutputAccounted, OutputCoalesced
<1>5. ASSUME NEW n \in 1 .. MaxOutputBytes, Send(n)
      PROVE  IInv'
  <2> DEFINE m == Head(queue.messages)
  <2>1. queue.messages # <<>> /\ n \in 1 .. m.size - queue.offset /\ queue' = Write(queue, n)
    BY <1>5 DEF Send
  <2>2. queue' \in QueueOf(Message) /\ Accounted(queue')
    BY <1>1, <2>1, WriteAccounted, MessagesAreMessages
  <2>3. Coalesced(queue')
    BY <1>1, <2>1, WriteCoalesced
  <2>4. m \in Message
    BY <1>1, <2>1 DEF QueueOf
  <2>5. delivered' \in Seq(Message)
    BY <1>1, <1>5, <2>4 DEF Send, TypeOK
  <2>6. wire' \in Seq([msg : Message, byte : Nat])
    <3> DEFINE w == [i \in 1 .. n |-> [msg |-> m, byte |-> queue.offset + i]]
    <3>1. queue.offset \in Nat /\ n \in Nat
      BY <1>1 DEF QueueOf
    <3>2. w \in Seq([msg : Message, byte : Nat])
      BY <2>4, <3>1
    <3>3. wire' = wire \o w
      BY <1>5 DEF Send
    <3> HIDE DEF w
    <3> QED
      BY <1>1, <3>2, <3>3 DEF TypeOK
  <2>7. TypeOK'
    BY <1>1, <1>5, <2>2, <2>5, <2>6 DEF Send, TypeOK, QueueOf
  <2> QED
    BY <2>2, <2>3, <2>7 DEF IInv, OutputAccounted, OutputCoalesced
<1>6. CASE Disconnect
  BY <1>1, <1>6, IdleIInv DEF Disconnect, TypeOK
<1>7. CASE UNCHANGED vars
  BY <1>1, <1>7, IdleIInv DEF vars, TypeOK
<1> QED
  BY <1>2, <1>3, <1>4, <1>5, <1>6, <1>7 DEF Next

\* The counters of the queue agree with its messages, at most one frame waits
\* behind what is on the wire, and every variable keeps its type.
THEOREM Invariant == Spec => []IInv
BY InitIInv, StepIInv, PTL DEF Spec

\* Every queue, admitted message and sent byte keeps its type.
THEOREM TypeCorrect == Spec => []TypeOK
<1>1. IInv => TypeOK
  BY DEF IInv
<1> QED
  BY <1>1, Invariant, PTL

\* The byte count that admission and preflights read is exactly the unsent
\* bytes and stays within MAX_OUTPUT_BYTES, for every value of the limits.
THEOREM OutputStaysAccounted == Spec => []OutputAccounted
<1>1. IInv => OutputAccounted
  BY DEF IInv
<1> QED
  BY <1>1, Invariant, PTL

\* Replaceable messages never pile up, however long the peer stalls.
THEOREM OutputStaysCoalesced == Spec => []OutputCoalesced
<1>1. IInv => OutputCoalesced
  BY DEF IInv
<1> QED
  BY <1>1, Invariant, PTL

-----------------------------------------------------------------------------
(***************************************************************************)
(* Order, durability and framing.  Each step sees the stream in one of     *)
(* three ways: a suffix of replaceable messages goes and one message       *)
(* comes, a suffix goes, or nothing changes.                               *)
(***************************************************************************)

\* The stream up to the waiting message n.
UpTo(n) == Len(delivered) + n

\* What was delivered and what waits are one sequence.
LEMMA StreamFacts ==
  ASSUME TypeOK
  PROVE  /\ Stream \in Seq(Message)
         /\ Len(Stream) = UpTo(Len(queue.messages))
         /\ \A i \in 1 .. Len(delivered) : Stream[i] = delivered[i]
         /\ \A i \in 1 .. Len(queue.messages) : Stream[UpTo(i)] = queue.messages[i]
BY DEF TypeOK, Stream, UpTo

\* A cut removes no durable message.
LEMMA CutIsReplaceable ==
  ASSUME TypeOK, NEW class \in Classes, NEW i \in Kept(queue, class) + 1 .. Len(queue.messages)
  PROVE  queue.messages[i].class \notin DurableClasses
<1>1. Replaceable(queue, class, i)
  BY QueueType, KeptFacts
<1> QED
  BY <1>1 DEF Replaceable, Supersedes, DurableClasses, Classes

\* After a cut to n and perhaps one message more, the stream is the old one
\* up to there.
LEMMA StreamCut ==
  ASSUME TypeOK, TypeOK', UNCHANGED delivered, NEW n \in 0 .. Len(queue.messages),
         Len(queue'.messages) >= n,
         \A i \in 1 .. n : queue'.messages[i] = queue.messages[i]
  PROVE  /\ Len(Stream') = UpTo(Len(queue'.messages))
         /\ \A i \in 1 .. UpTo(n) : i \in 1 .. Len(Stream) /\ Stream'[i] = Stream[i]
         /\ \A i \in n + 1 .. Len(queue'.messages) : Stream'[UpTo(i)] = queue'.messages[i]
<1> DEFINE d == delivered
           a == queue.messages
           b == queue'.messages
<1>1. d \in Seq(Message) /\ a \in Seq(Message) /\ b \in Seq(Message)
  BY DEF TypeOK
<1>2. Stream = d \o a /\ Stream' = d \o b
  BY DEF Stream
<1>3. n \in 0 .. Len(a) /\ n <= Len(b) /\ \A i \in 1 .. n : b[i] = a[i]
  OBVIOUS
<1> HIDE DEF d, a, b
<1>4. Len(d \o b) = Len(d) + Len(b)
  BY <1>1
<1>5. ASSUME NEW i \in 1 .. Len(d) + n
      PROVE  i \in 1 .. Len(d \o a) /\ (d \o b)[i] = (d \o a)[i]
  BY <1>1, <1>3
<1>6. ASSUME NEW i \in n + 1 .. Len(b)
      PROVE  (d \o b)[Len(d) + i] = b[i]
  BY <1>1, <1>3
<1> QED
  BY <1>2, <1>4, <1>5, <1>6 DEF UpTo, d, a, b

\* Moving the head of one sequence to the end of another changes no order.
LEMMA HeadMovesOver ==
  ASSUME NEW M, NEW s \in Seq(M), NEW t \in Seq(M), t # <<>>
  PROVE  Append(s, Head(t)) \o Tail(t) = s \o t
<1>1. Head(t) \in M /\ Tail(t) \in Seq(M) /\ 1 \in 1 .. Len(t) /\ Len(t) \in 1 .. Len(t)
  OBVIOUS
<1>2. Append(s, Head(t)) = s \o <<Head(t)>>
  BY <1>1, AppendIsConcat
<1>3. t = <<Head(t)>> \o Tail(t)
  <2>1. SubSeq(t, 1, Len(t)) = <<t[1]>> \o SubSeq(t, 1 + 1, Len(t))
    BY <1>1, SubSeqRecursiveFirst
  <2>2. SubSeq(t, 1, Len(t)) = t
    BY SubSeqFull
  <2>3. Tail(t) = SubSeq(t, 2, Len(t)) /\ 1 + 1 = 2
    BY TailIsSubSeq
  <2>4. Head(t) = t[1]
    OBVIOUS
  <2> QED
    BY <2>1, <2>2, <2>3, <2>4
<1>4. <<Head(t)>> \in Seq(M)
  BY <1>1
<1>5. (s \o <<Head(t)>>) \o Tail(t) = s \o (<<Head(t)>> \o Tail(t))
  BY <1>1, <1>4, ConcatAssociative
<1> QED
  BY <1>2, <1>3, <1>5

\* Sending moves the boundary between the two and changes neither.
LEMMA StreamSent ==
  ASSUME TypeOK, NEW n, Send(n)
  PROVE  Stream' = Stream
<1> DEFINE ms == queue.messages
<1>1. ms \in Seq(Message) /\ delivered \in Seq(Message) /\ ms # <<>>
  BY DEF TypeOK, Send
<1>2. CASE queue.offset + n = Head(ms).size
  <2>1. delivered' = Append(delivered, Head(ms)) /\ queue'.messages = Tail(ms)
    BY <1>2 DEF Send, Write
  <2>2. Append(delivered, Head(ms)) \o Tail(ms) = delivered \o ms
    BY <1>1, HeadMovesOver
  <2> QED
    BY <2>1, <2>2 DEF Stream
<1>3. CASE queue.offset + n # Head(ms).size
  BY <1>3 DEF Send, Write, Stream
<1> QED
  BY <1>2, <1>3

\* InOrder is inductive once ids are known to be numbers of admissions.
Numbered ==
  /\ InOrder
  /\ \A i \in 1 .. Len(Stream) : Stream[i].id <= Len(admitted)

OInv ==
  /\ Numbered
  /\ DurableKept
  /\ Framed

\* The bytes on the wire count from one.
LEMMA SentBytesCount ==
  ASSUME TypeOK, Framed, NEW i \in 1 .. Len(wire)
  PROVE  wire[i].byte # 0
<1>1. wire \in Seq([msg : Message, byte : Nat])
  BY DEF TypeOK
<1>2. CASE wire[i].byte # 1
  <2>1. i - 1 \in 1 .. Len(wire) /\ wire[i].byte = wire[i - 1].byte + 1
    BY <1>1, <1>2 DEF Framed
  <2>2. wire[i - 1] \in [msg : Message, byte : Nat]
    BY <1>1, <2>1, ElementOfSeq
  <2>3. wire[i - 1].byte \in Nat
    BY <2>2
  <2> QED
    BY <2>1, <2>3
<1> QED
  BY <1>2

\* A fresh connection has sent nothing.
LEMMA InitOInv == Init => OInv
BY DEF Init, OInv, Numbered, InOrder, DurableKept, Framed, Stream, Empty

\* An admitted message is the newest; what it replaces was not durable; a head
\* on the wire stays.
LEMMA AdmitOInv ==
  ASSUME IInv, IInv', OInv, NEW m \in Message, m.id = Len(admitted) + 1,
         Admit(m, PushReplaceable(queue, m))
  PROVE  OInv'
<1> DEFINE n == Kept(queue, m.class)
           ms == queue.messages
           ns == queue'.messages
<1>1. /\ TypeOK /\ TypeOK' /\ queue \in QueueOf(Message)
      /\ ms \in Seq(Message) /\ admitted \in Seq(Message) /\ delivered \in Seq(Message)
      /\ m.class \in Classes
  BY QueueType DEF IInv, TypeOK, Message
<1>2. n \in 0 .. Len(ms) /\ (queue.offset # 0 /\ ms # <<>> => n >= 1)
  BY <1>1, KeptFacts
<1>3. /\ ns \in Seq(Message) /\ Len(ns) = n + 1 /\ ns[n + 1] = m
      /\ \A i \in 1 .. n : ns[i] = ms[i]
      /\ queue'.offset = queue.offset
  <2> DEFINE c == Cut(queue, m.class).messages
  <2>1. c \in Seq(Message) /\ Len(c) = n /\ \A i \in 1 .. n : c[i] = ms[i]
    BY <1>1, CutShape
  <2>2. ns = Append(c, m) /\ queue'.offset = queue.offset
    BY <1>1, CutShape DEF Admit, PushReplaceable, Push
  <2> HIDE DEF c, ms, ns, n
  <2> QED
    BY <1>2, <2>1, <2>2
<1>4. admitted' = Append(admitted, m) /\ UNCHANGED <<delivered, wire>>
  BY DEF Admit
<1>5. \A i \in n + 1 .. Len(ms) : ms[i].class \notin DurableClasses
  BY <1>1, CutIsReplaceable
<1> HIDE DEF n
<1>6. /\ Len(Stream') = UpTo(n + 1)
      /\ \A i \in 1 .. UpTo(n) : i \in 1 .. Len(Stream) /\ Stream'[i] = Stream[i]
      /\ Stream'[UpTo(n + 1)] = m
  <2>1. n + 1 \in n + 1 .. Len(ns) /\ Len(ns) >= n
    BY <1>2, <1>3
  <2>2. /\ Len(Stream') = UpTo(Len(ns))
        /\ \A i \in 1 .. UpTo(n) : i \in 1 .. Len(Stream) /\ Stream'[i] = Stream[i]
        /\ \A i \in n + 1 .. Len(ns) : Stream'[UpTo(i)] = ns[i]
    BY <1>1, <1>2, <1>3, <1>4, <2>1, StreamCut
  <2> QED
    BY <1>3, <2>1, <2>2
<1>7. UpTo(n) \in Nat /\ UpTo(n + 1) = UpTo(n) + 1
  BY <1>1, <1>2 DEF UpTo
<1>8. /\ Stream \in Seq(Message)
      /\ Len(Stream) = UpTo(Len(ms))
      /\ \A i \in 1 .. Len(delivered) : Stream[i] = delivered[i]
      /\ \A i \in 1 .. Len(ms) : Stream[UpTo(i)] = ms[i]
  BY <1>1, StreamFacts
<1>9. Numbered'
  <2> DEFINE S == Stream
             T == Stream'
  <2>1. \A i \in 1 .. Len(S) : S[i].id \in Nat /\ S[i].id <= Len(admitted)
    <3>1. \A i \in 1 .. Len(S) : S[i] \in Message
      BY <1>8
    <3>2. \A i \in 1 .. Len(S) : S[i].id <= Len(admitted)
      BY DEF OInv, Numbered
    <3> QED
      BY <3>1, <3>2 DEF Message
  <2>2. Len(admitted') = Len(admitted) + 1 /\ Len(admitted) \in Nat
    BY <1>1, <1>4
  <2>3. ASSUME NEW i \in 1 .. Len(T)
        PROVE  /\ i = UpTo(n + 1) => T[i].id = Len(admitted) + 1
               /\ i # UpTo(n + 1) => i \in 1 .. UpTo(n)
    BY <1>6, <1>7
  <2>4. ASSUME NEW i \in 1 .. Len(T), NEW j \in 1 .. Len(T), i < j
        PROVE  T[i].id < T[j].id
    <3>1. i \in 1 .. UpTo(n) /\ i \in 1 .. Len(S) /\ T[i] = S[i]
      BY <1>6, <1>7, <2>4
    <3>2. CASE j = UpTo(n + 1)
      BY <2>1, <2>2, <2>3, <3>1, <3>2
    <3>3. CASE j # UpTo(n + 1)
      <4>1. j \in 1 .. Len(S) /\ T[j] = S[j]
        BY <1>6, <2>3, <3>3
      <4> QED
        BY <2>4, <3>1, <4>1 DEF OInv, Numbered, InOrder
    <3> QED
      BY <3>2, <3>3
  <2>5. ASSUME NEW i \in 1 .. Len(T)
        PROVE  T[i].id <= Len(admitted')
    BY <1>6, <2>1, <2>2, <2>3
  <2> QED
    BY <2>4, <2>5 DEF Numbered, InOrder
<1>10. DurableKept'
  <2> SUFFICES ASSUME NEW k \in 1 .. Len(admitted'), admitted'[k].class \in DurableClasses
               PROVE  \E i \in 1 .. Len(Stream') : Stream'[i] = admitted'[k]
    BY DEF DurableKept
  <2>1. CASE k = Len(admitted) + 1
    BY <1>1, <1>4, <1>6, <1>7, <2>1
  <2>2. CASE k # Len(admitted) + 1
    <3>1. k \in 1 .. Len(admitted) /\ admitted'[k] = admitted[k]
      BY <1>1, <1>4, <2>2
    <3>2. PICK i \in 1 .. Len(Stream) : Stream[i] = admitted[k]
      BY <3>1 DEF OInv, DurableKept
    <3>3. i \in 1 .. UpTo(n)
      <4>1. SUFFICES ASSUME ~(i \in 1 .. UpTo(n))
                     PROVE  FALSE
        OBVIOUS
      <4>2. i - Len(delivered) \in n + 1 .. Len(ms) /\ UpTo(i - Len(delivered)) = i
        BY <1>1, <1>2, <1>8, <4>1 DEF UpTo
      <4>3. Stream[i] = ms[i - Len(delivered)]
        BY <1>2, <1>8, <4>2, SMTT(30)
      <4> QED
        BY <1>5, <3>1, <3>2, <4>2, <4>3
    <3> QED
      BY <1>6, <1>7, <3>1, <3>2, <3>3
  <2> QED
    BY <2>1, <2>2
<1>11. Framed'
  <2>1. queue.offset # 0 /\ ms # <<>> => ns # <<>> /\ Head(ns) = Head(ms)
    BY <1>1, <1>2, <1>3
  <2>2. wire = <<>> \/ wire[Len(wire)].byte = wire[Len(wire)].msg.size
          => queue'.offset = 0
    BY <1>3 DEF OInv, Framed
  <2>3. ASSUME ~(wire = <<>> \/ wire[Len(wire)].byte = wire[Len(wire)].msg.size)
        PROVE  /\ ns # <<>>
               /\ wire[Len(wire)] = [msg |-> Head(ns), byte |-> queue'.offset]
    <3>1. ms # <<>> /\ wire[Len(wire)] = [msg |-> Head(ms), byte |-> queue.offset]
      BY <2>3 DEF OInv, Framed
    <3>2. Len(wire) \in 1 .. Len(wire) /\ wire[Len(wire)].byte = queue.offset
      BY <1>1, <2>3, <3>1 DEF TypeOK
    <3>3. queue.offset # 0
      BY <1>1, <3>2, SentBytesCount DEF OInv
    <3> QED
      BY <1>3, <2>1, <3>1, <3>3
  <2> QED
    BY <1>4, <2>2, <2>3 DEF OInv, Framed
<1> QED
  BY <1>9, <1>10, <1>11 DEF OInv

\* What is superseded was not durable; the rest keeps its place.
LEMMA SupersedeOInv ==
  ASSUME IInv, IInv', OInv, Supersede
  PROVE  OInv'
<1> DEFINE n == Kept(queue, "Frame")
           ms == queue.messages
           ns == queue'.messages
<1>1. /\ TypeOK /\ TypeOK' /\ queue \in QueueOf(Message)
      /\ ms \in Seq(Message) /\ delivered \in Seq(Message)
  BY QueueType DEF IInv, TypeOK
<1>2. n \in 0 .. Len(ms) /\ (queue.offset # 0 /\ ms # <<>> => n >= 1)
  BY <1>1, KeptFacts
<1>3. /\ ns \in Seq(Message) /\ Len(ns) = n
      /\ \A i \in 1 .. n : ns[i] = ms[i]
      /\ queue'.offset = queue.offset
  BY <1>1, CutShape DEF Supersede, SupersedePendingFrame
<1>4. UNCHANGED <<admitted, delivered, wire>>
  BY DEF Supersede
<1>5. \A i \in n + 1 .. Len(ms) : ms[i].class \notin DurableClasses
  BY <1>1, CutIsReplaceable DEF Classes
<1> HIDE DEF n
<1>6. /\ Len(Stream') = UpTo(n)
      /\ \A i \in 1 .. UpTo(n) : i \in 1 .. Len(Stream) /\ Stream'[i] = Stream[i]
  <2>1. n <= Len(ns)
    BY <1>2, <1>3
  <2> QED
    BY <1>1, <1>2, <1>3, <1>4, <2>1, StreamCut
<1>7. UpTo(n) \in Nat
  BY <1>1, <1>2 DEF UpTo
<1>8. Numbered'
  BY <1>4, <1>6 DEF OInv, Numbered, InOrder
<1>9. DurableKept'
  <2> SUFFICES ASSUME NEW k \in 1 .. Len(admitted), admitted[k].class \in DurableClasses
               PROVE  \E i \in 1 .. Len(Stream') : Stream'[i] = admitted[k]
    BY <1>4 DEF DurableKept
  <2>1. PICK i \in 1 .. Len(Stream) : Stream[i] = admitted[k]
    BY DEF OInv, DurableKept
  <2>2. i \in 1 .. UpTo(n)
    <3>1. SUFFICES ASSUME ~(i \in 1 .. UpTo(n))
                   PROVE  FALSE
      OBVIOUS
    <3>2. i - Len(delivered) \in n + 1 .. Len(ms) /\ UpTo(i - Len(delivered)) = i
      BY <1>1, <1>2, <3>1, StreamFacts DEF UpTo
    <3>3. Stream[i] = ms[i - Len(delivered)]
      <4>1. i - Len(delivered) \in 1 .. Len(ms)
        BY <1>2, <3>2
      <4> QED
        BY <1>1, <3>2, <4>1, StreamFacts
    <3> QED
      BY <1>5, <2>1, <3>2, <3>3
  <2> QED
    BY <1>6, <2>1, <2>2
<1>10. Framed'
  <2>1. queue.offset # 0 /\ ms # <<>> => ns # <<>> /\ Head(ns) = Head(ms)
    BY <1>1, <1>2, <1>3
  <2>2. wire = <<>> \/ wire[Len(wire)].byte = wire[Len(wire)].msg.size
          => queue'.offset = 0
    BY <1>3 DEF OInv, Framed
  <2>3. ASSUME ~(wire = <<>> \/ wire[Len(wire)].byte = wire[Len(wire)].msg.size)
        PROVE  /\ ns # <<>>
               /\ wire[Len(wire)] = [msg |-> Head(ns), byte |-> queue'.offset]
    <3>1. ms # <<>> /\ wire[Len(wire)] = [msg |-> Head(ms), byte |-> queue.offset]
      BY <2>3 DEF OInv, Framed
    <3>2. Len(wire) \in 1 .. Len(wire) /\ wire[Len(wire)].byte = queue.offset
      BY <1>1, <2>3, <3>1 DEF TypeOK
    <3>3. queue.offset # 0
      BY <1>1, <3>2, SentBytesCount DEF OInv
    <3> QED
      BY <1>3, <2>1, <3>1, <3>3
  <2> QED
    BY <1>4, <2>2, <2>3 DEF OInv, Framed
<1> QED
  BY <1>8, <1>9, <1>10 DEF OInv

\* A write leaves the stream as it is and goes on where the last one stopped.
LEMMA SendOInv ==
  ASSUME IInv, OInv, NEW n, Send(n)
  PROVE  OInv'
<1> DEFINE m == Head(queue.messages)
           ms == queue.messages
           L == Len(wire)
           o == queue.offset
           w == [i \in 1 .. n |-> [msg |-> m, byte |-> o + i]]
<1>1. /\ ms \in Seq(Message) /\ ms # <<>> /\ o \in Nat /\ m \in Message
      /\ m.size \in Nat /\ n \in 1 .. m.size - o /\ n \in Nat /\ L \in Nat
      /\ wire \in Seq([msg : Message, byte : Nat])
  <2>1. TypeOK
    BY DEF IInv
  <2>2. ms \in Seq(Message) /\ o \in Nat /\ wire \in Seq([msg : Message, byte : Nat])
    BY <2>1 DEF TypeOK
  <2>3. ms # <<>> /\ n \in 1 .. m.size - o
    BY DEF Send
  <2>4. m \in Message
    BY <2>2, <2>3
  <2>5. m.size \in Nat
    BY <2>4 DEF Message
  <2>6. n \in Nat /\ L \in Nat
    BY <2>2, <2>3, <2>5
  <2> QED
    BY <2>2, <2>3, <2>4, <2>5, <2>6
<1>2. Stream' = Stream /\ UNCHANGED admitted
  BY StreamSent DEF IInv, Send
<1>3. Numbered' /\ DurableKept'
  BY <1>2 DEF OInv, Numbered, InOrder, DurableKept
<1>4. wire' = wire \o w /\ queue' = Write(queue, n)
  BY DEF Send
<1>5. w \in Seq([msg : Message, byte : Nat]) /\ Len(w) = n
  BY <1>1
<1>6. /\ Len(wire') = L + n
      /\ \A i \in 1 .. L : wire'[i] = wire[i]
      /\ \A k \in 1 .. n : wire'[L + k] = w[k]
  <2> HIDE DEF w, m, ms, o
  <2>1. Len(wire \o w) = L + n
    <3>1. Len(wire \o w) = Len(wire) + Len(w)
      BY <1>1, <1>5, ConcatProperties
    <3> QED
      BY <1>5, <3>1
  <2>2. \A i \in 1 .. L : (wire \o w)[i] = wire[i]
    BY <1>1, <1>5
  <2>3. \A k \in 1 .. n : (wire \o w)[L + k] = w[k]
    BY <1>1, <1>5
  <2> QED
    BY <1>4, <2>1, <2>2, <2>3
<1>7. \A k \in 1 .. n : wire'[L + k].msg = m /\ wire'[L + k].byte = o + k
  <2>1. \A k \in 1 .. n : w[k].msg = m /\ w[k].byte = o + k
    OBVIOUS
  <2> HIDE DEF w, m, o, L
  <2> QED
    BY <1>6, <2>1
<1> HIDE DEF w
<1>8. ASSUME NEW i \in 1 .. Len(wire')
      PROVE  IF wire'[i].byte = 1
             THEN i > 1 => wire'[i - 1].byte = wire'[i - 1].msg.size
             ELSE /\ i > 1
                  /\ wire'[i].msg = wire'[i - 1].msg
                  /\ wire'[i].byte = wire'[i - 1].byte + 1
  <2>1. CASE i <= L
    <3>1. i \in 1 .. L /\ wire'[i] = wire[i] /\ (i > 1 => wire'[i - 1] = wire[i - 1])
      <4>1. i \in 1 .. L /\ (i > 1 => i - 1 \in 1 .. L)
        BY <1>1, <1>6, <2>1
      <4> HIDE DEF L
      <4> QED
        BY <1>6, <4>1
    <3> QED
      BY <3>1 DEF OInv, Framed
  <2>2. CASE i = L + 1
    <3>1. wire'[i].msg = m /\ wire'[i].byte = o + 1
      BY <1>1, <1>7, <2>2
    <3>2. i > 1 => L \in 1 .. L /\ wire'[i - 1] = wire[L]
      BY <1>1, <1>6, <2>2
    <3>3. CASE o = 0
      <4>1. i > 1 => wire[L].byte # 0
        BY <3>2, SentBytesCount DEF IInv, OInv
      <4>2. i > 1 => wire[L].byte = wire[L].msg.size
        BY <1>1, <2>2, <3>3, <4>1 DEF OInv, Framed
      <4> QED
        BY <3>1, <3>2, <3>3, <4>2
    <3>4. CASE o # 0
      <4>1. wire # <<>> /\ wire[L] = [msg |-> m, byte |-> o]
        BY <3>4 DEF OInv, Framed
      <4>2. i > 1
        BY <1>1, <2>2, <4>1
      <4>3. wire'[i - 1].msg = m /\ wire'[i - 1].byte = o
        BY <3>2, <4>1, <4>2
      <4>4. o + 1 # 1
        BY <1>1, <3>4
      <4> HIDE DEF m, o, L
      <4> QED
        BY <3>1, <4>2, <4>3, <4>4
    <3> QED
      BY <3>3, <3>4
  <2>3. CASE i > L + 1
    <3> DEFINE k == i - L
    <3>1. k \in 1 .. n /\ k - 1 \in 1 .. n /\ i = L + k /\ i - 1 = L + (k - 1)
      BY <1>1, <1>6, <2>3
    <3>2. /\ wire'[i].msg = m /\ wire'[i].byte = o + k
          /\ wire'[i - 1].msg = m /\ wire'[i - 1].byte = o + (k - 1)
      BY <1>7, <3>1
    <3>3. o + k # 1 /\ o + k = (o + (k - 1)) + 1 /\ i > 1
      <4>1. o \in Nat /\ L \in Nat /\ k \in Int /\ k >= 2 /\ i = L + k
        BY <1>1, <3>1
      <4> HIDE DEF k, o, L
      <4> QED
        BY <4>1
    <3> HIDE DEF k, o
    <3> QED
      BY <3>2, <3>3
  <2> QED
    BY <1>1, <1>6, <2>1, <2>2, <2>3
<1>9. wire' # <<>> /\ wire'[Len(wire')] = [msg |-> m, byte |-> o + n]
  <2>1. n \in 1 .. n /\ Len(wire') # 0
    BY <1>1, <1>6
  <2>2. wire'[L + n] = w[n]
    BY <1>6, <2>1
  <2> QED
    BY <1>6, <2>1, <2>2 DEF w
<1>10. IF o + n = m.size
       THEN queue'.offset = 0
       ELSE queue'.messages # <<>> /\ Head(queue'.messages) = m /\ queue'.offset = o + n
  BY <1>1, <1>4 DEF Write
<1>11. Framed'
  BY <1>8, <1>9, <1>10 DEF Framed
<1> QED
  BY <1>3, <1>11 DEF OInv

\* A step that touches neither queue nor wire keeps the order.
LEMMA IdleOInv ==
  ASSUME OInv, UNCHANGED <<queue, admitted, delivered, wire>>
  PROVE  OInv'
BY DEF OInv, Numbered, InOrder, DurableKept, Framed, Stream

\* Every step keeps the order of the messages and the framing of the wire.
LEMMA StepOInv == IInv /\ IInv' /\ OInv /\ [Next]_vars => OInv'
<1> SUFFICES ASSUME IInv, IInv', OInv, [Next]_vars
             PROVE  OInv'
  OBVIOUS
<1>1. TypeOK /\ queue \in QueueOf(Message)
  BY QueueType DEF IInv
<1>2. ASSUME NEW class \in Classes, NEW size \in Sizes, PushMessage(class, size)
      PROVE  OInv'
  <2> DEFINE m == NewMessage(class, size)
  <2>1. m \in Message /\ m.id = Len(admitted) + 1
    BY <1>1, NewMessageType DEF NewMessage
  <2>2. Admit(m, PushReplaceable(queue, m)) \/ Refuse
    BY <1>2 DEF PushMessage
  <2> HIDE DEF m
  <2> QED
    BY <2>1, <2>2, AdmitOInv, IdleOInv DEF Refuse
<1>3. ASSUME NEW class \in {"Frame", "Metadata"}, NEW size \in Sizes, PushLatest(class, size)
      PROVE  OInv'
  <2> DEFINE m == NewMessage(IF initialPending THEN "Ordered" ELSE class, size)
  <2>1. m \in Message /\ m.id = Len(admitted) + 1
    BY <1>1, NewMessageType DEF Classes, NewMessage
  <2>2. initialPending => m.class = "Ordered"
    BY DEF NewMessage
  <2>3. initialPending => PushReplaceable(queue, m) = Push(queue, m)
    <3> HIDE DEF m
    <3> QED
      BY <1>1, <2>1, <2>2, PushIsPushReplaceable
  <2>4. Admit(m, PushReplaceable(queue, m)) \/ Refuse
    BY <1>3, <2>3 DEF PushLatest
  <2> HIDE DEF m
  <2> QED
    BY <2>1, <2>4, AdmitOInv, IdleOInv DEF Refuse
<1>4. CASE Supersede
  BY <1>4, SupersedeOInv
<1>5. ASSUME NEW n \in 1 .. MaxOutputBytes, Send(n)
      PROVE  OInv'
  BY <1>5, SendOInv
<1>6. CASE Disconnect
  BY <1>6, IdleOInv DEF Disconnect
<1>7. CASE UNCHANGED vars
  BY <1>7, IdleOInv DEF vars
<1> QED
  BY <1>2, <1>3, <1>4, <1>5, <1>6, <1>7 DEF Next

\* The accounts and the order of the messages hold together.
THEOREM OutputInvariant == Spec => [](IInv /\ OInv)
<1>1. Init => IInv /\ OInv
  BY InitIInv, InitOInv
<1>2. (IInv /\ OInv) /\ [Next]_vars => (IInv /\ OInv)'
  BY StepIInv, StepOInv
<1> QED
  BY <1>1, <1>2, PTL DEF Spec

\* Messages leave in the order they were pushed, each at most once.
THEOREM OutputStaysInOrder == Spec => []InOrder
<1>1. OInv => InOrder
  BY DEF OInv, Numbered
<1> QED
  BY <1>1, OutputInvariant, PTL

\* No response, effect, initial frame or scroll outcome is lost to coalescing.
THEOREM DurableStaysKept == Spec => []DurableKept
<1>1. OInv => DurableKept
  BY DEF OInv
<1> QED
  BY <1>1, OutputInvariant, PTL

\* The byte stream is whole messages, one after the other, whatever is
\* replaced between two partial writes.
THEOREM OutputStaysFramed == Spec => []Framed
<1>1. OInv => Framed
  BY DEF OInv
<1> QED
  BY <1>1, OutputInvariant, PTL

-----------------------------------------------------------------------------
(***************************************************************************)
(* The connection implements the coalescing channel.                       *)
(***************************************************************************)

\* A push puts; a cut without a push retracts; a last byte arrives.
LEMMA AdmitPuts ==
  ASSUME IInv, NEW m \in Message, Admit(m, PushReplaceable(queue, m))
  PROVE  Channel!Put
<1> DEFINE n == Kept(queue, m.class)
           ms == queue.messages
           ns == queue'.messages
           c == Cut(queue, m.class).messages
<1>1. TypeOK /\ queue \in QueueOf(Message) /\ ms \in Seq(Message) /\ m.class \in Classes
  BY QueueType DEF IInv, TypeOK, Message
<1>2. n \in 0 .. Len(ms)
  BY <1>1, KeptFacts
<1>3. \A i \in n + 1 .. Len(ms) : ms[i] \notin Durable
  BY <1>1, CutIsReplaceable DEF Durable
<1>4. c = SubSeq(ms, 1, n) /\ ns = Append(c, m) /\ UNCHANGED delivered
  BY DEF Admit, PushReplaceable, Push, Cut
<1> HIDE DEF n, ms, ns, c
<1>5. c \in Seq(Message) /\ Len(c) = n
  BY <1>1, <1>2, <1>4
<1>6. Len(ns) = n + 1 /\ ns[n + 1] = m
  BY <1>2, <1>4, <1>5
<1>7. SubSeq(ns, 1, n) = SubSeq(ms, 1, n)
  <2>1. SubSeq(ns, 1, n) \in Seq(Message) /\ Len(SubSeq(ns, 1, n)) = n
    BY <1>2, <1>4, <1>5
  <2>2. \A i \in 1 .. n : SubSeq(ns, 1, n)[i] = c[i]
    BY <1>2, <1>4, <1>5
  <2> QED
    BY <1>4, <1>5, <2>1, <2>2, SeqEqual
<1>8. Channel!Keeps(n)
  BY <1>2, <1>3 DEF Channel!Keeps, ms
<1> QED
  BY <1>2, <1>4, <1>6, <1>7, <1>8 DEF Channel!Put, ms, ns

\* To supersede a waiting frame is to retract from the channel.
LEMMA SupersedeRetracts ==
  ASSUME IInv, Supersede
  PROVE  Channel!Retract
<1>1. TypeOK /\ queue \in QueueOf(Message)
  BY QueueType DEF IInv
<1>2. Kept(queue, "Frame") \in 0 .. Len(queue.messages)
  BY <1>1, KeptFacts
<1>3. \A i \in Kept(queue, "Frame") + 1 .. Len(queue.messages) : queue.messages[i] \notin Durable
  BY <1>1, CutIsReplaceable DEF Durable, Classes
<1> QED
  BY <1>2, <1>3 DEF Channel!Retract, Channel!Keeps, Supersede, SupersedePendingFrame, Cut

\* To send is to let the head of the channel arrive, or nothing yet.
LEMMA SendArrives ==
  ASSUME NEW n, Send(n)
  PROVE  Channel!Arrive \/ UNCHANGED Channel!vars
BY DEF Send, Write, Channel!Arrive, Channel!vars

\* Whatever the owner pushes and however the socket stalls, the connection is
\* a channel that keeps order and drops only replaceable messages.
THEOREM ImplementsCoalescingChannel == Spec => ImplementsChannel
<1>1. Init => Channel!Init
  BY DEF Init, Empty, Channel!Init
<1>2. IInv /\ [Next]_vars => [Channel!Next]_Channel!vars
  <2> SUFFICES ASSUME IInv, [Next]_vars
               PROVE  [Channel!Next]_Channel!vars
    OBVIOUS
  <2>1. TypeOK /\ queue \in QueueOf(Message)
    BY QueueType DEF IInv
  <2>2. ASSUME NEW class \in Classes, NEW size \in Sizes, PushMessage(class, size)
        PROVE  [Channel!Next]_Channel!vars
    <3> DEFINE m == NewMessage(class, size)
    <3>1. m \in Message
      BY <2>1, NewMessageType
    <3>2. Admit(m, PushReplaceable(queue, m)) \/ Refuse
      BY <2>2 DEF PushMessage
    <3> HIDE DEF m
    <3> QED
      BY <3>1, <3>2, AdmitPuts DEF Channel!Next, Channel!vars, Refuse
  <2>3. ASSUME NEW class \in {"Frame", "Metadata"}, NEW size \in Sizes, PushLatest(class, size)
        PROVE  [Channel!Next]_Channel!vars
    <3> DEFINE m == NewMessage(IF initialPending THEN "Ordered" ELSE class, size)
    <3>1. m \in Message
      BY <2>1, NewMessageType DEF Classes
    <3>2. initialPending => m.class = "Ordered"
      BY DEF NewMessage
    <3>3. initialPending => PushReplaceable(queue, m) = Push(queue, m)
      <4> HIDE DEF m
      <4> QED
        BY <2>1, <3>1, <3>2, PushIsPushReplaceable
    <3>4. Admit(m, PushReplaceable(queue, m)) \/ Refuse
      BY <2>3, <3>3 DEF PushLatest
    <3> HIDE DEF m
    <3> QED
      BY <3>1, <3>4, AdmitPuts DEF Channel!Next, Channel!vars, Refuse
  <2>4. CASE Supersede
    BY <2>4, SupersedeRetracts DEF Channel!Next
  <2>5. ASSUME NEW n \in 1 .. MaxOutputBytes, Send(n)
        PROVE  [Channel!Next]_Channel!vars
    BY <2>5, SendArrives DEF Channel!Next
  <2>6. CASE Disconnect
    BY <2>6 DEF Disconnect, Channel!vars
  <2>7. CASE UNCHANGED vars
    BY <2>7 DEF vars, Channel!vars
  <2> QED
    BY <2>2, <2>3, <2>4, <2>5, <2>6, <2>7 DEF Next
<1> QED
  BY <1>1, <1>2, Invariant, PTL DEF Spec, ImplementsChannel, Channel!Spec
=============================================================================
