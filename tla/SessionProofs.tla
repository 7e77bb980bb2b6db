---------------------------- MODULE SessionProofs ----------------------------
(***************************************************************************)
(* Theorems of Session, for all limits, requests and modes.                *)
(***************************************************************************)
EXTENDS Session, OutputQueueProofs

-----------------------------------------------------------------------------
(***************************************************************************)
(* What holds of a connection c whose peer has received p.  Everything is  *)
(* stated of values, so that it can be followed through the pushes of a    *)
(* handler.                                                                *)
(***************************************************************************)

\* The classes that are replaced, or replace a frame, belong to these kinds.
Classified(m) ==
  /\ m.class = "Preview" => m.kind = "Preview"
  /\ m.class \in {"Frame", "ScrollOutcome"} => m.kind \in FrameKinds
  /\ m.class # "Metadata"

Output == {m \in Sent : Classified(m)}

Framed(ms) == {i \in 1 .. Len(ms) : ms[i].kind \in FrameKinds}

FramesIn(c) == {FrameOf(c.queue.messages[i]) : i \in Framed(c.queue.messages)}

\* The frame that the peer shows in the end.
Newest(c, p) ==
  LET ms == c.queue.messages
      i == LastOf(ms, Len(ms), FrameKinds)
  IN  IF i = 0 THEN p.frame ELSE FrameOf(ms[i])

\* The text that the peer knows of when it has received the first n messages.
FrozenText(c, p, n) ==
  LET ms == c.queue.messages
      i == LastOf(ms, n, {"CopiedSelection"})
  IN  IF i = 0 THEN p.text ELSE ms[i].text

LatestText(c, p) == FrozenText(c, p, Len(c.queue.messages))

Typed(c, p) ==
  /\ c \in Connection
  /\ c.queue \in QueueOf(Output)
  /\ Accounted(c.queue)
  /\ p \in Received

\* The revisions of what is queued, none above rev.
RevisionsUpTo(c, p, rev) ==
  LET ms == c.queue.messages
  IN  /\ \A i, j \in Framed(ms) : i < j => ms[i].rev < ms[j].rev
      /\ \A i \in Framed(ms) : p.frame.rev < ms[i].rev
      /\ Newest(c, p).rev <= rev
      /\ p.finished <= rev
      /\ \A i \in 1 .. Len(ms) : ms[i].kind = "SelectionFinished" => ms[i].rev <= rev

ClipsFirst(c) ==
  LET ms == c.queue.messages
  IN  \A i, j \in 1 .. Len(ms) :
        i < j /\ ms[i].kind \in FrameKinds /\ ms[j].kind = "ClipboardWrite"
          => ms[i].rev < ms[j].rev

CopiesFrozen(c, p) ==
  LET ms == c.queue.messages
  IN  \A i \in 1 .. Len(ms) :
        ms[i].kind = "CopiedStandard" => ms[i].text = FrozenText(c, p, i)

Sound(c, p, rev) ==
  /\ Typed(c, p)
  /\ RevisionsUpTo(c, p, rev)
  /\ ClipsFirst(c)
  /\ CopiesFrozen(c, p)

\* The newest frame reaches every completion.
Reached(c, p) ==
  LET ms == c.queue.messages
  IN  /\ p.finished <= Newest(c, p).rev
      /\ \A i \in 1 .. Len(ms) :
           ms[i].kind = "SelectionFinished" => ms[i].rev <= Newest(c, p).rev

\* What the connection shows, or why it does not yet: output is held, and then
\* the newest frame is older than the revision, or the connection is closing.
Presents(c, p, t, sel, rev, tm, pt) ==
  /\ tm # "none" => Newest(c, p).rev < rev
  /\ Accepts(c) /\ tm = "none" =>
       /\ Newest(c, p).view = t.view
       /\ sel.has => Newest(c, p).selected
       /\ Reached(c, p)
       /\ pt = "open" => Newest(c, p).rev = rev

Remembers(c, p, sel) == sel.copied # 0 => LatestText(c, p) = sel.copied

Served(c, p, t, sel, rev, tm, pt) ==
  /\ Sound(c, p, rev)
  /\ Presents(c, p, t, sel, rev, tm, pt)
  /\ Remembers(c, p, sel)

Inv ==
  /\ TypeOK
  /\ NeverContradicted
  /\ ClosedPtyTakesNothing
  /\ CopyForgotten
  /\ client = NoClient => peer = NothingReceived
  /\ client # NoClient => Served(client, peer, terminal, selection, revision, timer, pty)

-----------------------------------------------------------------------------
(***************************************************************************)
(* LastOf.                                                                 *)
(***************************************************************************)

\* What the last message of some kinds is.
LEMMA LastOfFacts ==
  ASSUME NEW ms, NEW n \in Nat, NEW K
  PROVE  /\ LastOf(ms, n, K) \in 0 .. n
         /\ LastOf(ms, n, K) # 0 => ms[LastOf(ms, n, K)].kind \in K
         /\ \A j \in 1 .. n : ms[j].kind \in K => j <= LastOf(ms, n, K)
<1> DEFINE found == {0} \cup {i \in 1 .. n : ms[i].kind \in K}
           back == {n - i : i \in found}
<1>1. PICK b \in back : \A k \in back : b <= k
  <2>1. back \in SUBSET Nat /\ back # {}
    OBVIOUS
  <2> HIDE DEF back
  <2> QED
    BY <2>1, LeastElement
<1>2. PICK i \in found : b = n - i
  OBVIOUS
<1>3. \A j \in found : j <= i
  <2> TAKE j \in found
  <2>1. n - j \in back
    OBVIOUS
  <2>2. n - i <= n - j
    BY <1>1, <1>2, <2>1
  <2> QED
    BY <1>2, <2>2
<1>4. /\ LastOf(ms, n, K) \in found
      /\ \A j \in found : j <= LastOf(ms, n, K)
  BY <1>3 DEF LastOf
<1> QED
  BY <1>4

\* ... and nothing else is.
LEMMA LastOfIs ==
  ASSUME NEW ms, NEW n \in Nat, NEW K, NEW i \in 0 .. n,
         i # 0 => ms[i].kind \in K,
         \A j \in 1 .. n : ms[j].kind \in K => j <= i
  PROVE  LastOf(ms, n, K) = i
<1>1. /\ LastOf(ms, n, K) \in 0 .. n
      /\ LastOf(ms, n, K) # 0 => ms[LastOf(ms, n, K)].kind \in K
      /\ \A j \in 1 .. n : ms[j].kind \in K => j <= LastOf(ms, n, K)
  BY LastOfFacts
<1> QED
  BY <1>1

\* It depends on the kinds of the messages only.
LEMMA LastOfAgrees ==
  ASSUME NEW ms, NEW ns, NEW n \in Nat, NEW K,
         \A i \in 1 .. n : ns[i] = ms[i]
  PROVE  LastOf(ns, n, K) = LastOf(ms, n, K)
BY LastOfFacts, LastOfIs

\* Messages of other kinds at the back do not matter.
LEMMA LastOfShorter ==
  ASSUME NEW ms, NEW k \in Nat, NEW n \in 0 .. k, NEW K,
         \A i \in n + 1 .. k : ms[i].kind \notin K
  PROVE  LastOf(ms, k, K) = LastOf(ms, n, K)
<1>1. /\ LastOf(ms, k, K) \in 0 .. k
      /\ LastOf(ms, k, K) # 0 => ms[LastOf(ms, k, K)].kind \in K
      /\ \A j \in 1 .. k : ms[j].kind \in K => j <= LastOf(ms, k, K)
  BY LastOfFacts
<1> QED
  BY <1>1, LastOfIs

-----------------------------------------------------------------------------
(***************************************************************************)
(* Pushing a message.                                                      *)
(***************************************************************************)

\* ns is ms with m behind it, but for messages at the back that m replaces: no
\* frame, unless m is one.
Pushed(ms, ns, m) ==
  \E n \in 0 .. Len(ms) :
    /\ Len(ns) = n + 1
    /\ \A i \in 1 .. n : ns[i] = ms[i]
    /\ ns[n + 1] = m
    /\ \A i \in n + 1 .. Len(ms) :
         /\ ms[i].kind \in FrameKinds \cup {"Preview"}
         /\ ms[i].kind \in FrameKinds => m.kind \in FrameKinds

\* Output messages are messages of the queue.
LEMMA OutputIsQueued == QueueMessages(Output)
BY DEF QueueMessages, Output, Sent

\* A push that the queue admits.
LEMMA PushIsPushed ==
  ASSUME NEW q \in QueueOf(Output), Accounted(q), NEW m \in Output, FitsReplaceable(q, m)
  PROVE  /\ PushReplaceable(q, m) \in QueueOf(Output)
         /\ Accounted(PushReplaceable(q, m))
         /\ Pushed(q.messages, PushReplaceable(q, m).messages, m)
<1> DEFINE r == PushReplaceable(q, m)
           n == Kept(q, m.class)
           ms == q.messages
           ns == r.messages
<1>1. r \in QueueOf(Output) /\ Accounted(r)
  BY OutputIsQueued, PushReplaceableAccounted
<1>2. /\ n \in 0 .. Len(ms)
      /\ \A i \in n + 1 .. Len(ms) : Replaceable(q, m.class, i)
  BY KeptFacts
<1>3. /\ Cut(q, m.class).messages \in Seq(Output)
      /\ Len(Cut(q, m.class).messages) = n
      /\ \A i \in 1 .. n : Cut(q, m.class).messages[i] = ms[i]
  BY CutShape
<1>4. ns = Append(Cut(q, m.class).messages, m)
  BY DEF PushReplaceable, Push
<1>5. Len(ns) = n + 1 /\ ns[n + 1] = m /\ \A i \in 1 .. n : ns[i] = ms[i]
  BY <1>2, <1>3, <1>4
<1>6. ASSUME NEW i \in n + 1 .. Len(ms)
      PROVE  /\ ms[i].kind \in FrameKinds \cup {"Preview"}
             /\ ms[i].kind \in FrameKinds => m.kind \in FrameKinds
  <2>1. ms[i] \in Output
    BY <1>2 DEF QueueOf
  <2>2. Supersedes(m.class, ms[i].class)
    BY <1>2 DEF Replaceable
  <2> HIDE DEF n, ms
  <2> QED
    BY <2>1, <2>2 DEF Supersedes, Output, Classified, FrameKinds, Sent
<1>7. Pushed(ms, ns, m)
  <2> HIDE DEF r, n
  <2> QED
    BY <1>2, <1>5, <1>6 DEF Pushed
<1> QED
  BY <1>1, <1>7

\* What the peer knows in the end, after one more message.
LEMMA PushedLasts ==
  ASSUME NEW ms \in Seq(Output), NEW ns \in Seq(Output), NEW m \in Output,
         Pushed(ms, ns, m), NEW K, K = FrameKinds \/ K = {"CopiedSelection"}
  PROVE  IF m.kind \in K
         THEN LastOf(ns, Len(ns), K) = Len(ns) /\ ns[Len(ns)] = m /\ Len(ns) # 0
         ELSE /\ LastOf(ns, Len(ns), K) = LastOf(ms, Len(ms), K)
              /\ LastOf(ms, Len(ms), K) # 0 =>
                   ns[LastOf(ms, Len(ms), K)] = ms[LastOf(ms, Len(ms), K)]
<1>1. PICK n \in 0 .. Len(ms) :
        /\ Len(ns) = n + 1
        /\ \A i \in 1 .. n : ns[i] = ms[i]
        /\ ns[n + 1] = m
        /\ \A i \in n + 1 .. Len(ms) :
             /\ ms[i].kind \in FrameKinds \cup {"Preview"}
             /\ ms[i].kind \in FrameKinds => m.kind \in FrameKinds
  BY DEF Pushed
<1>2. CASE m.kind \in K
  <2>1. LastOf(ns, n + 1, K) = n + 1
    <3>1. n + 1 \in Nat /\ n + 1 \in 0 .. n + 1 /\ ns[n + 1].kind \in K
      BY <1>1, <1>2
    <3>2. \A j \in 1 .. n + 1 : ns[j].kind \in K => j <= n + 1
      OBVIOUS
    <3> QED
      BY <3>1, <3>2, LastOfIs
  <2> QED
    BY <1>1, <1>2, <2>1
<1>3. CASE m.kind \notin K
  <2>1. LastOf(ns, n + 1, K) = LastOf(ns, n, K)
    BY <1>1, <1>3, LastOfShorter
  <2>2. LastOf(ns, n, K) = LastOf(ms, n, K)
    BY <1>1, LastOfAgrees
  <2>3. \A i \in n + 1 .. Len(ms) : ms[i].kind \notin K
    BY <1>1, <1>3 DEF FrameKinds
  <2>4. LastOf(ms, Len(ms), K) = LastOf(ms, n, K)
    BY <1>1, <2>3, LastOfShorter
  <2>5. LastOf(ms, n, K) \in 0 .. n
    BY LastOfFacts
  <2> QED
    BY <1>1, <1>3, <2>1, <2>2, <2>4, <2>5
<1> QED
  BY <1>2, <1>3

\* A pushed message is the newest of its kind.
LEMMA PushedNewest ==
  ASSUME NEW c, NEW d, NEW p, NEW m \in Output,
         c.queue.messages \in Seq(Output), d.queue.messages \in Seq(Output),
         Pushed(c.queue.messages, d.queue.messages, m)
  PROVE  /\ Newest(d, p) = IF m.kind \in FrameKinds THEN FrameOf(m) ELSE Newest(c, p)
         /\ LatestText(d, p) = IF m.kind = "CopiedSelection" THEN m.text ELSE LatestText(c, p)
<1> DEFINE ms == c.queue.messages
           ns == d.queue.messages
           C == {"CopiedSelection"}
<1>1. /\ ms \in Seq(Output) /\ ns \in Seq(Output) /\ Pushed(ms, ns, m)
      /\ m.kind \in C <=> m.kind = "CopiedSelection"
  OBVIOUS
<1>2. /\ Newest(c, p) = IF LastOf(ms, Len(ms), FrameKinds) = 0 THEN p.frame
                        ELSE FrameOf(ms[LastOf(ms, Len(ms), FrameKinds)])
      /\ Newest(d, p) = IF LastOf(ns, Len(ns), FrameKinds) = 0 THEN p.frame
                        ELSE FrameOf(ns[LastOf(ns, Len(ns), FrameKinds)])
  BY DEF Newest
<1>3. /\ LatestText(c, p) = IF LastOf(ms, Len(ms), C) = 0 THEN p.text
                            ELSE ms[LastOf(ms, Len(ms), C)].text
      /\ LatestText(d, p) = IF LastOf(ns, Len(ns), C) = 0 THEN p.text
                            ELSE ns[LastOf(ns, Len(ns), C)].text
  BY DEF LatestText, FrozenText
<1>4. IF m.kind \in FrameKinds
      THEN LastOf(ns, Len(ns), FrameKinds) = Len(ns) /\ ns[Len(ns)] = m /\ Len(ns) # 0
      ELSE /\ LastOf(ns, Len(ns), FrameKinds) = LastOf(ms, Len(ms), FrameKinds)
           /\ LastOf(ms, Len(ms), FrameKinds) # 0 =>
                ns[LastOf(ms, Len(ms), FrameKinds)] = ms[LastOf(ms, Len(ms), FrameKinds)]
  <2> HIDE DEF ms, ns, C
  <2> QED
    BY <1>1, PushedLasts
<1>5. IF m.kind \in C
      THEN LastOf(ns, Len(ns), C) = Len(ns) /\ ns[Len(ns)] = m /\ Len(ns) # 0
      ELSE /\ LastOf(ns, Len(ns), C) = LastOf(ms, Len(ms), C)
           /\ LastOf(ms, Len(ms), C) # 0 => ns[LastOf(ms, Len(ms), C)] = ms[LastOf(ms, Len(ms), C)]
  <2>1. ASSUME NEW K, K = {"CopiedSelection"}
        PROVE  IF m.kind \in K
               THEN LastOf(ns, Len(ns), K) = Len(ns) /\ ns[Len(ns)] = m /\ Len(ns) # 0
               ELSE /\ LastOf(ns, Len(ns), K) = LastOf(ms, Len(ms), K)
                    /\ LastOf(ms, Len(ms), K) # 0 =>
                         ns[LastOf(ms, Len(ms), K)] = ms[LastOf(ms, Len(ms), K)]
    <3>1. K = FrameKinds \/ K = {"CopiedSelection"}
      BY <2>1
    <3> HIDE DEF ms, ns, C
    <3> QED
      BY <1>1, <3>1, PushedLasts
  <2> QED
    BY <2>1, Zenon
<1> HIDE DEF ms, ns, C
<1> QED
  BY <1>1, <1>2, <1>3, <1>4, <1>5

\* A client value is not the empty slot.
LEMMA ConnectionIsClient ==
  ASSUME NEW c \in Connection
  PROVE  c # NoClient
BY NoClientAssumption

\* A push that fits keeps the connection.
LEMMA Push1Fits ==
  ASSUME NEW c, NEW p, Typed(c, p), NEW m \in Output, FitsReplaceable(c.queue, m)
  PROVE  Push1(c, m) # NoClient
<1> DEFINE r == PushReplaceable(c.queue, m)
<1>1. c \in Connection /\ c.queue \in QueueOf(Output) /\ Accounted(c.queue)
  BY DEF Typed
<1>2. Push1(c, m) = [c EXCEPT !.queue = r]
  BY <1>1, ConnectionIsClient DEF Push1
<1>3. r \in [messages : Seq(Sent), offset : Nat, bytes : Nat]
  <2>1. Seq(Output) \subseteq Seq(Sent)
    BY DEF Output
  <2>2. r \in QueueOf(Output)
    BY <1>1, PushIsPushed
  <2> QED
    BY <2>1, <2>2 DEF QueueOf
<1> HIDE DEF r
<1>4. Push1(c, m) \in Connection
  BY <1>1, <1>2, <1>3 DEF Connection
<1> QED
  BY <1>4, ConnectionIsClient

\* A push changes the queue only.
LEMMA Push1IsPush ==
  ASSUME NEW c, NEW p, Typed(c, p), NEW m \in Output, Push1(c, m) # NoClient
  PROVE  /\ Typed(Push1(c, m), p)
         /\ Push1(c, m).closing = c.closing
         /\ Push1(c, m).initial = c.initial
         /\ Pushed(c.queue.messages, Push1(c, m).queue.messages, m)
<1> DEFINE d == Push1(c, m)
           r == PushReplaceable(c.queue, m)
<1>1. c \in Connection /\ c.queue \in QueueOf(Output) /\ Accounted(c.queue) /\ p \in Received
  BY DEF Typed
<1>2. FitsReplaceable(c.queue, m) /\ d = [c EXCEPT !.queue = r]
  BY DEF Push1
<1>3. r \in QueueOf(Output) /\ Accounted(r) /\ Pushed(c.queue.messages, r.messages, m)
  BY <1>1, <1>2, PushIsPushed
<1>4. r \in [messages : Seq(Sent), offset : Nat, bytes : Nat]
  <2>1. Seq(Output) \subseteq Seq(Sent)
    BY DEF Output
  <2> QED
    BY <1>3, <2>1 DEF QueueOf
<1> HIDE DEF d, r
<1>5. d.queue = r /\ d.closing = c.closing /\ d.initial = c.initial /\ d \in Connection
  BY <1>1, <1>2, <1>4 DEF Connection
<1>6. Typed(d, p) /\ Pushed(c.queue.messages, d.queue.messages, m)
  BY <1>1, <1>3, <1>5 DEF Typed
<1> QED
  BY <1>5, <1>6 DEF d

\* A message without a frame adds none.
LEMMA PushShows ==
  ASSUME NEW c, NEW p, Typed(c, p), NEW m \in Output, Push1(c, m) # NoClient,
         m.kind \notin FrameKinds
  PROVE  FramesIn(Push1(c, m)) \subseteq FramesIn(c)
<1> DEFINE ms == c.queue.messages
           ns == Push1(c, m).queue.messages
<1>1. Pushed(ms, ns, m)
  BY Push1IsPush
<1>2. ms \in Seq(Output)
  BY DEF Typed, QueueOf
<1> HIDE DEF ms, ns
<1>3. PICK n \in 0 .. Len(ms) :
        Len(ns) = n + 1 /\ (\A i \in 1 .. n : ns[i] = ms[i]) /\ ns[n + 1] = m
  BY <1>1 DEF Pushed
<1>4. \A i \in Framed(ns) : i \in Framed(ms) /\ ns[i] = ms[i]
  BY <1>2, <1>3 DEF Framed
<1> QED
  BY <1>4 DEF FramesIn, ms, ns

\* The newest frame is one of the frames, and of the highest revision.
LEMMA NewestIsHighest ==
  ASSUME NEW c, NEW p, NEW rev, Typed(c, p), RevisionsUpTo(c, p, rev)
  PROVE  /\ Newest(c, p) \in [rev : Nat \cup {-1}, view : Nat, selected : BOOLEAN]
         /\ p.frame.rev <= Newest(c, p).rev
         /\ \A i \in Framed(c.queue.messages) : c.queue.messages[i].rev <= Newest(c, p).rev
<1> DEFINE ms == c.queue.messages
           i == LastOf(ms, Len(ms), FrameKinds)
<1>1. ms \in Seq(Output) /\ p \in Received
  BY DEF Typed, QueueOf
<1>2. /\ i \in 0 .. Len(ms)
      /\ i # 0 => ms[i].kind \in FrameKinds
      /\ \A j \in 1 .. Len(ms) : ms[j].kind \in FrameKinds => j <= i
  BY <1>1, LastOfFacts
<1>3. \A j \in 1 .. Len(ms) : ms[j] \in Sent
  BY <1>1 DEF Output
<1>4. Newest(c, p) = IF i = 0 THEN p.frame ELSE FrameOf(ms[i])
  BY DEF Newest
<1>5. /\ \A k, j \in Framed(ms) : k < j => ms[k].rev < ms[j].rev
      /\ \A k \in Framed(ms) : p.frame.rev < ms[k].rev
  BY DEF RevisionsUpTo
<1> HIDE DEF i, ms
<1>6. CASE i = 0
  <2>1. Framed(ms) = {}
    BY <1>1, <1>2, <1>6 DEF Framed
  <2> QED
    BY <1>1, <1>4, <1>6, <2>1 DEF Received, ms
<1>7. CASE i # 0
  <2>1. i \in Framed(ms) /\ ms[i] \in Sent
    BY <1>2, <1>3, <1>7 DEF Framed
  <2>2. Newest(c, p).rev = ms[i].rev
    BY <1>4, <1>7 DEF FrameOf
  <2>3. \A k \in Framed(ms) : k = i \/ k < i
    BY <1>1, <1>2 DEF Framed
  <2>4. \A k \in Framed(ms) : ms[k].rev <= ms[i].rev
    BY <1>3, <1>5, <2>1, <2>3 DEF Framed, Sent
  <2>5. Newest(c, p) \in [rev : Nat \cup {-1}, view : Nat, selected : BOOLEAN]
    BY <1>4, <1>7, <2>1 DEF FrameOf, Sent
  <2>6. p.frame.rev \in Int /\ ms[i].rev \in Int /\ p.frame.rev < ms[i].rev
    BY <1>1, <1>5, <2>1 DEF Received, Sent
  <2> QED
    BY <2>2, <2>4, <2>5, <2>6 DEF ms
<1> QED
  BY <1>6, <1>7

\* What a message may say when it is pushed to c: a frame is newer than the
\* newest one and, as a completion, not ahead of the authority; a clipboard
\* write belongs to a later revision than the newest frame; a copy is what the
\* peer was told last.
MaySay(c, p, rev, m) ==
  /\ m.kind \in FrameKinds => Newest(c, p).rev < m.rev /\ m.rev <= rev
  /\ m.kind = "SelectionFinished" => m.rev <= rev
  /\ m.kind = "ClipboardWrite" => Newest(c, p).rev < m.rev
  /\ m.kind = "CopiedStandard" => m.text = LatestText(c, p)

\* A connection that says what it may say stays sound.
LEMMA PushIsSound ==
  ASSUME NEW c, NEW p, NEW old \in Nat, NEW rev \in Nat, old <= rev,
         Sound(c, p, old), NEW m \in Output, MaySay(c, p, rev, m),
         Push1(c, m) # NoClient
  PROVE  LET d == Push1(c, m)
         IN  /\ Sound(d, p, rev)
             /\ d.closing = c.closing /\ d.initial = c.initial
             /\ Newest(d, p) = IF m.kind \in FrameKinds THEN FrameOf(m) ELSE Newest(c, p)
             /\ LatestText(d, p) =
                  IF m.kind = "CopiedSelection" THEN m.text ELSE LatestText(c, p)
             /\ m.kind \notin FrameKinds => FramesIn(d) \subseteq FramesIn(c)
<1> DEFINE d == Push1(c, m)
           ms == c.queue.messages
           ns == d.queue.messages
<1>1. Typed(c, p) /\ RevisionsUpTo(c, p, old) /\ ClipsFirst(c) /\ CopiesFrozen(c, p)
  BY DEF Sound
<1>2. /\ Typed(d, p) /\ d.closing = c.closing /\ d.initial = c.initial
      /\ Pushed(ms, ns, m)
  BY <1>1, Push1IsPush
<1>11. m.kind \notin FrameKinds => FramesIn(d) \subseteq FramesIn(c)
  BY <1>1, PushShows
<1> HIDE DEF d
<1>3. ms \in Seq(Output) /\ ns \in Seq(Output) /\ p \in Received
  BY <1>1, <1>2 DEF Typed, QueueOf
<1>4. /\ Newest(d, p) = IF m.kind \in FrameKinds THEN FrameOf(m) ELSE Newest(c, p)
      /\ LatestText(d, p) = IF m.kind = "CopiedSelection" THEN m.text ELSE LatestText(c, p)
  BY <1>2, <1>3, PushedNewest
<1>5. /\ Newest(c, p) \in [rev : Nat \cup {-1}, view : Nat, selected : BOOLEAN]
      /\ p.frame.rev <= Newest(c, p).rev
      /\ \A i \in Framed(ms) : ms[i].rev <= Newest(c, p).rev
  BY <1>1, NewestIsHighest
<1>6. PICK n \in 0 .. Len(ms) :
        /\ Len(ns) = n + 1
        /\ \A i \in 1 .. n : ns[i] = ms[i]
        /\ ns[n + 1] = m
  BY <1>2 DEF Pushed
<1>7. /\ m \in Sent /\ p.frame.rev \in Int /\ Newest(c, p).rev \in Int /\ p.finished \in Int
      /\ m.rev \in Int
      /\ \A i \in 1 .. Len(ms) : ms[i] \in Sent /\ ms[i].rev \in Int
      /\ Len(ms) \in Nat /\ Len(ns) \in Nat
  <2>1. m \in Sent /\ p.frame.rev \in Int /\ Newest(c, p).rev \in Int /\ p.finished \in Int
    BY <1>3, <1>5 DEF Output, Received
  <2> HIDE DEF ms, ns
  <2>2. /\ \A i \in 1 .. Len(ms) : ms[i] \in Sent
        /\ Len(ms) \in Nat /\ Len(ns) \in Nat
    BY <1>3 DEF Output
  <2>3. \A x \in Sent : x.rev \in Int
    BY DEF Sent
  <2> QED
    BY <2>1, <2>2, <2>3
<1>8. RevisionsUpTo(d, p, rev)
  <2>1. /\ \A i, j \in Framed(ms) : i < j => ms[i].rev < ms[j].rev
        /\ \A i \in Framed(ms) : p.frame.rev < ms[i].rev
        /\ p.finished <= old
        /\ \A i \in 1 .. Len(ms) : ms[i].kind = "SelectionFinished" => ms[i].rev <= old
    BY <1>1 DEF RevisionsUpTo
  <2>2. Newest(d, p).rev <= rev
    BY <1>1, <1>4, <1>7 DEF RevisionsUpTo, MaySay, FrameOf, Sent
  <2> HIDE DEF ms, ns
  <2>3. \A i \in Framed(ns) : (i \in Framed(ms) /\ ns[i] = ms[i]) \/ i = n + 1
    BY <1>6, <1>7 DEF Framed
  <2>4. m.kind \in FrameKinds => Newest(c, p).rev < m.rev
    BY DEF MaySay
  <2>5. ASSUME NEW i \in Framed(ns), NEW j \in Framed(ns), i < j
        PROVE  ns[i].rev < ns[j].rev
    <3>1. i \in Framed(ms) /\ ns[i] = ms[i]
      BY <1>6, <1>7, <2>3, <2>5 DEF Framed
    <3>2. CASE j = n + 1
      <4>1. Newest(c, p).rev < m.rev /\ ns[j] = m
        BY <1>6, <2>4, <3>2 DEF Framed
      <4>2. ms[i].rev <= Newest(c, p).rev /\ ms[i].rev \in Int
        BY <1>5, <1>7, <3>1 DEF Framed, Sent
      <4> QED
        BY <1>7, <3>1, <4>1, <4>2
    <3>3. CASE j # n + 1
      BY <2>1, <2>3, <2>5, <3>1, <3>3
    <3> QED
      BY <3>2, <3>3
  <2>6. ASSUME NEW i \in Framed(ns)
        PROVE  p.frame.rev < ns[i].rev
    <3>1. CASE i = n + 1
      <4>1. Newest(c, p).rev < m.rev /\ ns[i] = m
        BY <1>6, <2>4, <3>1 DEF Framed
      <4> QED
        <5>1. p.frame.rev <= Newest(c, p).rev
          BY <1>5
        <5> QED
          BY <1>7, <4>1, <5>1
    <3>2. CASE i # n + 1
      BY <2>1, <2>3, <3>2
    <3> QED
      BY <3>1, <3>2
  <2>7. ASSUME NEW i \in 1 .. Len(ns), ns[i].kind = "SelectionFinished"
        PROVE  ns[i].rev <= rev
    <3>1. CASE i = n + 1
      BY <1>6, <2>7, <3>1 DEF MaySay
    <3>2. CASE i # n + 1
      <4>1. i \in 1 .. Len(ms) /\ ns[i] = ms[i]
        BY <1>6, <1>7, <3>2
      <4>2. ms[i].rev <= old /\ ms[i].rev \in Int
        BY <1>7, <2>1, <2>7, <4>1 DEF Sent
      <4> QED
        BY <4>1, <4>2
    <3> QED
      BY <3>1, <3>2
  <2>8. p.finished <= rev
    BY <1>7, <2>1
  <2> QED
    BY <2>2, <2>5, <2>6, <2>7, <2>8 DEF RevisionsUpTo, ns
<1>9. ClipsFirst(d)
  <2>1. \A i, j \in 1 .. Len(ms) :
          i < j /\ ms[i].kind \in FrameKinds /\ ms[j].kind = "ClipboardWrite"
            => ms[i].rev < ms[j].rev
    BY <1>1 DEF ClipsFirst
  <2>2. m.kind = "ClipboardWrite" => Newest(c, p).rev < m.rev
    BY DEF MaySay
  <2> HIDE DEF ms, ns
  <2>3. ASSUME NEW i \in 1 .. Len(ns), NEW j \in 1 .. Len(ns),
               i < j, ns[i].kind \in FrameKinds, ns[j].kind = "ClipboardWrite"
        PROVE  ns[i].rev < ns[j].rev
    <3>1. i \in 1 .. n /\ i \in 1 .. Len(ms) /\ ns[i] = ms[i]
      BY <1>6, <1>7, <2>3
    <3>2. CASE j = n + 1
      <4>1. Newest(c, p).rev < m.rev /\ ns[j] = m
        BY <1>6, <2>2, <2>3, <3>2
      <4>2. ms[i].rev <= Newest(c, p).rev /\ ms[i].rev \in Int
        BY <1>5, <1>7, <2>3, <3>1 DEF Framed, Sent
      <4> QED
        BY <1>7, <3>1, <4>1, <4>2
    <3>3. CASE j # n + 1
      <4>1. j \in 1 .. Len(ms) /\ ns[j] = ms[j]
        <5>1. j \in 1 .. n
          BY <1>6, <2>3, <3>3
        <5> QED
          BY <1>6, <5>1
      <4> QED
        BY <2>1, <2>3, <3>1, <4>1
    <3> QED
      BY <3>2, <3>3
  <2> QED
    BY <2>3 DEF ClipsFirst, ns
<1>10. CopiesFrozen(d, p)
  <2>1. \A i \in 1 .. Len(ms) : ms[i].kind = "CopiedStandard" => ms[i].text = FrozenText(c, p, i)
    BY <1>1 DEF CopiesFrozen
  <2>2. ASSUME NEW i \in 1 .. Len(ns), ns[i].kind = "CopiedStandard"
        PROVE  ns[i].text = FrozenText(d, p, i)
    <3>1. CASE i = n + 1
      <4>1. m.text = LatestText(d, p) /\ Len(ns) = i
        BY <1>4, <1>6, <2>2, <3>1 DEF MaySay
      <4> QED
        BY <1>6, <3>1, <4>1 DEF LatestText
    <3>2. CASE i # n + 1
      <4>1. /\ i \in 1 .. n /\ i \in 1 .. Len(ms) /\ i \in Nat /\ ns[i] = ms[i]
            /\ \A k \in 1 .. i : ns[k] = ms[k]
        <5> HIDE DEF ms, ns
        <5> QED
          BY <1>6, <1>7, <3>2
      <4>2. LastOf(ns, i, {"CopiedSelection"}) = LastOf(ms, i, {"CopiedSelection"})
        <5> HIDE DEF ms, ns
        <5> QED
          BY <4>1, LastOfAgrees
      <4>3. LastOf(ms, i, {"CopiedSelection"}) \in 0 .. i
        BY <4>1, LastOfFacts
      <4>4. FrozenText(d, p, i) = FrozenText(c, p, i)
        <5> DEFINE l == LastOf(ms, i, {"CopiedSelection"})
        <5>1. FrozenText(c, p, i) = IF l = 0 THEN p.text ELSE ms[l].text
          BY DEF FrozenText
        <5>2. FrozenText(d, p, i) =
                IF LastOf(ns, i, {"CopiedSelection"}) = 0 THEN p.text
                ELSE ns[LastOf(ns, i, {"CopiedSelection"})].text
          BY DEF FrozenText
        <5> HIDE DEF l, ms, ns
        <5>3. l \in 0 .. i /\ LastOf(ns, i, {"CopiedSelection"}) = l
          BY <4>2, <4>3 DEF l
        <5> QED
          BY <4>1, <5>1, <5>2, <5>3
      <4> QED
        BY <2>1, <2>2, <4>1, <4>4
    <3> QED
      BY <3>1, <3>2
  <2> QED
    BY <2>2 DEF CopiesFrozen
<1> QED
  BY <1>2, <1>4, <1>8, <1>9, <1>10, <1>11 DEF Sound, d

\* The authority may run ahead.
LEMMA SoundLater ==
  ASSUME NEW c, NEW p, NEW old \in Nat, NEW rev \in Nat, old <= rev, Sound(c, p, old)
  PROVE  Sound(c, p, rev)
<1>1. Typed(c, p) /\ RevisionsUpTo(c, p, old) /\ ClipsFirst(c) /\ CopiesFrozen(c, p)
  BY DEF Sound
<1>2. /\ Newest(c, p).rev \in Int /\ p.finished \in Int
      /\ \A i \in 1 .. Len(c.queue.messages) : c.queue.messages[i].rev \in Int
  <2>1. Newest(c, p).rev \in Int
    BY <1>1, NewestIsHighest
  <2>2. c.queue.messages \in Seq(Output) /\ p \in Received
    BY <1>1 DEF Typed, QueueOf
  <2>3. \A i \in 1 .. Len(c.queue.messages) : c.queue.messages[i] \in Output
    BY <2>2
  <2>4. \A m \in Output : m.rev \in Int
    BY DEF Output, Sent
  <2>5. p.finished \in Int
    BY <2>2 DEF Received
  <2> QED
    BY <2>1, <2>3, <2>4, <2>5
<1>3. RevisionsUpTo(c, p, rev)
  BY <1>1, <1>2 DEF RevisionsUpTo
<1> QED
  BY <1>1, <1>3 DEF Sound

\* supersede_pending_frame: what remains is as sound.
LEMMA SupersedeIsSound ==
  ASSUME NEW c, NEW p, NEW rev \in Nat, Sound(c, p, rev)
  PROVE  LET d == [c EXCEPT !.queue = SupersedePendingFrame(@)]
         IN  /\ Sound(d, p, rev)
             /\ d.closing = c.closing /\ d.initial = c.initial
             /\ LatestText(d, p) = LatestText(c, p)
             /\ FramesIn(d) \subseteq FramesIn(c)
<1> DEFINE d == [c EXCEPT !.queue = SupersedePendingFrame(@)]
           q == c.queue
           r == Cut(q, "Frame")
           ms == q.messages
           ns == r.messages
           n == Kept(q, "Frame")
<1>1. Typed(c, p) /\ RevisionsUpTo(c, p, rev) /\ ClipsFirst(c) /\ CopiesFrozen(c, p)
  BY DEF Sound
<1>2. c \in Connection /\ q \in QueueOf(Output) /\ Accounted(q) /\ p \in Received
  BY <1>1 DEF Typed
<1>3. r \in QueueOf(Output) /\ Accounted(r)
  BY <1>2, OutputIsQueued, CutAccounted
<1>4. d \in Connection /\ d.queue = r /\ d.closing = c.closing /\ d.initial = c.initial
  <2>1. Seq(Output) \subseteq Seq(Sent)
    BY DEF Output
  <2>2. r \in [messages : Seq(Sent), offset : Nat, bytes : Nat]
    BY <1>3, <2>1 DEF QueueOf
  <2> HIDE DEF r
  <2>3. d = [c EXCEPT !.queue = r]
    BY DEF SupersedePendingFrame, r
  <2> QED
    BY <1>2, <2>2, <2>3 DEF Connection
<1>5. Typed(d, p)
  BY <1>2, <1>3, <1>4 DEF Typed
<1>6. /\ n \in 0 .. Len(ms)
      /\ \A i \in n + 1 .. Len(ms) : Replaceable(q, "Frame", i)
  BY <1>2, KeptFacts
<1>7. Len(ns) = n /\ \A i \in 1 .. n : ns[i] = ms[i]
  BY <1>2, CutShape
<1>8. ms \in Seq(Output) /\ ns \in Seq(Output)
  BY <1>2, <1>3 DEF QueueOf
<1>9. \A i \in n + 1 .. Len(ms) : ms[i].kind # "CopiedSelection"
  <2> TAKE i \in n + 1 .. Len(ms)
  <2>1. ms[i] \in Output
    <3> HIDE DEF ms, n
    <3> QED
      BY <1>6, <1>8
  <2>2. Supersedes("Frame", ms[i].class)
    BY <1>6 DEF Replaceable
  <2> HIDE DEF ms
  <2> QED
    BY <2>1, <2>2 DEF Supersedes, Output, Classified, FrameKinds
<1>10. d.queue.messages = ns
  BY <1>4
<1> HIDE DEF d, n, r
<1>11. LatestText(d, p) = LatestText(c, p)
  <2>0. Len(ms) \in Nat /\ n \in Nat
    <3> HIDE DEF ms
    <3> QED
      BY <1>6, <1>8
  <2>1. LastOf(ns, n, {"CopiedSelection"}) = LastOf(ms, n, {"CopiedSelection"})
    BY <1>7, <2>0, LastOfAgrees
  <2>2. LastOf(ms, Len(ms), {"CopiedSelection"}) = LastOf(ms, n, {"CopiedSelection"})
    BY <1>6, <1>9, <2>0, LastOfShorter
  <2>3. LastOf(ms, n, {"CopiedSelection"}) \in 0 .. n
    BY <2>0, LastOfFacts
  <2> QED
    BY <1>6, <1>7, <1>10, <2>1, <2>2, <2>3 DEF LatestText, FrozenText
<1>12. /\ \A i \in 1 .. Len(ns) : i \in 1 .. Len(ms) /\ ns[i] = ms[i] /\ ms[i] \in Sent
       /\ Len(ns) \in Nat
  <2> HIDE DEF ms, ns
  <2> QED
    BY <1>6, <1>7, <1>8 DEF Output
<1>13. RevisionsUpTo(d, p, rev)
  <2>1. /\ \A i, j \in Framed(ms) : i < j => ms[i].rev < ms[j].rev
        /\ \A i \in Framed(ms) : p.frame.rev < ms[i].rev
        /\ p.finished <= rev /\ Newest(c, p).rev <= rev
        /\ \A i \in 1 .. Len(ms) : ms[i].kind = "SelectionFinished" => ms[i].rev <= rev
    BY <1>1 DEF RevisionsUpTo
  <2>2. /\ p.frame.rev <= Newest(c, p).rev /\ Newest(c, p).rev \in Int
        /\ \A i \in Framed(ms) : ms[i].rev <= Newest(c, p).rev
        /\ p.frame.rev \in Int
    BY <1>1, <1>2, NewestIsHighest DEF Received
  <2>3. Newest(d, p).rev <= rev
    <3> DEFINE i == LastOf(ns, Len(ns), FrameKinds)
    <3>1. i \in 0 .. Len(ns) /\ (i # 0 => ns[i].kind \in FrameKinds)
      BY <1>12, LastOfFacts
    <3>2. Newest(d, p) = IF i = 0 THEN p.frame ELSE FrameOf(ns[i])
      BY <1>10 DEF Newest
    <3> HIDE DEF i, ms, ns
    <3>3. i # 0 => i \in Framed(ms) /\ Newest(d, p).rev = ms[i].rev /\ ms[i].rev \in Int
      BY <1>12, <3>1, <3>2 DEF Framed, FrameOf, Sent
    <3> QED
      BY <2>1, <2>2, <3>2, <3>3
  <2> HIDE DEF ms, ns
  <2>4. Framed(ns) \subseteq Framed(ms)
    BY <1>12 DEF Framed
  <2>5. \A i \in Framed(ns) : ns[i] = ms[i]
    BY <1>12 DEF Framed
  <2>6. \A i \in 1 .. Len(ns) : ns[i].kind = "SelectionFinished" => ns[i].rev <= rev
    BY <1>12, <2>1
  <2> QED
    BY <1>10, <2>1, <2>3, <2>4, <2>5, <2>6 DEF RevisionsUpTo
<1>14. ClipsFirst(d)
  <2>1. \A i, j \in 1 .. Len(ms) :
          i < j /\ ms[i].kind \in FrameKinds /\ ms[j].kind = "ClipboardWrite"
            => ms[i].rev < ms[j].rev
    BY <1>1 DEF ClipsFirst
  <2> HIDE DEF ms, ns
  <2> QED
    BY <1>10, <1>12, <2>1 DEF ClipsFirst
<1>15. CopiesFrozen(d, p)
  <2>1. \A i \in 1 .. Len(ms) : ms[i].kind = "CopiedStandard" => ms[i].text = FrozenText(c, p, i)
    BY <1>1 DEF CopiesFrozen
  <2>2. ASSUME NEW i \in 1 .. Len(ns)
        PROVE  FrozenText(d, p, i) = FrozenText(c, p, i)
    <3>1. i \in Nat /\ \A k \in 1 .. i : ns[k] = ms[k]
      <4> HIDE DEF ms, ns
      <4> QED
        BY <1>12
    <3>2. LastOf(ns, i, {"CopiedSelection"}) = LastOf(ms, i, {"CopiedSelection"})
      <4> HIDE DEF ms, ns
      <4> QED
        BY <3>1, LastOfAgrees
    <3>3. LastOf(ms, i, {"CopiedSelection"}) \in 0 .. i
      BY <3>1, LastOfFacts
    <3> QED
      BY <1>10, <3>1, <3>2, <3>3 DEF FrozenText
  <2> HIDE DEF ms, ns
  <2> QED
    BY <1>10, <1>12, <2>1, <2>2 DEF CopiesFrozen
<1>16. FramesIn(d) \subseteq FramesIn(c)
  <2> HIDE DEF ms, ns
  <2>1. \A i \in Framed(ns) : i \in Framed(ms) /\ ns[i] = ms[i]
    BY <1>12 DEF Framed
  <2> QED
    BY <1>10, <2>1 DEF FramesIn, ms
<1> QED
  BY <1>4, <1>5, <1>11, <1>13, <1>14, <1>15, <1>16 DEF Sound, d

-----------------------------------------------------------------------------
(***************************************************************************)
(* Sending: the head moves from the queue to the peer.                     *)
(***************************************************************************)

\* What a peer that knew p knows after a message.
Knows(p, m) ==
  CASE m.kind \in FrameKinds       -> [p EXCEPT !.frame = FrameOf(m)]
    [] m.kind = "SelectionFinished" -> [p EXCEPT !.finished = m.rev]
    [] m.kind = "CopiedSelection"   -> [p EXCEPT !.text = m.text]
    [] OTHER -> p

\* What a peer knows once a message has reached it.
LEMMA KnowsIs ==
  ASSUME NEW p \in Received, NEW m \in Sent
  PROVE  /\ Knows(p, m) \in Received
         /\ Knows(p, m).frame = IF m.kind \in FrameKinds THEN FrameOf(m) ELSE p.frame
         /\ Knows(p, m).finished = IF m.kind = "SelectionFinished" THEN m.rev ELSE p.finished
         /\ Knows(p, m).text = IF m.kind = "CopiedSelection" THEN m.text ELSE p.text
<1>1. CASE m.kind \in FrameKinds
  <2>1. Knows(p, m) = [p EXCEPT !.frame = FrameOf(m)]
    BY <1>1 DEF Knows, FrameKinds
  <2>2. FrameOf(m) \in [rev : Nat \cup {-1}, view : Nat, selected : BOOLEAN]
    BY DEF FrameOf, Sent
  <2> HIDE DEF Knows
  <2> QED
    BY <1>1, <2>1, <2>2 DEF Received, FrameKinds
<1>2. CASE m.kind = "SelectionFinished"
  <2>1. Knows(p, m) = [p EXCEPT !.finished = m.rev]
    BY <1>2 DEF Knows, FrameKinds
  <2> QED
    BY <1>2, <2>1 DEF Received, FrameKinds, Sent
<1>3. CASE m.kind = "CopiedSelection"
  <2>1. Knows(p, m) = [p EXCEPT !.text = m.text]
    BY <1>3 DEF Knows, FrameKinds
  <2> QED
    BY <1>3, <2>1 DEF Received, FrameKinds, Sent
<1>4. CASE m.kind \notin FrameKinds \cup {"SelectionFinished", "CopiedSelection"}
  BY <1>4 DEF Knows
<1> QED
  BY <1>1, <1>2, <1>3, <1>4

\* The last message of some kinds, when the head has left.
LEMMA LastOfTail ==
  ASSUME NEW ms, NEW ns, NEW n \in Nat \ {0}, NEW K,
         \A i \in 1 .. n - 1 : ns[i] = ms[i + 1]
  PROVE  LastOf(ns, n - 1, K) = IF LastOf(ms, n, K) = 0 THEN 0 ELSE LastOf(ms, n, K) - 1
<1> DEFINE i == LastOf(ms, n, K)
           j == IF i = 0 THEN 0 ELSE i - 1
<1>1. /\ i \in 0 .. n
      /\ i # 0 => ms[i].kind \in K
      /\ \A k \in 1 .. n : ms[k].kind \in K => k <= i
  BY LastOfFacts
<1> HIDE DEF i
<1>2. j \in 0 .. n - 1 /\ n - 1 \in Nat
  BY <1>1
<1>3. j # 0 => ns[j].kind \in K
  <2> SUFFICES ASSUME j # 0
               PROVE  ns[j].kind \in K
    OBVIOUS
  <2>1. i # 0 /\ j + 1 = i /\ j \in 1 .. n - 1
    BY <1>1
  <2> QED
    BY <1>1, <2>1
<1>4. \A k \in 1 .. n - 1 : ns[k].kind \in K => k <= j
  <2> TAKE k \in 1 .. n - 1
  <2>1. ns[k] = ms[k + 1] /\ k + 1 \in 1 .. n
    OBVIOUS
  <2>2. ns[k].kind \in K => k + 1 <= i
    BY <1>1, <2>1
  <2> QED
    BY <1>1, <2>2
<1> HIDE DEF j
<1>5. LastOf(ns, n - 1, K) = j
  BY <1>2, <1>3, <1>4, LastOfIs
<1> QED
  BY <1>5 DEF i, j

\* The head has been sent: the peer will know the same in the end.
LEMMA SentHead ==
  ASSUME NEW c, NEW d, NEW p, NEW rev \in Nat, Sound(c, p, rev), Typed(d, p),
         c.queue.messages # <<>>,
         d.queue.messages = Tail(c.queue.messages)
  PROVE  LET r == Knows(p, Head(c.queue.messages))
         IN  /\ Sound(d, r, rev)
             /\ Newest(d, r) = Newest(c, p)
             /\ LatestText(d, r) = LatestText(c, p)
             /\ Reached(c, p) => Reached(d, r)
<1> DEFINE ms == c.queue.messages
           ns == d.queue.messages
           h == ms[1]
           r == Knows(p, h)
           k == Len(ms)
<1>1. Typed(c, p) /\ RevisionsUpTo(c, p, rev) /\ ClipsFirst(c) /\ CopiesFrozen(c, p)
  BY DEF Sound
<1>2. /\ ms \in Seq(Output) /\ ns \in Seq(Output) /\ p \in Received
      /\ d \in Connection /\ d.queue \in QueueOf(Output) /\ Accounted(d.queue)
  BY <1>1 DEF Typed, QueueOf
<1>3. /\ k \in Nat \ {0} /\ Len(ns) = k - 1 /\ Head(ms) = h /\ h \in Output
      /\ \A i \in 1 .. k - 1 : ns[i] = ms[i + 1]
      /\ \A i \in 1 .. k : ms[i] \in Output
  <2> DEFINE x == ms
             y == ns
  <2>1. x \in Seq(Output) /\ x # <<>> /\ y = Tail(x)
    BY <1>2
  <2> HIDE DEF x, y
  <2>2. /\ Len(x) \in Nat \ {0} /\ Len(y) = Len(x) - 1 /\ Head(x) = x[1] /\ x[1] \in Output
        /\ \A i \in 1 .. Len(x) - 1 : y[i] = x[i + 1]
        /\ \A i \in 1 .. Len(x) : x[i] \in Output
    BY <2>1
  <2> QED
    BY <2>2 DEF x, y
<1>4. /\ r \in Received
      /\ r.frame = IF h.kind \in FrameKinds THEN FrameOf(h) ELSE p.frame
      /\ r.finished = IF h.kind = "SelectionFinished" THEN h.rev ELSE p.finished
      /\ r.text = IF h.kind = "CopiedSelection" THEN h.text ELSE p.text
  <2>1. h \in Sent
    BY <1>3 DEF Output
  <2> HIDE DEF h
  <2> QED
    BY <1>2, <2>1, KnowsIs
<1> HIDE DEF r
<1>5. Typed(d, r)
  BY <1>2, <1>4 DEF Typed
<1>6. /\ \A i, j \in Framed(ms) : i < j => ms[i].rev < ms[j].rev
      /\ \A i \in Framed(ms) : p.frame.rev < ms[i].rev
      /\ p.finished <= rev /\ Newest(c, p).rev <= rev
      /\ \A i \in 1 .. k : ms[i].kind = "SelectionFinished" => ms[i].rev <= rev
  BY <1>1 DEF RevisionsUpTo
<1>7. \A i, j \in 1 .. k :
        i < j /\ ms[i].kind \in FrameKinds /\ ms[j].kind = "ClipboardWrite"
          => ms[i].rev < ms[j].rev
  BY <1>1 DEF ClipsFirst
<1>8. \A i \in 1 .. k : ms[i].kind = "CopiedStandard" => ms[i].text = FrozenText(c, p, i)
  BY <1>1 DEF CopiesFrozen
<1>9. Newest(d, r) = Newest(c, p)
  <2> DEFINE i == LastOf(ms, k, FrameKinds)
  <2>1. /\ i \in 0 .. k /\ (i # 0 => ms[i].kind \in FrameKinds)
        /\ \A j \in 1 .. k : ms[j].kind \in FrameKinds => j <= i
    <3>1. k \in Nat
      BY <1>3
    <3> QED
      BY <3>1, LastOfFacts
  <2>2. LastOf(ns, k - 1, FrameKinds) = IF i = 0 THEN 0 ELSE i - 1
    <3> HIDE DEF ms, ns, k
    <3> QED
      BY <1>3, LastOfTail
  <2>3. /\ Newest(c, p) = IF i = 0 THEN p.frame ELSE FrameOf(ms[i])
        /\ Newest(d, r) = IF LastOf(ns, Len(ns), FrameKinds) = 0 THEN r.frame
                          ELSE FrameOf(ns[LastOf(ns, Len(ns), FrameKinds)])
    BY DEF Newest
  <2> HIDE DEF i, ms, ns, k
  <2>4. CASE i = 0
    BY <1>3, <1>4, <2>1, <2>2, <2>3, <2>4 DEF h
  <2>5. CASE i = 1
    BY <1>3, <1>4, <2>1, <2>2, <2>3, <2>5 DEF h
  <2>6. CASE i > 1
    <3>1. i - 1 \in 1 .. k - 1 /\ ns[i - 1] = ms[i]
      BY <1>3, <2>1, <2>6
    <3> QED
      BY <1>3, <2>2, <2>3, <2>6, <3>1
  <2> QED
    BY <2>1, <2>4, <2>5, <2>6, <1>3
<1>10. ASSUME NEW l \in 1 .. k
       PROVE  FrozenText(d, r, l - 1) = FrozenText(c, p, l)
  <2> DEFINE K == {"CopiedSelection"}
             i == LastOf(ms, l, K)
  <2>1. /\ i \in 0 .. l /\ (i # 0 => ms[i].kind \in K)
        /\ \A j \in 1 .. l : ms[j].kind \in K => j <= i
    <3>1. l \in Nat
      OBVIOUS
    <3> HIDE DEF K
    <3> QED
      BY <3>1, LastOfFacts
  <2>2. LastOf(ns, l - 1, K) = IF i = 0 THEN 0 ELSE i - 1
    <3>1. l \in Nat \ {0} /\ \A j \in 1 .. l - 1 : ns[j] = ms[j + 1]
      <4> HIDE DEF ms, ns, k
      <4> QED
        BY <1>3
    <3>2. LastOf(ns, l - 1, K) = IF LastOf(ms, l, K) = 0 THEN 0 ELSE LastOf(ms, l, K) - 1
      <4> HIDE DEF K, ms, ns, i
      <4> QED
        BY <3>1, LastOfTail
    <3> QED
      BY <3>2
  <2>3. /\ FrozenText(c, p, l) = IF i = 0 THEN p.text ELSE ms[i].text
        /\ FrozenText(d, r, l - 1) = IF LastOf(ns, l - 1, K) = 0 THEN r.text
                                     ELSE ns[LastOf(ns, l - 1, K)].text
    BY DEF FrozenText
  <2> HIDE DEF i, ms, ns, k
  <2>4. CASE i = 0
    BY <1>3, <1>4, <2>1, <2>2, <2>3, <2>4 DEF h
  <2>5. CASE i = 1
    BY <1>3, <1>4, <2>1, <2>2, <2>3, <2>5 DEF h
  <2>6. CASE i > 1
    <3>1. i - 1 \in 1 .. k - 1 /\ ns[i - 1] = ms[i]
      BY <1>3, <2>1, <2>6
    <3> QED
      BY <1>3, <2>2, <2>3, <2>6, <3>1
  <2> QED
    BY <2>1, <2>4, <2>5, <2>6, <1>3
<1>11. LatestText(d, r) = LatestText(c, p)
  <2>1. k \in 1 .. k /\ Len(ns) = k - 1
    BY <1>3
  <2> QED
    BY <1>10, <2>1 DEF LatestText
<1>12. /\ Newest(c, p).rev \in Int
       /\ \A i \in Framed(ms) : ms[i].rev <= Newest(c, p).rev
  BY <1>1, NewestIsHighest
<1>13. \A m \in Output : m.rev \in Int
  BY DEF Output, Sent
<1>14. p.frame.rev \in Int /\ p.finished \in Int
  BY <1>2 DEF Received
<1>15. /\ Sound(d, r, rev)
       /\ Reached(c, p) => Reached(d, r)
  <2>1. Reached(c, p) =>
          /\ p.finished <= Newest(c, p).rev
          /\ \A i \in 1 .. k : ms[i].kind = "SelectionFinished" => ms[i].rev <= Newest(c, p).rev
    BY DEF Reached
  <2> HIDE DEF ms, ns, k
  <2>2. /\ \A i \in 1 .. Len(ns) : i + 1 \in 1 .. k /\ ns[i] = ms[i + 1]
        /\ 1 \in 1 .. k
    BY <1>3
  <2>3. \A i \in Framed(ns) : i \in 1 .. Len(ns) /\ i + 1 \in Framed(ms)
    BY <2>2 DEF Framed, k
  <2>4. \A i, j \in Framed(ns) : i < j => ns[i].rev < ns[j].rev
    <3> TAKE i, j \in Framed(ns)
    <3>1. i < j => i + 1 < j + 1
      BY <2>3
    <3> QED
      BY <1>6, <2>2, <2>3, <3>1
  <2>5. \A i \in Framed(ns) : r.frame.rev < ns[i].rev
    <3> TAKE i \in Framed(ns)
    <3>1. i + 1 \in Framed(ms) /\ ns[i] = ms[i + 1] /\ i \in 1 .. Len(ns)
      BY <2>2, <2>3
    <3>2. CASE h.kind \in FrameKinds
      <4>1. 1 \in Framed(ms) /\ 1 < i + 1
        BY <2>2, <3>1, <3>2 DEF Framed, h, k
      <4>2. r.frame.rev = ms[1].rev
        BY <1>4, <3>2 DEF FrameOf, h
      <4> QED
        BY <1>6, <3>1, <4>1, <4>2
    <3>3. CASE h.kind \notin FrameKinds
      BY <1>4, <1>6, <3>1, <3>3
    <3> QED
      BY <3>2, <3>3
  <2>6. r.finished <= rev
    BY <1>4, <1>6, <2>2 DEF h
  <2>7. \A i \in 1 .. Len(ns) : ns[i].kind = "SelectionFinished" => ns[i].rev <= rev
    BY <1>6, <2>2
  <2>8. RevisionsUpTo(d, r, rev)
    BY <1>6, <1>9, <2>4, <2>5, <2>6, <2>7 DEF RevisionsUpTo, ns
  <2>9. ClipsFirst(d)
    <3>1. ASSUME NEW i \in 1 .. Len(ns), NEW j \in 1 .. Len(ns), i < j,
                 ns[i].kind \in FrameKinds, ns[j].kind = "ClipboardWrite"
          PROVE  ns[i].rev < ns[j].rev
      <4>1. i + 1 < j + 1
        BY <3>1
      <4> QED
        BY <1>7, <2>2, <3>1, <4>1
    <3> QED
      BY <3>1 DEF ClipsFirst, ns
  <2>10. CopiesFrozen(d, r)
    <3>1. ASSUME NEW i \in 1 .. Len(ns), ns[i].kind = "CopiedStandard"
          PROVE  ns[i].text = FrozenText(d, r, i)
      <4>1. FrozenText(d, r, (i + 1) - 1) = FrozenText(c, p, i + 1)
        BY <1>10, <2>2
      <4>2. (i + 1) - 1 = i
        OBVIOUS
      <4> QED
        BY <1>8, <2>2, <3>1, <4>1, <4>2
    <3> QED
      BY <3>1 DEF CopiesFrozen, ns
  <2>11. Reached(c, p) => Reached(d, r)
    <3> SUFFICES ASSUME Reached(c, p)
                 PROVE  Reached(d, r)
      OBVIOUS
    <3>1. r.finished <= Newest(c, p).rev
      BY <1>4, <2>1, <2>2 DEF h
    <3>2. \A i \in 1 .. Len(ns) : ns[i].kind = "SelectionFinished" => ns[i].rev <= Newest(c, p).rev
      BY <2>1, <2>2
    <3> QED
      BY <1>9, <3>1, <3>2 DEF Reached, ns
  <2> QED
    BY <1>5, <2>8, <2>9, <2>10, <2>11 DEF Sound
<1> QED
  BY <1>3, <1>9, <1>11, <1>15 DEF r

-----------------------------------------------------------------------------
(***************************************************************************)
(* Clipboard writes: the same message, pushed n times.                     *)
(***************************************************************************)

\* Pushes is what its recursive definition says.
LEMMA PushesRecur ==
  ASSUME NEW c, NEW m, NEW n \in Nat
  PROVE  /\ Pushes(c, m, n)[0] = c
         /\ \A i \in 1 .. n : Pushes(c, m, n)[i] = Push1(Pushes(c, m, n)[i - 1], m)
<1> DEFINE Is(f, k) == f = [i \in 0 .. k |-> IF i = 0 THEN c ELSE Push1(f[i - 1], m)]
           T == {k \in 0 .. n : ~ \E f : Is(f, k)}
<1>1. T = {}
  <2>1. SUFFICES ASSUME T # {}
                 PROVE  FALSE
    OBVIOUS
  <2>2. PICK k \in T : \A j \in T : k <= j
    <3>1. T \in SUBSET Nat
      OBVIOUS
    <3> HIDE DEF T
    <3> QED
      BY <2>1, <3>1, LeastElement
  <2>3. CASE k = 0
    <3>1. Is([i \in 0 .. 0 |-> c], 0)
      OBVIOUS
    <3> QED
      BY <2>3, <3>1
  <2>4. CASE k # 0
    <3>1. k - 1 \in 0 .. n /\ k - 1 \notin T
      BY <2>2, <2>4
    <3>2. PICK f : Is(f, k - 1)
      BY <3>1
    <3> DEFINE g == [i \in 0 .. k |-> IF i = k THEN Push1(f[k - 1], m) ELSE f[i]]
    <3>3. \A i \in 0 .. k : g[i] = IF i = 0 THEN c ELSE Push1(g[i - 1], m)
      BY <2>4, <3>1, <3>2
    <3>4. g = [i \in 0 .. k |-> IF i = 0 THEN c ELSE Push1(g[i - 1], m)]
      BY <3>3
    <3> QED
      BY <3>4
  <2> QED
    BY <2>3, <2>4
<1>2. \E f : Is(f, n)
  <2> HIDE DEF Is
  <2>1. n \in 0 .. n /\ n \notin T
    BY <1>1, SMT
  <2> QED
    BY <2>1, Zenon
<1> DEFINE f == Pushes(c, m, n)
<1>3. Is(f, n)
  <2>1. \E g : g = [i \in 0 .. n |-> IF i = 0 THEN c ELSE Push1(g[i - 1], m)]
    BY <1>2
  <2>2. f = CHOOSE g : g = [i \in 0 .. n |-> IF i = 0 THEN c ELSE Push1(g[i - 1], m)]
    BY DEF Pushes
  <2> HIDE DEF f
  <2> QED
    BY <2>1, <2>2
<1> HIDE DEF f
<1>4. f[0] = c /\ \A i \in 1 .. n : f[i] = Push1(f[i - 1], m)
  BY <1>3
<1> QED
  BY <1>4 DEF f

-----------------------------------------------------------------------------
(***************************************************************************)
(* The messages that the handlers build.                                   *)
(***************************************************************************)
Terminal == [view : Nat, sync : BOOLEAN, scrolled : BOOLEAN, mode : Modes]

Selection == [route : {"none", "host", "terminal"}, has : BOOLEAN, copied : Nat]

\* The messages the owner makes have the type of output: the small ones,
LEMMA SmallType ==
  ASSUME NEW kind \in Kinds, NEW n \in Nat
  PROVE  Small(kind, n) \in Output /\ Small(kind, n).kind = kind /\ Small(kind, n).rev = n
         /\ Small(kind, n).class = "Ordered"
BY LimitsAssumption DEF Small, Message, Output, Sent, Classified, Classes

\* those with a text,
LEMMA TextType ==
  ASSUME NEW kind \in Kinds, NEW n \in Nat
  PROVE  Text(kind, n) \in Output /\ Text(kind, n).kind = kind /\ Text(kind, n).text = n
         /\ Text(kind, n).class = "Ordered"
<1>1. MaxCopyBytes + TagBytes + HeaderBytes \in Nat \ {0}
  BY LimitsAssumption
<1> QED
  BY <1>1 DEF Text, Message, Output, Sent, Classified, Classes

\* previews,
LEMMA PreviewType ==
  ASSUME NEW n \in Nat
  PROVE  Preview(n) \in Output /\ Preview(n).kind = "Preview"
<1>1. MaxFrameBytes + HeaderBytes \in Nat \ {0}
  BY LimitsAssumption
<1> QED
  BY <1>1 DEF Preview, Message, Output, Sent, Classified, Classes, Kinds

\* and those with a frame.
LEMMA FrameType ==
  ASSUME NEW kind \in FrameKinds, NEW class \in {"Ordered", "Frame", "ScrollOutcome"},
         NEW size \in Nat \ {0}, NEW rev \in Nat, NEW t \in Terminal, NEW sel \in Selection
  PROVE  LET m == WithFrame(kind, class, size, rev, t, sel)
         IN  /\ m \in Output /\ m.kind = kind /\ m.class = class /\ m.size = size /\ m.rev = rev
             /\ FrameOf(m) = [rev |-> rev, view |-> t.view, selected |-> sel.has]
<1>1. t.view \in Nat /\ sel.has \in BOOLEAN
  BY DEF Terminal, Selection
<1>2. WithFrame(kind, class, size, rev, t, sel) =
        [kind |-> kind, class |-> class, size |-> size, rev |-> rev, view |-> t.view,
         selected |-> sel.has, text |-> 0]
  BY DEF WithFrame, Message
<1>3. kind \in Kinds /\ class \in Classes
  BY DEF Kinds, Classes
<1> HIDE DEF WithFrame
<1>4. WithFrame(kind, class, size, rev, t, sel) \in Sent
  BY <1>1, <1>2, <1>3 DEF Sent
<1>5. Classified(WithFrame(kind, class, size, rev, t, sel))
  BY <1>2 DEF Classified, FrameKinds
<1> QED
  BY <1>2, <1>4, <1>5 DEF Output, FrameOf

\* n pushes of a clipboard write.
LEMMA PushesAreSound ==
  ASSUME NEW c, NEW p, NEW old \in Nat, NEW rev \in Nat, old <= rev,
         Sound(c, p, old), Newest(c, p).rev < rev,
         NEW m \in Output, m.kind = "ClipboardWrite", m.rev = rev,
         NEW n \in Nat, Pushes(c, m, n)[n] # NoClient
  PROVE  LET d == Pushes(c, m, n)[n]
         IN  /\ Sound(d, p, rev)
             /\ d.closing = c.closing /\ d.initial = c.initial
             /\ Newest(d, p) = Newest(c, p)
             /\ LatestText(d, p) = LatestText(c, p)
             /\ FramesIn(d) \subseteq FramesIn(c)
<1> DEFINE f == Pushes(c, m, n)
           Good(d) == /\ Sound(d, p, rev)
                      /\ d.closing = c.closing /\ d.initial = c.initial
                      /\ Newest(d, p) = Newest(c, p)
                      /\ LatestText(d, p) = LatestText(c, p)
                      /\ FramesIn(d) \subseteq FramesIn(c)
           T == {i \in 0 .. n : f[i] # NoClient /\ ~Good(f[i])}
<1>1. f[0] = c /\ \A i \in 1 .. n : f[i] = Push1(f[i - 1], m)
  BY PushesRecur
<1>2. Good(c)
  BY SoundLater
<1>3. ASSUME NEW d, Good(d), Push1(d, m) # NoClient
      PROVE  Good(Push1(d, m))
  <2>1. MaySay(d, p, rev, m) /\ m.kind \notin FrameKinds
    BY <1>3 DEF MaySay, FrameKinds
  <2> QED
    BY <1>3, <2>1, PushIsSound
<1>4. Push1(NoClient, m) = NoClient
  BY DEF Push1
<1> HIDE DEF f, Good
<1>5. T = {}
  <2>1. SUFFICES ASSUME T # {}
                 PROVE  FALSE
    OBVIOUS
  <2>2. PICK k \in T : \A j \in T : k <= j
    <3>1. T \in SUBSET Nat
      OBVIOUS
    <3> HIDE DEF T
    <3> QED
      BY <2>1, <3>1, LeastElement
  <2>3. k # 0
    BY <1>1, <1>2, <2>2
  <2>4. k - 1 \in 0 .. n /\ k \in 1 .. n /\ k - 1 \notin T
    BY <2>2, <2>3
  <2>5. f[k] = Push1(f[k - 1], m)
    BY <1>1, <2>4
  <2>6. f[k - 1] # NoClient
    BY <1>4, <2>2, <2>5
  <2>7. Good(f[k - 1])
    BY <2>4, <2>6
  <2> QED
    BY <1>3, <2>2, <2>5, <2>7
<1>6. Good(f[n])
  BY <1>5 DEF f
<1> QED
  BY <1>6 DEF Good, f

\* publish_clipboard_writes.
LEMMA ClipsAreSound ==
  ASSUME NEW c, NEW p, NEW old \in Nat, NEW rev \in Nat, old <= rev,
         Sound(c, p, old), Newest(c, p).rev < rev,
         NEW n \in Nat, PublishClips(c, n, rev) # NoClient
  PROVE  LET d == PublishClips(c, n, rev)
         IN  /\ Sound(d, p, rev)
             /\ d.closing = c.closing /\ d.initial = c.initial
             /\ Newest(d, p) = Newest(c, p)
             /\ LatestText(d, p) = LatestText(c, p)
             /\ FramesIn(d) \subseteq FramesIn(c)
<1> DEFINE m == [Text("ClipboardWrite", 0) EXCEPT !.rev = rev]
<1>1. m \in Output /\ m.kind = "ClipboardWrite" /\ m.rev = rev
  <2>1. Text("ClipboardWrite", 0) \in Output /\ Text("ClipboardWrite", 0).kind = "ClipboardWrite"
        /\ Text("ClipboardWrite", 0).class = "Ordered"
    BY TextType DEF Kinds
  <2> QED
    BY <2>1 DEF Output, Sent, Classified
<1>2. CASE ~Accepts(c)
  BY <1>2, SoundLater DEF PublishClips
<1>3. CASE Accepts(c)
  <2>1. PublishClips(c, n, rev) = Pushes(c, m, n)[n]
    BY <1>3 DEF PublishClips
  <2> HIDE DEF m
  <2> QED
    BY <1>1, <2>1, PushesAreSound
<1> QED
  BY <1>2, <1>3

-----------------------------------------------------------------------------
(***************************************************************************)
(* Responses and publication.                                              *)
(***************************************************************************)

\* Only the queue of a connection matters.
LEMMA QueueIsAll ==
  ASSUME NEW c, NEW d \in Connection, NEW p, NEW rev, d.queue = c.queue
  PROVE  /\ Sound(c, p, rev) => Sound(d, p, rev)
         /\ Newest(d, p) = Newest(c, p)
         /\ LatestText(d, p) = LatestText(c, p)
         /\ FramesIn(d) = FramesIn(c)
<1>1. /\ Newest(d, p) = Newest(c, p)
      /\ FramesIn(d) = FramesIn(c)
      /\ \A n : FrozenText(d, p, n) = FrozenText(c, p, n)
  BY DEF Newest, FramesIn, FrozenText
<1> QED
  BY <1>1 DEF LatestText, Sound, Typed, RevisionsUpTo, ClipsFirst, CopiesFrozen

\* The initial frame has been claimed.
LEMMA ClaimedIsConnection ==
  ASSUME NEW c \in Connection, NEW b \in BOOLEAN
  PROVE  /\ [c EXCEPT !.initial = b] \in Connection
         /\ [c EXCEPT !.initial = b].queue = c.queue
         /\ [c EXCEPT !.initial = b].closing = c.closing
         /\ [c EXCEPT !.closing = b] \in Connection
         /\ [c EXCEPT !.closing = b].queue = c.queue
         /\ [c EXCEPT !.closing = b].closing = b
BY DEF Connection

\* A pushed message without a frame changes nothing of what is presented.
LEMMA PushPresents ==
  ASSUME NEW c, NEW p, NEW rev \in Nat, Sound(c, p, rev), NEW m \in Output,
         m.kind \notin FrameKinds \cup {"ClipboardWrite"}, MaySay(c, p, rev, m),
         NEW t, NEW sel, NEW tm, NEW pt,
         Presents(c, p, t, sel, rev, tm, pt),
         m.kind = "SelectionFinished" /\ Accepts(c) /\ tm = "none" => m.rev <= Newest(c, p).rev,
         Push1(c, m) # NoClient
  PROVE  LET d == Push1(c, m)
         IN  /\ Sound(d, p, rev)
             /\ Presents(d, p, t, sel, rev, tm, pt)
             /\ LatestText(d, p) =
                  IF m.kind = "CopiedSelection" THEN m.text ELSE LatestText(c, p)
             /\ FramesIn(d) \subseteq FramesIn(c)
<1> DEFINE d == Push1(c, m)
<1>1. /\ Sound(d, p, rev)
      /\ d.closing = c.closing
      /\ Newest(d, p) = Newest(c, p)
      /\ LatestText(d, p) =
           IF m.kind = "CopiedSelection" THEN m.text ELSE LatestText(c, p)
      /\ FramesIn(d) \subseteq FramesIn(c)
  BY PushIsSound
<1>2. Pushed(c.queue.messages, d.queue.messages, m)
  BY Push1IsPush DEF Sound
<1>3. c # NoClient
  BY DEF Push1
<1> HIDE DEF d
<1>4. ASSUME Accepts(c), tm = "none"
      PROVE  Reached(d, p)
  <2> DEFINE ms == c.queue.messages
             ns == d.queue.messages
  <2>1. /\ p.finished <= Newest(c, p).rev
        /\ \A i \in 1 .. Len(ms) :
             ms[i].kind = "SelectionFinished" => ms[i].rev <= Newest(c, p).rev
    BY <1>4 DEF Presents, Reached
  <2>2. ms \in Seq(Output)
    BY DEF Sound, Typed, QueueOf
  <2> HIDE DEF ms, ns
  <2>3. PICK n \in 0 .. Len(ms) :
          Len(ns) = n + 1 /\ (\A i \in 1 .. n : ns[i] = ms[i]) /\ ns[n + 1] = m
    BY <1>2 DEF Pushed, ms, ns
  <2>4. \A i \in 1 .. Len(ns) : i = n + 1 \/ (i \in 1 .. Len(ms) /\ ns[i] = ms[i])
    BY <2>2, <2>3
  <2>5. \A i \in 1 .. Len(ns) :
          ns[i].kind = "SelectionFinished" => ns[i].rev <= Newest(c, p).rev
    BY <1>4, <2>1, <2>3, <2>4
  <2> QED
    BY <1>1, <2>1, <2>5 DEF Reached, ns
<1> QED
  BY <1>1, <1>3, <1>4 DEF Presents, Accepts, d

\* Presentation.publish: the frame of revision rev is sent, or held.
LEMMA PublishServed ==
  ASSUME NEW c, NEW p, NEW old \in Nat, NEW rev \in Nat, old <= rev, Sound(c, p, old),
         Newest(c, p).rev < rev,
         NEW t \in Terminal, NEW sel \in Selection, NEW tm, t.sync <=> tm # "none", NEW pt,
         NEW d \in Published(c, rev, t, sel), d # NoClient
  PROVE  /\ Sound(d, p, rev)
         /\ Presents(d, p, t, sel, rev, tm, pt)
         /\ LatestText(d, p) = LatestText(c, p)
         /\ t.sync => FramesIn(d) \subseteq FramesIn(c)
<1>1. c \in Connection /\ c # NoClient
  BY ConnectionIsClient DEF Sound, Typed
<1>2. CASE d = c /\ (t.sync \/ c.closing)
  <2>1. Sound(d, p, rev)
    BY <1>2, SoundLater
  <2>2. Presents(d, p, t, sel, rev, tm, pt)
    BY <1>2 DEF Presents, Accepts, Terminal
  <2> QED
    BY <1>2, <2>1, <2>2
<1>3. CASE ~t.sync /\ d = PushFrame(c, rev, t, sel)
  <2> DEFINE b == [c EXCEPT !.initial = FALSE]
             m == WithFrame("Frame", IF c.initial THEN "Ordered" ELSE "Frame",
                            MaxFrameBytes + HeaderBytes, rev, t, sel)
  <2>1. /\ m \in Output /\ m.kind = "Frame" /\ m.rev = rev
        /\ FrameOf(m) = [rev |-> rev, view |-> t.view, selected |-> sel.has]
    <3>1. MaxFrameBytes + HeaderBytes \in Nat \ {0}
      BY LimitsAssumption
    <3> QED
      BY <3>1, FrameType DEF FrameKinds
  <2>2. b \in Connection /\ b.queue = c.queue /\ b.closing = c.closing
    BY <1>1, ClaimedIsConnection
  <2>3. d = Push1(b, m)
    BY <1>3 DEF PushFrame
  <2> HIDE DEF b, m
  <2>4. Sound(b, p, old) /\ Newest(b, p) = Newest(c, p) /\ LatestText(b, p) = LatestText(c, p)
    BY <2>2, QueueIsAll
  <2>5. MaySay(b, p, rev, m)
    BY <2>1, <2>4 DEF MaySay, FrameKinds
  <2>6. /\ Sound(d, p, rev)
        /\ Newest(d, p) = FrameOf(m)
        /\ LatestText(d, p) = LatestText(c, p)
    BY <2>1, <2>3, <2>4, <2>5, PushIsSound DEF FrameKinds
  <2>7. Reached(d, p)
    <3>1. RevisionsUpTo(d, p, rev)
      BY <2>6 DEF Sound
    <3> QED
      BY <2>1, <2>6, <3>1 DEF Reached, RevisionsUpTo
  <2>8. Presents(d, p, t, sel, rev, tm, pt)
    BY <1>3, <2>1, <2>6, <2>7 DEF Presents
  <2> QED
    BY <1>3, <2>6, <2>8
<1> QED
  BY <1>1, <1>2, <1>3 DEF Published, Accepts

\* A response, and the frame after it.
LEMMA AnswerServed ==
  ASSUME NEW c, NEW p, NEW old \in Nat, NEW rev \in Nat, old <= rev, Sound(c, p, old),
         Newest(c, p).rev < rev,
         NEW m \in Output, m.kind \in {"Accepted", "Attached", "SelectionFinished"},
         m.rev <= rev,
         NEW t \in Terminal, NEW sel \in Selection, NEW tm, t.sync <=> tm # "none", NEW pt,
         NEW d \in Published(Push1(c, m), rev, t, sel), d # NoClient
  PROVE  /\ Push1(c, m) # NoClient
         /\ Sound(d, p, rev)
         /\ Presents(d, p, t, sel, rev, tm, pt)
         /\ LatestText(d, p) = LatestText(c, p)
         /\ t.sync => FramesIn(d) \subseteq FramesIn(c)
<1> DEFINE c1 == Push1(c, m)
<1>1. c1 # NoClient
  BY DEF Published, Accepts
<1>2. MaySay(c, p, rev, m) /\ m.kind \notin FrameKinds
  BY DEF MaySay, FrameKinds
<1>3. /\ Sound(c1, p, rev)
      /\ Newest(c1, p) = Newest(c, p)
      /\ LatestText(c1, p) = LatestText(c, p)
      /\ FramesIn(c1) \subseteq FramesIn(c)
  BY <1>1, <1>2, PushIsSound
<1> HIDE DEF c1
<1>4. d \in Published(c1, rev, t, sel)
  BY DEF c1
<1>5. /\ Sound(d, p, rev)
      /\ Presents(d, p, t, sel, rev, tm, pt)
      /\ LatestText(d, p) = LatestText(c1, p)
      /\ t.sync => FramesIn(d) \subseteq FramesIn(c1)
  BY <1>3, <1>4, PublishServed
<1> QED
  BY <1>1, <1>3, <1>5 DEF c1

-----------------------------------------------------------------------------
(***************************************************************************)
(* The end of a section keeps the invariant, if what it leaves in the slot *)
(* is served.                                                              *)
(***************************************************************************)
Timers == {"none", "running", "expired"}

Slot == Requests \cup {NoRequest}

\* Nothing new is shown while output is held.
HoldsBack == terminal'.sync => Shown' \subseteq Shown

Beside ==
  /\ pty' \in {"open", "closing", "closed"}
  /\ clipboard' \in BOOLEAN
  /\ asked' \in 0 .. MaxRequests
  /\ reads' \in 0 .. MaxReads

\* The frames in flight are those that wait for the client.
LEMMA ShownIs == Shown = IF client = NoClient THEN {} ELSE FramesIn(client)
BY DEF Shown, Messages, FramesIn, Framed

\* The same after a step.
LEMMA ShownIsNext == Shown' = IF client' = NoClient THEN {} ELSE FramesIn(client')
BY DEF Shown, Messages, FramesIn, Framed

\* A cleared gesture holds no selection and is on no route.
LEMMA ClearPointerIs ==
  ASSUME NEW sel \in Selection
  PROVE  /\ ClearPointer(sel, TRUE) = NoSelection
         /\ NoSelection \in Selection
         /\ \A forget \in BOOLEAN :
              /\ ClearPointer(sel, forget) \in Selection
              /\ ClearPointer(sel, forget).route = "none"
              /\ ClearPointer(sel, forget).has = FALSE
              /\ ClearPointer(sel, forget).copied = IF forget THEN 0 ELSE sel.copied
         /\ \A forget \in BOOLEAN :
              /\ ClearSelection(sel, forget) \in Selection
              /\ ClearSelection(sel, forget).route \in {"none", sel.route}
              /\ ClearSelection(sel, forget).has = FALSE
              /\ ClearSelection(sel, forget).copied = IF forget THEN 0 ELSE sel.copied
<1>1. /\ sel = [route |-> sel.route, has |-> sel.has, copied |-> sel.copied]
      /\ sel.route \in {"none", "host", "terminal"} /\ sel.has \in BOOLEAN /\ sel.copied \in Nat
  BY DEF Selection
<1>2. NoSelection \in Selection
  BY DEF NoSelection, Selection
<1>3. ASSUME NEW forget \in BOOLEAN
      PROVE  /\ ClearSelection(sel, forget) \in Selection
             /\ ClearSelection(sel, forget).route \in {"none", sel.route}
             /\ ClearSelection(sel, forget).has = FALSE
             /\ ClearSelection(sel, forget).copied = IF forget THEN 0 ELSE sel.copied
  BY <1>1 DEF ClearSelection, Selection
<1>4. ASSUME NEW forget \in BOOLEAN
      PROVE  ClearPointer(sel, forget) =
               [route |-> "none", has |-> FALSE, copied |-> IF forget THEN 0 ELSE sel.copied]
  <2> DEFINE x == IF sel.route = "host" THEN "none" ELSE sel.route
             y == IF forget THEN 0 ELSE sel.copied
  <2>1. ClearPointer(sel, forget) =
          [[route |-> x, has |-> FALSE, copied |-> y] EXCEPT !.route = "none"]
    BY DEF ClearPointer, ClearSelection
  <2> HIDE DEF x, y
  <2>2. ClearPointer(sel, forget) = [route |-> "none", has |-> FALSE, copied |-> y]
    BY <2>1
  <2> QED
    BY <2>2 DEF y
<1>5. ClearPointer(sel, TRUE) = NoSelection
  BY <1>4 DEF NoSelection
<1>6. ASSUME NEW forget \in BOOLEAN
      PROVE  /\ ClearPointer(sel, forget) \in Selection
             /\ ClearPointer(sel, forget).route = "none"
             /\ ClearPointer(sel, forget).has = FALSE
             /\ ClearPointer(sel, forget).copied = IF forget THEN 0 ELSE sel.copied
  <2> DEFINE y == IF forget THEN 0 ELSE sel.copied
  <2>1. y \in Nat
    BY <1>1
  <2>2. ClearPointer(sel, forget) = [route |-> "none", has |-> FALSE, copied |-> y]
    BY <1>4
  <2> HIDE DEF y
  <2>3. /\ ClearPointer(sel, forget) \in Selection
        /\ ClearPointer(sel, forget).route = "none"
        /\ ClearPointer(sel, forget).has = FALSE
        /\ ClearPointer(sel, forget).copied = y
    BY <2>1, <2>2 DEF Selection
  <2> QED
    BY <2>3 DEF y
<1> QED
  BY <1>2, <1>3, <1>5, <1>6

\* Leave keeps the invariant.
LEMMA LeaveKeeps ==
  ASSUME Inv, Beside,
         NEW next \in Phases, NEW c, NEW sel \in Selection, NEW rev \in Nat, NEW def \in Slot,
         Leave(next, c, sel, rev, def),
         terminal' \in Terminal, timer' \in Timers, writes' \in 0 .. MaxWrites,
         pty' = "closed" => writes' = 0,
         sel.route # "none" => sel.copied = 0,
         client = NoClient /\ c = NoClient => sel = NoSelection,
         c # NoClient => /\ Served(c, peer, terminal', sel, rev, timer', pty')
                         /\ terminal'.sync => FramesIn(c) \subseteq Shown
  PROVE  Inv' /\ HoldsBack
<1>1. phase' = next /\ client' = c /\ peer' = IF c = NoClient THEN NothingReceived ELSE peer
  BY DEF Leave
<1>2. /\ selection' = IF c # NoClient \/ client = NoClient THEN sel ELSE NoSelection
      /\ revision' = IF c # NoClient \/ client = NoClient THEN rev ELSE Advance(rev, sel)
      /\ deferred' = IF c # NoClient \/ client = NoClient THEN def ELSE NoRequest
  BY ClearPointerIs DEF Leave
<1>3. selection' \in Selection /\ revision' \in Nat /\ deferred' \in Slot
  <2>1. NoSelection \in Selection /\ NoRequest \in Slot
    BY ClearPointerIs DEF Slot
  <2>2. Advance(rev, sel) \in Nat
    BY DEF Advance
  <2> QED
    BY <1>2, <2>1, <2>2
<1>4. client' \in Connection \cup {NoClient} /\ peer' \in Received
  <2>1. c # NoClient => c \in Connection
    BY DEF Served, Sound, Typed
  <2>2. NothingReceived \in Received
    BY DEF NothingReceived, Received
  <2> QED
    BY <1>1, <2>1, <2>2 DEF Inv, TypeOK
<1>5. TypeOK'
  BY <1>1, <1>3, <1>4 DEF TypeOK, Beside, Selection, Terminal, Timers, Slot
<1>6. NeverContradicted' /\ ClosedPtyTakesNothing' /\ CopyForgotten'
  BY <1>1, <1>2 DEF NeverContradicted, ClosedPtyTakesNothing, CopyForgotten, Phases, NoSelection
<1>7. client' = NoClient => peer' = NothingReceived
  BY <1>1
<1>8. client' # NoClient =>
        Served(client', peer', terminal', selection', revision', timer', pty')
  BY <1>1, <1>2
<1>9. HoldsBack
  BY <1>1, ShownIsNext DEF HoldsBack
<1> QED
  BY <1>5, <1>6, <1>7, <1>8, <1>9 DEF Inv

\* Die keeps the invariant.
LEMMA DieKeeps ==
  ASSUME Inv, Beside, NEW ending \in Endings \ {"contradicted"}, Die(ending)
  PROVE  Inv' /\ HoldsBack
<1>1. /\ phase' = ending /\ client' = NoClient /\ peer' = NothingReceived
      /\ selection' = NoSelection /\ timer' = "none" /\ deferred' = NoRequest /\ writes' = 0
      /\ terminal' = terminal /\ revision' = revision
  BY DEF Die
<1>2. NothingReceived \in Received /\ NoSelection \in Selection /\ 0 \in 0 .. MaxWrites
  BY SessionAssumption DEF NothingReceived, Received, NoSelection, Selection
<1>3. TypeOK'
  BY <1>1, <1>2 DEF Inv, TypeOK, Beside, Selection
<1>4. NeverContradicted' /\ ClosedPtyTakesNothing' /\ CopyForgotten'
  BY <1>1 DEF NeverContradicted, ClosedPtyTakesNothing, CopyForgotten, NoSelection
<1>5. HoldsBack
  BY <1>1, ShownIsNext DEF HoldsBack
<1> QED
  BY <1>1, <1>3, <1>4, <1>5 DEF Inv

-----------------------------------------------------------------------------
(***************************************************************************)
(* What every handler starts from, and the ways it ends.                   *)
(***************************************************************************)
Handling(def) ==
  /\ Inv
  /\ Beside
  /\ pty' = pty
  /\ client # NoClient
  /\ phase \in {"resolve", "resolveRead", "client"}
  /\ def \in Slot

\* What a handler of a request may rely on.
LEMMA HandlingFacts ==
  ASSUME NEW def, Handling(def)
  PROVE  /\ terminal \in Terminal /\ selection \in Selection /\ revision \in Nat
         /\ timer \in Timers /\ writes \in 0 .. MaxWrites
         /\ pty = "closed" => writes = 0
         /\ client \in Connection /\ peer \in Received
         /\ Sound(client, peer, revision)
         /\ Presents(client, peer, terminal, selection, revision, timer, pty)
         /\ Remembers(client, peer, selection)
         /\ selection.route # "none" => selection.copied = 0
         /\ Newest(client, peer).rev < revision + 1
         /\ Shown = FramesIn(client)
         /\ \A c : Following(c) \in Phases
         /\ Following(NoClient) \in Phases
<1>1. /\ terminal \in Terminal /\ selection \in Selection /\ revision \in Nat
      /\ timer \in Timers /\ writes \in 0 .. MaxWrites
      /\ client \in Connection /\ peer \in Received
  BY DEF Handling, Inv, TypeOK, Terminal, Selection, Timers
<1>2. /\ Sound(client, peer, revision)
      /\ Presents(client, peer, terminal, selection, revision, timer, pty)
      /\ Remembers(client, peer, selection)
  BY DEF Handling, Inv, Served
<1>3. /\ selection.route # "none" => selection.copied = 0
      /\ pty = "closed" => writes = 0
  BY DEF Handling, Inv, CopyForgotten, ClosedPtyTakesNothing
<1>4. Newest(client, peer).rev < revision + 1
  <2>1. Newest(client, peer).rev \in Int
    BY <1>2, NewestIsHighest DEF Sound
  <2>2. Newest(client, peer).rev <= revision
    BY <1>2 DEF Sound, RevisionsUpTo
  <2> QED
    BY <1>1, <2>1, <2>2
<1>5. Shown = FramesIn(client)
  BY ShownIs DEF Handling
<1>6. \A c : Following(c) \in Phases
  BY DEF Following, Phases, Handling
<1> QED
  BY <1>1, <1>2, <1>3, <1>4, <1>5, <1>6

\* Settle, from a handler.
LEMMA SettleKeeps ==
  ASSUME NEW def, Handling(def),
         NEW c, NEW sel \in Selection, NEW rev \in Nat, NEW slot \in Slot,
         Settle(c, sel, rev, slot),
         terminal' \in Terminal, timer' \in Timers, writes' \in 0 .. MaxWrites,
         pty = "closed" => writes' = 0,
         sel.route # "none" => sel.copied = 0,
         c # NoClient => /\ Served(c, peer, terminal', sel, rev, timer', pty)
                         /\ terminal'.sync => FramesIn(c) \subseteq FramesIn(client)
  PROVE  Inv' /\ HoldsBack
<1>1. Inv /\ Beside /\ pty' = pty /\ client # NoClient
  BY DEF Handling
<1>2. Following(c) \in Phases /\ Shown = FramesIn(client)
  BY HandlingFacts
<1>3. Leave(Following(c), c, sel, rev, slot)
  BY DEF Settle
<1> QED
  BY <1>1, <1>2, <1>3, LeaveKeeps

\* A selection of which nothing was added may be presented as the one before.
LEMMA LessSelected ==
  ASSUME NEW c, NEW p, NEW t, NEW sel, NEW less, NEW rev, NEW tm, NEW pt,
         less.has => sel.has
  PROVE  Presents(c, p, t, sel, rev, tm, pt) => Presents(c, p, t, less, rev, tm, pt)
BY DEF Presents

\* A single response; pty and terminal stay.
LEMMA ReplyKeeps ==
  ASSUME NEW def, Handling(def), NEW m \in Output,
         m.kind \in {"Accepted", "Failure", "Preview", "TerminalOwned", "TerminalRouted",
                     "SelectionFinished", "CopiedStandard"},
         m.kind = "SelectionFinished" => m.rev = revision /\ pty = "open",
         m.kind = "CopiedStandard" => m.text = LatestText(client, peer),
         NEW sel \in Selection, sel.has => selection.has, sel.copied \in {0, selection.copied},
         sel.route # "none" => sel.copied = 0,
         NEW slot \in Slot, Settle(Push1(client, m), sel, revision, slot),
         terminal' = terminal, timer' = timer, writes' \in 0 .. MaxWrites,
         pty = "closed" => writes' = 0
  PROVE  Inv' /\ HoldsBack
<1>1. /\ terminal \in Terminal /\ revision \in Nat /\ timer \in Timers
      /\ Sound(client, peer, revision)
      /\ Presents(client, peer, terminal, selection, revision, timer, pty)
      /\ Remembers(client, peer, selection)
  BY HandlingFacts
<1>2. MaySay(client, peer, revision, m) /\ m.kind \notin FrameKinds \cup {"ClipboardWrite"}
  BY <1>1 DEF MaySay, FrameKinds
<1>3. m.kind = "SelectionFinished" /\ Accepts(client) /\ timer = "none"
        => m.rev <= Newest(client, peer).rev
  BY <1>1 DEF Presents
<1>4. Presents(client, peer, terminal, sel, revision, timer, pty)
  BY <1>1, LessSelected
<1> DEFINE c == Push1(client, m)
<1>5. c # NoClient =>
        /\ Sound(c, peer, revision)
        /\ Presents(c, peer, terminal, sel, revision, timer, pty)
        /\ LatestText(c, peer) = LatestText(client, peer)
        /\ FramesIn(c) \subseteq FramesIn(client)
  BY <1>1, <1>2, <1>3, <1>4, PushPresents
<1> HIDE DEF c
<1>6. c # NoClient => Served(c, peer, terminal, sel, revision, timer, pty)
  BY <1>1, <1>5 DEF Served, Remembers
<1>7. Settle(c, sel, revision, slot)
  BY DEF c
<1> QED
  BY <1>1, <1>5, <1>6, <1>7, SettleKeeps

\* Fail keeps the invariant.
LEMMA FailKeeps ==
  ASSUME NEW def, Handling(def), Fail(def)
  PROVE  Inv' /\ HoldsBack
<1>1. /\ selection \in Selection /\ writes \in 0 .. MaxWrites /\ (pty = "closed" => writes = 0)
      /\ selection.route # "none" => selection.copied = 0
  BY HandlingFacts
<1>2. Small("Failure", 0) \in Output /\ Small("Failure", 0).kind = "Failure"
  BY SmallType DEF Kinds
<1>3. /\ Settle(Push1(client, Small("Failure", 0)), selection, revision, def)
      /\ terminal' = terminal /\ timer' = timer /\ writes' = writes /\ def \in Slot
  BY DEF Fail, Reply, Handling
<1> QED
  BY <1>1, <1>2, <1>3, ReplyKeeps

\* ClearAndFail keeps the invariant.
LEMMA ClearAndFailKeeps ==
  ASSUME NEW def, Handling(def), ClearAndFail(def)
  PROVE  Inv' /\ HoldsBack
<1> DEFINE sel == ClearSelection(selection, FALSE)
<1>1. /\ selection \in Selection /\ writes \in 0 .. MaxWrites /\ (pty = "closed" => writes = 0)
      /\ selection.route # "none" => selection.copied = 0
  BY HandlingFacts
<1>2. Small("Failure", 0) \in Output /\ Small("Failure", 0).kind = "Failure"
  BY SmallType DEF Kinds
<1>3. /\ sel \in Selection /\ sel.has = FALSE /\ sel.copied = selection.copied
      /\ sel.route \in {"none", selection.route}
  BY <1>1, ClearPointerIs
<1>4. /\ Settle(Push1(client, Small("Failure", 0)), sel, revision, def)
      /\ terminal' = terminal /\ timer' = timer /\ writes' = writes /\ def \in Slot
  BY DEF ClearAndFail, Handling
<1> HIDE DEF sel
<1> QED
  BY <1>1, <1>2, <1>3, <1>4, ReplyKeeps

\* FailAndClose keeps the invariant.
LEMMA FailAndCloseKeeps ==
  ASSUME NEW def, Handling(def), FailAndClose(def)
  PROVE  Inv' /\ HoldsBack
<1> DEFINE m == Small("Failure", 0)
           c == Push1(client, m)
           d == IF c = NoClient THEN c ELSE [c EXCEPT !.closing = TRUE]
<1>1. /\ terminal \in Terminal /\ revision \in Nat /\ timer \in Timers
      /\ selection \in Selection /\ writes \in 0 .. MaxWrites /\ (pty = "closed" => writes = 0)
      /\ selection.route # "none" => selection.copied = 0
      /\ Sound(client, peer, revision)
      /\ Presents(client, peer, terminal, selection, revision, timer, pty)
      /\ Remembers(client, peer, selection)
  BY HandlingFacts
<1>2. m \in Output /\ m.kind = "Failure"
  BY SmallType DEF Kinds
<1>3. /\ Settle(d, selection, revision, def)
      /\ terminal' = terminal /\ timer' = timer /\ writes' = writes /\ def \in Slot
  BY DEF FailAndClose, Handling
<1>4. c # NoClient =>
        /\ Sound(c, peer, revision)
        /\ Presents(c, peer, terminal, selection, revision, timer, pty)
        /\ LatestText(c, peer) = LatestText(client, peer)
        /\ FramesIn(c) \subseteq FramesIn(client)
  <2> HIDE DEF m
  <2>1. MaySay(client, peer, revision, m) /\ m.kind \notin FrameKinds \cup {"ClipboardWrite"}
    BY <1>2 DEF MaySay, FrameKinds
  <2> QED
    BY <1>1, <1>2, <2>1, PushPresents
<1> HIDE DEF c
<1>5. ASSUME c # NoClient
      PROVE  /\ Served(d, peer, terminal, selection, revision, timer, pty)
             /\ FramesIn(d) \subseteq FramesIn(client)
  <2>1. c \in Connection
    BY <1>4, <1>5 DEF Sound, Typed
  <2>2. d \in Connection /\ d.queue = c.queue /\ d.closing = TRUE
    BY <1>5, <2>1, ClaimedIsConnection
  <2> HIDE DEF d
  <2>3. /\ Sound(d, peer, revision) /\ Newest(d, peer) = Newest(c, peer)
        /\ LatestText(d, peer) = LatestText(c, peer) /\ FramesIn(d) = FramesIn(c)
    BY <1>4, <1>5, <2>2, QueueIsAll
  <2>4. Presents(d, peer, terminal, selection, revision, timer, pty)
    BY <1>4, <1>5, <2>2, <2>3 DEF Presents, Accepts
  <2> QED
    BY <1>1, <1>4, <1>5, <2>3, <2>4 DEF Served, Remembers
<1>6. d # NoClient => c # NoClient
  OBVIOUS
<1> HIDE DEF d
<1> QED
  BY <1>1, <1>3, <1>5, <1>6, SettleKeeps

\* Defer keeps the invariant.
LEMMA DeferKeeps ==
  ASSUME NEW def, Handling(def), NEW req \in Requests, Defer(req, def)
  PROVE  Inv' /\ HoldsBack
<1>1. /\ terminal \in Terminal /\ revision \in Nat /\ timer \in Timers
      /\ selection \in Selection /\ writes \in 0 .. MaxWrites /\ (pty = "closed" => writes = 0)
      /\ selection.route # "none" => selection.copied = 0
      /\ Sound(client, peer, revision)
      /\ Presents(client, peer, terminal, selection, revision, timer, pty)
      /\ Remembers(client, peer, selection)
  BY HandlingFacts
<1>2. CASE Fail(def)
  BY <1>2, FailKeeps
<1>3. CASE Settle(client, selection, revision, req) /\ UNCHANGED <<terminal, timer, writes>>
  <2>1. Served(client, peer, terminal, selection, revision, timer, pty)
    BY <1>1 DEF Served
  <2>2. req \in Slot
    BY DEF Slot
  <2> QED
    BY <1>1, <1>3, <2>1, <2>2, SettleKeeps
<1> QED
  BY <1>2, <1>3 DEF Defer

\* A hold is timed exactly while output is held.
LEMMA HoldIs ==
  ASSUME NEW t \in Terminal, timer \in Timers
  PROVE  Hold(t) \in Timers /\ (t.sync <=> Hold(t) # "none")
BY DEF Hold, Terminal, Timers

\* The same, with the frame of the next revision.
LEMMA AnswerKeeps ==
  ASSUME NEW def, Handling(def), NEW m \in Output,
         m.kind \in {"Accepted", "SelectionFinished"}, m.rev <= revision + 1,
         NEW t \in Terminal, NEW sel \in Selection,
         sel.copied \in {0, selection.copied}, sel.route # "none" => sel.copied = 0,
         ReplyAndPublish(m, t, sel, revision + 1, def),
         writes' \in 0 .. MaxWrites, pty = "closed" => writes' = 0
  PROVE  Inv' /\ HoldsBack
<1>1. /\ revision \in Nat /\ timer \in Timers
      /\ Sound(client, peer, revision)
      /\ Remembers(client, peer, selection)
      /\ Newest(client, peer).rev < revision + 1
  BY HandlingFacts
<1> DEFINE c == Push1(client, m)
           rev == revision + 1
<1>2. /\ terminal' = t
      /\ timer' = IF c # NoClient THEN Hold(t) ELSE timer
      /\ def \in Slot
  BY DEF ReplyAndPublish, Handling
<1>3. PICK d \in Published(c, rev, t, sel) : Settle(d, sel, rev, def)
  BY DEF ReplyAndPublish
<1>4. Hold(t) \in Timers /\ (t.sync <=> Hold(t) # "none")
  BY <1>1, HoldIs
<1>5. rev \in Nat /\ revision <= rev /\ m.rev <= rev /\ Newest(client, peer).rev < rev
  BY <1>1
<1> HIDE DEF rev
<1>6. ASSUME d # NoClient
      PROVE  /\ Served(d, peer, t, sel, rev, timer', pty)
             /\ t.sync => FramesIn(d) \subseteq FramesIn(client)
             /\ timer' \in Timers
  <2>1. c # NoClient
    BY <1>3, <1>6 DEF Published, Accepts
  <2>2. t.sync <=> timer' # "none"
    BY <1>2, <1>4, <2>1
  <2>3. /\ Sound(d, peer, rev)
        /\ Presents(d, peer, t, sel, rev, timer', pty)
        /\ LatestText(d, peer) = LatestText(client, peer)
        /\ t.sync => FramesIn(d) \subseteq FramesIn(client)
    <3>1. m.kind \in {"Accepted", "Attached", "SelectionFinished"}
      OBVIOUS
    <3>2. d \in Published(Push1(client, m), rev, t, sel)
      BY <1>3
    <3>3. revision \in Nat /\ Sound(client, peer, revision)
      BY <1>1
    <3> HIDE DEF c
    <3> QED
      BY <1>5, <1>6, <2>2, <3>1, <3>2, <3>3, AnswerServed
  <2> QED
    BY <1>1, <1>2, <1>4, <2>1, <2>3 DEF Served, Remembers
<1>7. timer' \in Timers
  BY <1>1, <1>2, <1>4
<1> HIDE DEF c
<1> QED
  BY <1>2, <1>3, <1>5, <1>6, <1>7, SettleKeeps

\* An outcome with a frame, that its preflight has admitted.
LEMMA OutcomeKeeps ==
  ASSUME NEW def, Handling(def), ~terminal.sync,
         NEW kind, NEW size \in Nat,
         \/ kind = "ScrollOutcome" /\ size = MaxPayloadBytes /\ CanPushScrollOutcome(client.queue)
         \/ kind = "WheelOutcome" /\ size = MaxFrameBytes /\ CanPushFrameMessage(client.queue),
         NEW t \in Terminal, ~t.sync, NEW sel \in Selection,
         sel.copied \in {0, selection.copied}, sel.route # "none" => sel.copied = 0,
         PushOutcome(kind, size, t, sel, def)
  PROVE  Inv' /\ HoldsBack
<1>1. /\ revision \in Nat /\ timer \in Timers /\ writes \in 0 .. MaxWrites
      /\ pty = "closed" => writes = 0
      /\ client \in Connection
      /\ Sound(client, peer, revision)
      /\ Remembers(client, peer, selection)
      /\ Newest(client, peer).rev < revision + 1
  BY HandlingFacts
<1> DEFINE rev == revision + 1
           class == IF kind = "WheelOutcome" THEN "Frame" ELSE kind
           m == WithFrame(kind, class, size + HeaderBytes, rev, t, sel)
           c == Push1(client, m)
<1>2. rev \in Nat /\ revision <= rev /\ Newest(client, peer).rev < rev
  BY <1>1
<1>3. /\ m \in Output /\ m.kind = kind /\ m.class = class /\ m.size = size + HeaderBytes
      /\ m.rev = rev
      /\ FrameOf(m) = [rev |-> rev, view |-> t.view, selected |-> sel.has]
  <2>1. /\ kind \in FrameKinds /\ class \in {"Ordered", "Frame", "ScrollOutcome"}
        /\ size + HeaderBytes \in Nat \ {0}
    BY LimitsAssumption DEF FrameKinds
  <2> HIDE DEF rev, class
  <2> QED
    BY <1>2, <2>1, FrameType
<1> HIDE DEF rev, m
<1>4. c # NoClient
  <2>1. client.queue \in QueueOf(Output) /\ Accounted(client.queue)
    BY <1>1 DEF Sound, Typed
  <2>2. CASE kind = "ScrollOutcome"
    <3>1. FitsReplaceable(client.queue, m)
      BY <1>3, <2>1, <2>2, OutputIsQueued, ScrollOutcomeAdmitted, LimitsAssumption
    <3> QED
      BY <1>1, <1>3, <3>1, Push1Fits DEF Sound
  <2>3. CASE kind = "WheelOutcome"
    <3>1. FitsReplaceable(client.queue, m)
      BY <1>3, <2>1, <2>3, OutputIsQueued, FrameMessageAdmitted, LimitsAssumption
    <3> QED
      BY <1>1, <1>3, <3>1, Push1Fits DEF Sound
  <2> QED
    BY <2>2, <2>3
<1>5. MaySay(client, peer, rev, m)
  BY <1>2, <1>3 DEF MaySay
<1>6. m.kind \in FrameKinds
  BY <1>3 DEF FrameKinds
<1>7. /\ Sound(c, peer, rev)
      /\ Newest(c, peer) = FrameOf(m)
      /\ LatestText(c, peer) = LatestText(client, peer)
  BY <1>1, <1>2, <1>3, <1>4, <1>5, <1>6, PushIsSound
<1>8. Reached(c, peer)
  BY <1>3, <1>7 DEF Reached, Sound, RevisionsUpTo
<1>9. Served(c, peer, t, sel, rev, "none", pty)
  BY <1>1, <1>3, <1>7, <1>8 DEF Served, Presents, Remembers
<1>10. CASE Die("failed")
  BY <1>10, DieKeeps DEF Handling, Endings
<1>11. CASE /\ terminal' = t /\ timer' = "none"
            /\ Settle(c, sel, rev, def)
            /\ UNCHANGED writes
  <2> HIDE DEF c
  <2>1. def \in Slot /\ "none" \in Timers
    BY DEF Handling, Timers
  <2> QED
    BY <1>1, <1>2, <1>9, <1>11, <2>1, SettleKeeps
<1> QED
  BY <1>4, <1>10, <1>11 DEF PushOutcome, c, m, rev

-----------------------------------------------------------------------------
(***************************************************************************)
(* The handlers.                                                           *)
(***************************************************************************)

\* A terminal with other fields.
LEMMA SeenIs ==
  ASSUME NEW t \in Terminal, NEW view \in Nat, NEW sync \in BOOLEAN, NEW scrolled \in BOOLEAN
  PROVE  /\ [t EXCEPT !.view = view] \in Terminal
         /\ [t EXCEPT !.view = view].sync = t.sync
         /\ [t EXCEPT !.view = view, !.scrolled = scrolled] \in Terminal
         /\ [t EXCEPT !.view = view, !.scrolled = scrolled].sync = t.sync
         /\ [t EXCEPT !.scrolled = scrolled, !.view = view] \in Terminal
         /\ [t EXCEPT !.scrolled = scrolled, !.view = view].sync = t.sync
         /\ [t EXCEPT !.view = view, !.sync = sync, !.scrolled = scrolled] \in Terminal
         /\ [t EXCEPT !.view = view, !.sync = sync] \in Terminal
         /\ [t EXCEPT !.view = view, !.sync = sync].sync = sync
         /\ [t EXCEPT !.sync = sync] \in Terminal
         /\ [t EXCEPT !.sync = sync].sync = sync
<1>1. [t EXCEPT !.view = view] \in Terminal
  BY DEF Terminal
<1>2. [t EXCEPT !.view = view].sync = t.sync
  BY DEF Terminal
<1>3. [t EXCEPT !.view = view, !.scrolled = scrolled] \in Terminal
  BY DEF Terminal
<1>4. [t EXCEPT !.view = view, !.scrolled = scrolled].sync = t.sync
  BY DEF Terminal
<1>5. [t EXCEPT !.scrolled = scrolled, !.view = view] \in Terminal
  BY DEF Terminal
<1>6. [t EXCEPT !.scrolled = scrolled, !.view = view].sync = t.sync
  BY DEF Terminal
<1>7. [t EXCEPT !.view = view, !.sync = sync, !.scrolled = scrolled] \in Terminal
  BY DEF Terminal
<1>8. [t EXCEPT !.view = view, !.sync = sync] \in Terminal
  BY DEF Terminal
<1>9. [t EXCEPT !.view = view, !.sync = sync].sync = sync
  BY DEF Terminal
<1>10. [t EXCEPT !.sync = sync] \in Terminal
  BY DEF Terminal
<1>11. [t EXCEPT !.sync = sync].sync = sync
  BY DEF Terminal
<1> QED
  BY <1>1, <1>2, <1>3, <1>4, <1>5, <1>6, <1>7, <1>8, <1>9, <1>10, <1>11

\* What a handler may make of the terminal.
LEMMA TerminalIs ==
  ASSUME terminal \in Terminal
  PROVE  /\ Live \in Terminal /\ Live.sync = terminal.sync
         /\ \A up : \A t \in Scrolled(up) :
              /\ t \in Terminal /\ t.sync = terminal.sync
              /\ [t EXCEPT !.view = terminal.view + 1] \in Terminal
              /\ [t EXCEPT !.view = terminal.view + 1].sync = terminal.sync
         /\ [terminal EXCEPT !.view = @ + 1] \in Terminal
         /\ [terminal EXCEPT !.view = @ + 1].sync = terminal.sync
         /\ \A sync \in {FALSE, terminal.sync}, scrolled \in {FALSE, terminal.scrolled} :
              [terminal EXCEPT !.view = @ + 1, !.sync = sync, !.scrolled = scrolled] \in Terminal
<1>1. /\ terminal.view + 1 \in Nat /\ terminal.sync \in BOOLEAN /\ terminal.scrolled \in BOOLEAN
      /\ FALSE \in BOOLEAN
  BY DEF Terminal
<1> DEFINE v == terminal.view + 1
<1>2. [terminal EXCEPT !.view = v] \in Terminal /\ [terminal EXCEPT !.view = v].sync = terminal.sync
  <2> HIDE DEF v
  <2> QED
    BY <1>1, SeenIs DEF v
<1>3. Live \in Terminal /\ Live.sync = terminal.sync
  <2>1. /\ [terminal EXCEPT !.scrolled = FALSE, !.view = v] \in Terminal
        /\ [terminal EXCEPT !.scrolled = FALSE, !.view = v].sync = terminal.sync
    BY <1>1, SeenIs
  <2> QED
    BY <2>1 DEF Live
<1>4. ASSUME NEW up, NEW t \in Scrolled(up)
      PROVE  /\ t \in Terminal /\ t.sync = terminal.sync
             /\ [t EXCEPT !.view = v] \in Terminal
             /\ [t EXCEPT !.view = v].sync = terminal.sync
  <2>1. \/ t = terminal
        \/ \E s \in BOOLEAN : t = [terminal EXCEPT !.view = v, !.scrolled = s]
    BY DEF Scrolled
  <2> HIDE DEF v
  <2>2. v \in Nat
    BY <1>1 DEF v
  <2>3. t \in Terminal /\ t.sync = terminal.sync
    <3>1. CASE t = terminal
      BY <3>1
    <3>2. ASSUME NEW s \in BOOLEAN, t = [terminal EXCEPT !.view = v, !.scrolled = s]
          PROVE  t \in Terminal /\ t.sync = terminal.sync
      <4> DEFINE x == [terminal EXCEPT !.view = v, !.scrolled = s]
      <4>1. x \in Terminal
        BY <1>1, <2>2, <3>2, SeenIs
      <4>2. x.sync = terminal.sync
        BY DEF Terminal
      <4> HIDE DEF x
      <4>3. t = x
        BY <3>2 DEF x
      <4> QED
        BY <4>1, <4>2, <4>3
    <3> QED
      BY <2>1, <3>1, <3>2
  <2> QED
    BY <1>1, <2>2, <2>3, SeenIs
<1>5. ASSUME NEW sync \in {FALSE, terminal.sync}, NEW scrolled \in {FALSE, terminal.scrolled}
      PROVE  [terminal EXCEPT !.view = v, !.sync = sync, !.scrolled = scrolled] \in Terminal
  <2>1. sync \in BOOLEAN /\ scrolled \in BOOLEAN /\ v \in Nat
    BY <1>1
  <2> HIDE DEF v
  <2> QED
    BY <2>1, SeenIs
<1> QED
  BY <1>2, <1>3, <1>4, <1>5

\* Accepted is a message.
LEMMA AcceptedType ==
  /\ Small("Accepted", 0) \in Output /\ Small("Accepted", 0).kind = "Accepted"
  /\ Small("Accepted", 0).rev = 0
BY SmallType DEF Kinds

\* Input keeps the invariant.
LEMMA InputKeeps ==
  ASSUME NEW def, Handling(def), pty = "open", NEW req \in Requests, HandleInput(req, def)
  PROVE  Inv' /\ HoldsBack
<1>1. /\ terminal \in Terminal /\ selection \in Selection /\ revision \in Nat
      /\ writes \in 0 .. MaxWrites
      /\ selection.route # "none" => selection.copied = 0
  BY HandlingFacts
<1> DEFINE sel == ClearSelection(selection, FALSE)
<1>2. /\ sel \in Selection /\ sel.copied = selection.copied /\ sel.route \in {"none", selection.route}
  BY <1>1, ClearPointerIs
<1>3. CASE Fail(def)
  BY <1>3, FailKeeps
<1>4. CASE FailAndClose(def)
  BY <1>4, FailAndCloseKeeps
<1>5. ASSUME NEW n \in 0 .. 1, CanQueue(n), writes' = writes + n,
             ReplyAndPublish(Small("Accepted", 0), Live, sel, revision + 1, def)
      PROVE  Inv' /\ HoldsBack
  <2>1. writes' \in 0 .. MaxWrites
    BY <1>1, <1>5, SessionAssumption DEF CanQueue
  <2>2. Live \in Terminal /\ Small("Accepted", 0).rev <= revision + 1
    BY <1>1, TerminalIs, AcceptedType
  <2> HIDE DEF sel
  <2> QED
    BY <1>1, <1>2, <1>5, <2>1, <2>2, AcceptedType, AnswerKeeps
<1>6. ASSUME NEW n \in 0 .. 1, CanQueue(n), writes' = writes + n,
             Settle(Push1(client, Small("Accepted", 0)), selection, revision, def),
             UNCHANGED <<terminal, timer>>
      PROVE  Inv' /\ HoldsBack
  <2>1. writes' \in 0 .. MaxWrites /\ def \in Slot
    BY <1>1, <1>6, SessionAssumption DEF CanQueue, Handling
  <2> QED
    BY <1>1, <1>6, <2>1, AcceptedType, ReplyKeeps
<1> QED
  BY <1>3, <1>4, <1>5, <1>6 DEF HandleInput

\* Resize keeps the invariant.
LEMMA ResizeKeeps ==
  ASSUME NEW def, Handling(def), pty = "open", HandleResize(def)
  PROVE  Inv' /\ HoldsBack
<1>1. /\ terminal \in Terminal /\ selection \in Selection /\ revision \in Nat
      /\ writes \in 0 .. MaxWrites
  BY HandlingFacts
<1> DEFINE sel == ClearPointer(selection, FALSE)
<1>2. sel \in Selection /\ sel.copied = selection.copied /\ sel.route = "none"
  BY <1>1, ClearPointerIs
<1>3. PICK sync \in {FALSE, terminal.sync}, scrolled \in {FALSE, terminal.scrolled} :
        ReplyAndPublish(Small("Accepted", 0),
                        [terminal EXCEPT !.view = @ + 1, !.sync = sync, !.scrolled = scrolled],
                        sel, revision + 1, def)
  BY DEF HandleResize
<1> DEFINE t == [terminal EXCEPT !.view = @ + 1, !.sync = sync, !.scrolled = scrolled]
<1>4. t \in Terminal /\ Small("Accepted", 0).rev <= revision + 1
  <2>1. t \in Terminal
    BY <1>1, TerminalIs
  <2> QED
    BY <1>1, <2>1, AcceptedType
<1>5. writes' = writes
  BY DEF HandleResize
<1> HIDE DEF sel, t
<1>6. ReplyAndPublish(Small("Accepted", 0), t, sel, revision + 1, def)
  BY <1>3 DEF t
<1> QED
  BY <1>1, <1>2, <1>4, <1>5, <1>6, AcceptedType, AnswerKeeps

\* Preview keeps the invariant.
LEMMA PreviewKeeps ==
  ASSUME NEW def, Handling(def), pty = "open", NEW req \in Requests, HandlePreview(req, def)
  PROVE  Inv' /\ HoldsBack
<1>1. /\ selection \in Selection /\ revision \in Nat /\ writes \in 0 .. MaxWrites
      /\ selection.route # "none" => selection.copied = 0
  BY HandlingFacts
<1>2. CASE Reply(Preview(revision), def)
  <2>1. Preview(revision) \in Output /\ Preview(revision).kind = "Preview"
    BY <1>1, PreviewType
  <2>2. /\ Settle(Push1(client, Preview(revision)), selection, revision, def)
        /\ terminal' = terminal /\ timer' = timer /\ writes' = writes /\ def \in Slot
    BY <1>2 DEF Reply, Handling
  <2> QED
    BY <1>1, <2>1, <2>2, ReplyKeeps
<1> QED
  BY <1>2, FailKeeps, DeferKeeps DEF HandlePreview

\* Scroll keeps the invariant.
LEMMA ScrollKeeps ==
  ASSUME NEW def, Handling(def), pty = "open", NEW req \in Requests, HandleScroll(req, def)
  PROVE  Inv' /\ HoldsBack
<1>1. /\ terminal \in Terminal /\ selection \in Selection /\ revision \in Nat
      /\ writes \in 0 .. MaxWrites
      /\ selection.route # "none" => selection.copied = 0
  BY HandlingFacts
<1>2. CASE Reply(Small("TerminalOwned", 0), def)
  <2>1. Small("TerminalOwned", 0) \in Output /\ Small("TerminalOwned", 0).kind = "TerminalOwned"
    BY SmallType DEF Kinds
  <2>2. /\ Settle(Push1(client, Small("TerminalOwned", 0)), selection, revision, def)
        /\ terminal' = terminal /\ timer' = timer /\ writes' = writes /\ def \in Slot
    BY <1>2 DEF Reply, Handling
  <2> QED
    BY <1>1, <2>1, <2>2, ReplyKeeps
<1>3. ASSUME ~terminal.sync, CanPushScrollOutcome(client.queue), NEW t \in Scrolled(req.up),
             PushOutcome("ScrollOutcome", MaxPayloadBytes, t, ClearSelection(selection, FALSE), def)
      PROVE  Inv' /\ HoldsBack
  <2> DEFINE sel == ClearSelection(selection, FALSE)
  <2>1. sel \in Selection /\ sel.copied = selection.copied /\ sel.route \in {"none", selection.route}
    BY <1>1, ClearPointerIs
  <2>2. t \in Terminal /\ ~t.sync /\ MaxPayloadBytes \in Nat
    BY <1>1, <1>3, TerminalIs, LimitsAssumption
  <2> HIDE DEF sel
  <2>3. PushOutcome("ScrollOutcome", MaxPayloadBytes, t, sel, def)
    BY <1>3 DEF sel
  <2> QED
    BY <1>1, <1>3, <2>1, <2>2, <2>3, OutcomeKeeps
<1> QED
  BY <1>2, <1>3, FailKeeps, DeferKeeps DEF HandleScroll

\* Return keeps the invariant.
LEMMA ReturnKeeps ==
  ASSUME NEW def, Handling(def), pty = "open", NEW req \in Requests, HandleReturnToLive(req, def)
  PROVE  Inv' /\ HoldsBack
<1>1. /\ terminal \in Terminal /\ selection \in Selection /\ revision \in Nat
      /\ writes \in 0 .. MaxWrites
      /\ selection.route # "none" => selection.copied = 0
      /\ Sound(client, peer, revision)
      /\ Remembers(client, peer, selection)
      /\ Newest(client, peer).rev < revision + 1
  BY HandlingFacts
<1> DEFINE sel == ClearSelection(selection, FALSE)
           rev == revision + 1
<1>2. ASSUME ~terminal.sync, terminal' = Live, timer' = "none", UNCHANGED writes,
             NEW c \in Published(client, rev, Live, sel), Settle(c, sel, rev, def)
      PROVE  Inv' /\ HoldsBack
  <2>1. sel \in Selection /\ sel.copied = selection.copied /\ sel.route \in {"none", selection.route}
    BY <1>1, ClearPointerIs
  <2>2. Live \in Terminal /\ ~Live.sync
    BY <1>1, <1>2, TerminalIs
  <2>3. /\ rev \in Nat /\ revision <= rev /\ Newest(client, peer).rev < rev
        /\ def \in Slot /\ "none" \in Timers
    BY <1>1 DEF Handling, Timers
  <2> HIDE DEF sel, rev
  <2>4. c # NoClient => /\ Sound(c, peer, rev)
                        /\ Presents(c, peer, Live, sel, rev, "none", pty)
                        /\ LatestText(c, peer) = LatestText(client, peer)
    <3> DEFINE t == Live
               tm == "none"
    <3>1. /\ t \in Terminal /\ (t.sync <=> tm # "none") /\ sel \in Selection
          /\ c \in Published(client, rev, t, sel)
          /\ revision \in Nat /\ rev \in Nat /\ revision <= rev
          /\ Sound(client, peer, revision) /\ Newest(client, peer).rev < rev
      BY <1>1, <1>2, <2>1, <2>2, <2>3
    <3> HIDE DEF t, tm
    <3>2. ASSUME c # NoClient
          PROVE  /\ Sound(c, peer, rev)
                 /\ Presents(c, peer, t, sel, rev, tm, pty)
                 /\ LatestText(c, peer) = LatestText(client, peer)
      BY ONLY <3>1, <3>2, PublishServed
    <3> QED
      BY <3>2 DEF t, tm
  <2>5. c # NoClient => Served(c, peer, Live, sel, rev, "none", pty)
    BY <1>1, <2>1, <2>4 DEF Served, Remembers
  <2> QED
    BY <1>1, <1>2, <2>1, <2>2, <2>3, <2>5, SettleKeeps
<1> QED
  BY <1>2, FailKeeps, DeferKeeps DEF HandleReturnToLive

\* Wheel keeps the invariant.
LEMMA WheelKeeps ==
  ASSUME NEW def, Handling(def), pty = "open", NEW req \in Requests, HandleWheel(req, def)
  PROVE  Inv' /\ HoldsBack
<1>1. /\ terminal \in Terminal /\ selection \in Selection /\ revision \in Nat
      /\ writes \in 0 .. MaxWrites
      /\ selection.route # "none" => selection.copied = 0
  BY HandlingFacts
<1>2. ASSUME CanQueue(1), writes' = writes + 1,
             Settle(Push1(client, Small("TerminalRouted", 0)), selection, revision, def),
             UNCHANGED <<terminal, timer>>
      PROVE  Inv' /\ HoldsBack
  <2>1. Small("TerminalRouted", 0) \in Output /\ Small("TerminalRouted", 0).kind = "TerminalRouted"
    BY SmallType DEF Kinds
  <2>2. writes' \in 0 .. MaxWrites /\ def \in Slot
    BY <1>1, <1>2, SessionAssumption DEF CanQueue, Handling
  <2> QED
    BY <1>1, <1>2, <2>1, <2>2, ReplyKeeps
<1>3. ASSUME ~terminal.sync, CanPushFrameMessage(client.queue), NEW t \in Scrolled(req.up),
             PushOutcome("WheelOutcome", MaxFrameBytes, t, ClearSelection(selection, FALSE), def)
      PROVE  Inv' /\ HoldsBack
  <2> DEFINE sel == ClearSelection(selection, FALSE)
  <2>1. sel \in Selection /\ sel.copied = selection.copied /\ sel.route \in {"none", selection.route}
    BY <1>1, ClearPointerIs
  <2>2. t \in Terminal /\ ~t.sync /\ MaxFrameBytes \in Nat
    BY <1>1, <1>3, TerminalIs, LimitsAssumption
  <2> HIDE DEF sel
  <2>3. PushOutcome("WheelOutcome", MaxFrameBytes, t, sel, def)
    BY <1>3 DEF sel
  <2> QED
    BY <1>1, <1>3, <2>1, <2>2, <2>3, OutcomeKeeps
<1> QED
  BY <1>2, <1>3, FailKeeps, FailAndCloseKeeps DEF HandleWheel

\* Cancel keeps the invariant.
LEMMA CancelKeeps ==
  ASSUME NEW def, Handling(def), pty = "open", HandleCancel(def)
  PROVE  Inv' /\ HoldsBack
<1>1. /\ terminal \in Terminal /\ selection \in Selection /\ revision \in Nat
      /\ writes \in 0 .. MaxWrites
  BY HandlingFacts
<1> DEFINE sel == ClearPointer(selection, FALSE)
<1>2. sel \in Selection /\ sel.copied = selection.copied /\ sel.route = "none"
  BY <1>1, ClearPointerIs
<1>3. CASE Fail(def)
  BY <1>3, FailKeeps
<1>4. CASE ReplyAndPublish(Small("Accepted", 0), terminal, sel, revision + 1, def) /\ UNCHANGED writes
  <2>1. Small("Accepted", 0).rev <= revision + 1
    BY <1>1, AcceptedType
  <2> HIDE DEF sel
  <2> QED
    BY <1>1, <1>2, <1>4, <2>1, AcceptedType, AnswerKeeps
<1> QED
  BY <1>3, <1>4 DEF HandleCancel

\* Copy keeps the invariant.
LEMMA CopyKeeps ==
  ASSUME NEW def, Handling(def), pty = "open", HandleCopy(def)
  PROVE  Inv' /\ HoldsBack
<1>1. /\ selection \in Selection /\ revision \in Nat /\ writes \in 0 .. MaxWrites
      /\ selection.route # "none" => selection.copied = 0
      /\ Remembers(client, peer, selection)
  BY HandlingFacts
<1> DEFINE m == Text("CopiedStandard", selection.copied)
<1>2. ASSUME selection.copied # 0, Reply(m, def)
      PROVE  Inv' /\ HoldsBack
  <2>1. m \in Output /\ m.kind = "CopiedStandard" /\ m.text = selection.copied
    <3>1. selection.copied \in Nat
      BY <1>1 DEF Selection
    <3> QED
      BY <3>1, TextType DEF Kinds
  <2> HIDE DEF m
  <2>2. m.text = LatestText(client, peer)
    BY <1>1, <1>2, <2>1 DEF Remembers
  <2>3. /\ Settle(Push1(client, m), selection, revision, def)
        /\ terminal' = terminal /\ timer' = timer /\ writes' = writes /\ def \in Slot
    BY <1>2 DEF Reply, Handling
  <2> QED
    BY <1>1, <2>1, <2>2, <2>3, ReplyKeeps
<1> QED
  BY <1>2, FailKeeps DEF HandleCopy

\* One host phase: the superseded frame, the response, the next frame and the
\* copied text.
LEMMA HostPhaseKeeps ==
  ASSUME NEW def, Handling(def), pty = "open", NEW req \in Requests,
         req.kind \in {"Begin", "Update", "Finish"},
         req.kind = "Update" => selection.copied = 0,
         HostPhase(req, def)
  PROVE  Inv' /\ HoldsBack
<1>1. /\ terminal \in Terminal /\ selection \in Selection /\ revision \in Nat
      /\ writes \in 0 .. MaxWrites /\ timer \in Timers
      /\ Sound(client, peer, revision)
      /\ Remembers(client, peer, selection)
      /\ selection.route # "none" => selection.copied = 0
  BY HandlingFacts
<1> DEFINE finishing == req.kind = "Finish"
           rev == revision + 1
           t == [terminal EXCEPT !.view = @ + 1]
           c0 == [client EXCEPT !.queue = SupersedePendingFrame(@)]
           m == IF finishing THEN Small("SelectionFinished", rev) ELSE Small("Accepted", 0)
           c1 == Push1(c0, m)
<1>2. /\ Sound(c0, peer, revision)
      /\ LatestText(c0, peer) = LatestText(client, peer)
      /\ FramesIn(c0) \subseteq FramesIn(client)
  BY <1>1, SupersedeIsSound
<1>3. m \in Output /\ m.kind \in {"Accepted", "Attached", "SelectionFinished"} /\ m.rev <= rev
  <2>1. rev \in Nat
    BY <1>1
  <2> HIDE DEF rev
  <2>2. /\ Small("SelectionFinished", rev) \in Output
        /\ Small("SelectionFinished", rev).kind = "SelectionFinished"
        /\ Small("SelectionFinished", rev).rev = rev
    BY <2>1, SmallType DEF Kinds
  <2>3. /\ Small("Accepted", 0) \in Output
        /\ Small("Accepted", 0).kind \in {"Accepted", "Attached"}
        /\ Small("Accepted", 0).rev <= rev
    BY <2>1, AcceptedType
  <2>4. m = Small("SelectionFinished", rev) \/ m = Small("Accepted", 0)
    OBVIOUS
  <2> HIDE DEF m
  <2> QED
    BY <2>1, <2>2, <2>3, <2>4
<1>4. t \in Terminal /\ rev \in Nat /\ revision <= rev /\ rev # 0
  BY <1>1, TerminalIs
<1>5. Newest(c0, peer).rev < rev
  <2> HIDE DEF c0
  <2>1. Newest(c0, peer).rev \in Int
    BY <1>1, <1>2, NewestIsHighest DEF Sound
  <2>2. Newest(c0, peer).rev <= revision
    BY <1>2 DEF Sound, RevisionsUpTo
  <2> QED
    BY <1>1, <2>1, <2>2
<1>6. ASSUME NEW has \in BOOLEAN, terminal' = t,
             timer' = IF c1 # NoClient THEN Hold(t) ELSE timer,
             NEW c2 \in Published(c1, rev, t, Gestured(req.kind, has)),
             Settle(IF finishing /\ has
                    THEN Push1(c2, Text("CopiedSelection", Gestured(req.kind, has).copied)) ELSE c2,
                    Gestured(req.kind, has), rev, def),
             UNCHANGED writes
      PROVE  Inv' /\ HoldsBack
  <2> DEFINE sel == Gestured(req.kind, has)
             txt == Text("CopiedSelection", sel.copied)
             c3 == IF finishing /\ has THEN Push1(c2, txt) ELSE c2
  <2>1. /\ sel \in Selection
        /\ sel.route # "none" => sel.copied = 0
        /\ sel.copied = IF finishing /\ has THEN rev ELSE 0
    <3>1. CASE req.kind = "Begin"
      BY <1>6, <3>1 DEF Gestured, Selection
    <3>2. CASE req.kind = "Update"
      <4>1. sel = [selection EXCEPT !.has = has]
        BY <3>2 DEF Gestured
      <4>2. sel \in Selection /\ sel.copied = selection.copied
        BY <1>1, <1>6, <4>1 DEF Selection
      <4> HIDE DEF sel
      <4> QED
        BY <3>2, <4>2
    <3>3. CASE req.kind = "Finish"
      <4> HIDE DEF rev
      <4>1. sel = [route |-> "none", has |-> has, copied |-> IF has THEN rev ELSE 0]
        BY <3>3 DEF Gestured, rev
      <4>2. (IF has THEN rev ELSE 0) \in Nat
        BY <1>4
      <4> HIDE DEF sel
      <4>3. sel \in Selection /\ sel.route = "none" /\ sel.copied = IF has THEN rev ELSE 0
        BY <1>6, <4>1, <4>2 DEF Selection
      <4> QED
        BY <3>3, <4>3
    <3> QED
      BY <3>1, <3>2, <3>3
  <2> HIDE DEF rev, t, c0, m, sel
  <2>2. Hold(t) \in Timers /\ (t.sync <=> Hold(t) # "none")
    BY <1>1, <1>4, HoldIs
  <2>3. timer' \in Timers
    BY <1>1, <1>6, <2>2
  <2>4. c2 \in Published(c1, rev, t, sel)
    BY <1>6 DEF sel
  <2>5. ASSUME c2 # NoClient
        PROVE  /\ Sound(c2, peer, rev)
               /\ Presents(c2, peer, t, sel, rev, timer', pty)
               /\ LatestText(c2, peer) = LatestText(client, peer)
               /\ t.sync => FramesIn(c2) \subseteq FramesIn(client)
    <3>1. c1 # NoClient
      BY <2>4, <2>5 DEF Published, Accepts
    <3>2. t.sync <=> timer' # "none"
      BY <1>6, <2>2, <3>1
    <3>3. revision \in Nat
      BY <1>1
    <3>4. /\ Sound(c2, peer, rev)
          /\ Presents(c2, peer, t, sel, rev, timer', pty)
          /\ LatestText(c2, peer) = LatestText(c0, peer)
          /\ t.sync => FramesIn(c2) \subseteq FramesIn(c0)
      BY <1>2, <1>3, <1>4, <1>5, <2>1, <2>4, <2>5, <3>2, <3>3, AnswerServed
    <3> QED
      BY <1>2, <3>4
  <2> HIDE DEF c1
  <2>6. ASSUME c3 # NoClient
        PROVE  /\ Served(c3, peer, t, sel, rev, timer', pty)
               /\ t.sync => FramesIn(c3) \subseteq FramesIn(client)
    <3>1. CASE ~(finishing /\ has)
      BY <1>1, <2>1, <2>5, <2>6, <3>1 DEF Served, Remembers
    <3>2. CASE finishing /\ has
      <4>1. c2 # NoClient /\ c3 = Push1(c2, txt)
        BY <2>6, <3>2 DEF Push1
      <4>2. txt \in Output /\ txt.kind = "CopiedSelection" /\ txt.text = rev
        BY <1>4, <2>1, <3>2, TextType DEF Kinds
      <4> HIDE DEF txt, c3
      <4>3. MaySay(c2, peer, rev, txt) /\ txt.kind \notin FrameKinds \cup {"ClipboardWrite"}
        BY <4>2 DEF MaySay, FrameKinds
      <4>4. /\ Sound(c3, peer, rev)
            /\ Presents(c3, peer, t, sel, rev, timer', pty)
            /\ LatestText(c3, peer) = rev
            /\ FramesIn(c3) \subseteq FramesIn(c2)
        BY <1>4, <2>5, <2>6, <4>1, <4>2, <4>3, PushPresents
      <4> QED
        BY <2>1, <2>5, <3>2, <4>1, <4>4 DEF Served, Remembers
    <3> QED
      BY <3>1, <3>2
  <2>7. Settle(c3, sel, rev, def)
    BY <1>6 DEF sel
  <2>8. def \in Slot
    BY DEF Handling
  <2> HIDE DEF c3
  <2> QED
    BY <1>1, <1>4, <1>6, <2>1, <2>3, <2>6, <2>7, <2>8, SettleKeeps
<1> QED
  BY <1>6, FailKeeps, ClearAndFailKeeps DEF HostPhase

\* One phase that goes to the application.
LEMMA TerminalPhaseKeeps ==
  ASSUME NEW def, Handling(def), pty = "open", NEW req \in Requests,
         req.kind \in {"Begin", "Update", "Finish"}, TerminalPhase(req, def)
  PROVE  Inv' /\ HoldsBack
<1>1. /\ terminal \in Terminal /\ selection \in Selection /\ revision \in Nat
      /\ writes \in 0 .. MaxWrites
      /\ selection.route # "none" => selection.copied = 0
  BY HandlingFacts
<1> DEFINE changed == req.kind = "Begin" /\ selection.has
           response == IF req.kind = "Finish" THEN Small("SelectionFinished", revision)
                                              ELSE Small("Accepted", 0)
           sel == CASE req.kind = "Begin"  -> [NoSelection EXCEPT !.route = "terminal"]
                    [] req.kind = "Update" -> selection
                    [] req.kind = "Finish" -> [selection EXCEPT !.route = "none"]
<1>2. /\ response \in Output /\ response.kind \in {"Accepted", "SelectionFinished"}
      /\ response.kind = "SelectionFinished" => response.rev = revision
      /\ response.rev <= revision + 1
  <2>1. /\ Small("SelectionFinished", revision) \in Output
        /\ Small("SelectionFinished", revision).kind = "SelectionFinished"
        /\ Small("SelectionFinished", revision).rev = revision
    BY <1>1, SmallType DEF Kinds
  <2> QED
    BY <1>1, <2>1, AcceptedType
<1>3. /\ sel \in Selection
      /\ sel.copied \in {0, selection.copied}
      /\ sel.route # "none" => sel.copied = 0
      /\ ~changed => (sel.has => selection.has)
  <2>1. CASE req.kind = "Begin"
    <3>1. sel = [route |-> "terminal", has |-> FALSE, copied |-> 0]
      BY <2>1 DEF NoSelection
    <3> HIDE DEF sel
    <3> QED
      BY <3>1 DEF Selection
  <2>2. CASE req.kind = "Update"
    BY <1>1, <2>2
  <2>3. CASE req.kind = "Finish"
    <3>1. sel = [selection EXCEPT !.route = "none"]
      BY <2>3
    <3>2. [selection EXCEPT !.route = "none"] \in Selection
      BY <1>1 DEF Selection
    <3>3. /\ [selection EXCEPT !.route = "none"].copied = selection.copied
          /\ [selection EXCEPT !.route = "none"].route = "none"
      BY <1>1 DEF Selection
    <3>4. [selection EXCEPT !.route = "none"].has = selection.has
      BY <1>1 DEF Selection
    <3> HIDE DEF sel
    <3> QED
      BY <3>1, <3>2, <3>3, <3>4
  <2> QED
    BY <2>1, <2>2, <2>3
<1>4. ASSUME NEW n \in 0 .. 1, CanQueue(n), writes' = writes + n, changed,
             ReplyAndPublish(response, terminal, sel, revision + 1, def)
      PROVE  Inv' /\ HoldsBack
  <2>1. writes' \in 0 .. MaxWrites
    BY <1>1, <1>4, SessionAssumption DEF CanQueue
  <2> HIDE DEF sel, response, changed
  <2> QED
    BY <1>1, <1>2, <1>3, <1>4, <2>1, AnswerKeeps
<1>5. ASSUME NEW n \in 0 .. 1, CanQueue(n), writes' = writes + n, ~changed,
             Settle(Push1(client, response), sel, revision, def),
             UNCHANGED <<terminal, timer>>
      PROVE  Inv' /\ HoldsBack
  <2>1. writes' \in 0 .. MaxWrites /\ def \in Slot
    BY <1>1, <1>5, SessionAssumption DEF CanQueue, Handling
  <2> HIDE DEF sel, response, changed
  <2> QED
    BY <1>1, <1>2, <1>3, <1>5, <2>1, ReplyKeeps
<1> QED
  BY <1>4, <1>5, FailKeeps, FailAndCloseKeeps DEF TerminalPhase

\* Pointer keeps the invariant.
LEMMA PointerKeeps ==
  ASSUME NEW def, Handling(def), pty = "open", NEW req \in Requests,
         req.kind \in {"Begin", "Update", "Finish"}, HandlePointer(req, def)
  PROVE  Inv' /\ HoldsBack
<1>1. selection.route # "none" => selection.copied = 0
  BY HandlingFacts
<1>2. CASE Fail(def)
  BY <1>2, FailKeeps
<1>3. CASE TerminalPhase(req, def)
  BY <1>3, TerminalPhaseKeeps
<1>4. CASE /\ HostPhase(req, def)
           /\ req.kind # "Begin" => selection.route # "none"
  BY <1>1, <1>4, HostPhaseKeeps
<1> QED
  BY <1>2, <1>3, <1>4 DEF HandlePointer

\* Autoscroll keeps the invariant.
LEMMA AutoscrollKeeps ==
  ASSUME NEW def, Handling(def), pty = "open", NEW req \in Requests, HandleAutoscroll(req, def)
  PROVE  Inv' /\ HoldsBack
<1>1. /\ terminal \in Terminal /\ selection \in Selection
      /\ selection.route # "none" => selection.copied = 0
  BY HandlingFacts
<1>2. ASSUME ~terminal.sync, CanPushScrollOutcome(client.queue),
             NEW has \in BOOLEAN, NEW t \in Scrolled(TRUE),
             PushOutcome("ScrollOutcome", MaxPayloadBytes, [t EXCEPT !.view = terminal.view + 1],
                         [selection EXCEPT !.has = has], def)
      PROVE  Inv' /\ HoldsBack
  <2> DEFINE sel == [selection EXCEPT !.has = has]
             s == [t EXCEPT !.view = terminal.view + 1]
  <2>1. sel \in Selection /\ sel.copied = selection.copied /\ sel.route = selection.route
    BY <1>1 DEF Selection
  <2>2. s \in Terminal /\ ~s.sync /\ MaxPayloadBytes \in Nat
    BY <1>1, <1>2, TerminalIs, LimitsAssumption
  <2> HIDE DEF sel, s
  <2>3. PushOutcome("ScrollOutcome", MaxPayloadBytes, s, sel, def)
    BY <1>2 DEF sel, s
  <2> QED
    BY <1>1, <1>2, <2>1, <2>2, <2>3, OutcomeKeeps
<1> QED
  BY <1>2, FailKeeps, ClearAndFailKeeps, DeferKeeps DEF HandleAutoscroll

\* handle_client_message, whatever the request.
LEMMA HandleKeeps ==
  ASSUME NEW def, Handling(def), NEW req \in Requests, Handle(req, def)
  PROVE  Inv' /\ HoldsBack
BY FailKeeps, InputKeeps, ResizeKeeps, PreviewKeeps, ScrollKeeps, ReturnKeeps, WheelKeeps,
   CancelKeeps, CopyKeeps, AutoscrollKeeps, PointerKeeps
   DEF Handle

-----------------------------------------------------------------------------
(***************************************************************************)
(* The sections of the loop.                                               *)
(***************************************************************************)
LEMMA InvFacts ==
  ASSUME Inv
  PROVE  /\ terminal \in Terminal /\ selection \in Selection /\ revision \in Nat
         /\ timer \in Timers /\ writes \in 0 .. MaxWrites /\ deferred \in Slot
         /\ pty \in {"open", "closing", "closed"} /\ clipboard \in BOOLEAN
         /\ asked \in 0 .. MaxRequests /\ reads \in 0 .. MaxReads
         /\ pty = "closed" => writes = 0
         /\ selection.route # "none" => selection.copied = 0
         /\ client = NoClient => peer = NothingReceived /\ selection = NoSelection
         /\ client # NoClient =>
              /\ client \in Connection /\ peer \in Received
              /\ Sound(client, peer, revision)
              /\ Presents(client, peer, terminal, selection, revision, timer, pty)
              /\ Remembers(client, peer, selection)
              /\ Newest(client, peer).rev \in Int
              /\ Newest(client, peer).rev <= revision
              /\ Shown = FramesIn(client)
<1>1. client # NoClient =>
        Sound(client, peer, revision) /\ Typed(client, peer) /\ RevisionsUpTo(client, peer, revision)
  BY DEF Inv, Served, Sound
<1>2. client # NoClient => Newest(client, peer).rev \in Int /\ Newest(client, peer).rev <= revision
  <2>1. client # NoClient => Newest(client, peer).rev \in Int
    BY <1>1, NewestIsHighest
  <2> QED
    BY <1>1, <2>1 DEF RevisionsUpTo
<1>3. client # NoClient => Shown = FramesIn(client)
  BY ShownIs
<1> QED
  BY <1>1, <1>2, <1>3
     DEF Inv, TypeOK, Terminal, Selection, Timers, Slot, Served, CopyForgotten, ClosedPtyTakesNothing

\* A section that leaves the connection and what it shows alone.
LEMMA QuietKeeps ==
  ASSUME Inv, Beside, phase' \in Phases,
         UNCHANGED <<terminal, selection, revision, deferred, writes, client, peer>>,
         timer' \in Timers, timer' = timer \/ (timer # "none" /\ timer' # "none"),
         pty' = "open" => pty = "open", pty' = "closed" => pty = "closed"
  PROVE  Inv' /\ HoldsBack
<1>1. /\ terminal' = terminal /\ selection' = selection /\ revision' = revision
      /\ deferred' = deferred /\ writes' = writes /\ client' = client /\ peer' = peer
  OBVIOUS
<1>2. TypeOK'
  BY <1>1 DEF Inv, TypeOK, Beside, Timers
<1>3. NeverContradicted' /\ ClosedPtyTakesNothing' /\ CopyForgotten'
  BY <1>1 DEF Inv, NeverContradicted, ClosedPtyTakesNothing, CopyForgotten, Phases
<1>4. client' = NoClient => peer' = NothingReceived
  BY <1>1 DEF Inv
<1>5. ASSUME client # NoClient
      PROVE  Served(client, peer, terminal, selection, revision, timer', pty')
  BY <1>5 DEF Inv, Served, Presents
<1>6. client' # NoClient =>
        Served(client', peer', terminal', selection', revision', timer', pty')
  BY <1>1, <1>5
<1>7. HoldsBack
  BY <1>1, ShownIs, ShownIsNext DEF HoldsBack
<1> QED
  BY <1>2, <1>3, <1>4, <1>6, <1>7 DEF Inv

\* The turn goes on in one of its phases.
LEMMA FollowingIs ==
  ASSUME NEW c, phase \in {"top", "resolve", "read", "resolveRead", "write", "client", "flush"}
  PROVE  Following(c) \in Phases
BY DEF Following, Phases

\* Skip keeps the invariant.
LEMMA SkipKeeps ==
  ASSUME Inv, Beside, pty' = pty, UNCHANGED timer,
         phase \in {"top", "resolve", "read", "resolveRead", "write", "client", "flush"}, Skip
  PROVE  Inv' /\ HoldsBack
<1>1. phase' \in Phases
  BY FollowingIs DEF Skip
<1>2. timer' \in Timers
  BY InvFacts
<1> QED
  BY <1>1, <1>2, QuietKeeps DEF Skip

\* Expire keeps the invariant.
LEMMA ExpireKeeps ==
  ASSUME Inv, Expire
  PROVE  Inv' /\ HoldsBack
<1>1. Beside /\ phase' \in Phases /\ timer' \in Timers
  BY InvFacts DEF Expire, Beside, Phases, Timers
<1> QED
  BY <1>1, QuietKeeps DEF Expire

\* EndClient keeps the invariant.
LEMMA EndClientKeeps ==
  ASSUME Inv, EndClient
  PROVE  Inv' /\ HoldsBack
<1>1. Beside /\ phase' \in Phases /\ timer' \in Timers
  BY InvFacts DEF EndClient, Beside, Phases
<1> QED
  BY <1>1, QuietKeeps DEF EndClient

\* Terminate keeps the invariant.
LEMMA TerminateKeeps ==
  ASSUME Inv, Terminate
  PROVE  Inv' /\ HoldsBack
<1>1. Beside
  BY InvFacts DEF Terminate, Beside, Accepts, Connection
<1> QED
  BY <1>1, DieKeeps DEF Terminate, Endings

\* FinishEnd keeps the invariant.
LEMMA FinishEndKeeps ==
  ASSUME Inv, FinishEnd
  PROVE  Inv' /\ HoldsBack
<1>1. Beside
  BY InvFacts DEF FinishEnd, Beside
<1> QED
  BY <1>1, DieKeeps DEF FinishEnd, Endings

\* Turn keeps the invariant.
LEMMA TurnKeeps ==
  ASSUME Inv, Turn
  PROVE  Inv' /\ HoldsBack
<1>1. Beside /\ pty' = pty /\ phase = "top"
  BY InvFacts DEF Turn, Beside, Accepts
<1>2. /\ terminal \in Terminal /\ selection \in Selection /\ revision \in Nat
      /\ writes \in 0 .. MaxWrites /\ deferred \in Slot
      /\ pty = "closed" => writes = 0
      /\ selection.route # "none" => selection.copied = 0
      /\ client = NoClient => selection = NoSelection
  BY InvFacts
<1>3. CASE UNCHANGED timer /\ Skip
  BY <1>1, <1>3, SkipKeeps
<1>4. ASSUME timer = "expired", terminal' = [terminal EXCEPT !.sync = FALSE], timer' = "none",
             NEW c \in Published(client, revision, terminal', selection),
             Settle(c, selection, revision, deferred), UNCHANGED writes
      PROVE  Inv' /\ HoldsBack
  <2>1. terminal' \in Terminal /\ ~terminal'.sync /\ "none" \in Timers
    <3>1. /\ [terminal EXCEPT !.sync = FALSE] \in Terminal
          /\ ~[terminal EXCEPT !.sync = FALSE].sync
      BY <1>2 DEF Terminal
    <3> QED
      BY <1>4, <3>1 DEF Timers
  <2>2. c # NoClient => client # NoClient
    BY <1>4 DEF Published, Accepts
  <2>3. ASSUME c # NoClient
        PROVE  Served(c, peer, terminal', selection, revision, "none", pty)
    <3>1. /\ Sound(client, peer, revision)
          /\ Remembers(client, peer, selection)
          /\ Newest(client, peer).rev < revision
      BY <1>4, <2>2, <2>3, InvFacts DEF Presents
    <3>2. /\ Sound(c, peer, revision)
          /\ Presents(c, peer, terminal', selection, revision, "none", pty)
          /\ LatestText(c, peer) = LatestText(client, peer)
      <4> DEFINE t == terminal'
      <4>1. /\ revision <= revision /\ revision \in Nat /\ selection \in Selection
            /\ c \in Published(client, revision, t, selection)
            /\ t \in Terminal /\ ~t.sync
        BY <1>2, <1>4, <2>1
      <4> HIDE DEF t
      <4>2. /\ Sound(c, peer, revision)
            /\ Presents(c, peer, t, selection, revision, "none", pty)
            /\ LatestText(c, peer) = LatestText(client, peer)
        BY <2>3, <3>1, <4>1, PublishServed
      <4> QED
        BY <4>2 DEF t
    <3> QED
      BY <3>1, <3>2 DEF Served, Remembers
  <2>4. Following(c) \in Phases /\ Leave(Following(c), c, selection, revision, deferred)
    BY <1>1, <1>4, FollowingIs DEF Settle
  <2> QED
    BY <1>1, <1>2, <1>4, <2>1, <2>3, <2>4, LeaveKeeps
<1> QED
  BY <1>3, <1>4 DEF Turn, Skip

\* FlushDeferred keeps the invariant.
LEMMA FlushDeferredKeeps ==
  ASSUME Inv, FlushDeferred
  PROVE  Inv' /\ HoldsBack
<1>1. Beside /\ pty' = pty /\ phase \in {"resolve", "resolveRead"}
  BY InvFacts DEF FlushDeferred, Beside
<1>2. CASE Skip
  BY <1>1, <1>2, SkipKeeps DEF Skip
<1>3. CASE /\ client = NoClient
           /\ Settle(client, selection, revision, NoRequest)
           /\ UNCHANGED <<terminal, timer, writes>>
  <2>1. Following(client) \in Phases /\ Leave(Following(client), client, selection, revision, NoRequest)
    BY <1>1, <1>3, FollowingIs DEF Settle
  <2>2. NoRequest \in Slot
    BY DEF Slot
  <2> QED
    BY <1>1, <1>3, <2>1, <2>2, InvFacts, LeaveKeeps
<1>4. CASE deferred # NoRequest /\ client # NoClient /\ Handle(deferred, NoRequest)
  <2>1. Handling(NoRequest) /\ deferred \in Requests
    BY <1>1, <1>4, InvFacts DEF Handling, Slot
  <2> QED
    BY <1>4, <2>1, HandleKeeps
<1> QED
  BY <1>2, <1>3, <1>4 DEF FlushDeferred

\* Request keeps the invariant.
LEMMA RequestKeeps ==
  ASSUME Inv, HandleRequest
  PROVE  Inv' /\ HoldsBack
<1>1. Beside /\ pty' = pty /\ phase = "client" /\ client # NoClient
  BY InvFacts, SessionAssumption DEF HandleRequest, Beside, Accepts
<1>2. Handling(deferred)
  BY <1>1, InvFacts DEF Handling
<1>3. PICK req \in Requests : Handle(req, deferred)
  BY DEF HandleRequest
<1> QED
  BY <1>2, <1>3, HandleKeeps

\* Malformed keeps the invariant.
LEMMA MalformedKeeps ==
  ASSUME Inv, Malformed
  PROVE  Inv' /\ HoldsBack
<1>1. Beside /\ pty' = pty /\ phase = "client" /\ client # NoClient
  BY InvFacts DEF Malformed, Beside, Accepts
<1>2. Handling(deferred)
  BY <1>1, InvFacts DEF Handling
<1> QED
  BY <1>2, FailAndCloseKeeps DEF Malformed

\* PeerGone keeps the invariant.
LEMMA PeerGoneKeeps ==
  ASSUME Inv, PeerGone
  PROVE  Inv' /\ HoldsBack
<1>1. Beside /\ pty' = pty /\ phase \in {"client", "flush"} /\ client # NoClient
  BY InvFacts DEF PeerGone, Beside
<1>2. /\ Following(NoClient) \in Phases
      /\ Leave(Following(NoClient), NoClient, selection, revision, deferred)
      /\ terminal' = terminal /\ timer' = timer /\ writes' = writes
  BY <1>1, FollowingIs DEF PeerGone, Settle
<1> QED
  BY <1>1, <1>2, InvFacts, LeaveKeeps

\* FlushEnd keeps the invariant.
LEMMA FlushEndKeeps ==
  ASSUME Inv, FlushEnd
  PROVE  Inv' /\ HoldsBack
<1>1. Beside /\ pty' = pty /\ "top" \in Phases
  BY InvFacts DEF FlushEnd, Beside, Phases
<1>2. /\ terminal' = terminal /\ timer' = timer /\ writes' = writes
      /\ \/ client # NoClient /\ Leave("top", NoClient, selection, revision, deferred)
         \/ Leave("top", client, selection, revision, deferred)
  BY DEF FlushEnd
<1>3. client # NoClient =>
        Served(client, peer, terminal, selection, revision, timer, pty)
  BY DEF Inv
<1> QED
  BY <1>1, <1>2, <1>3, InvFacts, LeaveKeeps

\* ReadNothing keeps the invariant.
LEMMA ReadNothingKeeps ==
  ASSUME Inv, ReadNothing
  PROVE  Inv' /\ HoldsBack
<1>1. Beside /\ phase = "read"
  BY InvFacts DEF ReadNothing, Beside
<1>2. CASE /\ phase' = "write" /\ pty' = pty
           /\ UNCHANGED <<terminal, selection, revision, timer, deferred, writes, client, peer>>
  <2>1. phase' \in Phases /\ timer' \in Timers
    BY <1>2, InvFacts DEF Phases
  <2> QED
    BY <1>1, <1>2, <2>1, QuietKeeps
<1>3. CASE pty = "open" /\ pty' \in {"open", "closing"} /\ Skip
  <2>1. phase' \in Phases /\ timer' \in Timers
    BY <1>1, <1>3, InvFacts, FollowingIs DEF Skip
  <2> QED
    BY <1>1, <1>3, <2>1, QuietKeeps DEF Skip
<1> QED
  BY <1>2, <1>3 DEF ReadNothing

\* The same connection, when the PTY is found closed.
LEMMA ClosedPresents ==
  ASSUME NEW c, NEW p, NEW rev \in Nat, NEW later \in Nat, rev <= later, NEW t, NEW sel,
         NEW less, ~less.has, NEW tm, NEW pt, Sound(c, p, rev),
         Presents(c, p, t, sel, rev, tm, pt)
  PROVE  Presents(c, p, t, less, later, tm, "closed")
<1>1. Newest(c, p).rev \in Int
  BY NewestIsHighest DEF Sound
<1> QED
  BY <1>1 DEF Presents

\* WritePty keeps the invariant.
LEMMA WritePtyKeeps ==
  ASSUME Inv, WritePty
  PROVE  Inv' /\ HoldsBack
<1>1. Beside /\ phase = "write"
  BY InvFacts DEF WritePty, Beside
<1>2. CASE Skip /\ UNCHANGED pty
  BY <1>1, <1>2, SkipKeeps DEF Skip
<1>3. CASE /\ pty = "open" /\ writes' \in 0 .. writes
           /\ Settle(client, selection, revision, deferred)
           /\ UNCHANGED <<pty, terminal, timer>>
  <2>1. Following(client) \in Phases /\ Leave(Following(client), client, selection, revision, deferred)
    BY <1>1, <1>3, FollowingIs DEF Settle
  <2>2. client # NoClient =>
          Served(client, peer, terminal, selection, revision, timer, pty)
    BY DEF Inv
  <2>3. writes' \in 0 .. MaxWrites
    BY <1>3, InvFacts, SessionAssumption
  <2> QED
    BY <1>1, <1>3, <2>1, <2>2, <2>3, InvFacts, LeaveKeeps
<1>4. CASE /\ pty' = "closed" /\ writes' = 0
           /\ Settle(client, ClearPointer(selection, FALSE), Advance(revision, selection), deferred)
           /\ UNCHANGED <<terminal, timer>>
  <2> DEFINE sel == ClearPointer(selection, FALSE)
             rev == Advance(revision, selection)
  <2>1. /\ selection \in Selection /\ revision \in Nat /\ terminal \in Terminal /\ timer \in Timers
        /\ deferred \in Slot
        /\ client = NoClient => selection = NoSelection
    BY InvFacts
  <2>2. sel \in Selection /\ sel.copied = selection.copied /\ sel.route = "none" /\ ~sel.has
    BY <2>1, ClearPointerIs
  <2>3. rev \in Nat /\ revision <= rev
    BY <2>1 DEF Advance
  <2>4. client = NoClient => sel = NoSelection
    <3>1. ClearPointer(NoSelection, FALSE) = NoSelection
      BY DEF ClearPointer, ClearSelection, NoSelection
    <3> QED
      BY <2>1, <3>1
  <2>5. Following(client) \in Phases /\ Leave(Following(client), client, sel, rev, deferred)
    <3>1. Following(client) \in Phases
      BY <1>1, FollowingIs
    <3>2. Settle(client, sel, rev, deferred)
      BY <1>4
    <3> HIDE DEF sel, rev
    <3> QED
      BY <3>1, <3>2 DEF Settle
  <2>6. 0 \in 0 .. MaxWrites
    BY SessionAssumption
  <2> HIDE DEF sel, rev
  <2>7. ASSUME client # NoClient
        PROVE  /\ Served(client, peer, terminal, sel, rev, timer, "closed")
               /\ FramesIn(client) \subseteq Shown
    <3>1. /\ Sound(client, peer, revision)
          /\ Presents(client, peer, terminal, selection, revision, timer, pty)
          /\ Remembers(client, peer, selection)
          /\ Shown = FramesIn(client)
      BY <2>7, InvFacts
    <3>2. Sound(client, peer, rev)
      BY <2>1, <2>3, <3>1, SoundLater
    <3>3. Presents(client, peer, terminal, sel, rev, timer, "closed")
      BY <2>1, <2>2, <2>3, <3>1, ClosedPresents
    <3> QED
      BY <2>2, <3>1, <3>2, <3>3 DEF Served, Remembers
  <2> QED
    BY <1>1, <1>4, <2>1, <2>2, <2>3, <2>4, <2>5, <2>6, <2>7, LeaveKeeps
<1> QED
  BY <1>2, <1>3, <1>4 DEF WritePty

\* A new connection, before anything is pushed to it.
LEMMA NewClientIsSound ==
  /\ Sound(NewClient, NothingReceived, 0)
  /\ Newest(NewClient, NothingReceived).rev = -1
  /\ LatestText(NewClient, NothingReceived) = 0
  /\ FramesIn(NewClient) = {}
<1> DEFINE c == NewClient
           p == NothingReceived
           ms == c.queue.messages
<1>1. ms = <<>> /\ c.queue = Empty /\ Len(ms) = 0
  BY DEF NewClient, Empty
<1>2. /\ p.frame.rev = -1 /\ p.finished = -1 /\ p.text = 0
      /\ p \in Received
  BY DEF NothingReceived, Received
<1>3. Empty \in QueueOf(Output) /\ Accounted(Empty)
  BY OutputIsQueued, EmptyAccounted
<1>4. NewClient \in Connection
  BY DEF NewClient, Empty, Connection
<1>5. \A K : LastOf(ms, 0, K) = 0
  <2> TAKE K
  <2>1. 0 \in Nat
    OBVIOUS
  <2>2. LastOf(ms, 0, K) \in 0 .. 0
    BY <2>1, LastOfFacts
  <2> QED
    BY <2>2
<1>6. Newest(c, p) = p.frame /\ LatestText(c, p) = 0
  BY <1>1, <1>2, <1>5 DEF Newest, LatestText, FrozenText
<1>7. Framed(ms) = {}
  BY <1>1 DEF Framed
<1> HIDE DEF c, p
<1>8. Typed(c, p)
  BY <1>1, <1>2, <1>3, <1>4 DEF Typed, c
<1>9. RevisionsUpTo(c, p, 0)
  BY <1>1, <1>2, <1>6, <1>7 DEF RevisionsUpTo
<1>10. ClipsFirst(c) /\ CopiesFrozen(c, p)
  BY <1>1 DEF ClipsFirst, CopiesFrozen
<1> QED
  BY <1>2, <1>6, <1>7, <1>8, <1>9, <1>10 DEF Sound, FramesIn, c, p

\* Attach keeps the invariant.
LEMMA AttachKeeps ==
  ASSUME Inv, Attach
  PROVE  Inv' /\ HoldsBack
<1>1. /\ Beside /\ pty' = pty /\ client = NoClient /\ "read" \in Phases
      /\ timer' = Hold(terminal) /\ terminal' = terminal /\ writes' = writes
  BY InvFacts DEF Attach, Beside, Phases
<1>2. /\ terminal \in Terminal /\ selection = NoSelection /\ selection \in Selection
      /\ revision \in Nat /\ timer \in Timers /\ deferred \in Slot /\ peer = NothingReceived
      /\ writes \in 0 .. MaxWrites
      /\ pty = "closed" => writes = 0
  BY <1>1, InvFacts
<1> DEFINE m == Small("Attached", 0)
<1>3. PICK c \in Published(Push1(NewClient, m), revision, terminal, selection) :
        Leave("read", c, selection, revision, deferred)
  BY DEF Attach
<1>4. timer' \in Timers /\ (terminal.sync <=> timer' # "none")
  BY <1>1, <1>2, HoldIs
<1>5. m \in Output /\ m.kind \in {"Accepted", "Attached", "SelectionFinished"} /\ m.rev = 0
  <2>1. "Attached" \in Kinds /\ 0 \in Nat
    BY DEF Kinds
  <2>2. m \in Output /\ m.kind = "Attached" /\ m.rev = 0
    BY <2>1, SmallType
  <2> HIDE DEF m
  <2> QED
    BY <2>2
<1> HIDE DEF m
<1>6. ASSUME c # NoClient
      PROVE  /\ Served(c, peer, terminal, selection, revision, timer', pty)
             /\ terminal.sync => FramesIn(c) \subseteq Shown
  <2>1. /\ Sound(NewClient, peer, 0) /\ Newest(NewClient, peer).rev < revision
        /\ FramesIn(NewClient) = {} /\ 0 \in Nat /\ 0 <= revision /\ m.rev <= revision
    BY <1>2, <1>5, NewClientIsSound
  <2>2. /\ Sound(c, peer, revision)
        /\ Presents(c, peer, terminal, selection, revision, timer', pty)
        /\ terminal.sync => FramesIn(c) \subseteq FramesIn(NewClient)
    BY <1>2, <1>3, <1>4, <1>5, <1>6, <2>1, AnswerServed
  <2>3. selection.copied = 0
    BY <1>2 DEF NoSelection
  <2> QED
    BY <2>1, <2>2, <2>3 DEF Served, Remembers
<1>7. selection.route = "none"
  BY <1>2 DEF NoSelection
<1> QED
  <2>1. /\ terminal' \in Terminal /\ writes' \in 0 .. MaxWrites
        /\ pty' = "closed" => writes' = 0
        /\ c # NoClient => /\ Served(c, peer, terminal', selection, revision, timer', pty')
                           /\ terminal'.sync => FramesIn(c) \subseteq Shown
    <3>1. terminal' = terminal /\ pty' = pty /\ writes' = writes
      BY <1>1
    <3>2. terminal' \in Terminal /\ writes' \in 0 .. MaxWrites /\ (pty' = "closed" => writes' = 0)
      BY <1>2, <3>1
    <3>3. ASSUME c # NoClient
          PROVE  Served(c, peer, terminal', selection, revision, timer', pty')
      BY <1>6, <3>1, <3>3
    <3>4. ASSUME c # NoClient
          PROVE  terminal'.sync => FramesIn(c) \subseteq Shown
      BY <1>6, <3>1, <3>4
    <3> QED
      BY <3>2, <3>3, <3>4
  <2> QED
    BY <1>1, <1>2, <1>3, <1>4, <1>7, <2>1, LeaveKeeps

\* What publish_change and what comes before it leave of a connection.
LEMMA OutputServed ==
  ASSUME Inv, NEW n \in Nat, NEW rev \in Nat, revision <= rev,
         client # NoClient => Newest(client, peer).rev < rev,
         NEW t \in Terminal, NEW sel \in Selection, NEW tm, t.sync <=> tm # "none", NEW pt,
         sel.copied \in {0, selection.copied},
         NEW d \in Published(PublishClips(client, n, rev), rev, t, sel), d # NoClient
  PROVE  /\ Served(d, peer, t, sel, rev, tm, pt)
         /\ t.sync => FramesIn(d) \subseteq Shown
<1> DEFINE c == PublishClips(client, n, rev)
<1>1. c # NoClient
  BY DEF Published, Accepts
<1>2. client # NoClient
  BY <1>1 DEF PublishClips, Accepts
<1>3. /\ Sound(client, peer, revision) /\ Remembers(client, peer, selection)
      /\ revision \in Nat /\ Shown = FramesIn(client)
  BY <1>2, InvFacts
<1>4. /\ Sound(c, peer, rev)
      /\ Newest(c, peer) = Newest(client, peer)
      /\ LatestText(c, peer) = LatestText(client, peer)
      /\ FramesIn(c) \subseteq FramesIn(client)
  BY <1>1, <1>2, <1>3, ClipsAreSound
<1> HIDE DEF c
<1>5. d \in Published(c, rev, t, sel) /\ Newest(c, peer).rev < rev /\ rev <= rev
  BY <1>2, <1>4 DEF c
<1>6. /\ Sound(d, peer, rev)
      /\ Presents(d, peer, t, sel, rev, tm, pt)
      /\ LatestText(d, peer) = LatestText(c, peer)
      /\ t.sync => FramesIn(d) \subseteq FramesIn(c)
  BY <1>4, <1>5, PublishServed
<1> QED
  BY <1>3, <1>4, <1>6 DEF Served, Remembers

\* A changed terminal has a revision above all the client was shown.
LEMMA ChangedIs ==
  ASSUME Inv
  PROVE  /\ Changed(revision) \in Nat /\ revision <= Changed(revision)
         /\ client # NoClient => Newest(client, peer).rev < Changed(revision)
<1>1. /\ revision \in Nat
      /\ client # NoClient =>
           /\ Newest(client, peer).rev \in Int
           /\ Newest(client, peer).rev <= revision
           /\ timer # "none" => Newest(client, peer).rev < revision
  BY InvFacts DEF Presents
<1> QED
  BY <1>1 DEF Changed

\* Read keeps the invariant.
LEMMA ReadKeeps ==
  ASSUME Inv, Read
  PROVE  Inv' /\ HoldsBack
<1>1. Beside /\ pty' = pty /\ pty = "open" /\ phase = "read"
  BY InvFacts, SessionAssumption DEF Read, Beside
<1>2. /\ terminal \in Terminal /\ selection \in Selection /\ revision \in Nat
      /\ writes \in 0 .. MaxWrites /\ timer \in Timers /\ deferred \in Slot
      /\ selection.route # "none" => selection.copied = 0
      /\ client = NoClient => selection = NoSelection
  BY InvFacts
<1>3. CASE Die("overflowed")
  BY <1>1, <1>3, DieKeeps DEF Endings
<1> DEFINE rev == Changed(revision)
<1>4. ASSUME NEW replies \in 0 .. 1, CanQueue(replies), writes' = writes + replies,
             NEW t \in Outputs, NEW n \in Captured(clipboard),
             terminal' = t, timer' = Hold(t),
             NEW sel \in SelectionsAfter(t),
             NEW d \in Published(PublishClips(client, n, rev), rev, t, sel),
             Settle(d, sel, rev, deferred)
      PROVE  Inv' /\ HoldsBack
  <2>1. t \in Terminal
    <3>1. terminal.view + 1 \in Nat /\ terminal.scrolled \in BOOLEAN
      BY <1>2 DEF Terminal
    <3> QED
      BY <1>4, <3>1 DEF Outputs, Terminal
  <2>2. n \in Nat
    BY <1>4, SessionAssumption DEF Captured
  <2>3. timer' \in Timers /\ (t.sync <=> timer' # "none")
    BY <1>2, <1>4, <2>1, HoldIs
  <2>4. /\ sel \in Selection /\ sel.copied = selection.copied
        /\ sel.route \in {"none", selection.route}
        /\ client = NoClient => sel = NoSelection
    <3>1. sel = selection \/ sel = ClearSelection(selection, FALSE)
      BY <1>4 DEF SelectionsAfter
    <3>2. ClearSelection(NoSelection, FALSE) = NoSelection
      BY DEF ClearSelection, NoSelection
    <3>3. /\ ClearSelection(selection, FALSE) \in Selection
          /\ ClearSelection(selection, FALSE).copied = selection.copied
          /\ ClearSelection(selection, FALSE).route \in {"none", selection.route}
      BY <1>2, ClearPointerIs
    <3> QED
      BY <1>2, <3>1, <3>2, <3>3
  <2>5. /\ rev \in Nat /\ revision <= rev
        /\ client # NoClient => Newest(client, peer).rev < rev
    BY ChangedIs
  <2>6. writes' \in 0 .. MaxWrites
    BY <1>2, <1>4, SessionAssumption DEF CanQueue
  <2>7. Following(d) \in Phases /\ Leave(Following(d), d, sel, rev, deferred)
    <3>1. Following(d) \in Phases
      BY <1>1, FollowingIs
    <3> HIDE DEF rev
    <3> QED
      BY <1>4, <3>1 DEF Settle
  <2> HIDE DEF rev
  <2>8. ASSUME d # NoClient
        PROVE  /\ Served(d, peer, t, sel, rev, timer', pty)
               /\ t.sync => FramesIn(d) \subseteq Shown
    <3>1. /\ sel \in Selection /\ sel.copied \in {0, selection.copied}
          /\ d \in Published(PublishClips(client, n, rev), rev, t, sel)
      BY <1>4, <2>4 DEF rev
    <3> DEFINE tm == timer'
    <3>2. t.sync <=> tm # "none"
      BY <2>3
    <3> HIDE DEF tm
    <3>3. /\ Served(d, peer, t, sel, rev, tm, pty)
          /\ t.sync => FramesIn(d) \subseteq Shown
      BY <2>1, <2>2, <2>5, <2>8, <3>1, <3>2, OutputServed, SMTT(30)
    <3> QED
      BY <3>3 DEF tm
  <2> QED
    BY <1>1, <1>2, <1>4, <2>1, <2>3, <2>4, <2>5, <2>6, <2>7, <2>8, LeaveKeeps
<1> QED
  BY <1>3, <1>4 DEF Read

\* ChildExited keeps the invariant.
LEMMA ChildExitedKeeps ==
  ASSUME Inv, ChildExited
  PROVE  Inv' /\ HoldsBack
<1>1. Beside /\ pty' = pty /\ phase = "top" /\ "finish" \in Phases
  BY InvFacts DEF ChildExited, Beside, Accepts, Phases
<1>2. /\ terminal \in Terminal /\ selection \in Selection /\ revision \in Nat
      /\ writes \in 0 .. MaxWrites /\ timer \in Timers /\ deferred \in Slot
      /\ pty = "closed" => writes = 0
  BY InvFacts
<1>3. CASE Die("overflowed")
  BY <1>1, <1>3, DieKeeps DEF Endings
<1> DEFINE m == Small("Exited", 0)
           sel == ClearPointer(selection, TRUE)
           Last(d) == IF Accepts(d) /\ Fits(d.queue, m) THEN Push1(d, m) ELSE d
<1>4. m \in Output /\ m.kind = "Exited"
  BY SmallType DEF Kinds
<1>5. sel = NoSelection /\ sel \in Selection /\ ~sel.has /\ sel.copied = 0 /\ sel.route = "none"
  BY <1>2, ClearPointerIs DEF NoSelection
<1>6. ASSUME NEW drained \in BOOLEAN, NEW n \in Captured(Accepts(client)), n > 0 => drained,
             NEW changed \in BOOLEAN, changed <=> (selection.has \/ drained),
             NEW rev, rev = (IF changed THEN Changed(revision) ELSE revision),
             NEW t, t = [terminal EXCEPT !.view = IF drained THEN @ + 1 ELSE @, !.sync = FALSE],
             terminal' = t, timer' = "none", UNCHANGED writes,
             NEW d \in IF changed \/ timer # "none"
                       THEN Published(PublishClips(client, n, rev), rev, t, sel)
                       ELSE {PublishClips(client, n, rev)},
             Leave("finish", Last(d), sel, rev, deferred)
      PROVE  Inv' /\ HoldsBack
  <2>1. /\ t \in Terminal /\ ~t.sync
        /\ ~drained => t.view = terminal.view
    <3> DEFINE v == IF drained THEN terminal.view + 1 ELSE terminal.view
    <3>1. terminal.view \in Nat
      BY <1>2 DEF Terminal
    <3>2. v \in Nat /\ FALSE \in BOOLEAN
      BY <3>1
    <3>3. t = [terminal EXCEPT !.view = v, !.sync = FALSE]
      BY <1>6
    <3> HIDE DEF v
    <3>4. /\ [terminal EXCEPT !.view = v, !.sync = FALSE] \in Terminal
          /\ [terminal EXCEPT !.view = v, !.sync = FALSE].sync = FALSE
      BY <1>2, <3>2, SeenIs
    <3>5. [terminal EXCEPT !.view = v, !.sync = FALSE].view = v
      BY <1>2 DEF Terminal
    <3> QED
      BY <3>3, <3>4, <3>5 DEF v
  <2>2. n \in Nat
    BY <1>6, SessionAssumption DEF Captured
  <2>3. rev \in Nat /\ revision <= rev
    BY <1>2, <1>6, ChangedIs
  <2> HIDE DEF sel, m
  <2>4. ASSUME d # NoClient
        PROVE  Served(d, peer, t, sel, rev, "none", pty)
    <3>1. CASE changed \/ timer # "none"
      <4>1. d \in Published(PublishClips(client, n, rev), rev, t, sel)
        BY <1>6, <3>1
      <4>2. client # NoClient => Newest(client, peer).rev < rev
        BY <1>6, <3>1, ChangedIs, InvFacts DEF Presents
      <4>3. t.sync <=> "none" # "none"
        BY <2>1
      <4> QED
        BY <1>5, <2>1, <2>2, <2>3, <2>4, <4>1, <4>2, <4>3, OutputServed, SMTT(30)
    <3>2. CASE ~changed /\ timer = "none"
      <4>1. n = 0 /\ rev = revision /\ ~drained /\ ~selection.has
        <5>1. ~drained /\ ~selection.has /\ rev = revision
          BY <1>6, <3>2
        <5>2. ~(n > 0)
          BY <1>6, <5>1
        <5> QED
          BY <2>2, <5>1, <5>2
      <4>2. d = client
        <5>1. d = PublishClips(client, 0, rev)
          BY <1>6, <3>2, <4>1
        <5>2. ~(0 > MaxClips) /\ 0 \in Nat
          BY SessionAssumption
        <5>3. \A k : Pushes(client, k, 0)[0] = client
          BY <5>2, PushesRecur
        <5> QED
          BY <5>1, <5>2, <5>3 DEF PublishClips
      <4>3. /\ Sound(client, peer, revision)
            /\ Presents(client, peer, terminal, selection, revision, timer, pty)
        BY <2>4, <4>2, InvFacts
      <4>4. Presents(client, peer, t, sel, revision, "none", pty)
        BY <1>5, <2>1, <3>2, <4>1, <4>3 DEF Presents
      <4> QED
        BY <1>5, <4>1, <4>2, <4>3, <4>4 DEF Served, Remembers
    <3> QED
      BY <3>1, <3>2
  <2>5. ASSUME Last(d) # NoClient
        PROVE  Served(Last(d), peer, t, sel, rev, "none", pty)
    <3>1. CASE Last(d) = d
      BY <2>4, <2>5, <3>1
    <3>2. CASE Last(d) = Push1(d, m)
      <4>1. d # NoClient /\ Push1(d, m) # NoClient
        BY <2>5, <3>2 DEF Push1
      <4>2. /\ Sound(d, peer, rev)
            /\ Presents(d, peer, t, sel, rev, "none", pty)
        BY <2>4, <4>1 DEF Served
      <4>3. MaySay(d, peer, rev, m) /\ m.kind \notin FrameKinds \cup {"ClipboardWrite"}
        BY <1>4 DEF MaySay, FrameKinds
      <4>4. /\ Sound(Push1(d, m), peer, rev)
            /\ Presents(Push1(d, m), peer, t, sel, rev, "none", pty)
        BY <1>4, <2>3, <4>1, <4>2, <4>3, PushPresents
      <4> QED
        BY <1>5, <3>2, <4>4 DEF Served, Remembers
    <3> QED
      BY <3>1, <3>2
  <2>6. /\ terminal' \in Terminal /\ timer' \in Timers /\ ~terminal'.sync
        /\ writes' \in 0 .. MaxWrites /\ (pty' = "closed" => writes' = 0)
    BY <1>1, <1>2, <1>6, <2>1 DEF Timers
  <2>7. Last(d) # NoClient =>
          /\ Served(Last(d), peer, terminal', sel, rev, timer', pty')
          /\ terminal'.sync => FramesIn(Last(d)) \subseteq Shown
    BY <1>1, <1>6, <2>5, <2>6
  <2> HIDE DEF Last
  <2> QED
    BY <1>1, <1>2, <1>5, <1>6, <2>3, <2>6, <2>7, LeaveKeeps
<1> QED
  <2>1. CASE \E drained \in BOOLEAN, n \in Captured(Accepts(client)) :
               /\ n > 0 => drained
               /\ LET changed == selection.has \/ drained
                      rev == IF changed THEN Changed(revision) ELSE revision
                      t == [terminal EXCEPT !.view = IF drained THEN @ + 1 ELSE @,
                                            !.sync = FALSE]
                  IN  /\ terminal' = t
                      /\ timer' = "none"
                      /\ \E d \in IF changed \/ timer # "none"
                                 THEN Published(PublishClips(client, n, rev), rev, t, sel)
                                 ELSE {PublishClips(client, n, rev)} :
                           Leave("finish", Last(d), sel, rev, deferred)
               /\ UNCHANGED writes
    <3>1. selection.has \in BOOLEAN
      BY <1>2 DEF Selection
    <3> HIDE DEF sel, Last
    <3> QED
      BY <1>6, <2>1, <3>1
  <2> QED
    BY <1>3, <2>1 DEF ChildExited

\* A write that leaves the head in the queue.
LEMMA SentNothing ==
  ASSUME NEW c, NEW d, NEW p, NEW rev, Sound(c, p, rev), Typed(d, p),
         d.queue.messages = c.queue.messages
  PROVE  /\ Sound(d, p, rev)
         /\ Newest(d, p) = Newest(c, p)
         /\ LatestText(d, p) = LatestText(c, p)
         /\ Reached(c, p) => Reached(d, p)
         /\ FramesIn(d) = FramesIn(c)
<1>1. /\ Newest(d, p) = Newest(c, p)
      /\ FramesIn(d) = FramesIn(c)
      /\ \A n : FrozenText(d, p, n) = FrozenText(c, p, n)
  BY DEF Newest, FramesIn, FrozenText
<1> QED
  BY <1>1 DEF LatestText, Sound, RevisionsUpTo, ClipsFirst, CopiesFrozen, Reached

\* FlushWrite keeps the invariant.
LEMMA FlushWriteKeeps ==
  ASSUME Inv, NEW n \in 1 .. MaxOutputBytes, FlushWrite(n)
  PROVE  Inv' /\ HoldsBack
<1>1. /\ client # NoClient /\ client.queue.messages # <<>>
      /\ n \in 1 .. Head(client.queue.messages).size - client.queue.offset
      /\ client' = [client EXCEPT !.queue = Write(client.queue, n)]
      /\ peer' = IF client.queue.offset + n = Head(client.queue.messages).size
                 THEN Delivered(Head(client.queue.messages)) ELSE peer
  BY DEF FlushWrite
<1>2. /\ terminal \in Terminal /\ revision \in Nat /\ client \in Connection /\ peer \in Received
      /\ Sound(client, peer, revision)
      /\ Presents(client, peer, terminal, selection, revision, timer, pty)
      /\ Remembers(client, peer, selection)
      /\ Shown = FramesIn(client)
  BY <1>1, InvFacts
<1> DEFINE q == client.queue
           h == Head(q.messages)
           r == Write(q, n)
           d == [client EXCEPT !.queue = r]
<1>3. q \in QueueOf(Output) /\ Accounted(q)
  BY <1>2 DEF Sound, Typed
<1>4. r \in QueueOf(Output) /\ Accounted(r)
  BY <1>1, <1>3, OutputIsQueued, WriteAccounted
<1>5. r.messages = IF q.offset + n = h.size THEN Tail(q.messages) ELSE q.messages
  BY DEF Write
<1>6. d \in Connection /\ d.queue = r /\ d.closing = client.closing
  <2>1. r \in [messages : Seq(Sent), offset : Nat, bytes : Nat]
    <3>1. Seq(Output) \subseteq Seq(Sent)
      BY DEF Output
    <3> QED
      BY <1>4, <3>1 DEF QueueOf
  <2> HIDE DEF r
  <2> QED
    BY <1>2, <2>1 DEF Connection
<1>7. h \in Output /\ Delivered(h) = Knows(peer, h) /\ Knows(peer, h) \in Received
  <2>1. q.messages \in Seq(Output) /\ q.messages # <<>>
    BY <1>1, <1>3 DEF QueueOf
  <2> HIDE DEF q
  <2>2. h \in Output
    BY <2>1
  <2> HIDE DEF h
  <2> QED
    BY <1>2, <2>2, KnowsIs DEF Delivered, Knows, Output
<1> HIDE DEF d, r
<1>8. client' = d /\ client' # NoClient
  BY <1>1, <1>6, ConnectionIsClient DEF d, r
<1>9. /\ Sound(d, peer', revision)
      /\ Newest(d, peer') = Newest(client, peer)
      /\ LatestText(d, peer') = LatestText(client, peer)
      /\ Reached(client, peer) => Reached(d, peer')
      /\ FramesIn(d) \subseteq FramesIn(client)
      /\ peer' \in Received
  <2>1. CASE q.offset + n = h.size
    <3> DEFINE k == Knows(peer, h)
    <3>1. peer' = k /\ d.queue.messages = Tail(client.queue.messages)
      BY <1>1, <1>5, <1>6, <1>7, <2>1
    <3>2. Typed(d, peer)
      BY <1>2, <1>4, <1>6 DEF Typed
    <3>3. /\ Sound(d, k, revision)
          /\ Newest(d, k) = Newest(client, peer)
          /\ LatestText(d, k) = LatestText(client, peer)
          /\ Reached(client, peer) => Reached(d, k)
      BY <1>1, <1>2, <3>1, <3>2, SentHead
    <3>4. FramesIn(d) \subseteq FramesIn(client)
      <4> DEFINE ms == client.queue.messages
                 ns == d.queue.messages
      <4>1. ms \in Seq(Output) /\ ms # <<>> /\ ns = Tail(ms)
        BY <1>1, <1>3, <3>1 DEF QueueOf
      <4> HIDE DEF ms, ns
      <4>2. \A i \in Framed(ns) : i + 1 \in Framed(ms) /\ ns[i] = ms[i + 1]
        BY <4>1 DEF Framed
      <4> QED
        BY <4>2 DEF FramesIn, ms, ns
    <3> HIDE DEF k
    <3> QED
      BY <1>7, <3>1, <3>3, <3>4 DEF k
  <2>2. CASE q.offset + n # h.size
    <3>1. peer' = peer /\ d.queue.messages = client.queue.messages
      BY <1>1, <1>5, <1>6, <2>2
    <3>2. Typed(d, peer)
      BY <1>2, <1>4, <1>6 DEF Typed
    <3> QED
      BY <1>2, <3>1, <3>2, SentNothing
  <2> QED
    BY <2>1, <2>2
<1>10. Served(d, peer', terminal, selection, revision, timer, pty)
  <2>1. Accepts(d) => Accepts(client)
    BY <1>1, <1>6 DEF Accepts
  <2>2. Presents(d, peer', terminal, selection, revision, timer, pty)
    BY <1>2, <1>9, <2>1 DEF Presents
  <2> QED
    BY <1>2, <1>9, <2>2 DEF Served, Remembers
<1>11. /\ phase' = phase /\ terminal' = terminal /\ selection' = selection
       /\ revision' = revision /\ timer' = timer /\ deferred' = deferred /\ pty' = pty
       /\ writes' = writes /\ clipboard' = clipboard /\ asked' = asked /\ reads' = reads
  BY DEF FlushWrite
<1>12. TypeOK'
  <2>1. client' \in Connection \cup {NoClient} /\ peer' \in Received
    BY <1>6, <1>8, <1>9
  <2> QED
    BY <1>11, <2>1 DEF Inv, TypeOK
<1>13. NeverContradicted' /\ ClosedPtyTakesNothing' /\ CopyForgotten'
  BY <1>8, <1>11 DEF Inv, NeverContradicted, ClosedPtyTakesNothing, CopyForgotten
<1>14. Served(client', peer', terminal', selection', revision', timer', pty')
  BY <1>8, <1>10, <1>11
<1>15. HoldsBack
  BY <1>2, <1>8, <1>9, ShownIsNext DEF HoldsBack
<1> QED
  BY <1>8, <1>12, <1>13, <1>14, <1>15 DEF Inv

-----------------------------------------------------------------------------
(***************************************************************************)
(* The invariant, and what follows from it.                                *)
(***************************************************************************)
LEMMA InitInv == Init => Inv
<1> SUFFICES ASSUME Init
             PROVE  Inv
  OBVIOUS
<1>1. NothingReceived \in Received /\ NoSelection \in Selection
  BY ClearPointerIs DEF NothingReceived, Received, NoSelection, Selection
<1>2. TypeOK
  <2>1. terminal \in [view : Nat, sync : BOOLEAN, scrolled : BOOLEAN, mode : Modes]
    <3>1. terminal \in [view : {0}, sync : {FALSE}, scrolled : {FALSE}, mode : Modes]
      BY DEF Init
    <3>2. /\ terminal = [view |-> terminal.view, sync |-> terminal.sync,
                         scrolled |-> terminal.scrolled, mode |-> terminal.mode]
          /\ terminal.view = 0 /\ terminal.sync \in {FALSE} /\ terminal.scrolled \in {FALSE}
          /\ terminal.mode \in Modes
      BY <3>1
    <3>3. \A x \in {FALSE} : x \in BOOLEAN
      OBVIOUS
    <3>4. terminal.view \in Nat
      BY <3>2
    <3>5. terminal.sync \in BOOLEAN /\ terminal.scrolled \in BOOLEAN
      BY <3>2, <3>3, Zenon
    <3> QED
      BY <3>2, <3>4, <3>5, Zenon
  <2>2. 0 \in 0 .. MaxWrites /\ 0 \in 0 .. MaxRequests /\ 0 \in 0 .. MaxReads
    BY SessionAssumption
  <2> QED
    BY <1>1, <2>1, <2>2 DEF Init, TypeOK, Phases, Selection
<1> QED
  BY <1>2 DEF Init, Inv, NeverContradicted, ClosedPtyTakesNothing, CopyForgotten, NoSelection

\* Every step keeps the invariant, and none shows held output.
LEMMA NextInv == Inv /\ [Next]_vars => Inv' /\ HoldsBack
<1> SUFFICES ASSUME Inv, [Next]_vars
             PROVE  Inv' /\ HoldsBack
  OBVIOUS
<1>1. CASE UNCHANGED vars
  <2>1. Inv'
    BY <1>1 DEF vars, Inv, TypeOK, NeverContradicted, ClosedPtyTakesNothing, CopyForgotten
  <2>2. HoldsBack
    BY <1>1, ShownIs, ShownIsNext DEF vars, HoldsBack
  <2> QED
    BY <2>1, <2>2
<1> QED
  BY <1>1, ExpireKeeps, TerminateKeeps, ChildExitedKeeps, TurnKeeps, FlushDeferredKeeps,
     AttachKeeps, ReadKeeps, ReadNothingKeeps, WritePtyKeeps, RequestKeeps, MalformedKeeps,
     PeerGoneKeeps, EndClientKeeps, FlushWriteKeeps, FlushEndKeeps, FinishEndKeeps
     DEF Next

\* The inductive invariant: the values of all variables, and what every
\* connection is owed, whatever the order of requests, output and writes.
THEOREM InvariantHolds == Spec => []Inv
BY InitInv, NextInv, PTL DEF Spec

\* Every variable has its type: the queue of a connection, and what its peer
\* has received, included.
THEOREM TypeCorrect == Spec => []TypeOK
<1>1. Inv => TypeOK
  BY DEF Inv
<1> QED
  BY <1>1, InvariantHolds, PTL

\* scroll, wheel and autoscroll never end the owner with a refused push: their
\* preflights keep their promise at the queue as they find it.
THEOREM PreflightsHold == Spec => []NeverContradicted
<1>1. Inv => NeverContradicted
  BY DEF Inv
<1> QED
  BY <1>1, InvariantHolds, PTL

\* Input is never queued behind the closing of the PTY, by a deferred request
\* either.
THEOREM ClosedPtyStaysEmpty == Spec => []ClosedPtyTakesNothing
<1>1. Inv => ClosedPtyTakesNothing
  BY DEF Inv
<1> QED
  BY <1>1, InvariantHolds, PTL

\* A gesture under way has nothing to copy, and no client inherits a selection.
THEOREM CopyIsForgotten == Spec => []CopyForgotten
<1>1. Inv => CopyForgotten
  BY DEF Inv
<1> QED
  BY <1>1, InvariantHolds, PTL

\* What the runs say of the queue, in the terms of Inv.
LEMMA MessagesAre ==
  client # NoClient =>
    /\ Messages = client.queue.messages
    /\ LastFrame = Newest(client, peer)
    /\ Shown = FramesIn(client)
BY DEF Messages, LastFrame, Newest, Shown, FramesIn, Framed

\* Without a client nothing is in flight.
LEMMA NoMessages ==
  client = NoClient /\ peer = NothingReceived =>
    Messages = <<>> /\ LastFrame.rev = -1 /\ Shown = {}
<1> SUFFICES ASSUME client = NoClient, peer = NothingReceived
             PROVE  Messages = <<>> /\ LastFrame.rev = -1 /\ Shown = {}
  OBVIOUS
<1>1. Messages = <<>> /\ Len(Messages) = 0
  BY DEF Messages
<1>2. LastOf(Messages, 0, FrameKinds) = 0
  <2>1. 0 \in Nat
    OBVIOUS
  <2>2. LastOf(Messages, 0, FrameKinds) \in 0 .. 0
    BY <2>1, LastOfFacts
  <2> QED
    BY <2>2
<1>3. LastFrame = peer.frame
  BY <1>1, <1>2 DEF LastFrame
<1> QED
  BY <1>1, <1>3 DEF NothingReceived, Shown

\* The frames of a connection have strictly increasing revisions, through every
\* path that sends one, and none is ahead of the authority.
THEOREM RevisionsAlwaysIncrease == Spec => []RevisionsIncrease
<1>1. Inv => RevisionsIncrease
  <2> SUFFICES ASSUME Inv
               PROVE  RevisionsIncrease
    OBVIOUS
  <2>1. CASE client = NoClient
    <3>1. Messages = <<>> /\ LastFrame.rev = -1 /\ Shown = {} /\ revision \in Nat
      BY <2>1, InvFacts, NoMessages
    <3> QED
      BY <3>1 DEF RevisionsIncrease
  <2>2. CASE client # NoClient
    <3> DEFINE ms == client.queue.messages
    <3>1. /\ Messages = ms /\ LastFrame = Newest(client, peer) /\ Shown = FramesIn(client)
          /\ RevisionsUpTo(client, peer, revision)
      BY <2>2, InvFacts, MessagesAre DEF Sound
    <3>2. /\ \A i, j \in Framed(ms) : i < j => ms[i].rev < ms[j].rev
          /\ \A i \in Framed(ms) : peer.frame.rev < ms[i].rev
          /\ Newest(client, peer).rev <= revision
      BY <3>1 DEF RevisionsUpTo
    <3>3. \A frame \in FramesIn(client) : peer.frame.rev < frame.rev
      BY <3>2 DEF FramesIn, FrameOf
    <3> HIDE DEF ms
    <3>4. \A i, j \in 1 .. Len(ms) :
            i < j /\ ms[i].kind \in FrameKinds /\ ms[j].kind \in FrameKinds
              => ms[i].rev < ms[j].rev
      BY <3>2 DEF Framed
    <3> QED
      BY <3>1, <3>2, <3>3, <3>4 DEF RevisionsIncrease
  <2> QED
    BY <2>1, <2>2
<1> QED
  BY <1>1, InvariantHolds, PTL

\* Whenever output is not held, the newest frame of an open connection shows the
\* terminal and the selection as they are: no change is left unpublished.
THEOREM AlwaysConverges == Spec => []Converges
<1>1. Inv => Converges
  <2> SUFFICES ASSUME Inv, Accepts(client), timer = "none"
               PROVE  /\ LastFrame.view = terminal.view
                      /\ selection.has => LastFrame.selected
    BY DEF Converges
  <2>1. client # NoClient
    BY DEF Accepts
  <2>2. LastFrame = Newest(client, peer)
    BY <2>1, MessagesAre
  <2>3. Presents(client, peer, terminal, selection, revision, timer, pty)
    BY <2>1, InvFacts
  <2> QED
    BY <2>2, <2>3 DEF Presents
<1> QED
  BY <1>1, InvariantHolds, PTL

\* Every completion names a revision that the newest frame reaches as soon as
\* output is not held.
THEOREM CompletionsConverge == Spec => []CompletionConverges
<1>1. Inv => CompletionConverges
  <2> SUFFICES ASSUME Inv, Accepts(client), timer = "none"
               PROVE  /\ peer.finished <= LastFrame.rev
                      /\ \A m \in Queued("SelectionFinished") : m.rev <= LastFrame.rev
    BY DEF CompletionConverges
  <2>1. client # NoClient
    BY DEF Accepts
  <2>2. LastFrame = Newest(client, peer) /\ Messages = client.queue.messages
    BY <2>1, MessagesAre
  <2>3. Reached(client, peer)
    BY <2>1, InvFacts DEF Presents
  <2> QED
    BY <2>2, <2>3 DEF Reached, Queued
<1> QED
  BY <1>1, InvariantHolds, PTL

\* A copy repeats the text frozen by the latest completion, whatever happened
\* to the terminal or the selection since.
THEOREM CopiesAreFrozen == Spec => []CopyIsFrozen
<1>1. Inv => CopyIsFrozen
  <2> SUFFICES ASSUME Inv
               PROVE  CopyIsFrozen
    OBVIOUS
  <2>1. CASE client = NoClient
    BY <2>1 DEF CopyIsFrozen, Messages
  <2>2. CASE client # NoClient
    <3>1. CopiesFrozen(client, peer) /\ Messages = client.queue.messages
      BY <2>2, InvFacts, MessagesAre DEF Sound
    <3> QED
      BY <3>1 DEF CopyIsFrozen, CopiesFrozen, FrozenText
  <2> QED
    BY <2>1, <2>2
<1> QED
  BY <1>1, InvariantHolds, PTL

\* A clipboard write precedes the frame of its own turn in the queue.
THEOREM ClipboardGoesFirst == Spec => []ClipboardBeforeFrame
<1>1. Inv => ClipboardBeforeFrame
  <2> SUFFICES ASSUME Inv
               PROVE  ClipboardBeforeFrame
    OBVIOUS
  <2>1. CASE client = NoClient
    BY <2>1 DEF ClipboardBeforeFrame, Messages
  <2>2. CASE client # NoClient
    <3>1. ClipsFirst(client) /\ Messages = client.queue.messages
      BY <2>2, InvFacts, MessagesAre DEF Sound
    <3> QED
      BY <3>1 DEF ClipboardBeforeFrame, ClipsFirst
  <2> QED
    BY <2>1, <2>2
<1> QED
  BY <1>1, InvariantHolds, PTL

\* Nothing new is presented while the child holds its output: every step that
\* leaves output held leaves no frame that was not waiting before it.
THEOREM HoldAlwaysHides == Spec => HoldHides
<1>1. Inv /\ [Next]_vars => [terminal'.sync => Shown' \subseteq Shown]_vars
  BY NextInv DEF HoldsBack
<1> QED
  BY <1>1, InvariantHolds, PTL DEF Spec, HoldHides
-----------------------------------------------------------------------------
(***************************************************************************)
(* The deferred request.  It is of a kind that may be deferred, and when   *)
(* its connection is closing the failure that closed it is the last thing  *)
(* that waits: a frame that the request is answered with would not be      *)
(* pushed to such a connection, but its client is told of the failure.     *)
(***************************************************************************)
Deferrable == {"Preview", "Scroll", "ReturnToLive", "AutoscrollUp"}

\* The last message that waits for c is of this kind.
LastIs(c, K) ==
  LET ms == c.queue.messages
  IN  ms # <<>> /\ ms[Len(ms)].kind \in K

Waits(slot, c, ph) ==
  slot # NoRequest =>
    /\ slot.kind \in Deferrable
    /\ c # NoClient /\ c.closing =>
         \/ LastIs(c, {"Failure"})
         \/ c.queue.messages = <<>> /\ ph \in {"flush", "finish"}

DeferInv == Waits(deferred, client, phase)

\* DeferralAnswered, of one step.
Resolves ==
  \/ deferred = NoRequest \/ phase' \in Endings
  \/ client' = NoClient /\ deferred' = NoRequest
  \/ IF deferred' = deferred
     THEN phase \in {"resolve", "resolveRead"} => Messages' = Messages
     ELSE /\ deferred' = NoRequest
          /\ Messages' # <<>>
          /\ Messages'[Len(Messages')].kind \in Answers(deferred)

\* A connection that is not closing, or none.
Unshut(c) ==
  c = NoClient \/ \E queue, initial :
                    c = [queue |-> queue, closing |-> FALSE, initial |-> initial]

\* A connection is open whatever becomes of its queue, or of its first frame.
LEMMA StaysOpen ==
  ASSUME NEW c, Unshut(c), c # NoClient, NEW queue, NEW initial
  PROVE  /\ Unshut([c EXCEPT !.queue = queue])
         /\ Unshut([c EXCEPT !.initial = initial])
<1> DEFINE no == FALSE
<1>1. PICK q, i : c = [queue |-> q, closing |-> no, initial |-> i]
  BY DEF Unshut
<1> HIDE DEF no
<1>2. /\ [c EXCEPT !.queue = queue] = [queue |-> queue, closing |-> no, initial |-> i]
      /\ [c EXCEPT !.initial = initial] = [queue |-> q, closing |-> no, initial |-> initial]
  BY <1>1
<1> QED
  BY <1>2 DEF Unshut, no

\* A push leaves an open connection open, or drops it,
LEMMA PushStaysOpen ==
  ASSUME NEW c, NEW m, Unshut(c)
  PROVE  Unshut(Push1(c, m))
<1> DEFINE queue == PushReplaceable(c.queue, m)
<1>1. CASE Push1(c, m) = NoClient
  BY <1>1 DEF Unshut
<1>2. CASE c # NoClient /\ Push1(c, m) = [c EXCEPT !.queue = queue]
  <2> HIDE DEF queue
  <2> QED
    <3>1. Unshut([c EXCEPT !.queue = queue])
      BY <1>2, StaysOpen
    <3> QED
      BY <1>2, <3>1
<1> QED
  BY <1>1, <1>2 DEF Push1

\* and so does the publication of a frame.
LEMMA PublishStaysOpen ==
  ASSUME NEW c, NEW rev, NEW t, NEW sel, NEW d \in Published(c, rev, t, sel), Unshut(c)
  PROVE  Unshut(d)
<1>1. CASE d = c \/ d = NoClient
  BY <1>1 DEF Unshut
<1>2. CASE d = PushFrame(c, rev, t, sel) /\ c # NoClient
  <2>1. Unshut([c EXCEPT !.initial = FALSE])
    BY <1>2, StaysOpen
  <2> QED
    BY <1>2, <2>1, PushStaysOpen DEF PushFrame
<1> QED
  BY <1>1, <1>2 DEF Published, Accepts

\* A connection that accepts is open.
LEMMA AcceptsIsOpen ==
  ASSUME NEW c \in Connection, ~c.closing
  PROVE  Unshut(c)
BY DEF Unshut, Connection

\* The last message after a push is the pushed one.
LEMMA PushedIsLast ==
  ASSUME Inv, client # NoClient, NEW m \in Output, Push1(client, m) # NoClient
  PROVE  /\ LastIs(Push1(client, m), {m.kind})
         /\ Push1(client, m) \in Connection
         /\ Push1(client, m).closing = client.closing
<1> DEFINE d == Push1(client, m)
<1>1. Typed(client, peer)
  BY InvFacts DEF Sound
<1>2. /\ Typed(d, peer) /\ d.closing = client.closing
      /\ Pushed(client.queue.messages, d.queue.messages, m)
  BY <1>1, Push1IsPush
<1> HIDE DEF d
<1>3. d.queue.messages \in Seq(Output)
  BY <1>2 DEF Typed, QueueOf
<1>4. LastIs(d, {m.kind})
  BY <1>2, <1>3 DEF Pushed, LastIs
<1> QED
  BY <1>2, <1>4 DEF Typed, d

-----------------------------------------------------------------------------
(***************************************************************************)
(* Steps that do not touch the request.                                    *)
(***************************************************************************)
\* A section that leaves the request alone, and a closing connection too.
LEMMA LeaveDefers ==
  ASSUME DeferInv, NEW next, NEW c, NEW sel, NEW rev,
         Leave(next, c, sel, rev, deferred),
         Unshut(c) \/ c = client,
         phase \notin {"resolve", "resolveRead", "flush", "finish"}
  PROVE  DeferInv' /\ Resolves
<1>1. /\ client' = c
      /\ deferred' = deferred \/ (client' = NoClient /\ deferred' = NoRequest)
  BY DEF Leave
<1>2. Resolves
  BY <1>1 DEF Resolves
<1>3. CASE deferred' = NoRequest
  BY <1>2, <1>3 DEF DeferInv, Waits
<1>4. CASE deferred' = deferred /\ Unshut(c)
  BY <1>1, <1>2, <1>4 DEF DeferInv, Waits, Unshut
<1>5. CASE deferred' = deferred /\ c = client
  BY <1>1, <1>2, <1>5 DEF DeferInv, Waits
<1> QED
  BY <1>1, <1>2, <1>3, <1>4, <1>5

\* A step that leaves the request and the connection as they are.
LEMMA QuietDefers ==
  ASSUME DeferInv, deferred' = deferred, client' = client,
         phase \in {"flush", "finish"} => phase' \in {"flush", "finish"}
  PROVE  DeferInv' /\ Resolves
BY DEF DeferInv, Waits, Resolves, Messages

\* The end of run.
LEMMA DieDefers ==
  ASSUME NEW ending, Die(ending)
  PROVE  DeferInv' /\ Resolves
BY DEF Die, DeferInv, Waits, Resolves

\* Publication to the connection as it is.
LEMMA PublishDefers ==
  ASSUME Inv, NEW rev, NEW t, NEW sel, NEW c \in Published(client, rev, t, sel)
  PROVE  Unshut(c) \/ c = client
<1>1. CASE ~Accepts(client)
  BY <1>1 DEF Published
<1>2. CASE Accepts(client)
  <2>1. Unshut(client)
    BY <1>2, AcceptsIsOpen DEF Accepts, Inv, TypeOK
  <2> QED
    BY <2>1, PublishStaysOpen
<1> QED
  BY <1>1, <1>2

\* Clipboard writes and a frame.
LEMMA OutputDefers ==
  ASSUME Inv, NEW n \in Nat, NEW rev \in Nat, revision <= rev,
         client # NoClient => Newest(client, peer).rev < rev,
         NEW t, NEW sel, NEW d,
         \/ d = PublishClips(client, n, rev)
         \/ d \in Published(PublishClips(client, n, rev), rev, t, sel)
  PROVE  Unshut(d) \/ d = client
<1> DEFINE c == PublishClips(client, n, rev)
<1>1. CASE ~Accepts(client)
  BY <1>1 DEF PublishClips, Published
<1>2. CASE Accepts(client)
  <2>1. Unshut(c)
    <3>1. CASE c = NoClient
      BY <3>1 DEF Unshut
    <3>2. CASE c # NoClient
      <4>1. Sound(client, peer, revision) /\ revision \in Nat
        BY <1>2, InvFacts DEF Accepts
      <4>2. client # NoClient /\ ~client.closing /\ Newest(client, peer).rev < rev
        BY <1>2 DEF Accepts
      <4>3. Sound(c, peer, rev) /\ c.closing = client.closing
        BY <3>2, <4>1, <4>2, ClipsAreSound
      <4> HIDE DEF c
      <4> QED
        BY <4>2, <4>3, AcceptsIsOpen DEF Sound, Typed
    <3> QED
      BY <3>1, <3>2
  <2> QED
    BY <2>1, PublishStaysOpen
<1> QED
  BY <1>1, <1>2

-----------------------------------------------------------------------------
(***************************************************************************)
(* A request of an open connection: it leaves the deferred one alone, or   *)
(* is deferred itself, and only a failure closes the connection.           *)
(***************************************************************************)
Stays(def) ==
  \/ client' = NoClient /\ deferred' = NoRequest
  \/ /\ client' # NoClient /\ deferred' = def
     /\ client'.closing => LastIs(client', {"Failure"})

Deferred(req, def) ==
  /\ client' = client /\ deferred' = req
  /\ req.kind \in Deferrable /\ terminal.sync /\ def = NoRequest

\* A handler that leaves the connection open.
LEMMA OpenSettles ==
  ASSUME Accepts(client), NEW c, Unshut(c), NEW sel, NEW rev, NEW def, Settle(c, sel, rev, def)
  PROVE  Stays(def)
<1>1. client # NoClient
  BY DEF Accepts
<1>2. client' = c /\ deferred' = IF c = NoClient THEN NoRequest ELSE def
  BY <1>1 DEF Settle, Leave
<1>3. c # NoClient => c.closing = FALSE
  BY DEF Unshut
<1> QED
  BY <1>2, <1>3 DEF Stays

\* One response.
LEMMA PushSettles ==
  ASSUME Inv, Accepts(client), NEW m, NEW sel, NEW rev, NEW def,
         Settle(Push1(client, m), sel, rev, def)
  PROVE  Stays(def)
<1>1. Unshut(client)
  BY AcceptsIsOpen DEF Accepts, Inv, TypeOK
<1> QED
  BY <1>1, PushStaysOpen, OpenSettles

\* A failure, with or without the end of the gesture.
LEMMA FailSettles ==
  ASSUME Inv, Accepts(client), NEW def, Fail(def) \/ ClearAndFail(def)
  PROVE  Stays(def)
BY PushSettles DEF Fail, ClearAndFail, Reply

\* A failure that closes.
LEMMA CloseSettles ==
  ASSUME Inv, client # NoClient, NEW def, FailAndClose(def)
  PROVE  Stays(def)
<1> DEFINE m == Small("Failure", 0)
           c == Push1(client, m)
           d == IF c = NoClient THEN c ELSE [c EXCEPT !.closing = TRUE]
<1>1. m \in Output /\ m.kind = "Failure"
  BY SmallType DEF Kinds
<1>2. Settle(d, selection, revision, def)
  BY DEF FailAndClose
<1>3. client' = d /\ deferred' = IF d = NoClient THEN NoRequest ELSE def
  BY <1>2 DEF Settle, Leave
<1> HIDE DEF m
<1>4. CASE c = NoClient
  BY <1>3, <1>4 DEF Stays
<1>5. CASE c # NoClient
  <2>1. c \in Connection /\ LastIs(c, {m.kind})
    BY <1>1, <1>5, PushedIsLast
  <2> HIDE DEF c
  <2>2. d \in Connection /\ d.queue = c.queue
    BY <1>5, <2>1, ClaimedIsConnection
  <2> HIDE DEF d
  <2>3. LastIs(d, {"Failure"})
    BY <1>1, <2>1, <2>2 DEF LastIs
  <2>4. d # NoClient
    BY <2>2, ConnectionIsClient
  <2> QED
    BY <1>3, <2>3, <2>4 DEF Stays
<1> QED
  BY <1>4, <1>5

\* A response and a frame.
LEMMA AnswerSettles ==
  ASSUME Inv, Accepts(client), NEW m, NEW t, NEW sel, NEW rev, NEW def,
         ReplyAndPublish(m, t, sel, rev, def)
  PROVE  Stays(def)
<1>1. Unshut(Push1(client, m))
  BY AcceptsIsOpen, PushStaysOpen DEF Accepts, Inv, TypeOK
<1>2. PICK d \in Published(Push1(client, m), rev, t, sel) : Settle(d, sel, rev, def)
  BY DEF ReplyAndPublish
<1> QED
  BY <1>1, <1>2, PublishStaysOpen, OpenSettles

\* An outcome with its frame.
LEMMA OutcomeSettles ==
  ASSUME Inv, Accepts(client), NEW kind, NEW size, NEW t, NEW sel, NEW def,
         PushOutcome(kind, size, t, sel, def)
  PROVE  Stays(def)
<1>1. ASSUME NEW ending, Die(ending)
      PROVE  Stays(def)
  BY <1>1 DEF Die, Stays
<1> QED
  BY <1>1, PushSettles DEF PushOutcome

\* The one slot.
LEMMA DeferSettles ==
  ASSUME Inv, Accepts(client), NEW req, NEW def, Defer(req, def),
         req.kind \in Deferrable, terminal.sync
  PROVE  Stays(def) \/ Deferred(req, def)
<1>1. CASE Fail(def)
  BY <1>1, FailSettles
<1>2. CASE def = NoRequest /\ Settle(client, selection, revision, req)
  BY <1>2 DEF Settle, Leave, Deferred, Accepts
<1> QED
  BY <1>1, <1>2 DEF Defer

\* A host phase of a gesture.
LEMMA HostSettles ==
  ASSUME Inv, Accepts(client), NEW req, NEW def, HostPhase(req, def)
  PROVE  Stays(def)
<1>1. CASE Fail(def) \/ ClearAndFail(def)
  BY <1>1, FailSettles
<1> DEFINE rev == revision + 1
           t == [terminal EXCEPT !.view = @ + 1]
           finishing == req.kind = "Finish"
           queue == SupersedePendingFrame(client.queue)
           c0 == [client EXCEPT !.queue = queue]
           m == IF finishing THEN Small("SelectionFinished", rev) ELSE Small("Accepted", 0)
<1>2. ASSUME NEW has \in BOOLEAN, NEW sel, NEW c2 \in Published(Push1(c0, m), rev, t, sel),
             Settle(IF finishing /\ has THEN Push1(c2, Text("CopiedSelection", sel.copied)) ELSE c2,
                    sel, rev, def)
      PROVE  Stays(def)
  <2>1. Unshut(c0)
    <3>1. Unshut(client) /\ client # NoClient
      BY AcceptsIsOpen DEF Accepts, Inv, TypeOK
    <3> HIDE DEF queue
    <3> QED
      BY <3>1, StaysOpen
  <2> HIDE DEF c0, m, t, rev, finishing
  <2>2. Unshut(c2)
    BY <1>2, <2>1, PushStaysOpen, PublishStaysOpen
  <2>3. Unshut(Push1(c2, Text("CopiedSelection", sel.copied)))
    BY <2>2, PushStaysOpen
  <2> QED
    BY <1>2, <2>2, <2>3, OpenSettles
<1> QED
  BY <1>1, <1>2 DEF HostPhase

\* A phase that goes to the application.
LEMMA TerminalSettles ==
  ASSUME Inv, Accepts(client), NEW req, NEW def, TerminalPhase(req, def)
  PROVE  Stays(def)
<1>1. client # NoClient
  BY DEF Accepts
<1>2. CASE Fail(def) \/ FailAndClose(def)
  BY <1>1, <1>2, FailSettles, CloseSettles
<1>3. ASSUME NEW m, NEW t, NEW sel, NEW rev, ReplyAndPublish(m, t, sel, rev, def)
      PROVE  Stays(def)
  BY <1>3, AnswerSettles
<1>4. ASSUME NEW m, NEW sel, NEW rev, Settle(Push1(client, m), sel, rev, def)
      PROVE  Stays(def)
  BY <1>4, PushSettles
<1> QED
  BY <1>2, <1>3, <1>4 DEF TerminalPhase

\* Every handler.
LEMMA HandleSettles ==
  ASSUME Inv, Accepts(client), NEW req, NEW def, Handle(req, def)
  PROVE  Stays(def) \/ Deferred(req, def)
<1>1. client # NoClient
  BY DEF Accepts
<1>2. CASE Fail(def) \/ ClearAndFail(def) \/ FailAndClose(def)
  BY <1>1, <1>2, FailSettles, CloseSettles
<1>3. ASSUME NEW m, NEW t, NEW sel, NEW rev, ReplyAndPublish(m, t, sel, rev, def)
      PROVE  Stays(def)
  BY <1>3, AnswerSettles
<1>4. ASSUME NEW m, NEW sel, NEW rev, Settle(Push1(client, m), sel, rev, def)
      PROVE  Stays(def)
  BY <1>4, PushSettles
<1>5. ASSUME NEW kind, NEW size, NEW t, NEW sel, PushOutcome(kind, size, t, sel, def)
      PROVE  Stays(def)
  BY <1>5, OutcomeSettles
<1>6. CASE req.kind \in {"Key", "Input"} /\ HandleInput(req, def)
  BY <1>2, <1>3, <1>4, <1>6 DEF HandleInput
<1>7. CASE HandleResize(def)
  BY <1>3, <1>7 DEF HandleResize
<1>8. CASE req.kind = "Preview" /\ HandlePreview(req, def)
  BY <1>2, <1>4, <1>8, DeferSettles DEF HandlePreview, Reply, Deferrable
<1>9. CASE req.kind = "Scroll" /\ HandleScroll(req, def)
  BY <1>2, <1>4, <1>5, <1>9, DeferSettles DEF HandleScroll, Reply, Deferrable
<1>10. CASE req.kind = "ReturnToLive" /\ HandleReturnToLive(req, def)
  <2>1. ASSUME NEW sel, NEW rev, NEW c \in Published(client, rev, Live, sel),
               Settle(c, sel, rev, def)
        PROVE  Stays(def)
    <3>1. Unshut(client)
      BY AcceptsIsOpen DEF Accepts, Inv, TypeOK
    <3> QED
      BY <2>1, <3>1, PublishStaysOpen, OpenSettles
  <2> QED
    BY <1>2, <1>10, <2>1, DeferSettles DEF HandleReturnToLive, Deferrable
<1>11. CASE HandleWheel(req, def)
  BY <1>2, <1>4, <1>5, <1>11 DEF HandleWheel
<1>12. CASE HandleCancel(def)
  BY <1>2, <1>3, <1>12 DEF HandleCancel
<1>13. CASE HandleCopy(def)
  BY <1>2, <1>4, <1>13 DEF HandleCopy, Reply
<1>14. CASE req.kind = "AutoscrollUp" /\ HandleAutoscroll(req, def)
  BY <1>2, <1>5, <1>14, DeferSettles DEF HandleAutoscroll, Deferrable
<1>15. CASE HandlePointer(req, def)
  BY <1>2, <1>15, HostSettles, TerminalSettles DEF HandlePointer
<1> QED
  BY <1>2, <1>6, <1>7, <1>8, <1>9, <1>10, <1>11, <1>12, <1>13, <1>14, <1>15 DEF Handle

-----------------------------------------------------------------------------
(***************************************************************************)
(* The answer of a deferred request, when the hold has ended.              *)
(***************************************************************************)
Answered(req) ==
  /\ deferred' = NoRequest
  /\ phase' \in Endings \/ client' = NoClient \/ LastIs(client', Answers(req))

\* One response.
LEMMA PushAnswers ==
  ASSUME Inv, client # NoClient, NEW req, NEW m \in Output, m.kind \in Answers(req),
         NEW sel, NEW rev, Settle(Push1(client, m), sel, rev, NoRequest)
  PROVE  Answered(req)
<1> DEFINE c == Push1(client, m)
<1>1. client' = c /\ deferred' = NoRequest
  BY DEF Settle, Leave
<1>2. c # NoClient => LastIs(c, {m.kind})
  BY PushedIsLast
<1> HIDE DEF c
<1> QED
  BY <1>1, <1>2 DEF Answered, LastIs

\* A failure.
LEMMA FailAnswers ==
  ASSUME Inv, client # NoClient, NEW req, req.kind \in Deferrable,
         Fail(NoRequest) \/ ClearAndFail(NoRequest)
  PROVE  Answered(req)
<1>1. Small("Failure", 0) \in Output /\ Small("Failure", 0).kind = "Failure"
  BY SmallType DEF Kinds
<1>2. "Failure" \in Answers(req)
  BY DEF Answers
<1> QED
  BY <1>1, <1>2, PushAnswers DEF Fail, ClearAndFail, Reply

\* A frame that is published, or the failure that closed the connection.
LEMMA PublishAnswers ==
  ASSUME Inv, client # NoClient, NEW req, req.kind = "ReturnToLive",
         client.closing => LastIs(client, {"Failure"}),
         NEW rev \in Nat, NEW t \in Terminal, ~t.sync, NEW sel \in Selection,
         NEW c \in Published(client, rev, t, sel), Settle(c, sel, rev, NoRequest)
  PROVE  Answered(req)
<1>1. client' = c /\ deferred' = NoRequest
  BY DEF Settle, Leave
<1>2. Answers(req) = {"Failure", "Frame"}
  BY DEF Answers
<1>3. CASE c = NoClient
  BY <1>1, <1>3 DEF Answered
<1>4. CASE client.closing
  <2>1. c = client
    BY <1>4 DEF Published, Accepts
  <2> QED
    BY <1>1, <1>2, <1>4, <2>1 DEF Answered, LastIs
<1>5. CASE c # NoClient /\ ~client.closing
  <2> DEFINE b == [client EXCEPT !.initial = FALSE]
             m == WithFrame("Frame", IF client.initial THEN "Ordered" ELSE "Frame",
                            MaxFrameBytes + HeaderBytes, rev, t, sel)
  <2>1. c = Push1(b, m)
    BY <1>5 DEF Published, Accepts, PushFrame
  <2>2. m \in Output /\ m.kind = "Frame"
    <3>1. MaxFrameBytes + HeaderBytes \in Nat \ {0}
      BY LimitsAssumption
    <3> QED
      BY <3>1, FrameType DEF FrameKinds
  <2>3. Typed(b, peer)
    <3>1. Typed(client, peer)
      BY InvFacts DEF Sound
    <3>2. b \in Connection /\ b.queue = client.queue
      BY <3>1, ClaimedIsConnection DEF Typed
    <3> QED
      BY <3>1, <3>2 DEF Typed
  <2> HIDE DEF b, m
  <2>4. /\ Typed(c, peer)
        /\ Pushed(b.queue.messages, c.queue.messages, m)
    BY <1>5, <2>1, <2>2, <2>3, Push1IsPush
  <2>5. c.queue.messages \in Seq(Output)
    BY <2>4 DEF Typed, QueueOf
  <2>6. LastIs(c, {"Frame"})
    BY <2>2, <2>4, <2>5 DEF Pushed, LastIs
  <2> QED
    BY <1>1, <1>2, <2>6 DEF Answered, LastIs
<1> QED
  BY <1>3, <1>4, <1>5

\* A deferred request that is served is answered, as its kind demands or with a failure.
LEMMA HandleAnswers ==
  ASSUME Inv, client # NoClient, ~terminal.sync, NEW req, req.kind \in Deferrable,
         client.closing => LastIs(client, {"Failure"}),
         Handle(req, NoRequest)
  PROVE  Answered(req)
<1>1. terminal \in Terminal /\ selection \in Selection /\ revision \in Nat
  BY InvFacts
<1>2. CASE Fail(NoRequest) \/ ClearAndFail(NoRequest)
  BY <1>2, FailAnswers
<1>3. CASE req.kind = "Preview" /\ HandlePreview(req, NoRequest)
  <2>1. Preview(revision) \in Output /\ Preview(revision).kind = "Preview"
    BY <1>1, PreviewType
  <2>2. "Preview" \in Answers(req)
    BY <1>3 DEF Answers
  <2> QED
    BY <1>2, <1>3, <2>1, <2>2, PushAnswers DEF HandlePreview, Reply
<1>4. ASSUME NEW t \in Terminal, NEW sel \in Selection, req.kind \in {"Scroll", "AutoscrollUp"},
             PushOutcome("ScrollOutcome", MaxPayloadBytes, t, sel, NoRequest)
      PROVE  Answered(req)
  <2> DEFINE rev == revision + 1
             size == MaxPayloadBytes + HeaderBytes
             m == WithFrame("ScrollOutcome", "ScrollOutcome", size, rev, t, sel)
  <2>1. m \in Output /\ m.kind = "ScrollOutcome"
    <3>1. size \in Nat \ {0} /\ rev \in Nat
      BY <1>1, LimitsAssumption
    <3> HIDE DEF rev, size
    <3>2. "ScrollOutcome" \in FrameKinds
          /\ "ScrollOutcome" \in {"Ordered", "Frame", "ScrollOutcome"}
      BY DEF FrameKinds
    <3> QED
      BY <3>1, <3>2, <1>4, FrameType
  <2>2. "ScrollOutcome" \in Answers(req)
    BY <1>4 DEF Answers
  <2>3. CASE Die("failed") \/ Die("contradicted")
    BY <2>3 DEF Die, Endings, Answered
  <2>4. CASE Settle(Push1(client, m), sel, revision + 1, NoRequest)
    <3> HIDE DEF m
    <3> QED
      BY <2>1, <2>2, <2>4, PushAnswers
  <2> QED
    BY <1>4, <2>3, <2>4 DEF PushOutcome
<1>5. CASE req.kind = "Scroll" /\ HandleScroll(req, NoRequest)
  <2>1. Small("TerminalOwned", 0) \in Output /\ Small("TerminalOwned", 0).kind = "TerminalOwned"
    BY SmallType DEF Kinds
  <2>2. "TerminalOwned" \in Answers(req)
    BY <1>5 DEF Answers
  <2>3. CASE Reply(Small("TerminalOwned", 0), NoRequest)
    BY <2>1, <2>2, <2>3, PushAnswers DEF Reply
  <2>4. \A t \in Scrolled(req.up) : t \in Terminal
    BY <1>1, TerminalIs
  <2>5. ClearSelection(selection, FALSE) \in Selection
    BY <1>1, ClearPointerIs
  <2> QED
    BY <1>2, <1>4, <1>5, <2>3, <2>4, <2>5 DEF HandleScroll
<1>6. CASE req.kind = "ReturnToLive" /\ HandleReturnToLive(req, NoRequest)
  <2>1. Live \in Terminal /\ ~Live.sync
    BY <1>1, TerminalIs
  <2>2. ClearSelection(selection, FALSE) \in Selection
    BY <1>1, ClearPointerIs
  <2>3. revision + 1 \in Nat
    BY <1>1
  <2> QED
    BY <1>2, <1>6, <2>1, <2>2, <2>3, PublishAnswers DEF HandleReturnToLive
<1>7. CASE req.kind = "AutoscrollUp" /\ HandleAutoscroll(req, NoRequest)
  <2>1. \A t \in Scrolled(TRUE) : [t EXCEPT !.view = terminal.view + 1] \in Terminal
    BY <1>1, TerminalIs
  <2>2. \A has \in BOOLEAN : [selection EXCEPT !.has = has] \in Selection
    BY <1>1 DEF Selection
  <2> QED
    BY <1>2, <1>4, <1>7, <2>1, <2>2 DEF HandleAutoscroll
<1> QED
  BY <1>2, <1>3, <1>5, <1>6, <1>7 DEF Handle, Deferrable

-----------------------------------------------------------------------------
(***************************************************************************)
(* Every step.                                                             *)
(***************************************************************************)
\* A request of the client.
LEMMA RequestDefers ==
  ASSUME Inv, DeferInv, HandleRequest
  PROVE  DeferInv' /\ Resolves
<1>1. PICK req \in Requests : Handle(req, deferred)
  BY DEF HandleRequest
<1>2. phase = "client" /\ Accepts(client)
  BY DEF HandleRequest
<1>3. CASE Stays(deferred)
  BY <1>2, <1>3 DEF Stays, DeferInv, Waits, Resolves
<1>4. CASE Deferred(req, deferred)
  BY <1>2, <1>4 DEF Deferred, DeferInv, Waits, Resolves, Accepts
<1> QED
  BY <1>1, <1>2, <1>3, <1>4, HandleSettles

\* Bytes that are no request.
LEMMA MalformedDefers ==
  ASSUME Inv, DeferInv, Malformed
  PROVE  DeferInv' /\ Resolves
<1>1. phase = "client" /\ client # NoClient /\ FailAndClose(deferred)
  BY DEF Malformed, Accepts
<1>2. Stays(deferred)
  BY <1>1, CloseSettles
<1> QED
  BY <1>1, <1>2 DEF Stays, DeferInv, Waits, Resolves

\* The deferred request is served, or waits on.
LEMMA FlushDeferredDefers ==
  ASSUME Inv, DeferInv, FlushDeferred
  PROVE  DeferInv' /\ Resolves
<1>1. phase \in {"resolve", "resolveRead"}
  BY DEF FlushDeferred
<1>2. CASE Skip
  BY <1>1, <1>2, QuietDefers DEF Skip
<1>3. CASE client = NoClient /\ Settle(client, selection, revision, NoRequest)
  BY <1>3 DEF Settle, Leave, DeferInv, Waits, Resolves
<1>4. CASE /\ ~terminal.sync /\ deferred # NoRequest /\ client # NoClient
           /\ Handle(deferred, NoRequest)
  <2>1. deferred.kind \in Deferrable /\ (client.closing => LastIs(client, {"Failure"}))
    BY <1>1, <1>4 DEF DeferInv, Waits
  <2>2. Answered(deferred)
    BY <1>4, <2>1, HandleAnswers
  <2>3. DeferInv'
    BY <2>2 DEF Answered, DeferInv, Waits
  <2>4. Resolves
    BY <1>4, <2>2 DEF Answered, Resolves, LastIs, Messages
  <2> QED
    BY <2>3, <2>4
<1> QED
  BY <1>2, <1>3, <1>4 DEF FlushDeferred

\* The hold is released, or not.
LEMMA TurnDefers ==
  ASSUME Inv, DeferInv, Turn
  PROVE  DeferInv' /\ Resolves
<1>1. phase = "top"
  BY DEF Turn
<1>2. CASE Skip
  BY <1>1, <1>2, QuietDefers DEF Skip
<1>3. ASSUME NEW t, NEW c \in Published(client, revision, t, selection),
             Settle(c, selection, revision, deferred)
      PROVE  DeferInv' /\ Resolves
  <2>1. Unshut(c) \/ c = client
    BY <1>3, PublishDefers
  <2> QED
    BY <1>1, <1>3, <2>1, LeaveDefers DEF Settle
<1> QED
  BY <1>2, <1>3 DEF Turn

\* A client attaches.
LEMMA AttachDefers ==
  ASSUME Inv, DeferInv, Attach
  PROVE  DeferInv' /\ Resolves
<1> DEFINE c0 == Push1(NewClient, Small("Attached", 0))
<1>1. Unshut(c0)
  <2>1. Unshut(NewClient)
    BY DEF Unshut, NewClient
  <2> QED
    BY <2>1, PushStaysOpen
<1>2. PICK c \in Published(c0, revision, terminal, selection) :
        Leave("read", c, selection, revision, deferred)
  BY DEF Attach
<1>3. Unshut(c)
  BY <1>1, <1>2, PublishStaysOpen
<1>4. phase = "read"
  BY DEF Attach
<1> QED
  BY <1>2, <1>3, <1>4, LeaveDefers

\* The child writes.
LEMMA ReadDefers ==
  ASSUME Inv, DeferInv, Read
  PROVE  DeferInv' /\ Resolves
<1> DEFINE rev == Changed(revision)
<1>1. CASE Die("overflowed")
  BY <1>1, DieDefers
<1>2. ASSUME NEW t, NEW n \in Captured(clipboard), NEW sel,
             NEW c \in Published(PublishClips(client, n, rev), rev, t, sel),
             Settle(c, sel, rev, deferred)
      PROVE  DeferInv' /\ Resolves
  <2>1. n \in Nat /\ phase = "read"
    BY <1>2, SessionAssumption DEF Captured, Read
  <2>2. /\ rev \in Nat /\ revision <= rev
        /\ client # NoClient => Newest(client, peer).rev < rev
    BY ChangedIs
  <2> HIDE DEF rev
  <2>3. Unshut(c) \/ c = client
    BY <1>2, <2>1, <2>2, OutputDefers
  <2> QED
    BY <1>2, <2>1, <2>3, LeaveDefers DEF Settle
<1> QED
  BY <1>1, <1>2 DEF Read

\* The PTY is not read, or finds its end.
LEMMA ReadNothingDefers ==
  ASSUME DeferInv, ReadNothing
  PROVE  DeferInv' /\ Resolves
BY QuietDefers DEF ReadNothing, Skip

\* The PTY is written.
LEMMA WritePtyDefers ==
  ASSUME DeferInv, WritePty
  PROVE  DeferInv' /\ Resolves
<1>1. phase = "write"
  BY DEF WritePty
<1>2. CASE Skip
  BY <1>1, <1>2, QuietDefers DEF Skip
<1>3. ASSUME NEW sel, NEW rev, Settle(client, sel, rev, deferred)
      PROVE  DeferInv' /\ Resolves
  BY <1>1, <1>3, LeaveDefers DEF Settle
<1> QED
  BY <1>2, <1>3 DEF WritePty

\* The child has exited.
LEMMA ChildExitedDefers ==
  ASSUME Inv, DeferInv, ChildExited
  PROVE  DeferInv' /\ Resolves
<1>1. phase = "top"
  BY DEF ChildExited
<1>2. CASE Die("overflowed")
  BY <1>2, DieDefers
<1>3. ASSUME NEW n \in Captured(Accepts(client)), NEW drained \in BOOLEAN, n > 0 => drained,
             NEW sel, NEW rev, NEW t, NEW d,
             rev = IF selection.has \/ drained THEN Changed(revision) ELSE revision,
             \/ d = PublishClips(client, n, rev)
             \/ d \in Published(PublishClips(client, n, rev), rev, t, sel),
             Leave("finish",
                   IF Accepts(d) /\ Fits(d.queue, Small("Exited", 0))
                   THEN Push1(d, Small("Exited", 0)) ELSE d, sel, rev, deferred)
      PROVE  DeferInv' /\ Resolves
  <2> DEFINE e == IF Accepts(d) /\ Fits(d.queue, Small("Exited", 0))
                  THEN Push1(d, Small("Exited", 0)) ELSE d
  <2>1. n \in Nat
    BY <1>3, SessionAssumption DEF Captured
  <2>2. Unshut(d) \/ d = client
    <3>1. CASE selection.has \/ drained
      <4>1. /\ rev \in Nat /\ revision <= rev
            /\ client # NoClient => Newest(client, peer).rev < rev
        BY <1>3, <3>1, ChangedIs
      <4> QED
        BY <1>3, <2>1, <4>1, OutputDefers
    <3>2. CASE ~drained
      <4>1. n = 0
        BY <1>3, <2>1, <3>2
      <4>2. PublishClips(client, n, rev) = client
        BY <4>1, PushesRecur, SessionAssumption DEF PublishClips
      <4> QED
        BY <1>3, <4>2, PublishDefers
    <3> QED
      BY <3>1, <3>2
  <2>3. Unshut(e) \/ e = client
    <3>1. CASE Unshut(d)
      BY <3>1, PushStaysOpen
    <3>2. CASE d = client /\ ~Accepts(client)
      BY <3>2
    <3>3. CASE d = client /\ Accepts(client)
      BY <3>3, AcceptsIsOpen, PushStaysOpen DEF Accepts, Inv, TypeOK
    <3> QED
      BY <2>2, <3>1, <3>2, <3>3
  <2>4. Leave("finish", e, sel, rev, deferred)
    BY <1>3
  <2> HIDE DEF e
  <2> QED
    BY <1>1, <2>3, <2>4, LeaveDefers
<1> DEFINE sel0 == ClearPointer(selection, TRUE)
<1>4. CASE ~Die("overflowed")
  <2>1. PICK drained \in BOOLEAN, n \in Captured(Accepts(client)) :
          /\ n > 0 => drained
          /\ LET changed == selection.has \/ drained
                 rev == IF changed THEN Changed(revision) ELSE revision
                 live == [terminal EXCEPT !.view = IF drained THEN @ + 1 ELSE @,
                                          !.sync = FALSE]
                 c == PublishClips(client, n, rev)
             IN  \E d \in IF changed \/ timer # "none"
                          THEN Published(c, rev, live, sel0) ELSE {c} :
                   Leave("finish",
                         IF Accepts(d) /\ Fits(d.queue, Small("Exited", 0))
                         THEN Push1(d, Small("Exited", 0)) ELSE d,
                         sel0, rev, deferred)
    BY <1>4 DEF ChildExited
  <2> DEFINE rev == IF selection.has \/ drained THEN Changed(revision) ELSE revision
             live == [terminal EXCEPT !.view = IF drained THEN @ + 1 ELSE @, !.sync = FALSE]
             c == PublishClips(client, n, rev)
  <2>2. PICK d \in IF selection.has \/ drained \/ timer # "none"
                   THEN Published(c, rev, live, sel0) ELSE {c} :
          Leave("finish",
                IF Accepts(d) /\ Fits(d.queue, Small("Exited", 0))
                THEN Push1(d, Small("Exited", 0)) ELSE d,
                sel0, rev, deferred)
    BY <2>1
  <2>3. d = c \/ d \in Published(c, rev, live, sel0)
    BY <2>2
  <2>4. rev = IF selection.has \/ drained THEN Changed(revision) ELSE revision
    OBVIOUS
  <2> HIDE DEF rev, live, sel0
  <2> QED
    BY <1>3, <2>1, <2>2, <2>3, <2>4
<1> QED
  BY <1>2, <1>4

\* The peer closes, and what is left of the flush.
LEMMA FlushDefers ==
  ASSUME Inv, DeferInv, PeerGone \/ FlushEnd
  PROVE  DeferInv' /\ Resolves
<1>1. phase \in {"client", "flush"} /\ (FlushEnd => phase = "flush")
  BY DEF PeerGone, FlushEnd
<1>2. CASE PeerGone
  <2>1. client' = NoClient /\ deferred' = NoRequest
    BY <1>2 DEF PeerGone, Settle, Leave
  <2> QED
    BY <2>1 DEF DeferInv, Waits, Resolves
<1>3. CASE FlushEnd /\ client # NoClient /\ client.closing /\ client.queue.messages = <<>>
  <2>1. client' = NoClient /\ deferred' = NoRequest
    BY <1>3 DEF FlushEnd, Leave
  <2> QED
    BY <2>1 DEF DeferInv, Waits, Resolves
<1>4. CASE FlushEnd /\ ~(client # NoClient /\ client.closing /\ client.queue.messages = <<>>)
  <2>1. client' = client /\ deferred' = deferred /\ phase = "flush"
    BY <1>1, <1>4 DEF FlushEnd, Leave
  <2> QED
    BY <1>4, <2>1 DEF DeferInv, Waits, Resolves
<1> QED
  BY <1>2, <1>3, <1>4

\* A write takes the head, or a part of it.
LEMMA FlushWriteDefers ==
  ASSUME Inv, DeferInv, NEW n \in 1 .. MaxOutputBytes, FlushWrite(n)
  PROVE  DeferInv' /\ Resolves
<1> DEFINE ms == client.queue.messages
           r == Write(client.queue, n)
<1>1. /\ phase \in {"flush", "finish"} /\ phase' = phase /\ deferred' = deferred
      /\ client # NoClient /\ ms # <<>>
      /\ client' = [client EXCEPT !.queue = r]
  BY DEF FlushWrite
<1>2. client \in Connection /\ ms \in Seq(Sent)
  BY <1>1 DEF Inv, TypeOK, Connection
<1>3. r.messages = Tail(ms) \/ r.messages = ms
  BY DEF Write
<1> HIDE DEF r
<1>4. client'.queue = r /\ client'.closing = client.closing
  BY <1>1, <1>2 DEF Connection
<1>5. LastIs(client, {"Failure"}) =>
        LastIs(client', {"Failure"}) \/ client'.queue.messages = <<>>
  <2> DEFINE ns == client'.queue.messages
  <2>1. ns = Tail(ms) \/ ns = ms
    BY <1>3, <1>4
  <2> HIDE DEF ns, ms
  <2>2. CASE ns = Tail(ms) /\ ns # <<>>
    <3>1. Len(ns) = Len(ms) - 1 /\ Len(ns) \in Nat \ {0} /\ ns[Len(ns)] = ms[Len(ms)]
      BY <1>1, <1>2, <2>2
    <3> QED
      BY <2>2, <3>1 DEF LastIs, ns, ms
  <2> QED
    BY <2>1, <2>2 DEF LastIs, ns, ms
<1> QED
  BY <1>1, <1>4, <1>5 DEF DeferInv, Waits, Resolves

\* Every step keeps what is said of the deferred request, and resolves it once.
LEMMA NextDefers ==
  ASSUME Inv, DeferInv, Next
  PROVE  DeferInv' /\ Resolves
<1>1. CASE Expire
  BY <1>1, QuietDefers DEF Expire
<1>2. CASE Terminate \/ FinishEnd
  BY <1>2, DieDefers DEF Terminate, FinishEnd
<1>3. CASE EndClient
  BY <1>3, QuietDefers DEF EndClient
<1> QED
  BY <1>1, <1>2, <1>3, ChildExitedDefers, TurnDefers, FlushDeferredDefers, AttachDefers,
     ReadDefers, ReadNothingDefers, WritePtyDefers, RequestDefers, MalformedDefers,
     FlushDefers, FlushWriteDefers DEF Next

\* Initially nothing is deferred.
LEMMA DeferralHolds == Spec => [](Inv /\ DeferInv)
<1>1. Init => DeferInv
  BY DEF Init, DeferInv, Waits
<1>2. Inv /\ DeferInv /\ [Next]_vars => DeferInv'
  <2>1. ASSUME DeferInv, UNCHANGED vars
        PROVE  DeferInv'
    BY <2>1 DEF vars, DeferInv, Waits
  <2> QED
    BY <2>1, NextDefers
<1> QED
  BY <1>1, <1>2, InvariantHolds, PTL DEF Spec

\* A deferred request leaves its slot with exactly one answer, that of its kind or a
\* failure, or with its client: the two calls of flush_deferred_vertical, the
\* handlers and disconnect_client in every order.
THEOREM DeferralsAreAnswered == Spec => DeferralAnswered
<1>1. Inv /\ DeferInv /\ [Next]_vars => [Resolves]_vars
  BY NextDefers
<1> QED
  BY <1>1, DeferralHolds, PTL DEF Spec, DeferralAnswered, Resolves

=============================================================================
