-------------------------- MODULE ConnectionsProofs --------------------------
(***************************************************************************)
(* The safety of Connections, for every set of peers and of titles and     *)
(* every size of the limits: whatever peers do, each is spoken to as its   *)
(* role demands, and the observer is sent the newest metadata, each        *)
(* revision once.                                                          *)
(*                                                                         *)
(* Why the invariant is needed: that a farewell ends what a peer is told   *)
(* rests on what has been said to a connection that is not closing         *)
(* (Awaiting, Greeted, Observed); that no revision comes twice rests on    *)
(* the revision having moved since the last metadata whenever the next     *)
(* would differ or output is held.                                         *)
(***************************************************************************)
EXTENDS Connections, OutputQueueProofs

-----------------------------------------------------------------------------
(***************************************************************************)
(* What is said.                                                           *)
(***************************************************************************)
\* WellSpoken, of one peer.
Said(t) ==
  \A i \in 1 .. Len(t) :
    /\ t[i].kind \in {"Attached", "ObservingMetadata"} => i = 1
    /\ t[i].kind = "Busy" => i = 1 /\ Len(t) = 1
    /\ t[i].kind = "Failure" => i = Len(t)
    /\ t[i].kind = "Exited" => i = Len(t) /\ i > 1
    /\ t[i].kind = "Metadata" => i > 1 /\ t[1].kind = "ObservingMetadata"

\* MetadataOrdered, of one peer.
Rising(t, rev) ==
  \A i \in Metas(t) :
    /\ t[i].rev <= rev
    /\ \A j \in Metas(t) : i < j => t[i].rev < t[j].rev

\* What an interactive client and an observer have been told until they are told
\* the end.
Greeted(t) == Len(t) = 1 /\ t[1].kind = "Attached"

Observed(t) ==
  /\ Len(t) >= 1
  /\ t[1].kind = "ObservingMetadata" /\ t[1].class = "Ordered"
  /\ \A i \in 2 .. Len(t) : t[i].kind = "Metadata"

\* The newest metadata has this title.
Newest(t, title) ==
  \E i \in Metas(t) : t[i].title = title /\ \A j \in Metas(t) : j <= i

Before(t, rev) == \A i \in Metas(t) : t[i].rev < rev

\* u is t with a message pushed, which may have replaced metadata behind.
Extends(t, u, m) ==
  \E n \in 0 .. Len(t) :
    /\ Len(u) = n + 1
    /\ \A i \in 1 .. n : u[i] = t[i]
    /\ u[n + 1] = m
    /\ \A i \in n + 1 .. Len(t) : t[i].class = "Metadata" /\ m.class = "Metadata"

-----------------------------------------------------------------------------
(***************************************************************************)
(* The invariant.                                                          *)
(***************************************************************************)
\* What has been said to the peer of c, and waits for it.
SlotTalk(c, said) == said[c.peer] \o c.queue.messages

Sound(c, t, rev) ==
  /\ c \in Connection
  /\ Accounted(c.queue)
  /\ Said(t)
  /\ Rising(t, rev)

Awaiting(c, t) ==
  /\ ~c.initial
  /\ c.last = NoTitle
  /\ ~c.closing => t = <<>>

Interactive(c, t, ph) == ~c.closing /\ ph \notin Endings => Greeted(t)

\* The phases in which the observer is up to date.
UpToDate == {"accept", "negotiate", "observe", "pty", "client", "exiting"}

\* What the observer has been sent last, and that it may be sent more.
Attentive(c, t, scr) ==
  /\ c.initial => c.last = NoTitle /\ Metas(t) = {}
  /\ ~c.initial => /\ c.last \in Titles /\ Newest(t, c.last)
                   /\ 2 \in Metas(t) /\ t[2].class = "Ordered"
  /\ ~c.closing /\ (scr.held \/ c.last # scr.title) => Before(t, scr.revision)

Observing(c, t, scr, ph) ==
  /\ ~c.closing /\ ph \notin Endings => Observed(t)
  /\ Attentive(c, t, scr)
  /\ ~c.closing /\ ~scr.held /\ ph \in UpToDate => c.last = scr.title

PendingOK(c, said, scr) ==
  c # NoConn => Sound(c, SlotTalk(c, said), scr.revision) /\ Awaiting(c, SlotTalk(c, said))

ClientOK(c, said, scr, ph) ==
  c # NoConn =>
    Sound(c, SlotTalk(c, said), scr.revision) /\ Interactive(c, SlotTalk(c, said), ph)

ObserverOK(c, said, scr, ph) ==
  c # NoConn =>
    Sound(c, SlotTalk(c, said), scr.revision) /\ Observing(c, SlotTalk(c, said), scr, ph)

\* What peers have received, those in no slot too.
Heard(said, scr) == \A p \in Peers : Said(said[p]) /\ Rising(said[p], scr.revision)

\* No two slots have the same peer, and none one that has not connected.
Apart(a, b, c, new) ==
  /\ a # NoConn => a.peer \notin new
  /\ b # NoConn => b.peer \notin new
  /\ c # NoConn => c.peer \notin new
  /\ a # NoConn /\ b # NoConn => a.peer # b.peer
  /\ a # NoConn /\ c # NoConn => a.peer # c.peer
  /\ b # NoConn /\ c # NoConn => b.peer # c.peer

Silent == \A p \in fresh : told[p] = <<>>

Screen == [revision : 0 .. MaxRevision, title : Titles, held : BOOLEAN]

Inv ==
  /\ phase \in Phases
  /\ screen \in Screen
  /\ told \in [Peers -> Seq(Sent)]
  /\ fresh \subseteq Peers
  /\ Apart(pending, client, observer, fresh)
  /\ Silent
  /\ Heard(told, screen)
  /\ PendingOK(pending, told, screen)
  /\ ClientOK(client, told, screen, phase)
  /\ ObserverOK(observer, told, screen, phase)

-----------------------------------------------------------------------------
(***************************************************************************)
(* Saying one thing more.                                                  *)
(***************************************************************************)
\* An ordered message replaces nothing.
LEMMA OrderedExtends ==
  ASSUME NEW t \in Seq(Sent), NEW u \in Seq(Sent), NEW m \in Sent,
         m.class = "Ordered", Extends(t, u, m)
  PROVE  /\ Len(u) = Len(t) + 1 /\ u[Len(u)] = m
         /\ \A i \in 1 .. Len(t) : u[i] = t[i]
<1>1. PICK n \in 0 .. Len(t) :
        /\ Len(u) = n + 1
        /\ \A i \in 1 .. n : u[i] = t[i]
        /\ u[n + 1] = m
        /\ \A i \in n + 1 .. Len(t) : t[i].class = "Metadata" /\ m.class = "Metadata"
  BY DEF Extends
<1>2. n = Len(t)
  <2>1. ASSUME n # Len(t)
        PROVE  FALSE
    <3>1. n + 1 \in n + 1 .. Len(t)
      BY <2>1
    <3> QED
      BY <1>1, <3>1
  <2> QED
    BY <2>1
<1> QED
  BY <1>1, <1>2

\* What follows nothing: a refusal, or the acknowledgement of a role.
LEMMA FirstSaid ==
  ASSUME NEW u \in Seq(Sent), NEW m \in Sent, Extends(<<>>, u, m),
         m.kind \in {"Attached", "ObservingMetadata", "Busy", "Failure"},
         NEW rev
  PROVE  /\ Said(u) /\ Rising(u, rev) /\ Metas(u) = {}
         /\ m.kind = "Attached" => Greeted(u)
         /\ m.kind = "ObservingMetadata" /\ m.class = "Ordered" => Observed(u)
<1>1. Len(u) = 1 /\ u[1] = m
  BY DEF Extends
<1>2. Metas(u) = {}
  BY <1>1 DEF Metas
<1>3. Said(u)
  BY <1>1 DEF Said
<1>4. Rising(u, rev)
  BY <1>2 DEF Rising
<1> QED
  BY <1>1, <1>2, <1>3, <1>4 DEF Greeted, Observed

\* A farewell.
LEMMA FarewellSaid ==
  ASSUME NEW t \in Seq(Sent), NEW u \in Seq(Sent), NEW m \in Sent, Extends(t, u, m),
         m.class = "Ordered", m.kind \in {"Failure", "Exited"},
         Greeted(t) \/ Observed(t), NEW rev, Rising(t, rev)
  PROVE  /\ Said(u) /\ Rising(u, rev) /\ Metas(u) = Metas(t)
         /\ \A i \in 1 .. Len(t) : u[i] = t[i]
<1>1. /\ Len(u) = Len(t) + 1 /\ u[Len(u)] = m /\ Len(t) \in Nat
      /\ \A i \in 1 .. Len(t) : u[i] = t[i]
  BY OrderedExtends
<1>2. Metas(u) = Metas(t)
  BY <1>1 DEF Metas
<1>3. Rising(u, rev)
  BY <1>1, <1>2 DEF Rising, Metas
<1>4. Said(u)
  <2>1. Len(t) >= 1
    BY DEF Greeted, Observed
  <2>2. \A i \in 1 .. Len(u) : i = Len(u) \/ (i \in 1 .. Len(t) /\ u[i] = t[i])
    BY <1>1
  <2>3. \A i \in 1 .. Len(t) :
          \/ i = 1 /\ t[i].kind \in {"Attached", "ObservingMetadata"}
          \/ i > 1 /\ t[i].kind = "Metadata" /\ t[1].kind = "ObservingMetadata"
    BY <1>1 DEF Greeted, Observed
  <2> QED
    BY <1>1, <2>1, <2>2, <2>3 DEF Said
<1> QED
  BY <1>1, <1>2, <1>3, <1>4

\* Metadata, which may replace what waits unsent of it, but not the first.
LEMMA MetadataSaid ==
  ASSUME NEW t \in Seq(Sent), NEW u \in Seq(Sent), NEW m \in Sent, Extends(t, u, m),
         m.kind = "Metadata", Observed(t), Rising(t, m.rev), Before(t, m.rev),
         Metas(t) = {} => m.class = "Ordered",
         Metas(t) # {} => t[2].class = "Ordered"
  PROVE  /\ Said(u) /\ Rising(u, m.rev) /\ Observed(u) /\ Newest(u, m.title)
         /\ 2 \in Metas(u) /\ u[2].class = "Ordered"
         /\ Metas(t) # {} => u[2] = t[2]
<1>1. PICK n \in 0 .. Len(t) :
        /\ Len(u) = n + 1
        /\ \A i \in 1 .. n : u[i] = t[i]
        /\ u[n + 1] = m
        /\ \A i \in n + 1 .. Len(t) : t[i].class = "Metadata" /\ m.class = "Metadata"
  BY DEF Extends
<1>2. Len(t) \in Nat /\ Len(t) >= 1 /\ t[1].kind = "ObservingMetadata" /\ t[1].class = "Ordered"
      /\ \A i \in 2 .. Len(t) : t[i].kind = "Metadata"
  BY DEF Observed
<1>3. n >= 1
  BY <1>1, <1>2
<1>4. Metas(t) = 2 .. Len(t)
  BY <1>2 DEF Metas
<1>5. Metas(t) # {} => n >= 2 /\ 2 \in 1 .. n
  BY <1>1, <1>2, <1>3, <1>4
<1>6. Metas(t) = {} => n = 1 /\ Len(t) = 1
  <2>1. Len(t) >= 2 => 2 \in Metas(t)
    BY <1>2, <1>4
  <2>2. n \in Nat /\ n <= Len(t) /\ n >= 1 /\ Len(t) \in Nat /\ Len(t) >= 1
    BY <1>1, <1>2, <1>3
  <2>3. Metas(t) = {} => Len(t) < 2
    BY <2>1, <2>2
  <2>4. Len(t) < 2 => n = 1 /\ Len(t) = 1
    <3>1. \A a, b \in Nat : a <= b /\ a >= 1 /\ b >= 1 /\ b < 2 => a = 1 /\ b = 1
      OBVIOUS
    <3> QED
      BY <2>2, <3>1, Zenon
  <2> QED
    BY <2>3, <2>4, Zenon
<1>7. \A i \in 2 .. Len(u) : i = n + 1 \/ (i \in Metas(t) /\ i <= n /\ u[i] = t[i])
  BY <1>1, <1>4
<1>8. u[1] = t[1] /\ \A i \in 2 .. Len(u) : u[i].kind = "Metadata"
  BY <1>1, <1>2, <1>3, <1>4, <1>7
<1>9. Metas(u) = 2 .. n + 1 /\ n + 1 \in Metas(u) /\ 2 \in Metas(u)
  BY <1>1, <1>2, <1>3, <1>8 DEF Metas
<1>10. Observed(u)
  BY <1>1, <1>2, <1>3, <1>8 DEF Observed
<1>11. Said(u)
  <2>1. \A i \in 1 .. Len(u) : i = 1 \/ i \in 2 .. Len(u)
    BY <1>1
  <2> QED
    BY <1>2, <1>8, <2>1 DEF Said
<1>12. Rising(u, m.rev)
  <2>1. ASSUME NEW i \in Metas(u)
        PROVE  u[i].rev <= m.rev
    <3>1. m.rev \in Nat
      BY DEF Sent
    <3> QED
      BY <1>1, <1>7, <1>9, <2>1, <3>1 DEF Rising
  <2>2. ASSUME NEW i \in Metas(u), NEW j \in Metas(u), i < j
        PROVE  u[i].rev < u[j].rev
    <3>1. i \in Metas(t) /\ u[i] = t[i] /\ i <= n
      BY <1>1, <1>7, <1>9, <2>2
    <3>2. CASE j = n + 1
      BY <1>1, <3>1, <3>2 DEF Before
    <3>3. CASE j # n + 1
      BY <1>1, <1>7, <1>9, <2>2, <3>1, <3>3 DEF Rising
    <3> QED
      BY <3>2, <3>3
  <2> QED
    BY <2>1, <2>2 DEF Rising
<1>13. Newest(u, m.title)
  BY <1>1, <1>9 DEF Newest
<1>14. u[2].class = "Ordered" /\ (Metas(t) # {} => u[2] = t[2])
  BY <1>1, <1>5, <1>6
<1> QED
  BY <1>9, <1>10, <1>11, <1>12, <1>13, <1>14

\* What a peer has received of what it is to be told.
LEMMA PrefixSaid ==
  ASSUME NEW s \in Seq(Sent), NEW t \in Seq(Sent), NEW rev,
         Len(s) <= Len(t), \A i \in 1 .. Len(s) : s[i] = t[i],
         Said(t), Rising(t, rev)
  PROVE  Said(s) /\ Rising(s, rev)
<1>1. Metas(s) \subseteq Metas(t) /\ \A i \in Metas(s) : s[i] = t[i]
  BY DEF Metas
<1>2. Rising(s, rev)
  BY <1>1 DEF Rising
<1>3. ASSUME NEW i \in 1 .. Len(s)
      PROVE  /\ s[i].kind \in {"Attached", "ObservingMetadata"} => i = 1
             /\ s[i].kind = "Busy" => i = 1 /\ Len(s) = 1
             /\ s[i].kind = "Failure" => i = Len(s)
             /\ s[i].kind = "Exited" => i = Len(s) /\ i > 1
             /\ s[i].kind = "Metadata" => i > 1 /\ s[1].kind = "ObservingMetadata"
  <2>1. /\ Len(s) \in Nat /\ Len(t) \in Nat /\ i \in 1 .. Len(t) /\ 1 \in 1 .. Len(s)
        /\ s[i] = t[i] /\ s[1] = t[1]
    OBVIOUS
  <2> QED
    BY <2>1 DEF Said
<1> QED
  BY <1>2, <1>3 DEF Said

\* Later, revisions are no smaller.
LEMMA RisingLater ==
  ASSUME NEW t \in Seq(Sent), NEW old \in Nat, NEW rev \in Nat, old <= rev, Rising(t, old)
  PROVE  /\ Rising(t, rev)
         /\ old < rev => Before(t, rev)
<1>1. \A i \in Metas(t) : t[i].rev \in Nat
  <2>1. \A i \in Metas(t) : t[i] \in Sent
    BY DEF Metas
  <2>2. \A m \in Sent : m.rev \in Nat
    BY DEF Sent
  <2> QED
    BY <2>1, <2>2
<1>2. Rising(t, rev)
  BY <1>1 DEF Rising
<1>3. old < rev => Before(t, rev)
  BY <1>1 DEF Rising, Before
<1> QED
  BY <1>2, <1>3

-----------------------------------------------------------------------------
(***************************************************************************)
(* Pushes and writes.                                                      *)
(***************************************************************************)
LEMMA SentAreMessages == QueueMessages(Sent)
BY DEF QueueMessages, Sent, Classes

\* No connection is the empty slot.
LEMMA ConnectionIsConn == \A c \in Connection : c # NoConn
BY NoConnAssumption

\* The queue of a push is the old one, cut behind, and the message.
LEMMA PushExtends ==
  ASSUME NEW q \in QueueOf(Sent), Accounted(q), NEW m \in Sent, FitsReplaceable(q, m),
         NEW s \in Seq(Sent)
  PROVE  /\ PushReplaceable(q, m) \in QueueOf(Sent) /\ Accounted(PushReplaceable(q, m))
         /\ s \o q.messages \in Seq(Sent)
         /\ s \o PushReplaceable(q, m).messages \in Seq(Sent)
         /\ Extends(s \o q.messages, s \o PushReplaceable(q, m).messages, m)
<1> DEFINE ms == q.messages
           k == Kept(q, m.class)
           cs == Cut(q, m.class).messages
           ns == PushReplaceable(q, m).messages
<1>1. PushReplaceable(q, m) \in QueueOf(Sent) /\ Accounted(PushReplaceable(q, m))
  BY SentAreMessages, PushReplaceableAccounted
<1>2. ms \in Seq(Sent) /\ ns \in Seq(Sent)
  BY <1>1 DEF QueueOf
<1>3. /\ cs \in Seq(Sent) /\ Len(cs) = k /\ \A i \in 1 .. k : cs[i] = ms[i]
  BY CutShape
<1>4. ns = Append(cs, m)
  BY DEF PushReplaceable, Push
<1>5. /\ k \in 0 .. Len(ms)
      /\ \A i \in k + 1 .. Len(ms) : ms[i].class = "Metadata" /\ m.class = "Metadata"
  <2>1. k \in 0 .. Len(ms) /\ \A i \in k + 1 .. Len(ms) : Replaceable(q, m.class, i)
    BY KeptFacts
  <2>2. m.class \in {"Ordered", "Metadata"}
    BY DEF Sent
  <2>3. \A i \in k + 1 .. Len(ms) : Supersedes(m.class, ms[i].class)
    BY <2>1 DEF Replaceable
  <2> QED
    BY <2>1, <2>2, <2>3 DEF Supersedes
<1> HIDE DEF ms, k, cs, ns
<1> DEFINE t == s \o ms
           u == s \o ns
           n == Len(s) + k
<1>6. t \in Seq(Sent) /\ u \in Seq(Sent) /\ Len(t) = Len(s) + Len(ms) /\ Len(u) = n + 1
  BY <1>2, <1>3, <1>4
<1>7. n \in 0 .. Len(t)
  BY <1>2, <1>5, <1>6
<1>8. Len(ns) = k + 1 /\ ns[k + 1] = m /\ \A i \in 1 .. k : ns[i] = ms[i]
  BY <1>3, <1>4
<1>9. \A i \in 1 .. n : u[i] = t[i]
  BY <1>2, <1>5, <1>8
<1>10. u[n + 1] = m
  BY <1>2, <1>5, <1>8
<1>11. \A i \in n + 1 .. Len(t) : t[i].class = "Metadata" /\ m.class = "Metadata"
  <2>1. ASSUME NEW i \in n + 1 .. Len(t)
        PROVE  t[i] = ms[i - Len(s)] /\ i - Len(s) \in k + 1 .. Len(ms)
    BY <1>2, <1>5, <1>6
  <2> QED
    BY <1>5, <2>1
<1>12. Extends(t, u, m)
  BY <1>6, <1>7, <1>9, <1>10, <1>11 DEF Extends
<1> QED
  BY <1>1, <1>6, <1>12 DEF ms, ns

\* A push changes the queue of a connection and nothing else of it.
LEMMA Push1Is ==
  ASSUME NEW c \in Connection, Accounted(c.queue), NEW m \in Sent, Push1(c, m) # NoConn,
         NEW s \in Seq(Sent)
  PROVE  LET d == Push1(c, m)
         IN  /\ d \in Connection /\ Accounted(d.queue) /\ d.peer = c.peer
             /\ d.closing = c.closing /\ d.initial = c.initial /\ d.last = c.last
             /\ s \o c.queue.messages \in Seq(Sent)
             /\ s \o d.queue.messages \in Seq(Sent)
             /\ Extends(s \o c.queue.messages, s \o d.queue.messages, m)
<1> DEFINE r == PushReplaceable(c.queue, m)
           d == Push1(c, m)
<1>1. c.queue \in QueueOf(Sent)
  BY DEF Connection, QueueOf
<1>2. FitsReplaceable(c.queue, m) /\ d = [c EXCEPT !.queue = r]
  BY DEF Push1
<1>3. /\ r \in QueueOf(Sent) /\ Accounted(r)
      /\ s \o c.queue.messages \in Seq(Sent)
      /\ s \o r.messages \in Seq(Sent)
      /\ Extends(s \o c.queue.messages, s \o r.messages, m)
  BY <1>1, <1>2, PushExtends
<1> HIDE DEF r, d
<1>4. /\ d \in Connection /\ d.queue = r /\ d.peer = c.peer
      /\ d.closing = c.closing /\ d.initial = c.initial /\ d.last = c.last
  BY <1>2, <1>3 DEF Connection, QueueOf
<1> QED
  BY <1>3, <1>4 DEF d

\* A write moves the head from the queue to what is said, or nothing.
LEMMA WriteIs ==
  ASSUME NEW c \in Connection, Accounted(c.queue), c.queue.messages # <<>>,
         NEW n \in 1 .. Head(c.queue.messages).size - c.queue.offset,
         NEW s \in Seq(Sent)
  PROVE  LET d == [c EXCEPT !.queue = Write(@, n)]
             m == Head(c.queue.messages)
             all == c.queue.offset + n = m.size
             r == IF all THEN Append(s, m) ELSE s
         IN  /\ d \in Connection /\ Accounted(d.queue) /\ d.peer = c.peer
             /\ d.closing = c.closing /\ d.initial = c.initial /\ d.last = c.last
             /\ r \in Seq(Sent) /\ s \o c.queue.messages \in Seq(Sent)
             /\ r \o d.queue.messages = s \o c.queue.messages
<1> DEFINE w == Write(c.queue, n)
           d == [c EXCEPT !.queue = w]
           ms == c.queue.messages
           m == Head(ms)
<1>1. c.queue \in QueueOf(Sent)
  BY DEF Connection, QueueOf
<1>2. w \in QueueOf(Sent) /\ Accounted(w)
  BY <1>1, SentAreMessages, WriteAccounted
<1>3. ms \in Seq(Sent) /\ ms # <<>> /\ m \in Sent
  BY <1>1 DEF QueueOf
<1>4. w.messages = IF c.queue.offset + n = m.size THEN Tail(ms) ELSE ms
  BY DEF Write
<1> HIDE DEF w, ms
<1>5. /\ d \in Connection /\ d.queue = w /\ d.peer = c.peer
      /\ d.closing = c.closing /\ d.initial = c.initial /\ d.last = c.last
  BY <1>2 DEF Connection, QueueOf
<1>6. Append(s, m) \in Seq(Sent) /\ s \o ms \in Seq(Sent)
  BY <1>3
<1>7. Append(s, m) \o Tail(ms) = s \o ms
  <2>1. /\ Len(Append(s, m) \o Tail(ms)) = Len(s \o ms)
        /\ Append(s, m) \o Tail(ms) \in Seq(Sent)
    BY <1>3
  <2>2. ASSUME NEW i \in 1 .. Len(s \o ms)
        PROVE  (Append(s, m) \o Tail(ms))[i] = (s \o ms)[i]
    <3>1. CASE i <= Len(s)
      BY <1>3, <3>1
    <3>2. CASE i = Len(s) + 1
      BY <1>3, <3>2
    <3>3. CASE i > Len(s) + 1
      BY <1>3, <3>3
    <3>4. i \in Int /\ Len(s) \in Int
      BY <1>6
    <3>5. i <= Len(s) \/ i = Len(s) + 1 \/ i > Len(s) + 1
      BY ONLY <3>4
    <3> QED
      BY <3>1, <3>2, <3>3, <3>5, Zenon
  <2> QED
    BY <1>6, <2>1, <2>2
<1>8. (IF c.queue.offset + n = m.size THEN Append(s, m) ELSE s) \in Seq(Sent)
  BY <1>6
<1>9. (IF c.queue.offset + n = m.size THEN Append(s, m) ELSE s) \o w.messages = s \o ms
  BY <1>4, <1>7
<1> QED
  BY <1>2, <1>5, <1>6, <1>8, <1>9 DEF w, ms

-----------------------------------------------------------------------------
(***************************************************************************)
(* A slot, by its connection, what is said to the peer and the screen.     *)
(***************************************************************************)
LEMMA ResponseType ==
  ASSUME NEW kind \in Kinds
  PROVE  /\ Response(kind) \in Sent
         /\ Response(kind).kind = kind /\ Response(kind).class = "Ordered"
BY LimitsAssumption DEF Response, Sent

\* The talk with the peer of a slot is a sequence of messages.
LEMMA SlotTalkType ==
  ASSUME NEW said \in [Peers -> Seq(Sent)], NEW c \in Connection
  PROVE  SlotTalk(c, said) \in Seq(Sent) /\ said[c.peer] \in Seq(Sent) /\ c.peer \in Peers
<1>1. c.peer \in Peers /\ c.queue.messages \in Seq(Sent)
  BY DEF Connection
<1> QED
  BY <1>1 DEF SlotTalk

\* An ordered message pushed: the acknowledgement or the refusal of a peer that was
\* told nothing, or a farewell.
LEMMA PushedSound ==
  ASSUME NEW said \in [Peers -> Seq(Sent)], NEW rev \in Nat,
         NEW c, Sound(c, SlotTalk(c, said), rev),
         NEW kind \in {"Attached", "ObservingMetadata", "Busy", "Failure", "Exited"},
         Push1(c, Response(kind)) # NoConn,
         \/ SlotTalk(c, said) = <<>> /\ kind # "Exited"
         \/ (Greeted(SlotTalk(c, said)) \/ Observed(SlotTalk(c, said))) /\ kind \in {"Failure", "Exited"}
  PROVE  LET d == Push1(c, Response(kind))
             t == SlotTalk(c, said)
             u == SlotTalk(d, said)
         IN  /\ Sound(d, u, rev)
             /\ d.peer = c.peer /\ d.closing = c.closing /\ d.initial = c.initial /\ d.last = c.last
             /\ Metas(u) = Metas(t) /\ \A i \in 1 .. Len(t) : u[i] = t[i]
             /\ kind = "Attached" => Greeted(u)
             /\ kind = "ObservingMetadata" => Observed(u)
<1> DEFINE d == Push1(c, Response(kind))
           t == SlotTalk(c, said)
           u == SlotTalk(d, said)
           m == Response(kind)
<1>1. m \in Sent /\ m.kind = kind /\ m.class = "Ordered"
  BY ResponseType DEF Kinds
<1>2. c \in Connection /\ Accounted(c.queue) /\ Rising(t, rev)
  BY DEF Sound
<1>3. said[c.peer] \in Seq(Sent)
  BY <1>2, SlotTalkType
<1>4. /\ d \in Connection /\ Accounted(d.queue) /\ d.peer = c.peer
      /\ d.closing = c.closing /\ d.initial = c.initial /\ d.last = c.last
      /\ said[c.peer] \o c.queue.messages \in Seq(Sent)
      /\ said[c.peer] \o d.queue.messages \in Seq(Sent)
      /\ Extends(said[c.peer] \o c.queue.messages, said[c.peer] \o d.queue.messages, m)
  BY <1>1, <1>2, <1>3, Push1Is
<1>5. t = said[c.peer] \o c.queue.messages /\ u = said[c.peer] \o d.queue.messages
  BY <1>4 DEF SlotTalk
<1> HIDE DEF d, t, u, m
<1>6. t \in Seq(Sent) /\ u \in Seq(Sent) /\ Extends(t, u, m)
  BY <1>4, <1>5
<1>7. CASE t = <<>> /\ kind # "Exited"
  <2>1. Extends(<<>>, u, m)
    BY <1>6, <1>7
  <2>2. /\ Said(u) /\ Rising(u, rev) /\ Metas(u) = {}
        /\ m.kind = "Attached" => Greeted(u)
        /\ m.kind = "ObservingMetadata" /\ m.class = "Ordered" => Observed(u)
    BY <1>1, <1>6, <1>7, <2>1, FirstSaid
  <2>3. Metas(t) = {} /\ 1 .. Len(t) = {}
    BY <1>7 DEF Metas
  <2> QED
    BY <1>1, <1>4, <2>2, <2>3 DEF Sound, d, t, u
<1>8. CASE (Greeted(t) \/ Observed(t)) /\ kind \in {"Failure", "Exited"}
  <2>1. /\ Said(u) /\ Rising(u, rev) /\ Metas(u) = Metas(t)
        /\ \A i \in 1 .. Len(t) : u[i] = t[i]
    BY <1>1, <1>2, <1>6, <1>8, FarewellSaid
  <2> QED
    BY <1>4, <1>8, <2>1 DEF Sound, d, t, u
<1> QED
  BY <1>7, <1>8 DEF t

\* Closing changes nothing of what is said.
LEMMA CloseIs ==
  ASSUME NEW said, NEW rev, NEW c, Sound(c, SlotTalk(c, said), rev)
  PROVE  LET d == Close(c)
         IN  /\ Sound(d, SlotTalk(d, said), rev) /\ SlotTalk(d, said) = SlotTalk(c, said)
             /\ d.closing /\ d.peer = c.peer /\ d.initial = c.initial /\ d.last = c.last
             /\ d # NoConn
<1> DEFINE d == [c EXCEPT !.closing = TRUE]
<1>1. c \in Connection /\ c # NoConn
  BY ConnectionIsConn DEF Sound
<1>2. Close(c) = d
  BY <1>1 DEF Close
<1>3. /\ d \in Connection /\ d.queue = c.queue /\ d.peer = c.peer
      /\ d.closing /\ d.initial = c.initial /\ d.last = c.last
  BY <1>1 DEF Connection
<1> HIDE DEF d
<1>4. SlotTalk(d, said) = SlotTalk(c, said)
  BY <1>3 DEF SlotTalk
<1> QED
  BY <1>2, <1>3, <1>4, ConnectionIsConn DEF Sound

\* What is said does not depend on the other peers.
LEMMA SlotSame ==
  ASSUME NEW c, NEW said, NEW after, after[c.peer] = said[c.peer]
  PROVE  SlotTalk(c, after) = SlotTalk(c, said)
BY DEF SlotTalk

\* The observer knows as much as before, when it is told a farewell or closes.
LEMMA AttentiveKept ==
  ASSUME NEW c, NEW t, NEW d, NEW u, NEW scr, Attentive(c, t, scr),
         d.initial = c.initial, d.last = c.last, c.closing => d.closing,
         Metas(u) = Metas(t), \A i \in 1 .. Len(t) : u[i] = t[i]
  PROVE  Attentive(d, u, scr)
<1>1. \A i \in Metas(t) : u[i] = t[i]
  BY DEF Metas
<1>2. Newest(t, c.last) => Newest(u, c.last)
  BY <1>1 DEF Newest
<1>3. Before(t, scr.revision) => Before(u, scr.revision)
  BY <1>1 DEF Before
<1> QED
  BY <1>1, <1>2, <1>3 DEF Attentive

\* The screen moves on: the revision, or within a hold, or out of it.
Moves(old, new) ==
  \/ old.revision < new.revision
  \/ /\ old.revision = new.revision
     /\ old.held \/ (new.title = old.title /\ ~new.held)

\* An observer that heard of the screen as it was has not heard too much when the
\* screen moves on.
LEMMA AttentiveLater ==
  ASSUME NEW c, NEW t \in Seq(Sent), NEW old \in Screen, NEW new \in Screen,
         Attentive(c, t, old), Rising(t, old.revision), Moves(old, new)
  PROVE  Attentive(c, t, new)
<1>1. old.revision \in Nat /\ new.revision \in Nat
  BY ConnectionsAssumption DEF Screen
<1>2. CASE old.revision < new.revision
  BY <1>1, <1>2, RisingLater DEF Attentive
<1>3. CASE /\ old.revision = new.revision
           /\ old.held \/ (new.title = old.title /\ ~new.held)
  BY <1>3 DEF Attentive
<1> QED
  BY <1>2, <1>3 DEF Moves

\* The screen has moved and metadata is published: it is sent if it is news, and
\* nothing is held back, and the first of it stays where it is.
LEMMA Published ==
  ASSUME NEW said \in [Peers -> Seq(Sent)], NEW old \in Screen, screen' \in Screen,
         Moves(old, screen'),
         NEW c, Sound(c, SlotTalk(c, said), old.revision),
         Attentive(c, SlotTalk(c, said), old),
         ~c.closing => Observed(SlotTalk(c, said)),
         PublishMetadata(c) # NoConn
  PROVE  LET d == PublishMetadata(c)
             t == SlotTalk(c, said)
             u == SlotTalk(d, said)
         IN  /\ Sound(d, u, screen'.revision) /\ Attentive(d, u, screen')
             /\ d.closing = c.closing /\ d.peer = c.peer
             /\ ~d.closing => Observed(u)
             /\ ~d.closing /\ ~screen'.held => d.last = screen'.title
             /\ Metas(t) # {} => Metas(u) # {} /\ 2 \in Metas(t) /\ u[2] = t[2]
<1> DEFINE t == SlotTalk(c, said)
<1> PICK scr \in Screen : scr = screen'
  OBVIOUS
<1>1. c \in Connection /\ c # NoConn /\ Accounted(c.queue) /\ Rising(t, old.revision) /\ Said(t)
  BY ConnectionIsConn DEF Sound
<1>2. t \in Seq(Sent) /\ said[c.peer] \in Seq(Sent)
  BY <1>1, SlotTalkType
<1>3. old.revision \in Nat /\ scr.revision \in Nat /\ old.revision <= scr.revision
  BY ConnectionsAssumption DEF Screen, Moves
<1>4. Rising(t, scr.revision)
  BY <1>1, <1>2, <1>3, RisingLater
<1>5. Attentive(c, t, scr)
  BY <1>1, <1>2, AttentiveLater
<1>6. Metas(t) # {} => 2 \in Metas(t) /\ t[2].class = "Ordered"
  BY <1>5 DEF Attentive
<1>7. scr.title \in Titles /\ scr.title # NoTitle
  BY ConnectionsAssumption DEF Screen
<1> DEFINE m == Metadata(IF c.initial THEN "Ordered" ELSE "Metadata")
           d == PublishMetadata(c)
<1>8. CASE scr.held \/ c.closing \/ c.last = scr.title
  <2>1. d = c
    BY <1>8 DEF PublishMetadata, PushMetadata
  <2>2. ~c.closing /\ ~scr.held => c.last = scr.title
    BY <1>8
  <2> QED
    BY <1>1, <1>4, <1>5, <1>6, <2>1, <2>2 DEF Sound
<1>9. CASE ~scr.held /\ ~c.closing /\ c.last # scr.title
  <2> DEFINE e == Push1(c, m)
  <2>1. /\ m \in Sent /\ m.kind = "Metadata" /\ m.rev = scr.revision /\ m.title = scr.title
        /\ m.class = IF c.initial THEN "Ordered" ELSE "Metadata"
    <3>1. 2 * HeaderBytes \in Nat \ {0}
      BY LimitsAssumption
    <3> QED
      BY <1>3, <1>7, <3>1 DEF Metadata, Sent, Kinds
  <2> HIDE DEF m
  <2>2. e # NoConn /\ d = [e EXCEPT !.initial = FALSE, !.last = scr.title]
    BY <1>1, <1>9, <2>1 DEF PublishMetadata, PushMetadata, m
  <2>3. /\ e \in Connection /\ Accounted(e.queue) /\ e.peer = c.peer
        /\ e.closing = c.closing
        /\ said[c.peer] \o e.queue.messages \in Seq(Sent)
        /\ Extends(said[c.peer] \o c.queue.messages, said[c.peer] \o e.queue.messages, m)
    BY <1>1, <1>2, <2>1, <2>2, Push1Is
  <2> HIDE DEF e, d
  <2>4. /\ d \in Connection /\ d.queue = e.queue /\ d.peer = c.peer /\ d.closing = c.closing
        /\ ~d.initial /\ d.last = scr.title
    BY <1>7, <2>2, <2>3 DEF Connection
  <2> DEFINE u == SlotTalk(d, said)
  <2>5. u = said[c.peer] \o e.queue.messages /\ u \in Seq(Sent)
    BY <2>3, <2>4 DEF SlotTalk
  <2>6. Extends(t, u, m)
    BY <2>3, <2>5 DEF SlotTalk
  <2>7. Observed(t) /\ Before(t, scr.revision)
    BY <1>5, <1>9 DEF Attentive
  <2>8. (Metas(t) = {} => m.class = "Ordered") /\ (Metas(t) # {} => t[2].class = "Ordered")
    BY <1>5, <1>6, <2>1 DEF Attentive
  <2> HIDE DEF t, u
  <2>9. /\ Said(u) /\ Rising(u, m.rev) /\ Observed(u) /\ Newest(u, m.title)
        /\ 2 \in Metas(u) /\ u[2].class = "Ordered"
        /\ Metas(t) # {} => u[2] = t[2]
    <3>1. Rising(t, m.rev) /\ Before(t, m.rev)
      BY <1>4, <2>1, <2>7
    <3>2. t \in Seq(Sent)
      BY <1>2 DEF t
    <3> QED
      BY ONLY <2>1, <2>5, <2>6, <2>7, <2>8, <3>1, <3>2, MetadataSaid, ZenonT(30)
  <2>10. Attentive(d, u, scr)
    BY <1>7, <1>9, <2>1, <2>4, <2>9 DEF Attentive
  <2>11. Sound(d, u, scr.revision)
    BY <2>1, <2>3, <2>4, <2>9 DEF Sound
  <2> QED
    BY <1>6, <1>9, <2>4, <2>9, <2>10, <2>11 DEF t, u, d
<1> QED
  BY <1>8, <1>9

\* The holder of a slot is the one it was, or of another slot, or gone.
Keeps(d, c) == d # NoConn => c # NoConn /\ d.peer = c.peer

\* The observer after metadata is published, in whatever phase comes next.
LEMMA ObserverPublished ==
  ASSUME NEW said \in [Peers -> Seq(Sent)], NEW old \in Screen, screen' \in Screen,
         Moves(old, screen'), NEW ph, ph \notin Endings, NEW next,
         NEW c, ObserverOK(c, said, old, ph)
  PROVE  /\ ObserverOK(PublishMetadata(c), said, screen', next)
         /\ Keeps(PublishMetadata(c), c)
         /\ PublishMetadata(c) # NoConn =>
              (~PublishMetadata(c).closing => Observed(SlotTalk(PublishMetadata(c), said)))
<1> PICK scr \in Screen : scr = screen'
  OBVIOUS
<1> DEFINE d == PublishMetadata(c)
<1> SUFFICES ASSUME d # NoConn
             PROVE  /\ ObserverOK(d, said, scr, next)
                    /\ Keeps(d, c)
                    /\ ~d.closing => Observed(SlotTalk(d, said))
  BY DEF ObserverOK, Keeps
<1>1. c # NoConn
  BY DEF PublishMetadata
<1>2. /\ Sound(c, SlotTalk(c, said), old.revision)
      /\ Attentive(c, SlotTalk(c, said), old)
      /\ ~c.closing => Observed(SlotTalk(c, said))
  BY <1>1 DEF ObserverOK, Observing
<1>3. /\ Sound(d, SlotTalk(d, said), scr.revision) /\ Attentive(d, SlotTalk(d, said), scr)
      /\ d.closing = c.closing /\ d.peer = c.peer
      /\ ~d.closing => Observed(SlotTalk(d, said))
      /\ ~d.closing /\ ~scr.held => d.last = scr.title
  BY <1>2, Published
<1> HIDE DEF d
<1>4. ObserverOK(d, said, scr, next)
  BY <1>3 DEF ObserverOK, Observing
<1> QED
  BY <1>1, <1>3, <1>4 DEF Keeps

\* A connection that is refused, before it has a role or after.
LEMMA Refused ==
  ASSUME NEW said \in [Peers -> Seq(Sent)], NEW rev \in Nat,
         NEW c, Sound(c, SlotTalk(c, said), rev),
         NEW kind \in {"Busy", "Failure"},
         \/ SlotTalk(c, said) = <<>>
         \/ (Greeted(SlotTalk(c, said)) \/ Observed(SlotTalk(c, said))) /\ kind = "Failure",
         Close(Push1(c, Response(kind))) # NoConn
  PROVE  LET d == Close(Push1(c, Response(kind)))
             t == SlotTalk(c, said)
             u == SlotTalk(d, said)
         IN  /\ Sound(d, u, rev)
             /\ d.peer = c.peer /\ d.closing /\ d.initial = c.initial /\ d.last = c.last
             /\ Metas(u) = Metas(t) /\ \A i \in 1 .. Len(t) : u[i] = t[i]
<1> DEFINE e == Push1(c, Response(kind))
           d == Close(e)
           t == SlotTalk(c, said)
           u == SlotTalk(e, said)
<1>1. e # NoConn
  BY DEF Close
<1>2. /\ Sound(e, u, rev)
      /\ e.peer = c.peer /\ e.initial = c.initial /\ e.last = c.last
      /\ Metas(u) = Metas(t) /\ \A i \in 1 .. Len(t) : u[i] = t[i]
  BY <1>1, PushedSound
<1> HIDE DEF e
<1>3. /\ Sound(d, SlotTalk(d, said), rev) /\ SlotTalk(d, said) = u
      /\ d.closing /\ d.peer = e.peer /\ d.initial = e.initial /\ d.last = e.last
  BY <1>2, CloseIs
<1> QED
  BY <1>2, <1>3 DEF e

\* The three slots, when their peer is refused.
LEMMA PendingRefused ==
  ASSUME NEW said \in [Peers -> Seq(Sent)], NEW scr \in Screen,
         NEW c, c # NoConn, ~c.closing, PendingOK(c, said, scr),
         NEW kind \in {"Busy", "Failure"}
  PROVE  LET d == Close(Push1(c, Response(kind)))
         IN  PendingOK(d, said, scr) /\ Keeps(d, c)
<1> DEFINE d == Close(Push1(c, Response(kind)))
<1> SUFFICES ASSUME d # NoConn
             PROVE  PendingOK(d, said, scr) /\ Keeps(d, c)
  BY DEF PendingOK, Keeps
<1>1. /\ Sound(c, SlotTalk(c, said), scr.revision) /\ SlotTalk(c, said) = <<>>
      /\ ~c.initial /\ c.last = NoTitle
  BY DEF PendingOK, Awaiting
<1>2. scr.revision \in Nat
  BY ConnectionsAssumption DEF Screen
<1>3. /\ Sound(d, SlotTalk(d, said), scr.revision)
      /\ d.peer = c.peer /\ d.closing /\ d.initial = c.initial /\ d.last = c.last
  BY <1>1, <1>2, Refused
<1> HIDE DEF d
<1> QED
  BY <1>1, <1>3 DEF PendingOK, Awaiting, Keeps

\* A client that is told a failure keeps the predicate of its slot.
LEMMA ClientRefused ==
  ASSUME NEW said \in [Peers -> Seq(Sent)], NEW scr \in Screen, NEW ph, ph \notin Endings,
         NEW c, c # NoConn, ~c.closing, ClientOK(c, said, scr, ph), NEW next
  PROVE  ClientOK(Reject(c), said, scr, next) /\ Keeps(Reject(c), c)
<1> DEFINE d == Reject(c)
<1> SUFFICES ASSUME d # NoConn
             PROVE  ClientOK(d, said, scr, next) /\ Keeps(d, c)
  BY DEF ClientOK, Keeps
<1>1. /\ Sound(c, SlotTalk(c, said), scr.revision) /\ Greeted(SlotTalk(c, said))
  BY DEF ClientOK, Interactive
<1>2. scr.revision \in Nat
  BY ConnectionsAssumption DEF Screen
<1>3. /\ Sound(d, SlotTalk(d, said), scr.revision) /\ d.peer = c.peer /\ d.closing
  BY <1>1, <1>2, Refused DEF Reject
<1> HIDE DEF d
<1> QED
  BY <1>3 DEF ClientOK, Interactive, Keeps

\* So does an observer.
LEMMA ObserverRefused ==
  ASSUME NEW said \in [Peers -> Seq(Sent)], NEW scr \in Screen, NEW ph, ph \notin Endings,
         NEW c, c # NoConn, ~c.closing, ObserverOK(c, said, scr, ph), NEW next
  PROVE  ObserverOK(Reject(c), said, scr, next) /\ Keeps(Reject(c), c)
<1> DEFINE d == Reject(c)
           t == SlotTalk(c, said)
           u == SlotTalk(d, said)
<1> SUFFICES ASSUME d # NoConn
             PROVE  ObserverOK(d, said, scr, next) /\ Keeps(d, c)
  BY DEF ObserverOK, Keeps
<1>1. Sound(c, t, scr.revision) /\ Observed(t) /\ Attentive(c, t, scr)
  BY DEF ObserverOK, Observing
<1>2. scr.revision \in Nat
  BY ConnectionsAssumption DEF Screen
<1>3. /\ Sound(d, u, scr.revision)
      /\ d.peer = c.peer /\ d.closing /\ d.initial = c.initial /\ d.last = c.last
      /\ Metas(u) = Metas(t) /\ \A i \in 1 .. Len(t) : u[i] = t[i]
  BY <1>1, <1>2, Refused DEF Reject
<1> HIDE DEF d
<1>4. Attentive(d, u, scr)
  BY <1>1, <1>3, AttentiveKept
<1> QED
  BY <1>3, <1>4 DEF ObserverOK, Observing, Keeps

-----------------------------------------------------------------------------
(***************************************************************************)
(* The farewell of finish_session.                                         *)
(***************************************************************************)
LEMMA FinishedSound ==
  ASSUME NEW said \in [Peers -> Seq(Sent)], NEW rev \in Nat,
         NEW c, Sound(c, SlotTalk(c, said), rev),
         ~c.closing => Greeted(SlotTalk(c, said)) \/ Observed(SlotTalk(c, said))
  PROVE  LET d == Finished(c)
             t == SlotTalk(c, said)
             u == SlotTalk(d, said)
         IN  /\ Sound(d, u, rev) /\ d # NoConn
             /\ d.peer = c.peer /\ d.closing = c.closing /\ d.initial = c.initial /\ d.last = c.last
             /\ Metas(u) = Metas(t) /\ \A i \in 1 .. Len(t) : u[i] = t[i]
<1> DEFINE d == Finished(c)
           m == Response("Exited")
<1>1. c \in Connection /\ c # NoConn
  BY ConnectionIsConn DEF Sound
<1>2. CASE ~c.closing /\ Fits(c.queue, m)
  <2>1. d = Push1(c, m)
    BY <1>1, <1>2 DEF Finished
  <2>2. Push1(c, m) # NoConn
    <3>1. m \in Sent
      BY ResponseType DEF Kinds
    <3>2. c.queue \in QueueOf(Sent) /\ Accounted(c.queue)
      BY <1>1 DEF Connection, QueueOf, Sound
    <3>3. FitsReplaceable(c.queue, m)
      <4>1. Cut(c.queue, m.class) \in QueueOf(Sent) /\ Cut(c.queue, m.class).bytes <= c.queue.bytes
        BY <3>2, SentAreMessages, CutAccounted
      <4>2. Cut(c.queue, m.class).bytes \in Nat /\ c.queue.bytes \in Nat /\ m.size \in Nat
        BY <3>1, <3>2, <4>1 DEF QueueOf, Sent
      <4>3. c.queue.bytes + m.size <= MaxOutputBytes /\ MaxOutputBytes \in Nat
        BY <1>2, LimitsAssumption DEF Fits, MaxOutputBytes
      <4> QED
        BY <4>1, <4>2, <4>3 DEF FitsReplaceable, Fits
    <3>4. PushReplaceable(c.queue, m) \in QueueOf(Sent)
      BY <3>1, <3>2, <3>3, SentAreMessages, PushReplaceableAccounted
    <3> DEFINE r == PushReplaceable(c.queue, m)
    <3>5. Push1(c, m) = [c EXCEPT !.queue = r]
      BY <1>1, <3>3 DEF Push1
    <3> HIDE DEF r
    <3>6. [c EXCEPT !.queue = r] \in Connection
      BY <1>1, <3>4 DEF Connection, QueueOf, r
    <3> QED
      BY <3>5, <3>6, ConnectionIsConn
  <2> QED
    BY <1>2, <2>1, <2>2, PushedSound
<1>3. CASE ~(~c.closing /\ Fits(c.queue, m))
  <2>1. d = c
    BY <1>3 DEF Finished
  <2> QED
    BY <1>1, <2>1
<1> QED
  BY <1>2, <1>3

\* A client that is told goodbye keeps the predicate of its slot.
LEMMA ClientFinished ==
  ASSUME NEW said \in [Peers -> Seq(Sent)], NEW scr \in Screen, NEW ph, ph \notin Endings,
         NEW next \in Endings, NEW c, ClientOK(c, said, scr, ph)
  PROVE  ClientOK(Finished(c), said, scr, next) /\ Keeps(Finished(c), c)
<1> DEFINE d == Finished(c)
<1>1. CASE c = NoConn
  BY <1>1 DEF Finished, ClientOK, Keeps
<1>2. CASE c # NoConn
  <2>1. /\ Sound(c, SlotTalk(c, said), scr.revision)
        /\ ~c.closing => Greeted(SlotTalk(c, said))
    BY <1>2 DEF ClientOK, Interactive
  <2>2. scr.revision \in Nat
    BY ConnectionsAssumption DEF Screen
  <2>3. Sound(d, SlotTalk(d, said), scr.revision) /\ d.peer = c.peer
    BY <2>1, <2>2, FinishedSound
  <2> HIDE DEF d
  <2>4. ClientOK(d, said, scr, next) /\ Keeps(d, c)
    BY <1>2, <2>3 DEF ClientOK, Interactive, Keeps
  <2> QED
    BY <2>4 DEF d
<1> QED
  BY <1>1, <1>2

\* So does an observer that was answered.
LEMMA ObserverFinished ==
  ASSUME NEW said \in [Peers -> Seq(Sent)], NEW scr \in Screen,
         NEW next \in Endings, NEW c, ObserverOK(c, said, scr, next),
         c # NoConn /\ ~c.closing => Observed(SlotTalk(c, said))
  PROVE  ObserverOK(Finished(c), said, scr, next) /\ Keeps(Finished(c), c)
<1> DEFINE d == Finished(c)
           t == SlotTalk(c, said)
           u == SlotTalk(d, said)
<1>1. CASE c = NoConn
  BY <1>1 DEF Finished, ObserverOK, Keeps
<1>2. CASE c # NoConn
  <2>1. /\ Sound(c, t, scr.revision) /\ Attentive(c, t, scr)
        /\ ~c.closing /\ ~scr.held /\ next \in UpToDate => c.last = scr.title
    BY <1>2 DEF ObserverOK, Observing
  <2>2. scr.revision \in Nat
    BY ConnectionsAssumption DEF Screen
  <2>3. /\ Sound(d, u, scr.revision)
        /\ d.peer = c.peer /\ d.closing = c.closing /\ d.initial = c.initial /\ d.last = c.last
        /\ Metas(u) = Metas(t) /\ \A i \in 1 .. Len(t) : u[i] = t[i]
    BY <1>2, <2>1, <2>2, FinishedSound
  <2> HIDE DEF d
  <2>4. Attentive(d, u, scr)
    BY <2>1, <2>3, AttentiveKept
  <2>5. ObserverOK(d, said, scr, next) /\ Keeps(d, c)
    BY <1>2, <2>1, <2>3, <2>4 DEF ObserverOK, Observing, Keeps
  <2> QED
    BY <2>5 DEF d
<1> QED
  BY <1>1, <1>2

-----------------------------------------------------------------------------
(***************************************************************************)
(* What the others do: the screen moves, another peer is told something.   *)
(***************************************************************************)
LEMMA SoundLater ==
  ASSUME NEW c, NEW said \in [Peers -> Seq(Sent)], NEW after \in [Peers -> Seq(Sent)],
         after[c.peer] = said[c.peer],
         NEW old \in Nat, NEW rev \in Nat, old <= rev, Sound(c, SlotTalk(c, said), old)
  PROVE  Sound(c, SlotTalk(c, after), rev) /\ SlotTalk(c, after) = SlotTalk(c, said)
<1>1. c \in Connection /\ Rising(SlotTalk(c, said), old)
  BY DEF Sound
<1>2. SlotTalk(c, after) = SlotTalk(c, said) /\ SlotTalk(c, said) \in Seq(Sent)
  BY <1>1, SlotSame, SlotTalkType
<1>3. Rising(SlotTalk(c, said), rev)
  BY <1>1, <1>2, RisingLater
<1> QED
  BY <1>2, <1>3 DEF Sound

\* A pending connection does not depend on the screen, but for its revision.
LEMMA PendingLater ==
  ASSUME NEW c, NEW said \in [Peers -> Seq(Sent)], NEW after \in [Peers -> Seq(Sent)],
         c # NoConn => after[c.peer] = said[c.peer],
         NEW old \in Screen, NEW new \in Screen, old.revision <= new.revision,
         PendingOK(c, said, old)
  PROVE  PendingOK(c, after, new)
<1> SUFFICES ASSUME c # NoConn
             PROVE  PendingOK(c, after, new)
  BY DEF PendingOK
<1>1. Sound(c, SlotTalk(c, said), old.revision) /\ Awaiting(c, SlotTalk(c, said))
  BY DEF PendingOK
<1>2. old.revision \in Nat /\ new.revision \in Nat
  BY ConnectionsAssumption DEF Screen
<1>3. Sound(c, SlotTalk(c, after), new.revision) /\ SlotTalk(c, after) = SlotTalk(c, said)
  BY <1>1, <1>2, SoundLater
<1> QED
  BY <1>1, <1>3 DEF PendingOK

\* Nor does a client.
LEMMA ClientLater ==
  ASSUME NEW c, NEW said \in [Peers -> Seq(Sent)], NEW after \in [Peers -> Seq(Sent)],
         c # NoConn => after[c.peer] = said[c.peer],
         NEW old \in Screen, NEW new \in Screen, old.revision <= new.revision,
         NEW ph, NEW next, ph \in Endings => next \in Endings,
         ClientOK(c, said, old, ph)
  PROVE  ClientOK(c, after, new, next)
<1> SUFFICES ASSUME c # NoConn
             PROVE  ClientOK(c, after, new, next)
  BY DEF ClientOK
<1>1. Sound(c, SlotTalk(c, said), old.revision) /\ Interactive(c, SlotTalk(c, said), ph)
  BY DEF ClientOK
<1>2. old.revision \in Nat /\ new.revision \in Nat
  BY ConnectionsAssumption DEF Screen
<1>3. Sound(c, SlotTalk(c, after), new.revision) /\ SlotTalk(c, after) = SlotTalk(c, said)
  BY <1>1, <1>2, SoundLater
<1> QED
  BY <1>1, <1>3 DEF ClientOK, Interactive

\* The observer stays up to date while the screen does not move, and need not be
\* where the loop does not wait.
LEMMA ObserverLater ==
  ASSUME NEW c, NEW said \in [Peers -> Seq(Sent)], NEW after \in [Peers -> Seq(Sent)],
         c # NoConn => after[c.peer] = said[c.peer],
         NEW old \in Screen, NEW new \in Screen, Moves(old, new),
         NEW ph, NEW next, ph \in Endings => next \in Endings,
         next \in UpToDate => ph \in UpToDate /\ new = old,
         ObserverOK(c, said, old, ph)
  PROVE  ObserverOK(c, after, new, next)
<1> SUFFICES ASSUME c # NoConn
             PROVE  ObserverOK(c, after, new, next)
  BY DEF ObserverOK
<1> DEFINE t == SlotTalk(c, said)
<1>1. Sound(c, t, old.revision) /\ Observing(c, t, old, ph)
  BY DEF ObserverOK
<1>2. old.revision \in Nat /\ new.revision \in Nat /\ old.revision <= new.revision
  BY ConnectionsAssumption DEF Screen, Moves
<1>3. Sound(c, t, new.revision) /\ SlotTalk(c, after) = t
  BY <1>1, <1>2, SoundLater
<1>4. t \in Seq(Sent) /\ Rising(t, old.revision)
  BY <1>1, SlotTalkType DEF Sound
<1> HIDE DEF t
<1>5. Attentive(c, t, old)
  BY <1>1 DEF Observing
<1>6. Attentive(c, t, new)
  BY <1>4, <1>5, AttentiveLater
<1>7. Observing(c, t, new, next)
  BY <1>1, <1>6 DEF Observing
<1> QED
  BY <1>3, <1>7 DEF ObserverOK

\* What was heard from a screen is well heard of any later one.
LEMMA HeardLater ==
  ASSUME NEW said \in [Peers -> Seq(Sent)], NEW old \in Screen, NEW new \in Screen,
         old.revision <= new.revision, Heard(said, old)
  PROVE  Heard(said, new)
<1>1. old.revision \in Nat /\ new.revision \in Nat
  BY ConnectionsAssumption DEF Screen
<1>2. ASSUME NEW p \in Peers
      PROVE  Said(said[p]) /\ Rising(said[p], new.revision)
  <2>1. said[p] \in Seq(Sent) /\ Said(said[p]) /\ Rising(said[p], old.revision)
    BY DEF Heard
  <2> QED
    BY <1>1, <2>1, RisingLater
<1> QED
  BY <1>2 DEF Heard

\* Slots that keep their peers, or become free, stay apart.
LEMMA ApartKept ==
  ASSUME NEW a, NEW b, NEW c, NEW new, Apart(a, b, c, new),
         NEW x, NEW y, NEW z, Keeps(x, a), Keeps(y, b), Keeps(z, c),
         NEW next \in SUBSET new
  PROVE  Apart(x, y, z, next)
BY DEF Apart, Keeps

\* A slot that is left alone, or becomes free, keeps its peer.
LEMMA KeepsSame == \A c : Keeps(c, c) /\ Keeps(NoConn, c)
BY DEF Keeps

-----------------------------------------------------------------------------
(***************************************************************************)
(* The steps.                                                              *)
(***************************************************************************)
LEMMA InitInv ==
  ASSUME Init
  PROVE  Inv
<1>1. phase \in Phases /\ fresh \subseteq Peers
  BY DEF Init, Phases
<1>2. screen \in Screen
  <2>1. 0 \in 0 .. MaxRevision
    BY ConnectionsAssumption
  <2> QED
    BY <2>1 DEF Init, Screen
<1>3. told \in [Peers -> Seq(Sent)] /\ Silent
  BY DEF Init, Silent
<1>4. Apart(pending, client, observer, fresh)
  BY DEF Init, Apart
<1>5. Heard(told, screen)
  <2>1. \A p \in Peers : told[p] = <<>>
    BY DEF Init
  <2>2. Said(<<>>) /\ \A rev : Rising(<<>>, rev)
    BY DEF Said, Rising, Metas
  <2> QED
    BY <2>1, <2>2, Zenon DEF Heard
<1>6. /\ PendingOK(pending, told, screen)
      /\ ClientOK(client, told, screen, phase)
      /\ ObserverOK(observer, told, screen, phase)
  BY DEF Init, PendingOK, ClientOK, ObserverOK
<1> QED
  BY <1>1, <1>2, <1>3, <1>4, <1>5, <1>6 DEF Inv

\* A step that tells nobody anything leaves this to show.
LEMMA QuietStep ==
  ASSUME Inv, phase' \in Phases, screen' \in Screen, screen.revision <= screen'.revision,
         UNCHANGED <<told, fresh>>,
         Apart(pending', client', observer', fresh),
         PendingOK(pending', told, screen'),
         ClientOK(client', told, screen', phase'),
         ObserverOK(observer', told, screen', phase')
  PROVE  Inv'
<1>1. Heard(told, screen')
  BY HeardLater DEF Inv
<1>2. Heard(told', screen') /\ PendingOK(pending', told', screen')
      /\ ClientOK(client', told', screen', phase') /\ ObserverOK(observer', told', screen', phase')
  BY <1>1
<1>3. /\ told' \in [Peers -> Seq(Sent)] /\ fresh' \subseteq Peers
      /\ Apart(pending', client', observer', fresh')
      /\ \A p \in fresh' : told'[p] = <<>>
  BY DEF Inv, Silent
<1> QED
  BY <1>2, <1>3 DEF Inv, Silent

\* Not moving is a way of moving on.
LEMMA MovesSame ==
  ASSUME NEW scr \in Screen
  PROVE  Moves(scr, scr) /\ scr.revision <= scr.revision /\ scr.revision \in Nat
BY ConnectionsAssumption DEF Moves, Screen

\* Expire keeps the invariant.
LEMMA ExpireKeeps ==
  ASSUME Inv, Expire
  PROVE  Inv'
<1>1. pending # NoConn /\ pending' = [pending EXCEPT !.expired = TRUE]
  BY DEF Expire
<1>2. Sound(pending, SlotTalk(pending, told), screen.revision) /\ Awaiting(pending, SlotTalk(pending, told))
  BY <1>1 DEF Inv, PendingOK
<1>3. /\ pending' \in Connection /\ pending'.queue = pending.queue /\ pending'.peer = pending.peer
      /\ pending'.closing = pending.closing /\ pending'.initial = pending.initial
      /\ pending'.last = pending.last
  BY <1>1, <1>2 DEF Sound, Connection
<1>4. SlotTalk(pending', told) = SlotTalk(pending, told)
  BY <1>3 DEF SlotTalk
<1>5. PendingOK(pending', told, screen)
  BY <1>2, <1>3, <1>4 DEF PendingOK, Sound, Awaiting
<1>6. Apart(pending', client, observer, fresh)
  BY <1>1, <1>3, ApartKept, KeepsSame DEF Inv, Keeps
<1>7. UNCHANGED <<phase, client, observer, screen, told, fresh>>
  BY DEF Expire
<1> QED
  BY <1>5, <1>6, <1>7, QuietStep, MovesSame DEF Inv

\* Turn keeps the invariant.
LEMMA TurnKeeps ==
  ASSUME Inv, Turn
  PROVE  Inv'
<1>1. /\ phase = "top" /\ phase' = "accept" /\ UNCHANGED <<client, told, fresh>>
      /\ pending' \in {NoConn, pending} /\ observer' = PublishMetadata(observer)
  BY DEF Turn
<1>2. screen' \in Screen /\ Moves(screen, screen') /\ screen.revision <= screen'.revision
  <2>1. screen \in Screen /\ screen' \in {screen, [screen EXCEPT !.held = FALSE]}
    BY DEF Inv, Turn
  <2>2. /\ screen' \in Screen /\ screen'.revision = screen.revision
        /\ screen'.title = screen.title /\ (screen'.held = screen.held \/ ~screen'.held)
    BY <2>1 DEF Screen
  <2>3. screen.revision \in Nat
    BY <2>1, MovesSame
  <2> QED
    BY <2>1, <2>2, <2>3 DEF Moves, Screen
<1>3. ObserverOK(observer', told, screen', phase') /\ Keeps(observer', observer)
  BY <1>1, <1>2, ObserverPublished DEF Inv, Endings
<1>4. ClientOK(client', told, screen', phase')
  BY <1>1, <1>2, ClientLater DEF Inv, Endings
<1>5. PendingOK(pending, told, screen')
  BY <1>1, <1>2, PendingLater DEF Inv
<1>6. PendingOK(pending', told, screen')
  BY <1>1, <1>5 DEF PendingOK
<1>7. Apart(pending', client', observer', fresh)
  BY <1>1, <1>3, ApartKept, KeepsSame DEF Inv
<1>8. phase' \in Phases
  BY <1>1 DEF Phases
<1> QED
  BY <1>1, <1>2, <1>3, <1>4, <1>6, <1>7, <1>8, QuietStep

\* AcceptEnd keeps the invariant.
LEMMA AcceptEndKeeps ==
  ASSUME Inv, AcceptEnd
  PROVE  Inv'
<1>1. /\ phase = "accept" /\ phase' = "negotiate"
      /\ UNCHANGED <<pending, client, observer, screen, told, fresh>>
  BY DEF AcceptEnd
<1>2. ObserverOK(observer, told, screen, "negotiate")
  BY <1>1, ObserverLater, MovesSame DEF Inv, UpToDate, Endings
<1>3. ClientOK(client, told, screen, "negotiate")
  BY <1>1, ClientLater, MovesSame DEF Inv, Endings
<1>4. phase' \in Phases
  BY <1>1 DEF Phases
<1> QED
  BY <1>1, <1>2, <1>3, <1>4, QuietStep, MovesSame DEF Inv

\* A peer that is not told anything but Busy.
LEMMA BusyKeeps ==
  ASSUME Inv, NEW p \in fresh, fresh' = fresh \ {p},
         told' = [told EXCEPT ![p] = <<Response("Busy")>>],
         UNCHANGED <<phase, pending, client, observer, screen>>
  PROVE  Inv'
<1> DEFINE m == Response("Busy")
<1>1. m \in Sent /\ m.kind = "Busy" /\ <<m>> \in Seq(Sent)
  BY ResponseType DEF Kinds
<1>2. p \in Peers /\ told \in [Peers -> Seq(Sent)]
  BY DEF Inv
<1>3. Extends(<<>>, <<m>>, m)
  BY DEF Extends
<1> HIDE DEF m
<1>4. /\ told' \in [Peers -> Seq(Sent)] /\ told'[p] = <<m>>
      /\ \A q \in Peers : q # p => told'[q] = told[q]
  BY <1>1, <1>2 DEF m
<1>5. Heard(told', screen)
  <2>1. Said(<<m>>) /\ Rising(<<m>>, screen.revision)
    BY <1>1, <1>3, FirstSaid
  <2>2. Heard(told, screen)
    BY DEF Inv
  <2> QED
    BY <1>4, <2>1, <2>2 DEF Heard
<1>6. \A q \in fresh' : told'[q] = <<>>
  BY <1>4 DEF Inv, Silent
<1>7. /\ pending # NoConn => pending.peer \in Peers /\ pending.peer # p
      /\ client # NoConn => client.peer \in Peers /\ client.peer # p
      /\ observer # NoConn => observer.peer \in Peers /\ observer.peer # p
  <2>1. /\ pending # NoConn => pending \in Connection
        /\ client # NoConn => client \in Connection
        /\ observer # NoConn => observer \in Connection
    BY DEF Inv, PendingOK, ClientOK, ObserverOK, Sound
  <2>2. \A c \in Connection : c.peer \in Peers
    BY DEF Connection
  <2> QED
    BY <2>1, <2>2 DEF Inv, Apart
<1> PICK after : after = told'
  OBVIOUS
<1>8. /\ pending # NoConn => after[pending.peer] = told[pending.peer]
      /\ client # NoConn => after[client.peer] = told[client.peer]
      /\ observer # NoConn => after[observer.peer] = told[observer.peer]
      /\ after \in [Peers -> Seq(Sent)]
  BY <1>4, <1>7
<1>9. /\ screen \in Screen /\ PendingOK(pending, told, screen)
      /\ ClientOK(client, told, screen, phase) /\ ObserverOK(observer, told, screen, phase)
      /\ Moves(screen, screen) /\ screen.revision <= screen.revision
  BY MovesSame DEF Inv
<1>10. /\ PendingOK(pending, after, screen)
       /\ ClientOK(client, after, screen, phase)
       /\ ObserverOK(observer, after, screen, phase)
  <2>1. PendingOK(pending, after, screen)
    BY ONLY <1>2, <1>8, <1>9, PendingLater
  <2>2. ClientOK(client, after, screen, phase)
    BY ONLY <1>2, <1>8, <1>9, ClientLater
  <2>3. ObserverOK(observer, after, screen, phase)
    BY ONLY <1>2, <1>8, <1>9, ObserverLater
  <2> QED
    BY <2>1, <2>2, <2>3
<1>11. Apart(pending, client, observer, fresh')
  BY ApartKept, KeepsSame DEF Inv
<1>12. fresh' \subseteq Peers
  BY DEF Inv
<1> QED
  BY <1>4, <1>5, <1>6, <1>10, <1>11, <1>12 DEF Inv, Silent

\* The pending slot of a new connection: nothing is said yet.
LEMMA NewConnOK ==
  ASSUME NEW said \in [Peers -> Seq(Sent)], NEW scr, NEW p \in Peers, said[p] = <<>>
  PROVE  PendingOK(NewConn(p), said, scr) /\ NewConn(p).peer = p
<1> DEFINE c == NewConn(p)
<1>1. Empty \in QueueOf(Sent) /\ Accounted(Empty)
  BY SentAreMessages, EmptyAccounted
<1>2. /\ c \in Connection /\ c.queue = Empty /\ c.peer = p
      /\ ~c.initial /\ c.last = NoTitle
  BY <1>1 DEF NewConn, Connection, QueueOf
<1> HIDE DEF c
<1>3. SlotTalk(c, said) = <<>>
  BY <1>2 DEF SlotTalk, Empty
<1>4. Said(<<>>) /\ Rising(<<>>, scr.revision)
  BY DEF Said, Rising, Metas
<1>5. PendingOK(c, said, scr)
  BY <1>1, <1>2, <1>3, <1>4 DEF PendingOK, Sound, Awaiting
<1> QED
  BY <1>2, <1>5 DEF c

\* Accept keeps the invariant.
LEMMA AcceptKeeps ==
  ASSUME Inv, NEW p \in Peers, Accept(p)
  PROVE  Inv'
<1>1. /\ phase = "accept" /\ p \in fresh /\ fresh' = fresh \ {p}
      /\ UNCHANGED <<phase, client, observer, screen>>
  BY DEF Accept
<1>2. CASE told' = [told EXCEPT ![p] = <<Response("Busy")>>] /\ pending' = pending
  BY <1>1, <1>2, BusyKeeps
<1>3. CASE pending = NoConn /\ pending' = NewConn(p) /\ told' = told
  <2>1. told \in [Peers -> Seq(Sent)] /\ told[p] = <<>>
    BY <1>1 DEF Inv, Silent
  <2>2. PendingOK(NewConn(p), told, screen) /\ NewConn(p).peer = p
    BY <2>1, NewConnOK
  <2>3. Apart(pending', client, observer, fresh')
    BY <1>1, <1>3, <2>2 DEF Inv, Apart
  <2> QED
    BY <1>1, <1>3, <2>2, <2>3 DEF Inv, Silent
<1> QED
  BY <1>2, <1>3 DEF Accept

\* The three answers to a first message.
LEMMA RoleGiven ==
  ASSUME NEW said \in [Peers -> Seq(Sent)], NEW scr \in Screen, NEW c, c # NoConn, ~c.closing,
         PendingOK(c, said, scr), NEW kind \in {"Attached", "ObservingMetadata"},
         Push1(c, Response(kind)) # NoConn
  PROVE  LET d == Push1(c, Response(kind))
             u == SlotTalk(d, said)
         IN  /\ Sound(d, u, scr.revision)
             /\ d.peer = c.peer /\ ~d.closing /\ d.last = NoTitle /\ Metas(u) = {}
             /\ kind = "Attached" => Greeted(u)
             /\ kind = "ObservingMetadata" => Observed(u)
<1>1. /\ Sound(c, SlotTalk(c, said), scr.revision) /\ SlotTalk(c, said) = <<>>
      /\ c.last = NoTitle
  BY DEF PendingOK, Awaiting
<1>2. scr.revision \in Nat
  BY MovesSame
<1>3. Metas(SlotTalk(c, said)) = {}
  BY <1>1 DEF Metas
<1> QED
  BY <1>1, <1>2, <1>3, PushedSound

\* An acknowledged Hello makes a pending connection a client.
LEMMA HelloOK ==
  ASSUME NEW said \in [Peers -> Seq(Sent)], NEW scr \in Screen, NEW c, c # NoConn, ~c.closing,
         PendingOK(c, said, scr), NEW next
  PROVE  /\ ClientOK(Push1(c, Response("Attached")), said, scr, next)
         /\ Keeps(Push1(c, Response("Attached")), c)
<1> DEFINE d == Push1(c, Response("Attached"))
<1>1. CASE d = NoConn
  BY <1>1 DEF ClientOK, Keeps
<1>2. CASE d # NoConn
  <2>1. /\ Sound(d, SlotTalk(d, said), scr.revision) /\ d.peer = c.peer
        /\ Greeted(SlotTalk(d, said))
    BY <1>2, RoleGiven
  <2> HIDE DEF d
  <2>2. ClientOK(d, said, scr, next) /\ Keeps(d, c)
    BY <2>1 DEF ClientOK, Interactive, Keeps
  <2> QED
    BY <2>2 DEF d
<1> QED
  BY <1>1, <1>2

\* An acknowledged ObserveMetadata makes it an observer that has the first metadata.
LEMMA ObserveOK ==
  ASSUME NEW said \in [Peers -> Seq(Sent)], NEW scr \in Screen, screen' = scr,
         NEW c, c # NoConn, ~c.closing, PendingOK(c, said, scr), NEW next,
         Push1(c, Response("ObservingMetadata")) # NoConn
  PROVE  LET d == PublishMetadata([Push1(c, Response("ObservingMetadata")) EXCEPT !.initial = TRUE])
         IN  ObserverOK(d, said, scr, next) /\ Keeps(d, c)
<1> DEFINE d == Push1(c, Response("ObservingMetadata"))
           e == [d EXCEPT !.initial = TRUE]
           u == SlotTalk(d, said)
<1>1. /\ Sound(d, u, scr.revision) /\ d.peer = c.peer /\ ~d.closing /\ d.last = NoTitle
      /\ Metas(u) = {} /\ Observed(u)
  BY RoleGiven
<1> HIDE DEF d
<1>2. /\ e \in Connection /\ e.queue = d.queue /\ e.peer = d.peer /\ ~e.closing
      /\ e.initial /\ e.last = NoTitle
  BY <1>1 DEF Sound, Connection
<1> HIDE DEF e
<1>3. SlotTalk(e, said) = u
  BY <1>2 DEF SlotTalk
<1> HIDE DEF u
<1>4. Sound(e, u, scr.revision) /\ Observed(u)
  BY <1>1, <1>2 DEF Sound
<1>5. Attentive(e, u, scr)
  BY <1>1, <1>2 DEF Attentive, Before
<1>6. ObserverOK(e, said, scr, "top")
  BY <1>3, <1>4, <1>5 DEF ObserverOK, Observing, UpToDate
<1>7. ObserverOK(PublishMetadata(e), said, scr, next) /\ Keeps(PublishMetadata(e), e)
  BY <1>6, ObserverPublished, MovesSame DEF Endings
<1> QED
  BY <1>1, <1>2, <1>7 DEF Keeps, d, e

\* Negotiate keeps the invariant.
LEMMA NegotiateKeeps ==
  ASSUME Inv, Negotiate
  PROVE  Inv'
<1>1. /\ phase = "negotiate" /\ phase' = "observe" /\ phase' \in Phases /\ phase \notin Endings
      /\ UNCHANGED <<screen, told, fresh>>
  BY DEF Negotiate, Phases, Endings
<1>2. /\ screen \in Screen /\ told \in [Peers -> Seq(Sent)] /\ PendingOK(pending, told, screen)
      /\ Apart(pending, client, observer, fresh) /\ fresh \in SUBSET fresh
  BY DEF Inv
<1>3. ClientOK(client, told, screen, "observe")
  BY <1>1, ClientLater, MovesSame DEF Inv, Endings
<1>4. ObserverOK(observer, told, screen, "observe")
  BY <1>1, ObserverLater, MovesSame DEF Inv, UpToDate, Endings
<1>5. PendingOK(NoConn, told, screen)
  BY DEF PendingOK
<1> SUFFICES /\ PendingOK(pending', told, screen)
             /\ ClientOK(client', told, screen, "observe")
             /\ ObserverOK(observer', told, screen, "observe")
             /\ Apart(pending', client', observer', fresh)
  BY <1>1, <1>2, QuietStep, MovesSame
<1>6. CASE UNCHANGED <<pending, client, observer>>
  BY <1>2, <1>3, <1>4, <1>6
<1>7. CASE /\ pending # NoConn /\ ~pending.closing /\ UNCHANGED <<client, observer>>
           /\ pending' \in {NoConn, Close(Push1(pending, Response("Busy"))),
                            Close(Push1(pending, Response("Failure")))}
  <2>1. /\ PendingOK(Close(Push1(pending, Response("Busy"))), told, screen)
        /\ Keeps(Close(Push1(pending, Response("Busy"))), pending)
    BY <1>2, <1>7, PendingRefused
  <2>2. /\ PendingOK(Close(Push1(pending, Response("Failure"))), told, screen)
        /\ Keeps(Close(Push1(pending, Response("Failure"))), pending)
    BY <1>2, <1>7, PendingRefused
  <2>3. PendingOK(pending', told, screen) /\ Keeps(pending', pending)
    BY <1>5, <1>7, <2>1, <2>2, KeepsSame
  <2>4. Apart(pending', client, observer, fresh)
    BY <1>2, <2>3, ApartKept, KeepsSame
  <2> QED
    BY <1>3, <1>4, <1>7, <2>3, <2>4
<1>8. CASE /\ pending # NoConn /\ ~pending.closing /\ client = NoConn /\ pending' = NoConn
           /\ client' \in {NoConn, Push1(pending, Response("Attached"))}
           /\ UNCHANGED observer
  <2>1. /\ ClientOK(Push1(pending, Response("Attached")), told, screen, "observe")
        /\ Keeps(Push1(pending, Response("Attached")), pending)
    BY <1>2, <1>8, HelloOK
  <2>2. ClientOK(client', told, screen, "observe") /\ Keeps(client', pending)
    BY <1>3, <1>8, <2>1, KeepsSame
  <2>3. Apart(pending', client', observer', fresh)
    BY <1>2, <1>8, <2>2 DEF Apart, Keeps
  <2> QED
    BY <1>4, <1>5, <1>8, <2>2, <2>3
<1>9. CASE /\ pending # NoConn /\ ~pending.closing /\ observer = NoConn /\ pending' = NoConn
           /\ LET c == Push1(pending, Response("ObservingMetadata"))
              IN  observer' = IF c = NoConn THEN NoConn
                              ELSE PublishMetadata([c EXCEPT !.initial = TRUE])
           /\ UNCHANGED client
  <2>1. ObserverOK(observer', told, screen, "observe") /\ Keeps(observer', pending)
    <3>1. CASE Push1(pending, Response("ObservingMetadata")) = NoConn
      BY <1>9, <3>1 DEF ObserverOK, Keeps
    <3>2. CASE Push1(pending, Response("ObservingMetadata")) # NoConn
      BY <1>1, <1>2, <1>9, <3>2, ObserveOK
    <3> QED
      BY <3>1, <3>2
  <2>2. Apart(pending', client', observer', fresh)
    BY <1>2, <1>9, <2>1 DEF Apart, Keeps
  <2> QED
    BY <1>3, <1>5, <1>9, <2>1, <2>2
<1> QED
  BY <1>6, <1>7, <1>8, <1>9 DEF Negotiate, Refusals, Reject

\* Observe keeps the invariant.
LEMMA ObserveKeeps ==
  ASSUME Inv, Observe
  PROVE  Inv'
<1>1. /\ phase = "observe" /\ phase' = "pty" /\ phase' \in Phases /\ phase \notin Endings
      /\ UNCHANGED <<pending, client, screen, told, fresh>>
  BY DEF Observe, Phases, Endings
<1>2. /\ screen \in Screen /\ told \in [Peers -> Seq(Sent)] /\ PendingOK(pending, told, screen)
      /\ Apart(pending, client, observer, fresh) /\ fresh \in SUBSET fresh
  BY DEF Inv
<1>3. ClientOK(client, told, screen, "pty")
  BY <1>1, ClientLater, MovesSame DEF Inv, Endings
<1>4. ObserverOK(observer, told, screen, "pty")
  BY <1>1, ObserverLater, MovesSame DEF Inv, UpToDate, Endings
<1>5. ObserverOK(observer', told, screen, "pty") /\ Keeps(observer', observer)
  <2>1. CASE observer' \in {NoConn, observer}
    BY <1>4, <2>1, KeepsSame DEF ObserverOK
  <2>2. CASE observer # NoConn /\ ~observer.closing /\ observer' = Reject(observer)
    BY <1>1, <1>2, <2>2, ObserverRefused DEF Inv
  <2> QED
    BY <2>1, <2>2 DEF Observe, Refusals
<1>6. Apart(pending, client, observer', fresh)
  BY <1>2, <1>5, ApartKept, KeepsSame
<1> QED
  BY <1>1, <1>2, <1>3, <1>5, <1>6, QuietStep, MovesSame

\* Changed moves the screen.
LEMMA ChangedMoves ==
  ASSUME screen \in Screen, screen.revision < MaxRevision, NEW scr \in Changed
  PROVE  scr \in Screen /\ Moves(screen, scr) /\ screen.revision <= scr.revision
<1>1. screen.revision \in Nat /\ MaxRevision \in Nat
  BY ConnectionsAssumption DEF Screen
<1>2. /\ scr.title \in Titles /\ scr.held \in BOOLEAN
      /\ scr.revision = IF screen.held THEN screen.revision ELSE screen.revision + 1
      /\ scr = [revision |-> scr.revision, title |-> scr.title, held |-> scr.held]
  BY DEF Changed
<1>3. scr.revision \in 0 .. MaxRevision
  BY <1>1, <1>2
<1>4. scr \in Screen
  BY <1>2, <1>3 DEF Screen
<1> QED
  BY <1>1, <1>2, <1>4 DEF Moves

\* ReadPty keeps the invariant.
LEMMA ReadPtyKeeps ==
  ASSUME Inv, ReadPty
  PROVE  Inv'
<1>1. /\ phase = "pty" /\ phase' = "client" /\ phase' \in Phases /\ phase \notin Endings
      /\ UNCHANGED <<pending, client, told, fresh>>
  BY DEF ReadPty, Phases, Endings
<1>2. /\ screen \in Screen /\ told \in [Peers -> Seq(Sent)] /\ PendingOK(pending, told, screen)
      /\ Apart(pending, client, observer, fresh) /\ fresh \in SUBSET fresh
  BY DEF Inv
<1>3. screen' \in Screen /\ Moves(screen, screen') /\ screen.revision <= screen'.revision
  <2>1. CASE screen' = screen
    <3>1. Moves(screen, screen) /\ screen.revision <= screen.revision
      BY <1>2, MovesSame
    <3> QED
      BY <1>2, <2>1, <3>1
  <2>2. CASE screen.revision < MaxRevision /\ screen' \in Changed
    BY <1>2, <2>2, ChangedMoves
  <2> QED
    BY <2>1, <2>2 DEF ReadPty
<1>4. PendingOK(pending, told, screen') /\ ClientOK(client, told, screen', "client")
  <2>1. ClientOK(client, told, screen, phase)
    BY DEF Inv
  <2> QED
    BY <1>1, <1>2, <1>3, <2>1, PendingLater, ClientLater
<1>5. ObserverOK(observer', told, screen', "client") /\ Keeps(observer', observer)
  <2>1. CASE screen' = screen /\ observer' = observer
    <3>1. ObserverOK(observer, told, screen, "client")
      BY <1>1, <1>2, ObserverLater, MovesSame DEF Inv, UpToDate, Endings
    <3> QED
      BY <2>1, <3>1, KeepsSame
  <2>2. CASE observer' = PublishMetadata(observer)
    BY <1>1, <1>2, <1>3, <2>2, ObserverPublished DEF Inv
  <2> QED
    BY <2>1, <2>2 DEF ReadPty
<1>6. Apart(pending, client, observer', fresh)
  BY <1>2, <1>5, ApartKept, KeepsSame
<1> QED
  BY <1>1, <1>3, <1>4, <1>5, <1>6, QuietStep

\* ServeClient keeps the invariant.
LEMMA ServeClientKeeps ==
  ASSUME Inv, ServeClient
  PROVE  Inv'
<1>1. /\ phase = "client" /\ phase' = "flush" /\ phase' \in Phases /\ phase \notin Endings
      /\ phase' \notin UpToDate /\ phase' \notin Endings
      /\ UNCHANGED <<pending, observer, told, fresh>>
  BY DEF ServeClient, Phases, Endings, UpToDate
<1>2. /\ screen \in Screen /\ told \in [Peers -> Seq(Sent)] /\ PendingOK(pending, told, screen)
      /\ Apart(pending, client, observer, fresh) /\ fresh \in SUBSET fresh
      /\ ClientOK(client, told, screen, phase) /\ ObserverOK(observer, told, screen, phase)
  BY DEF Inv
<1>3. screen' \in Screen /\ Moves(screen, screen') /\ screen.revision <= screen'.revision
  <2>1. CASE screen' = screen
    <3>1. Moves(screen, screen) /\ screen.revision <= screen.revision
      BY <1>2, MovesSame
    <3> QED
      BY <1>2, <2>1, <3>1
  <2>2. CASE /\ screen.revision < MaxRevision
             /\ screen' \in [revision : {screen.revision + 1}, title : {screen.title},
                             held : {screen.held, FALSE}]
    <3>1. screen.revision \in Nat /\ MaxRevision \in Nat /\ screen.held \in BOOLEAN
          /\ screen.title \in Titles
      BY <1>2, ConnectionsAssumption DEF Screen
    <3>2. screen.revision + 1 \in 0 .. MaxRevision
      BY <2>2, <3>1
    <3>3. screen' \in Screen /\ screen'.revision = screen.revision + 1
      BY <2>2, <3>1, <3>2 DEF Screen
    <3> QED
      BY <3>1, <3>3 DEF Moves
  <2> QED
    BY <2>1, <2>2 DEF ServeClient
<1>4. PendingOK(pending, told, screen') /\ ClientOK(client, told, screen', "flush")
  BY <1>1, <1>2, <1>3, PendingLater, ClientLater
<1>5. ObserverOK(observer, told, screen', "flush")
  BY <1>1, <1>2, <1>3, ObserverLater
<1>6. ClientOK(client', told, screen', "flush") /\ Keeps(client', client)
  <2>1. CASE client' \in {NoConn, client}
    BY <1>4, <2>1, KeepsSame DEF ClientOK
  <2>2. CASE client # NoConn /\ ~client.closing /\ client' = Reject(client) /\ screen' = screen
    <3>1. ClientOK(Reject(client), told, screen, "flush") /\ Keeps(Reject(client), client)
      BY <1>1, <1>2, <2>2, ClientRefused
    <3> QED
      BY <2>2, <3>1
  <2> QED
    BY <2>1, <2>2 DEF ServeClient, Refusals
<1>7. Apart(pending, client', observer, fresh)
  BY <1>2, <1>6, ApartKept, KeepsSame
<1> QED
  BY <1>1, <1>3, <1>4, <1>5, <1>6, <1>7, QuietStep

-----------------------------------------------------------------------------
(***************************************************************************)
(* Flushing.                                                               *)
(***************************************************************************)
\* The connection after a write of n bytes, and what its peer has received then.
Writes(c, d, n) ==
  /\ c.queue.messages # <<>>
  /\ n \in 1 .. Head(c.queue.messages).size - c.queue.offset
  /\ d = [c EXCEPT !.queue = Write(@, n)]

Receives(c, said, after, n) ==
  after = IF c.queue.offset + n = Head(c.queue.messages).size
          THEN [said EXCEPT ![c.peer] = Append(@, Head(c.queue.messages))] ELSE said

\* A write tells the peer nothing that was not to be told.
LEMMA WriteSound ==
  ASSUME NEW said \in [Peers -> Seq(Sent)], NEW rev,
         NEW c, Sound(c, SlotTalk(c, said), rev),
         NEW n, NEW d, Writes(c, d, n), NEW after, Receives(c, said, after, n)
  PROVE  /\ Sound(d, SlotTalk(d, after), rev) /\ SlotTalk(d, after) = SlotTalk(c, said)
         /\ d.peer = c.peer /\ d.closing = c.closing /\ d.initial = c.initial /\ d.last = c.last
         /\ d # NoConn /\ c # NoConn
         /\ after \in [Peers -> Seq(Sent)]
         /\ Said(after[c.peer]) /\ Rising(after[c.peer], rev)
         /\ \A q \in Peers : q # c.peer => after[q] = said[q]
<1> DEFINE m == Head(c.queue.messages)
           s == said[c.peer]
           all == c.queue.offset + n = m.size
           r == IF all THEN Append(s, m) ELSE s
           t == SlotTalk(c, said)
<1>1. c \in Connection /\ Accounted(c.queue) /\ Said(t) /\ Rising(t, rev)
  BY DEF Sound
<1>2. s \in Seq(Sent) /\ c.peer \in Peers /\ t = s \o c.queue.messages
  BY <1>1, SlotTalkType DEF SlotTalk
<1>3. /\ d \in Connection /\ Accounted(d.queue) /\ d.peer = c.peer
      /\ d.closing = c.closing /\ d.initial = c.initial /\ d.last = c.last
      /\ r \in Seq(Sent) /\ s \o c.queue.messages \in Seq(Sent)
      /\ r \o d.queue.messages = s \o c.queue.messages
  BY <1>1, <1>2, WriteIs DEF Writes
<1>4. after[c.peer] = r /\ \A q \in Peers : q # c.peer => after[q] = said[q]
  BY <1>2 DEF Receives
<1>5. after \in [Peers -> Seq(Sent)]
  BY <1>2, <1>3 DEF Receives
<1> HIDE DEF r, t
<1>6. SlotTalk(d, after) = t
  BY <1>2, <1>3, <1>4 DEF SlotTalk
<1>7. Said(r) /\ Rising(r, rev)
  <2>1. d.queue.messages \in Seq(Sent)
    BY <1>3 DEF Connection
  <2>2. t \in Seq(Sent) /\ t = r \o d.queue.messages
    BY <1>2, <1>3
  <2>3. Len(r) <= Len(t) /\ \A i \in 1 .. Len(r) : r[i] = t[i]
    <3> PICK x \in Seq(Sent) : x = d.queue.messages
      BY <2>1
    <3>1. r \in Seq(Sent) /\ t = r \o x
      BY <1>3, <2>2
    <3> QED
      BY ONLY <3>1, x \in Seq(Sent)
  <2> QED
    BY <1>1, <1>3, <2>2, <2>3, PrefixSaid
<1>8. Sound(d, t, rev)
  BY <1>1, <1>3 DEF Sound
<1>9. d # NoConn /\ c # NoConn
  BY <1>1, <1>3, ConnectionIsConn
<1> QED
  BY <1>3, <1>4, <1>5, <1>6, <1>7, <1>8, <1>9 DEF t

\* The observer's invariant depends on its talk, not on what of it is sent.
LEMMA ObservingKept ==
  ASSUME NEW c, NEW t, NEW scr, NEW ph, Observing(c, t, scr, ph),
         NEW d, d.closing = c.closing, d.initial = c.initial, d.last = c.last
  PROVE  Observing(d, t, scr, ph)
BY DEF Observing, Attentive

\* FlushWrite keeps the invariant.
LEMMA FlushWriteKeeps ==
  ASSUME Inv, NEW slot \in Slots, NEW n \in Nat, FlushWrite(slot, n)
  PROVE  Inv'
<1> DEFINE c == Conn(slot)
<1> PICK o : o = c
  OBVIOUS
<1> PICK d : d = [o EXCEPT !.queue = Write(@, n)]
  OBVIOUS
<1>1. /\ UNCHANGED <<phase, screen, fresh>> /\ o # NoConn /\ o.queue.messages # <<>>
      /\ n \in 1 .. Head(o.queue.messages).size - o.queue.offset
      /\ Set(slot, d)
      /\ told' = IF o.queue.offset + n = Head(o.queue.messages).size
                 THEN [told EXCEPT ![o.peer] = Append(@, Head(o.queue.messages))] ELSE told
  BY DEF FlushWrite
<1>2. /\ screen \in Screen /\ told \in [Peers -> Seq(Sent)] /\ PendingOK(pending, told, screen)
      /\ Apart(pending, client, observer, fresh) /\ fresh \in SUBSET fresh
      /\ ClientOK(client, told, screen, phase) /\ ObserverOK(observer, told, screen, phase)
      /\ Heard(told, screen) /\ fresh \subseteq Peers
  BY DEF Inv
<1>3. \/ slot = "pending" /\ o = pending
      \/ slot = "client" /\ o = client
      \/ slot = "observer" /\ o = observer
  <2>1. /\ slot = "pending" => Conn(slot) = pending
        /\ slot = "client" => Conn(slot) = client
        /\ slot = "observer" => Conn(slot) = observer
    BY DEF Conn
  <2>2. o = Conn(slot)
    OBVIOUS
  <2> QED
    BY <2>1, <2>2 DEF Slots
<1>4. Sound(o, SlotTalk(o, told), screen.revision) /\ o.peer \notin fresh
  BY <1>1, <1>2, <1>3 DEF PendingOK, ClientOK, ObserverOK, Apart
<1> DEFINE t == SlotTalk(o, told)
<1>5. /\ Sound(d, SlotTalk(d, told'), screen.revision) /\ SlotTalk(d, told') = t
      /\ d.peer = o.peer /\ d.closing = o.closing /\ d.initial = o.initial /\ d.last = o.last
      /\ d # NoConn
      /\ told' \in [Peers -> Seq(Sent)]
      /\ Said(told'[o.peer]) /\ Rising(told'[o.peer], screen.revision)
      /\ \A q \in Peers : q # o.peer => told'[q] = told[q]
  <2> PICK after : after = told'
    OBVIOUS
  <2>1. Writes(o, d, n) /\ Receives(o, told, after, n)
    BY <1>1 DEF Writes, Receives
  <2>2. /\ Sound(d, SlotTalk(d, after), screen.revision) /\ SlotTalk(d, after) = SlotTalk(o, told)
        /\ d.peer = o.peer /\ d.closing = o.closing /\ d.initial = o.initial /\ d.last = o.last
        /\ d # NoConn
        /\ after \in [Peers -> Seq(Sent)]
        /\ Said(after[o.peer]) /\ Rising(after[o.peer], screen.revision)
        /\ \A q \in Peers : q # o.peer => after[q] = told[q]
    BY ONLY <1>2, <1>4, <2>1, WriteSound
  <2> QED
    BY <2>2
<1> HIDE DEF c, t
<1>6. Heard(told', screen)
  BY <1>2, <1>5 DEF Heard
<1>7. \A p \in fresh : told'[p] = <<>>
  BY <1>2, <1>4, <1>5 DEF Inv, Silent
<1>8. /\ pending # NoConn => pending.peer \in Peers
      /\ client # NoConn => client.peer \in Peers
      /\ observer # NoConn => observer.peer \in Peers
  <2>1. /\ pending # NoConn => pending \in Connection
        /\ client # NoConn => client \in Connection
        /\ observer # NoConn => observer \in Connection
    BY <1>2 DEF PendingOK, ClientOK, ObserverOK, Sound
  <2>2. \A b \in Connection : b.peer \in Peers
    BY DEF Connection
  <2> QED
    BY <2>1, <2>2
<1>9. slot # "pending" => PendingOK(pending, told', screen)
  <2>1. slot # "pending" /\ pending # NoConn => pending.peer # o.peer
    BY <1>1, <1>2, <1>3 DEF Apart
  <2>2. slot # "pending" /\ pending # NoConn => told'[pending.peer] = told[pending.peer]
    BY <1>5, <1>8, <2>1
  <2> QED
    BY <1>2, <1>5, <2>2, PendingLater, MovesSame
<1>10. slot # "client" => ClientOK(client, told', screen, phase)
  <2>1. slot # "client" /\ client # NoConn => client.peer # o.peer
    BY <1>1, <1>2, <1>3 DEF Apart
  <2>2. slot # "client" /\ client # NoConn => told'[client.peer] = told[client.peer]
    BY <1>5, <1>8, <2>1
  <2> QED
    BY <1>2, <1>5, <2>2, ClientLater, MovesSame
<1>11. slot # "observer" => ObserverOK(observer, told', screen, phase)
  <2>1. slot # "observer" /\ observer # NoConn => observer.peer # o.peer
    BY <1>1, <1>2, <1>3 DEF Apart
  <2>2. slot # "observer" /\ observer # NoConn => told'[observer.peer] = told[observer.peer]
    BY <1>5, <1>8, <2>1
  <2> QED
    BY <1>2, <1>5, <2>2, ObserverLater, MovesSame
<1>12. Keeps(d, o)
  BY <1>1, <1>5 DEF Keeps
<1> SUFFICES /\ PendingOK(pending', told', screen)
             /\ ClientOK(client', told', screen, phase)
             /\ ObserverOK(observer', told', screen, phase)
             /\ Apart(pending', client', observer', fresh)
  BY <1>1, <1>2, <1>5, <1>6, <1>7 DEF Inv, Silent
<1>13. CASE slot = "pending" /\ o = pending
  <2>1. pending' = d /\ client' = client /\ observer' = observer
    BY <1>1, <1>13 DEF Set
  <2>2. PendingOK(d, told', screen)
    BY <1>1, <1>2, <1>5, <1>13 DEF PendingOK, Awaiting, t
  <2>3. Apart(d, client, observer, fresh)
    BY <1>2, <1>12, <1>13, ApartKept, KeepsSame
  <2> QED
    BY <1>10, <1>11, <1>13, <2>1, <2>2, <2>3
<1>14. CASE slot = "client" /\ o = client
  <2>1. client' = d /\ pending' = pending /\ observer' = observer
    BY <1>1, <1>14 DEF Set
  <2>2. ClientOK(d, told', screen, phase)
    BY <1>1, <1>2, <1>5, <1>14 DEF ClientOK, Interactive, t
  <2>3. Apart(pending, d, observer, fresh)
    BY <1>2, <1>12, <1>14, ApartKept, KeepsSame
  <2> QED
    BY <1>9, <1>11, <1>14, <2>1, <2>2, <2>3
<1>15. CASE slot = "observer" /\ o = observer
  <2>1. observer' = d /\ client' = client /\ pending' = pending
    BY <1>1, <1>15 DEF Set
  <2>2. ObserverOK(d, told', screen, phase)
    <3>1. Observing(o, t, screen, phase)
      BY <1>1, <1>2, <1>15 DEF ObserverOK, t
    <3>2. Observing(d, t, screen, phase)
      BY <1>5, <3>1, ObservingKept
    <3> QED
      BY <1>5, <3>2 DEF ObserverOK
  <2>3. Apart(pending, client, d, fresh)
    <3>1. Apart(pending, client, o, fresh)
      BY <1>2, <1>15
    <3> QED
      BY <1>12, <3>1 DEF Apart, Keeps
  <2> QED
    BY <1>9, <1>10, <1>15, <2>1, <2>2, <2>3
<1> QED
  BY <1>3, <1>13, <1>14, <1>15

\* A slot that loses its connection, or keeps it.
LEMMA SlotsLost ==
  ASSUME Inv, phase' \in Phases, UNCHANGED <<screen, told, fresh>>,
         phase \in Endings => phase' \in Endings \cup {"ended"},
         phase' \in UpToDate => phase \in UpToDate,
         pending' \in {NoConn, pending},
         client' = NoConn \/ (client' = client /\ phase' # "ended"),
         observer' = NoConn \/ (observer' = observer /\ phase' # "ended")
  PROVE  Inv'
<1>1. /\ screen \in Screen /\ told \in [Peers -> Seq(Sent)] /\ PendingOK(pending, told, screen)
      /\ Apart(pending, client, observer, fresh) /\ fresh \in SUBSET fresh
      /\ ClientOK(client, told, screen, phase) /\ ObserverOK(observer, told, screen, phase)
  BY DEF Inv
<1>2. PendingOK(pending', told, screen)
  BY <1>1 DEF PendingOK
<1>3. ClientOK(client', told, screen, phase')
  <2>1. CASE client' = NoConn
    BY <2>1 DEF ClientOK
  <2>2. CASE client' = client /\ phase' # "ended"
    BY <1>1, <2>2, ClientLater, MovesSame
  <2> QED
    BY <2>1, <2>2
<1>4. ObserverOK(observer', told, screen, phase')
  <2>1. CASE observer' = NoConn
    BY <2>1 DEF ObserverOK
  <2>2. CASE observer' = observer /\ phase' # "ended"
    BY <1>1, <2>2, ObserverLater, MovesSame
  <2> QED
    BY <2>1, <2>2
<1>5. Keeps(pending', pending) /\ Keeps(client', client) /\ Keeps(observer', observer)
  BY KeepsSame
<1>6. Apart(pending', client', observer', fresh)
  BY <1>1, <1>5, ApartKept
<1> QED
  BY <1>1, <1>2, <1>3, <1>4, <1>6, QuietStep, MovesSame

\* PeerGone keeps the invariant.
LEMMA PeerGoneKeeps ==
  ASSUME Inv, NEW slot \in Slots, PeerGone(slot)
  PROVE  Inv'
<1>1. /\ phase \in {"flush"} \cup Endings /\ phase' = phase /\ phase' \in Phases
      /\ UNCHANGED <<screen, told, fresh>> /\ phase' # "ended" /\ Set(slot, NoConn)
  BY DEF PeerGone, Endings, Inv
<1>2. /\ pending' \in {NoConn, pending} /\ client' \in {NoConn, client}
      /\ observer' \in {NoConn, observer}
  BY <1>1 DEF Set
<1> QED
  BY <1>1, <1>2, SlotsLost

\* FlushEnd keeps the invariant.
LEMMA FlushEndKeeps ==
  ASSUME Inv, FlushEnd
  PROVE  Inv'
<1>1. /\ phase = "flush" /\ phase' = "top" /\ phase' \in Phases /\ phase' # "ended"
      /\ phase \notin Endings /\ phase' \notin UpToDate
      /\ UNCHANGED <<screen, told, fresh>>
  BY DEF FlushEnd, Phases, Endings, UpToDate
<1>2. /\ pending' \in {NoConn, pending} /\ client' \in {NoConn, client}
      /\ observer' \in {NoConn, observer}
  BY DEF FlushEnd, Drained
<1> QED
  BY <1>1, <1>2, SlotsLost

\* End keeps the invariant.
LEMMA EndKeeps ==
  ASSUME Inv, End
  PROVE  Inv'
<1>1. /\ phase' = "ended" /\ phase' \in Phases /\ phase' \notin UpToDate
      /\ UNCHANGED <<screen, told, fresh>>
      /\ client' = NoConn /\ observer' = NoConn /\ pending' = NoConn
  BY DEF End, Phases, UpToDate
<1> QED
  BY <1>1, SlotsLost

\* ChildExited keeps the invariant.
LEMMA ChildExitedKeeps ==
  ASSUME Inv, ChildExited
  PROVE  Inv'
<1>1. /\ phase = "top" /\ phase' = "exiting" /\ phase' \in Phases /\ phase \notin Endings
      /\ phase' \in Endings
      /\ UNCHANGED <<pending, told, fresh>>
  BY DEF ChildExited, Phases, Endings
<1>2. /\ screen \in Screen /\ told \in [Peers -> Seq(Sent)] /\ PendingOK(pending, told, screen)
      /\ Apart(pending, client, observer, fresh) /\ fresh \in SUBSET fresh
      /\ ClientOK(client, told, screen, phase) /\ ObserverOK(observer, told, screen, phase)
  BY DEF Inv
<1>3. screen' \in Screen /\ Moves(screen, screen') /\ screen.revision <= screen'.revision
  <2>1. CASE screen' = [screen EXCEPT !.held = FALSE]
    <3>1. /\ screen' \in Screen /\ screen'.revision = screen.revision
          /\ screen'.title = screen.title /\ ~screen'.held
      BY <1>2, <2>1 DEF Screen
    <3>2. screen.revision \in Nat
      BY <1>2, MovesSame
    <3> QED
      BY <3>1, <3>2 DEF Moves
  <2>2. CASE screen.revision < MaxRevision /\ screen' \in Changed
    BY <1>2, <2>2, ChangedMoves
  <2> QED
    BY <2>1, <2>2 DEF ChildExited
<1>4. PendingOK(pending, told, screen') /\ ClientOK(client, told, screen', phase)
  BY <1>1, <1>2, <1>3, PendingLater, ClientLater
<1>5. ClientOK(client', told, screen', "exiting") /\ Keeps(client', client)
  <2>1. ClientOK(Finished(client), told, screen', "exiting") /\ Keeps(Finished(client), client)
    <3> PICK scr \in Screen : scr = screen'
      BY <1>3
    <3> QED
      BY <1>1, <1>2, <1>4, ClientFinished
  <2>2. ClientOK(NoConn, told, screen', "exiting") /\ Keeps(NoConn, client)
    BY DEF ClientOK, Keeps
  <2>3. client' \in {Finished(client), NoConn}
    BY DEF ChildExited
  <2> QED
    BY <2>1, <2>2, <2>3
<1>6. ObserverOK(observer', told, screen', "exiting") /\ Keeps(observer', observer)
  <2> PICK scr \in Screen : scr = screen'
    BY <1>3
  <2> PICK d : d = PublishMetadata(observer)
    OBVIOUS
  <2>1. /\ ObserverOK(d, told, scr, "exiting") /\ Keeps(d, observer)
        /\ d # NoConn => (~d.closing => Observed(SlotTalk(d, told)))
    BY <1>1, <1>2, <1>3, ObserverPublished
  <2>2. ObserverOK(Finished(d), told, scr, "exiting") /\ Keeps(Finished(d), d)
    BY <1>1, <1>2, <2>1, ObserverFinished
  <2>3. observer' = Finished(d)
    BY DEF ChildExited
  <2> QED
    BY <2>1, <2>2, <2>3 DEF Keeps
<1>7. Apart(pending', client', observer', fresh)
  BY <1>1, <1>2, <1>5, <1>6, ApartKept, KeepsSame
<1> QED
  BY <1>1, <1>3, <1>4, <1>5, <1>6, <1>7, QuietStep

\* Stop keeps the invariant.
LEMMA StopKeeps ==
  ASSUME Inv, Stop
  PROVE  Inv'
<1>1. /\ phase \in {"top", "flush"} /\ phase' = "stopping" /\ phase' \in Phases
      /\ phase \notin Endings /\ phase' \in Endings /\ phase' \notin UpToDate
      /\ client' = NoConn /\ observer' = Finished(observer)
      /\ UNCHANGED <<pending, screen, told, fresh>>
  BY DEF Stop, Phases, Endings, UpToDate
<1>2. /\ screen \in Screen /\ told \in [Peers -> Seq(Sent)] /\ PendingOK(pending, told, screen)
      /\ Apart(pending, client, observer, fresh) /\ fresh \in SUBSET fresh
      /\ ObserverOK(observer, told, screen, phase)
  BY DEF Inv
<1>3. ObserverOK(observer, told, screen, "stopping")
  BY <1>1, <1>2, ObserverLater, MovesSame
<1>4. observer # NoConn /\ ~observer.closing => Observed(SlotTalk(observer, told))
  BY <1>1, <1>2 DEF ObserverOK, Observing
<1>5. ObserverOK(observer', told, screen, "stopping") /\ Keeps(observer', observer)
  BY <1>1, <1>2, <1>3, <1>4, ObserverFinished
<1>6. ClientOK(client', told, screen, "stopping") /\ Keeps(client', client)
  BY <1>1 DEF ClientOK, Keeps
<1>7. Apart(pending', client', observer', fresh)
  BY <1>1, <1>2, <1>5, <1>6, ApartKept, KeepsSame
<1> QED
  BY <1>1, <1>2, <1>5, <1>6, <1>7, QuietStep, MovesSame

\* Every step keeps the invariant.
LEMMA NextInv ==
  ASSUME Inv, [Next]_vars
  PROVE  Inv'
<1>1. CASE UNCHANGED vars
  BY <1>1 DEF vars, Inv, Silent
<1>2. CASE Expire
  BY <1>2, ExpireKeeps
<1>3. CASE Turn
  BY <1>3, TurnKeeps
<1>4. CASE \E p \in Peers : Accept(p)
  BY <1>4, AcceptKeeps
<1>5. CASE AcceptEnd
  BY <1>5, AcceptEndKeeps
<1>6. CASE Negotiate
  BY <1>6, NegotiateKeeps
<1>7. CASE Observe
  BY <1>7, ObserveKeeps
<1>8. CASE ReadPty
  BY <1>8, ReadPtyKeeps
<1>9. CASE ServeClient
  BY <1>9, ServeClientKeeps
<1>10. CASE \E slot \in Slots, n \in 1 .. 2 * HeaderBytes : FlushWrite(slot, n)
  <2>1. \A n \in 1 .. 2 * HeaderBytes : n \in Nat
    BY LimitsAssumption
  <2> QED
    BY <1>10, <2>1, FlushWriteKeeps
<1>11. CASE \E slot \in Slots : PeerGone(slot)
  BY <1>11, PeerGoneKeeps
<1>12. CASE FlushEnd
  BY <1>12, FlushEndKeeps
<1>13. CASE ChildExited
  BY <1>13, ChildExitedKeeps
<1>14. CASE Stop
  BY <1>14, StopKeeps
<1>15. CASE End
  BY <1>15, EndKeeps
<1> QED
  BY <1>1, <1>2, <1>3, <1>4, <1>5, <1>6, <1>7, <1>8, <1>9, <1>10, <1>11, <1>12, <1>13,
     <1>14, <1>15 DEF Next

-----------------------------------------------------------------------------
(***************************************************************************)
(* The properties, peer by peer.                                           *)
(***************************************************************************)
\* What a peer is told is what waits in its slot, behind what it has received.
LEMMA TalkOf ==
  ASSUME Inv, NEW c \in {pending, client, observer}, c # NoConn
  PROVE  Talk(c.peer) = SlotTalk(c, told)
<1> DEFINE mine == {d \in {pending, client, observer} : d # NoConn /\ d.peer = c.peer}
<1>1. mine = {c}
  BY DEF Inv, Apart
<1>2. mine # {} /\ (CHOOSE d \in mine : TRUE) = c
  BY <1>1
<1> QED
  BY <1>2 DEF Talk, Waiting, SlotTalk

\* A peer in no slot has heard all it is going to.
LEMMA TalkOfNone ==
  ASSUME Inv, NEW p \in Peers,
         \A c \in {pending, client, observer} : c # NoConn => c.peer # p
  PROVE  Talk(p) = told[p]
<1>1. {d \in {pending, client, observer} : d # NoConn /\ d.peer = p} = {}
  OBVIOUS
<1>2. told[p] \in Seq(Sent)
  BY DEF Inv
<1>3. Talk(p) = told[p] \o <<>>
  BY <1>1 DEF Talk, Waiting
<1> QED
  BY <1>2, <1>3

TalksMatch ==
  /\ \A c \in {pending, client, observer} : c # NoConn => Talk(c.peer) = SlotTalk(c, told)
  /\ \A p \in Peers :
       (\A c \in {pending, client, observer} : c # NoConn => c.peer # p) => Talk(p) = told[p]

\* What a peer has heard and what waits for it is the talk of its slot.
LEMMA TalksAreMatched == Inv => TalksMatch
BY TalkOf, TalkOfNone DEF TalksMatch

\* One of the two.
LEMMA TalkIs ==
  ASSUME Inv, NEW p \in Peers
  PROVE  /\ Talk(p) \in Seq(Sent) /\ Said(Talk(p)) /\ Rising(Talk(p), screen.revision)
         /\ told[p] \in Seq(Sent)
         /\ Len(told[p]) <= Len(Talk(p)) /\ \A i \in 1 .. Len(told[p]) : told[p][i] = Talk(p)[i]
<1>1. told[p] \in Seq(Sent) /\ told \in [Peers -> Seq(Sent)]
  BY DEF Inv
<1>2. CASE \E c \in {pending, client, observer} : c # NoConn /\ c.peer = p
  <2>1. PICK c \in {pending, client, observer} : c # NoConn /\ c.peer = p
    BY <1>2
  <2>2. Talk(p) = SlotTalk(c, told)
    BY <2>1, TalkOf
  <2>3. Sound(c, SlotTalk(c, told), screen.revision)
    BY <2>1 DEF Inv, PendingOK, ClientOK, ObserverOK
  <2>4. c.queue.messages \in Seq(Sent)
    BY <2>3 DEF Sound, Connection
  <2>5. Talk(p) = told[p] \o c.queue.messages
    BY <2>1, <2>2 DEF SlotTalk
  <2> PICK s \in Seq(Sent), x \in Seq(Sent) : s = told[p] /\ x = c.queue.messages
    BY <1>1, <2>4
  <2>6. /\ s \o x \in Seq(Sent) /\ Len(s) <= Len(s \o x)
        /\ \A i \in 1 .. Len(s) : s[i] = (s \o x)[i]
    BY ONLY s \in Seq(Sent), x \in Seq(Sent)
  <2> QED
    BY <2>2, <2>3, <2>5, <2>6 DEF Sound
<1>3. CASE \A c \in {pending, client, observer} : c # NoConn => c.peer # p
  <2>1. Talk(p) = told[p]
    BY <1>3, TalkOfNone
  <2> QED
    BY <1>1, <2>1 DEF Inv, Heard
<1> QED
  BY <1>2, <1>3

\* The invariant has the type of every variable.
LEMMA InvImpliesTypeOK == Inv => TypeOK
<1> SUFFICES ASSUME Inv
             PROVE  TypeOK
  OBVIOUS
<1>1. /\ pending # NoConn => pending \in Connection
      /\ client # NoConn => client \in Connection
      /\ observer # NoConn => observer \in Connection
  BY DEF Inv, PendingOK, ClientOK, ObserverOK, Sound
<1>2. Conn("client") = client /\ Conn("observer") = observer /\ Conn("pending") = pending
  BY DEF Conn
<1>3. \A s \in Slots : Conn(s) # NoConn => Conn(s) \in Connection /\ Conn(s).peer \notin fresh
  BY <1>1, <1>2 DEF Slots, Inv, Apart
<1>4. \A s, r \in Slots :
        s # r /\ Conn(s) # NoConn /\ Conn(r) # NoConn => Conn(s).peer # Conn(r).peer
  BY <1>2 DEF Slots, Inv, Apart
<1> QED
  BY <1>3, <1>4 DEF TypeOK, Inv, Screen

\* The property, one peer at a time.
LEMMA WellSpokenIs == Inv => WellSpoken
<1> SUFFICES ASSUME Inv, NEW p \in Peers, NEW i \in 1 .. Len(Talk(p))
             PROVE  CASE Talk(p)[i].kind \in {"Attached", "ObservingMetadata"} -> i = 1
                      [] Talk(p)[i].kind = "Busy" -> i = 1 /\ Len(Talk(p)) = 1
                      [] Talk(p)[i].kind = "Failure" -> i = Len(Talk(p))
                      [] Talk(p)[i].kind = "Exited" -> i = Len(Talk(p)) /\ i > 1
                      [] Talk(p)[i].kind = "Metadata" ->
                           i > 1 /\ Talk(p)[1].kind = "ObservingMetadata"
  BY DEF WellSpoken
<1> PICK t \in Seq(Sent) : t = Talk(p)
  BY TalkIs
<1>1. t[i].kind \in Kinds
  <2>1. t[i] \in Sent
    OBVIOUS
  <2> QED
    BY <2>1 DEF Sent
<1>2. /\ t[i].kind \in {"Attached", "ObservingMetadata"} => i = 1
      /\ t[i].kind = "Busy" => i = 1 /\ Len(t) = 1
      /\ t[i].kind = "Failure" => i = Len(t)
      /\ t[i].kind = "Exited" => i = Len(t) /\ i > 1
      /\ t[i].kind = "Metadata" => i > 1 /\ t[1].kind = "ObservingMetadata"
  BY TalkIs DEF Said
<1>3. CASE t[i].kind \in {"Attached", "ObservingMetadata"}
  BY <1>2, <1>3
<1>4. CASE t[i].kind = "Busy"
  BY <1>2, <1>4
<1>5. CASE t[i].kind = "Failure"
  BY <1>2, <1>5
<1>6. CASE t[i].kind = "Exited"
  BY <1>2, <1>6
<1>7. CASE t[i].kind = "Metadata"
  BY <1>2, <1>7
<1> QED
  BY <1>1, <1>3, <1>4, <1>5, <1>6, <1>7 DEF Kinds

\* Revisions that rise along a talk are the order of its metadata.
LEMMA MetadataOrderedIs == Inv => MetadataOrdered
BY TalkIs DEF MetadataOrdered, Rising

\* An observer that is up to date has the title of the screen as its last metadata.
LEMMA MetadataConvergesIs == Inv => MetadataConverges
<1> SUFFICES ASSUME Inv, observer # NoConn, ~observer.closing, phase \in UpToDate, ~screen.held
             PROVE  \E i \in Metas(Talk(observer.peer)) :
                      /\ Talk(observer.peer)[i].title = screen.title
                      /\ \A j \in Metas(Talk(observer.peer)) : j <= i
  BY DEF MetadataConverges, UpToDate
<1>1. Talk(observer.peer) = SlotTalk(observer, told)
  BY TalkOf
<1>2. /\ Attentive(observer, SlotTalk(observer, told), screen)
      /\ observer.last = screen.title
  BY DEF Inv, ObserverOK, Observing
<1>3. screen.title # NoTitle
  BY ConnectionsAssumption DEF Inv, Screen
<1>4. Newest(SlotTalk(observer, told), screen.title)
  BY <1>2, <1>3 DEF Attentive
<1> QED
  BY <1>1, <1>4 DEF Newest

\* The strengthening is inductive and holds always.
THEOREM InvariantHolds == Spec => []Inv
<1>1. Init => Inv
  BY InitInv
<1>2. Inv /\ [Next]_vars => Inv'
  BY NextInv
<1> QED
  BY <1>1, <1>2, PTL DEF Spec

\* Types, and no peer is in two slots or in one before it connects.
THEOREM TypeCorrect == Spec => []TypeOK
BY InvariantHolds, InvImpliesTypeOK, PTL

\* Whatever peers do, and however the session ends, none is told what its role is not
\* to hear, anything after a refusal, or a farewell twice.
THEOREM PeersAreWellSpokenTo == Spec => []WellSpoken
BY InvariantHolds, WellSpokenIs, PTL

\* The observer is sent each revision at most once, in order.
THEOREM MetadataComesInOrder == Spec => []MetadataOrdered
BY InvariantHolds, MetadataOrderedIs, PTL

\* Where the loop may wait, the observer is sent what the terminal says.
THEOREM MetadataAlwaysConverges == Spec => []MetadataConverges
BY InvariantHolds, MetadataConvergesIs, PTL

-----------------------------------------------------------------------------
(***************************************************************************)
(* The first metadata.                                                     *)
(***************************************************************************)
\* InitialKept, of what one peer was to be told and is to be told now.
FirstKept(t, u) ==
  \A i \in Metas(t) :
    (\A j \in Metas(t) : i <= j) => Metas(u) = {} \/ (i \in Metas(u) /\ u[i] = t[i])

\* A slot goes on with what it was saying, and starts with no metadata.
GoesOn(c, d) ==
  /\ c # NoConn /\ d # NoConn =>
       d.peer = c.peer /\ FirstKept(SlotTalk(c, told), SlotTalk(d, told'))
  /\ c = NoConn /\ d # NoConn => Metas(Talk(d.peer)) = {}

\* Nothing is taken away.
LEMMA FirstKeptMore ==
  ASSUME NEW t \in Seq(Sent), NEW u, Metas(u) = Metas(t), \A i \in 1 .. Len(t) : u[i] = t[i]
  PROVE  FirstKept(t, u)
BY DEF FirstKept, Metas

\* What is lost with a connection is the end.
LEMMA FirstKeptPrefix ==
  ASSUME NEW t \in Seq(Sent), NEW u \in Seq(Sent),
         Len(u) <= Len(t), \A i \in 1 .. Len(u) : u[i] = t[i]
  PROVE  FirstKept(t, u)
<1> SUFFICES ASSUME NEW i \in Metas(t), \A j \in Metas(t) : i <= j, Metas(u) # {}
             PROVE  i \in Metas(u) /\ u[i] = t[i]
  BY DEF FirstKept
<1>1. Len(t) \in Nat /\ Len(u) \in Nat
  OBVIOUS
<1>2. PICK k \in Metas(u) : TRUE
  OBVIOUS
<1>3. k \in Metas(t) /\ i <= k /\ k \in 1 .. Len(u) /\ i \in 1 .. Len(t)
  BY <1>1 DEF Metas
<1>4. i \in 1 .. Len(u)
  BY <1>1, <1>3
<1> QED
  BY <1>4 DEF Metas

\* A slot that is left alone, or becomes free, keeps its first metadata in place.
LEMMA GoesOnSame ==
  ASSUME NEW c, c # NoConn => told'[c.peer] = told[c.peer] /\ SlotTalk(c, told) \in Seq(Sent)
  PROVE  GoesOn(c, c) /\ GoesOn(c, NoConn)
<1> PICK after : after = told'
  OBVIOUS
<1>1. c # NoConn => SlotTalk(c, after) = SlotTalk(c, told)
  BY SlotSame
<1>2. c # NoConn => FirstKept(SlotTalk(c, told), SlotTalk(c, told))
  BY FirstKeptMore
<1> QED
  BY <1>1, <1>2 DEF GoesOn

\* When the three slots go on, the first of every peer stays.
LEMMA FirstsStay ==
  ASSUME Inv, Inv',
         GoesOn(pending, pending'), GoesOn(client, client'), GoesOn(observer, observer'),
         NEW p \in Peers,
         told'[p] # told[p] =>
           \/ Metas(Talk(p)) = {}
           \/ \E d \in {pending', client', observer'} : d # NoConn /\ d.peer = p
  PROVE  FirstKept(Talk(p), Talk(p)')
<1> SUFFICES ASSUME Metas(Talk(p)) # {}
             PROVE  FirstKept(Talk(p), Talk(p)')
  BY DEF FirstKept
<1>1. /\ Talk(p) \in Seq(Sent) /\ told[p] \in Seq(Sent)
      /\ Len(told[p]) <= Len(Talk(p)) /\ \A i \in 1 .. Len(told[p]) : told[p][i] = Talk(p)[i]
  BY TalkIs
<1> PICK after : after = told'
  OBVIOUS
<1> PICK later : later = Talk(p)'
  OBVIOUS
<1>2. /\ \A d \in {pending', client', observer'} :
           d # NoConn /\ d.peer = p => later = SlotTalk(d, after)
      /\ (\A d \in {pending', client', observer'} : d # NoConn => d.peer # p) => later = after[p]
  <2>1. TalksMatch'
    BY TalksAreMatched, PTL
  <2> QED
    BY <2>1 DEF TalksMatch
<1>3. CASE \A d \in {pending', client', observer'} : d # NoConn => d.peer # p
  <2>1. Talk(p)' = told'[p]
    BY <1>2, <1>3
  <2>2. told'[p] = told[p]
    BY <1>3
  <2> QED
    BY <1>1, <2>1, <2>2, FirstKeptPrefix
<1>4. CASE \E d \in {pending', client', observer'} : d # NoConn /\ d.peer = p
  <2>1. PICK c \in {pending, client, observer}, d \in {pending', client', observer'} :
          d # NoConn /\ d.peer = p /\ GoesOn(c, d)
    BY <1>4
  <2>2. c # NoConn /\ c.peer = p /\ FirstKept(SlotTalk(c, told), SlotTalk(d, told'))
    BY <2>1 DEF GoesOn
  <2>3. Talk(p) = SlotTalk(c, told)
    BY <2>1, <2>2, TalkOf
  <2>4. Talk(p)' = SlotTalk(d, told')
    BY <2>1, <1>2
  <2> QED
    BY <2>2, <2>3, <2>4
<1> QED
  BY <1>3, <1>4

\* A slot that stays as it is, or loses its connection.
LEMMA SlotsGoOn ==
  ASSUME Inv, told' = told
  PROVE  /\ GoesOn(pending, pending) /\ GoesOn(pending, NoConn)
         /\ GoesOn(client, client) /\ GoesOn(client, NoConn)
         /\ GoesOn(observer, observer) /\ GoesOn(observer, NoConn)
<1>1. told \in [Peers -> Seq(Sent)]
  BY DEF Inv
<1>2. /\ pending # NoConn => pending \in Connection
      /\ client # NoConn => client \in Connection
      /\ observer # NoConn => observer \in Connection
  BY DEF Inv, PendingOK, ClientOK, ObserverOK, Sound
<1>3. /\ pending # NoConn => SlotTalk(pending, told) \in Seq(Sent)
      /\ client # NoConn => SlotTalk(client, told) \in Seq(Sent)
      /\ observer # NoConn => SlotTalk(observer, told) \in Seq(Sent)
  BY <1>1, <1>2, SlotTalkType
<1> QED
  BY <1>3, GoesOnSame

\* A peer that is refused is told one thing more.
LEMMA RefusedGoesOn ==
  ASSUME Inv, told' = told, phase \notin Endings,
         NEW c \in {pending, client, observer}, c # NoConn, ~c.closing,
         NEW kind \in {"Busy", "Failure"}, kind = "Busy" => c = pending
  PROVE  GoesOn(c, Close(Push1(c, Response(kind))))
<1> DEFINE d == Close(Push1(c, Response(kind)))
           t == SlotTalk(c, told)
<1> SUFFICES ASSUME d # NoConn
             PROVE  d.peer = c.peer /\ FirstKept(t, SlotTalk(d, told'))
  BY DEF GoesOn
<1>1. told \in [Peers -> Seq(Sent)] /\ screen \in Screen
  BY DEF Inv
<1>2. Sound(c, t, screen.revision) /\ screen.revision \in Nat
  BY <1>1, MovesSame DEF Inv, PendingOK, ClientOK, ObserverOK
<1>3. \/ t = <<>>
      \/ (Greeted(t) \/ Observed(t)) /\ kind = "Failure"
  <2>1. c = pending => t = <<>>
    BY DEF Inv, PendingOK, Awaiting
  <2>2. c = client => Greeted(t)
    BY DEF Inv, ClientOK, Interactive
  <2>3. c = observer => Observed(t)
    BY DEF Inv, ObserverOK, Observing
  <2> QED
    BY <2>1, <2>2, <2>3
<1>4. /\ d.peer = c.peer /\ Metas(SlotTalk(d, told)) = Metas(t)
      /\ \A i \in 1 .. Len(t) : SlotTalk(d, told)[i] = t[i]
  BY <1>1, <1>2, <1>3, Refused
<1>5. t \in Seq(Sent)
  BY <1>1, <1>2, SlotTalkType DEF Sound
<1> HIDE DEF d, t
<1>6. FirstKept(t, SlotTalk(d, told))
  BY <1>4, <1>5, FirstKeptMore
<1> QED
  BY <1>4, <1>6

\* Metadata that is published replaces the first in no case.
LEMMA PublishedGoesOn ==
  ASSUME Inv, told' = told, phase \notin Endings, screen' \in Screen, Moves(screen, screen')
  PROVE  GoesOn(observer, PublishMetadata(observer))
<1> DEFINE t == SlotTalk(observer, told)
<1> PICK d : d = PublishMetadata(observer)
  OBVIOUS
<1> DEFINE u == SlotTalk(d, told)
<1> SUFFICES ASSUME d # NoConn
             PROVE  observer # NoConn /\ d.peer = observer.peer /\ FirstKept(t, u)
  BY DEF GoesOn
<1>1. told \in [Peers -> Seq(Sent)] /\ screen \in Screen
  BY DEF Inv
<1>2. observer # NoConn
  BY DEF PublishMetadata
<1>3. /\ Sound(observer, t, screen.revision)
      /\ Attentive(observer, t, screen)
      /\ ~observer.closing => Observed(t)
  BY <1>2 DEF Inv, ObserverOK, Observing
<1>4. PublishMetadata(observer) # NoConn
  OBVIOUS
<1>5. /\ Sound(d, u, screen'.revision) /\ Attentive(d, u, screen')
      /\ d.peer = observer.peer
      /\ Metas(t) # {} => Metas(u) # {} /\ 2 \in Metas(t) /\ u[2] = t[2]
  BY <1>1, <1>3, <1>4, Published
<1>6. Metas(u) # {} => 2 \in Metas(u)
  BY <1>5 DEF Attentive
<1>7. \A i \in Metas(t) : i > 1 /\ i \in Nat
  <2>1. Said(t) /\ t \in Seq(Sent)
    BY <1>1, <1>3, SlotTalkType DEF Sound
  <2> QED
    BY <2>1 DEF Said, Metas
<1> HIDE DEF t, u
<1>8. FirstKept(t, u)
  <2> SUFFICES ASSUME NEW i \in Metas(t), \A j \in Metas(t) : i <= j
               PROVE  i \in Metas(u) /\ u[i] = t[i]
    BY DEF FirstKept
  <2>1. i <= 2 /\ i > 1 /\ i \in Nat
    BY <1>5, <1>7
  <2>2. i = 2
    BY <2>1
  <2> QED
    BY <1>5, <1>6, <2>2
<1> QED
  BY <1>2, <1>5, <1>8

\* A farewell comes behind.
LEMMA FinishedGoesOn ==
  ASSUME Inv, told' = told,
         NEW c, NEW rev \in Nat, NEW d, GoesOn(c, d), c = NoConn => d = NoConn,
         d # NoConn =>
           /\ Sound(d, SlotTalk(d, told), rev)
           /\ ~d.closing => Greeted(SlotTalk(d, told)) \/ Observed(SlotTalk(d, told))
  PROVE  GoesOn(c, Finished(d))
<1>1. CASE d = NoConn
  BY <1>1 DEF Finished
<1>2. CASE d # NoConn
  <2> DEFINE e == Finished(d)
             t == SlotTalk(c, told)
             u == SlotTalk(d, told)
             w == SlotTalk(e, told)
  <2>1. told \in [Peers -> Seq(Sent)]
    BY DEF Inv
  <2>2. /\ e # NoConn /\ e.peer = d.peer
        /\ Metas(w) = Metas(u) /\ \A i \in 1 .. Len(u) : w[i] = u[i]
    BY <1>2, <2>1, FinishedSound
  <2>3. c # NoConn /\ d.peer = c.peer /\ FirstKept(t, u)
    BY <1>2 DEF GoesOn
  <2> HIDE DEF e, t, u, w
  <2>4. FirstKept(t, w)
    BY <2>2, <2>3 DEF FirstKept, Metas
  <2>5. FirstKept(SlotTalk(c, told), SlotTalk(e, told'))
    BY <2>4 DEF t, w
  <2> QED
    BY <2>2, <2>3, <2>5 DEF GoesOn, e
<1> QED
  BY <1>1, <1>2

-----------------------------------------------------------------------------
(***************************************************************************)
(* The first metadata in every step.                                       *)
(***************************************************************************)
AllGoOn ==
  GoesOn(pending, pending') /\ GoesOn(client, client') /\ GoesOn(observer, observer')

\* Sections that drop connections or leave them.
LEMMA LostGoOn ==
  ASSUME Inv, told' = told,
         pending' \in {pending, NoConn}, client' \in {client, NoConn},
         observer' \in {observer, NoConn}
  PROVE  AllGoOn
BY SlotsGoOn DEF AllGoOn

\* Expire leaves the first metadata of every talk in its place.
LEMMA ExpireGoesOn == ASSUME Inv, Expire PROVE AllGoOn
<1>1. /\ pending # NoConn /\ pending' = [pending EXCEPT !.expired = TRUE]
      /\ told' = told /\ client' = client /\ observer' = observer
  BY DEF Expire
<1>2. pending \in Connection
  BY <1>1 DEF Inv, PendingOK, Sound
<1>3. pending'.queue = pending.queue /\ pending'.peer = pending.peer
  BY <1>1, <1>2 DEF Connection
<1>4. SlotTalk(pending', told) = SlotTalk(pending, told)
  BY <1>3 DEF SlotTalk
<1>5. GoesOn(pending, pending)
  BY <1>1, SlotsGoOn
<1>6. GoesOn(pending, pending')
  BY <1>1, <1>3, <1>4, <1>5 DEF GoesOn
<1> QED
  BY <1>1, <1>6, SlotsGoOn DEF AllGoOn

\* Turn leaves the first metadata of every talk in its place.
LEMMA TurnGoesOn == ASSUME Inv, Turn PROVE AllGoOn
<1>1. /\ phase = "top" /\ UNCHANGED <<client, told, fresh>>
      /\ pending' \in {NoConn, pending} /\ observer' = PublishMetadata(observer)
      /\ screen \in Screen /\ screen' \in {screen, [screen EXCEPT !.held = FALSE]}
  BY DEF Turn, Inv
<1>2. /\ screen' \in Screen /\ screen'.revision = screen.revision
      /\ screen'.title = screen.title /\ (screen'.held = screen.held \/ ~screen'.held)
  BY <1>1 DEF Screen
<1>3. Moves(screen, screen')
  BY <1>2 DEF Moves
<1>4. GoesOn(observer, observer')
  BY <1>1, <1>2, <1>3, PublishedGoesOn DEF Endings
<1> QED
  BY <1>1, <1>4, SlotsGoOn DEF AllGoOn

\* Negotiate leaves the first metadata of every talk in its place.
LEMMA NegotiateGoesOn == ASSUME Inv, Negotiate PROVE AllGoOn
<1>1. phase \notin Endings /\ told' = told
  BY DEF Negotiate, Endings
<1>2. CASE UNCHANGED <<pending, client, observer>>
  BY <1>1, <1>2, LostGoOn
<1>3. CASE /\ pending # NoConn /\ ~pending.closing /\ UNCHANGED <<client, observer>>
           /\ pending' \in {NoConn, Close(Push1(pending, Response("Busy"))),
                            Close(Push1(pending, Response("Failure")))}
  <2>1. /\ GoesOn(pending, Close(Push1(pending, Response("Busy"))))
        /\ GoesOn(pending, Close(Push1(pending, Response("Failure"))))
    BY <1>1, <1>3, RefusedGoesOn
  <2>2. /\ GoesOn(pending, NoConn) /\ GoesOn(client, client) /\ GoesOn(observer, observer)
    BY <1>1, SlotsGoOn
  <2> QED
    BY <1>3, <2>1, <2>2 DEF AllGoOn
<1>4. CASE /\ pending # NoConn /\ ~pending.closing /\ pending' = NoConn
           /\ client = NoConn => Keeps(client', pending)
           /\ observer = NoConn => Keeps(observer', pending)
           /\ client # NoConn => client' = client
           /\ observer # NoConn => observer' = observer
  <2>1. Talk(pending.peer) = SlotTalk(pending, told)
    BY <1>4, TalkOf
  <2>2. SlotTalk(pending, told) = <<>>
    BY <1>4 DEF Inv, PendingOK, Awaiting
  <2>3. Metas(Talk(pending.peer)) = {}
    BY <2>1, <2>2 DEF Metas
  <2>4. \A d : Keeps(d, pending) => GoesOn(NoConn, d)
    BY <2>3 DEF Keeps, GoesOn
  <2>5. GoesOn(pending, NoConn) /\ GoesOn(client, client) /\ GoesOn(observer, observer)
    BY <1>1, SlotsGoOn
  <2>6. GoesOn(client, client')
    BY <1>4, <2>4, <2>5
  <2>7. GoesOn(observer, observer')
    BY <1>4, <2>4, <2>5
  <2> QED
    BY <1>4, <2>5, <2>6, <2>7 DEF AllGoOn
<1>5. CASE /\ pending # NoConn /\ ~pending.closing /\ pending' = NoConn
           /\ client = NoConn /\ client' \in {NoConn, Push1(pending, Response("Attached"))}
           /\ UNCHANGED observer
  <2>1. told \in [Peers -> Seq(Sent)] /\ screen \in Screen /\ PendingOK(pending, told, screen)
    BY DEF Inv
  <2>2. Keeps(Push1(pending, Response("Attached")), pending)
    BY <1>5, <2>1, HelloOK
  <2>3. Keeps(client', pending)
    BY <1>5, <2>2, KeepsSame
  <2>4. observer = NoConn => Keeps(observer', pending)
    BY <1>5 DEF Keeps
  <2> QED
    BY <1>4, <1>5, <2>3, <2>4
<1>6. CASE /\ pending # NoConn /\ ~pending.closing /\ pending' = NoConn
           /\ observer = NoConn /\ UNCHANGED client
           /\ LET c == Push1(pending, Response("ObservingMetadata"))
              IN  observer' = IF c = NoConn THEN NoConn
                              ELSE PublishMetadata([c EXCEPT !.initial = TRUE])
  <2>1. /\ told \in [Peers -> Seq(Sent)] /\ screen \in Screen /\ PendingOK(pending, told, screen)
        /\ screen' = screen
    BY DEF Inv, Negotiate
  <2>2. Keeps(observer', pending)
    <3>1. CASE Push1(pending, Response("ObservingMetadata")) = NoConn
      BY <1>6, <3>1 DEF Keeps
    <3>2. CASE Push1(pending, Response("ObservingMetadata")) # NoConn
      BY <1>6, <2>1, <3>2, ObserveOK
    <3> QED
      BY <3>1, <3>2
  <2>3. client = NoConn => Keeps(client', pending)
    BY <1>6 DEF Keeps
  <2> QED
    BY <1>4, <1>6, <2>2, <2>3
<1> QED
  BY <1>2, <1>3, <1>5, <1>6 DEF Negotiate, Refusals, Reject

\* Observe leaves the first metadata of every talk in its place.
LEMMA ObserveGoesOn == ASSUME Inv, Observe PROVE AllGoOn
<1>1. phase \notin Endings /\ UNCHANGED <<pending, client, told>>
  BY DEF Observe, Endings
<1>2. CASE observer' \in {observer, NoConn}
  BY <1>1, <1>2, LostGoOn
<1>3. CASE observer # NoConn /\ ~observer.closing /\ observer' = Reject(observer)
  <2>1. GoesOn(observer, Reject(observer))
    BY <1>1, <1>3, RefusedGoesOn DEF Reject
  <2> QED
    BY <1>1, <1>3, <2>1, SlotsGoOn DEF AllGoOn
<1> QED
  BY <1>2, <1>3 DEF Observe, Refusals

\* ReadPty leaves the first metadata of every talk in its place.
LEMMA ReadPtyGoesOn == ASSUME Inv, ReadPty PROVE AllGoOn
<1>1. phase \notin Endings /\ UNCHANGED <<pending, client, told>> /\ screen \in Screen
  BY DEF ReadPty, Endings, Inv
<1>2. CASE observer' = observer
  BY <1>1, <1>2, LostGoOn
<1>3. CASE screen.revision < MaxRevision /\ screen' \in Changed
           /\ observer' = PublishMetadata(observer)
  <2>1. screen' \in Screen /\ Moves(screen, screen')
    BY <1>1, <1>3, ChangedMoves
  <2>2. GoesOn(observer, observer')
    BY <1>1, <1>3, <2>1, PublishedGoesOn
  <2> QED
    BY <1>1, <2>2, SlotsGoOn DEF AllGoOn
<1> QED
  BY <1>2, <1>3 DEF ReadPty

\* ServeClient leaves the first metadata of every talk in its place.
LEMMA ServeClientGoesOn == ASSUME Inv, ServeClient PROVE AllGoOn
<1>1. phase \notin Endings /\ UNCHANGED <<pending, observer, told>>
  BY DEF ServeClient, Endings
<1>2. CASE client' \in {client, NoConn}
  BY <1>1, <1>2, LostGoOn
<1>3. CASE client # NoConn /\ ~client.closing /\ client' = Reject(client)
  <2>1. GoesOn(client, Reject(client))
    BY <1>1, <1>3, RefusedGoesOn DEF Reject
  <2> QED
    BY <1>1, <1>3, <2>1, SlotsGoOn DEF AllGoOn
<1> QED
  BY <1>2, <1>3 DEF ServeClient, Refusals

\* ChildExited leaves the first metadata of every talk in its place.
LEMMA ChildExitedGoesOn == ASSUME Inv, ChildExited PROVE AllGoOn
<1>1. phase \notin Endings /\ UNCHANGED <<pending, told>> /\ screen \in Screen
      /\ told \in [Peers -> Seq(Sent)]
  BY DEF ChildExited, Endings, Inv
<1>2. screen' \in Screen /\ Moves(screen, screen')
  <2>1. CASE screen' = [screen EXCEPT !.held = FALSE]
    <3>1. /\ screen' \in Screen /\ screen'.revision = screen.revision
          /\ screen'.title = screen.title /\ ~screen'.held
      BY <1>1, <2>1 DEF Screen
    <3> QED
      BY <3>1 DEF Moves
  <2>2. CASE screen.revision < MaxRevision /\ screen' \in Changed
    BY <1>1, <2>2, ChangedMoves
  <2> QED
    BY <2>1, <2>2 DEF ChildExited
<1>3. GoesOn(client, client')
  <2>1. GoesOn(client, client) /\ GoesOn(client, NoConn)
    BY <1>1, SlotsGoOn
  <2>2. client # NoConn =>
          /\ Sound(client, SlotTalk(client, told), screen.revision)
          /\ ~client.closing => Greeted(SlotTalk(client, told))
    BY <1>1 DEF Inv, ClientOK, Interactive
  <2>3. screen.revision \in Nat
    BY <1>1, MovesSame
  <2>4. GoesOn(client, Finished(client))
    BY <1>1, <2>1, <2>2, <2>3, FinishedGoesOn
  <2> QED
    BY <2>1, <2>4 DEF ChildExited
<1>4. GoesOn(observer, observer')
  <2> PICK scr \in Screen : scr = screen'
    BY <1>2
  <2> PICK d : d = PublishMetadata(observer)
    OBVIOUS
  <2>1. GoesOn(observer, d) /\ (observer = NoConn => d = NoConn)
    BY <1>1, <1>2, PublishedGoesOn DEF PublishMetadata
  <2>2. /\ ObserverOK(d, told, scr, "exiting")
        /\ d # NoConn => (~d.closing => Observed(SlotTalk(d, told)))
    BY <1>1, <1>2, ObserverPublished DEF Inv
  <2>3. d # NoConn => Sound(d, SlotTalk(d, told), scr.revision)
    BY <2>2 DEF ObserverOK
  <2>4. scr.revision \in Nat
    BY MovesSame
  <2>5. GoesOn(observer, Finished(d))
    BY <1>1, <2>1, <2>2, <2>3, <2>4, FinishedGoesOn
  <2> QED
    BY <2>5 DEF ChildExited
<1> QED
  BY <1>1, <1>3, <1>4, SlotsGoOn DEF AllGoOn

\* Stop leaves the first metadata of every talk in its place.
LEMMA StopGoesOn == ASSUME Inv, Stop PROVE AllGoOn
<1>1. /\ phase \notin Endings /\ UNCHANGED <<pending, told>> /\ screen \in Screen
      /\ client' = NoConn /\ observer' = Finished(observer)
  BY DEF Stop, Endings, Inv
<1>2. observer # NoConn =>
        /\ Sound(observer, SlotTalk(observer, told), screen.revision)
        /\ ~observer.closing => Observed(SlotTalk(observer, told))
  BY <1>1 DEF Inv, ObserverOK, Observing
<1>3. screen.revision \in Nat /\ GoesOn(observer, observer)
  BY <1>1, MovesSame, SlotsGoOn
<1>4. GoesOn(observer, Finished(observer))
  BY <1>1, <1>2, <1>3, FinishedGoesOn
<1> QED
  BY <1>1, <1>4, SlotsGoOn DEF AllGoOn

\* A peer that connects was told nothing.
LEMMA FreshAreTold ==
  ASSUME Inv, NEW p \in fresh
  PROVE  /\ p \in Peers /\ Metas(Talk(p)) = {}
         /\ \A c \in {pending, client, observer} : c # NoConn => c.peer # p
<1>1. p \in Peers /\ told[p] = <<>>
  BY DEF Inv, Silent
<1>2. \A c \in {pending, client, observer} : c # NoConn => c.peer # p
  BY DEF Inv, Apart
<1>3. Talk(p) = <<>>
  BY <1>1, <1>2, TalkOfNone
<1> QED
  BY <1>1, <1>2, <1>3 DEF Metas

\* Accept leaves the first metadata of every talk in its place.
LEMMA AcceptGoesOn ==
  ASSUME Inv, NEW p \in Peers, Accept(p)
  PROVE  AllGoOn /\ Metas(Talk(p)) = {} /\ \A q \in Peers : q # p => told'[q] = told[q]
<1>1. p \in fresh /\ UNCHANGED <<client, observer>> /\ told \in [Peers -> Seq(Sent)]
  BY DEF Accept, Inv
<1>2. /\ Metas(Talk(p)) = {}
      /\ \A c \in {pending, client, observer} : c # NoConn => c.peer # p
  BY <1>1, FreshAreTold
<1>3. \A q \in Peers : q # p => told'[q] = told[q]
  BY <1>1 DEF Accept
<1>4. /\ pending # NoConn => pending \in Connection
      /\ client # NoConn => client \in Connection
      /\ observer # NoConn => observer \in Connection
  BY DEF Inv, PendingOK, ClientOK, ObserverOK, Sound
<1>5. \A c \in {pending, client, observer} :
        c # NoConn => told'[c.peer] = told[c.peer] /\ SlotTalk(c, told) \in Seq(Sent)
  <2> SUFFICES ASSUME NEW c \in {pending, client, observer}, c # NoConn
               PROVE  told'[c.peer] = told[c.peer] /\ SlotTalk(c, told) \in Seq(Sent)
    OBVIOUS
  <2>1. c \in Connection /\ c.peer # p
    BY <1>2, <1>4
  <2>2. SlotTalk(c, told) \in Seq(Sent) /\ c.peer \in Peers
    BY <1>1, <2>1, SlotTalkType
  <2> QED
    BY <1>3, <2>1, <2>2
<1>6. GoesOn(client, client) /\ GoesOn(observer, observer) /\ GoesOn(pending, pending)
  BY <1>5, GoesOnSame
<1>7. GoesOn(pending, pending')
  <2>1. CASE pending' = pending
    BY <1>6, <2>1
  <2>2. CASE pending = NoConn /\ pending' = NewConn(p)
    <3>1. NewConn(p).peer = p
      BY DEF NewConn
    <3> QED
      BY <1>2, <2>2, <3>1 DEF GoesOn
  <2> QED
    BY <2>1, <2>2 DEF Accept
<1> QED
  BY <1>1, <1>2, <1>3, <1>6, <1>7 DEF AllGoOn

\* A write moves what a peer is told, and the slot keeps the peer.
LEMMA FlushWriteGoesOn ==
  ASSUME Inv, NEW slot \in Slots, NEW n \in Nat, FlushWrite(slot, n)
  PROVE  /\ AllGoOn
         /\ \A q \in Peers :
              told'[q] # told[q] =>
                \E d \in {pending', client', observer'} : d # NoConn /\ d.peer = q
<1> DEFINE c == Conn(slot)
<1> PICK o : o = c
  OBVIOUS
<1> PICK d : d = [o EXCEPT !.queue = Write(@, n)]
  OBVIOUS
<1> PICK after : after = told'
  OBVIOUS
<1>1. o # NoConn /\ Writes(o, d, n) /\ Receives(o, told, after, n) /\ Set(slot, d)
  BY DEF FlushWrite, Writes, Receives
<1>2. \/ slot = "pending" /\ o = pending
      \/ slot = "client" /\ o = client
      \/ slot = "observer" /\ o = observer
  BY DEF Slots, Conn
<1>3. told \in [Peers -> Seq(Sent)] /\ Apart(pending, client, observer, fresh)
  BY DEF Inv
<1>4. Sound(o, SlotTalk(o, told), screen.revision)
  BY <1>1, <1>2 DEF Inv, PendingOK, ClientOK, ObserverOK
<1>5. /\ SlotTalk(d, after) = SlotTalk(o, told) /\ d.peer = o.peer /\ d # NoConn
      /\ \A q \in Peers : q # o.peer => after[q] = told[q]
  BY ONLY <1>1, <1>3, <1>4, WriteSound
<1>6. SlotTalk(o, told) \in Seq(Sent)
  BY <1>3, <1>4, SlotTalkType DEF Sound
<1>7. GoesOn(o, d)
  <2>1. FirstKept(SlotTalk(o, told), SlotTalk(o, told))
    BY <1>6, FirstKeptMore
  <2> QED
    BY <1>1, <1>5, <2>1 DEF GoesOn
<1>8. \A b \in {pending, client, observer} :
        b # NoConn /\ b.peer # o.peer => GoesOn(b, b)
  <2> SUFFICES ASSUME NEW b \in {pending, client, observer}, b # NoConn, b.peer # o.peer
               PROVE  GoesOn(b, b)
    OBVIOUS
  <2>1. b \in Connection
    BY DEF Inv, PendingOK, ClientOK, ObserverOK, Sound
  <2>2. SlotTalk(b, told) \in Seq(Sent) /\ b.peer \in Peers
    BY <1>3, <2>1, SlotTalkType
  <2>3. told'[b.peer] = told[b.peer]
    BY <1>5, <2>2
  <2> QED
    BY <2>2, <2>3, GoesOnSame
<1>9. GoesOn(NoConn, NoConn)
  BY DEF GoesOn
<1>10. \A b \in {pending', client', observer'} :
         b = d \/ (b \in {pending, client, observer})
  BY <1>1 DEF Set
<1>11. /\ slot # "pending" => pending' = pending /\ GoesOn(pending, pending)
       /\ slot # "client" => client' = client /\ GoesOn(client, client)
       /\ slot # "observer" => observer' = observer /\ GoesOn(observer, observer)
  <2>1. /\ slot # "pending" /\ pending # NoConn => pending.peer # o.peer
        /\ slot # "client" /\ client # NoConn => client.peer # o.peer
        /\ slot # "observer" /\ observer # NoConn => observer.peer # o.peer
    BY <1>1, <1>2, <1>3 DEF Apart
  <2> QED
    BY <1>1, <1>8, <1>9, <2>1 DEF Set
<1>12. /\ slot = "pending" => pending' = d
       /\ slot = "client" => client' = d
       /\ slot = "observer" => observer' = d
  BY <1>1 DEF Set
<1> HIDE DEF c
<1>13. AllGoOn
  BY <1>2, <1>7, <1>11, <1>12 DEF AllGoOn
<1>14. d \in {pending', client', observer'}
  BY <1>2, <1>12
<1>15. \A q \in Peers :
         told'[q] # told[q] =>
           \E b \in {pending', client', observer'} : b # NoConn /\ b.peer = q
  BY <1>5, <1>14
<1> QED
  BY <1>13, <1>15

\* No step takes a peer's first metadata away, but with all of it.
LEMMA FirstsAreKept ==
  ASSUME Inv, Inv', [Next]_vars, NEW p \in Peers
  PROVE  FirstKept(Talk(p), Talk(p)')
<1> DEFINE Moved == \E d \in {pending', client', observer'} : d # NoConn /\ d.peer = p
<1> SUFFICES AllGoOn /\ (told'[p] # told[p] => Metas(Talk(p)) = {} \/ Moved)
  BY FirstsStay DEF AllGoOn
<1>1. CASE UNCHANGED vars
  BY <1>1, LostGoOn DEF vars
<1>2. CASE Expire
  BY <1>2, ExpireGoesOn DEF Expire
<1>3. CASE Turn
  BY <1>3, TurnGoesOn DEF Turn
<1>4. CASE \E q \in Peers : Accept(q)
  BY <1>4, AcceptGoesOn
<1>5. CASE AcceptEnd
  BY <1>5, LostGoOn DEF AcceptEnd
<1>6. CASE Negotiate
  BY <1>6, NegotiateGoesOn DEF Negotiate
<1>7. CASE Observe
  BY <1>7, ObserveGoesOn DEF Observe
<1>8. CASE ReadPty
  BY <1>8, ReadPtyGoesOn DEF ReadPty
<1>9. CASE ServeClient
  BY <1>9, ServeClientGoesOn DEF ServeClient
<1>10. CASE \E slot \in Slots, n \in 1 .. 2 * HeaderBytes : FlushWrite(slot, n)
  <2>1. \A n \in 1 .. 2 * HeaderBytes : n \in Nat
    BY LimitsAssumption
  <2> QED
    BY <1>10, <2>1, FlushWriteGoesOn
<1>11. CASE \E slot \in Slots : PeerGone(slot)
  <2>1. /\ told' = told /\ pending' \in {pending, NoConn} /\ client' \in {client, NoConn}
        /\ observer' \in {observer, NoConn}
    BY <1>11 DEF PeerGone, Set
  <2> QED
    BY <2>1, LostGoOn
<1>12. CASE FlushEnd
  <2>1. /\ told' = told /\ pending' \in {pending, NoConn} /\ client' \in {client, NoConn}
        /\ observer' \in {observer, NoConn}
    BY <1>12 DEF FlushEnd, Drained
  <2> QED
    BY <2>1, LostGoOn
<1>13. CASE ChildExited
  BY <1>13, ChildExitedGoesOn DEF ChildExited
<1>14. CASE Stop
  BY <1>14, StopGoesOn DEF Stop
<1>15. CASE End
  BY <1>15, LostGoOn DEF End
<1> QED
  BY <1>1, <1>2, <1>3, <1>4, <1>5, <1>6, <1>7, <1>8, <1>9, <1>10, <1>11, <1>12, <1>13,
     <1>14, <1>15 DEF Next

\* The first metadata that an observer is to be sent is the first that it gets.
THEOREM InitialMetadataIsKept == Spec => InitialKept
<1> DEFINE Kept1 ==
      \A p \in Peers :
        \A i \in Metas(Talk(p)) :
          (\A j \in Metas(Talk(p)) : i <= j) =>
            \/ Metas(Talk(p))' = {}
            \/ i \in Metas(Talk(p))' /\ Talk(p)'[i] = Talk(p)[i]
<1>1. Inv /\ Inv' /\ [Next]_vars => Kept1
  <2> SUFFICES ASSUME Inv, Inv', [Next]_vars, NEW p \in Peers
               PROVE  \A i \in Metas(Talk(p)) :
                        (\A j \in Metas(Talk(p)) : i <= j) =>
                          \/ Metas(Talk(p))' = {}
                          \/ i \in Metas(Talk(p))' /\ Talk(p)'[i] = Talk(p)[i]
    OBVIOUS
  <2>1. FirstKept(Talk(p), Talk(p)')
    BY FirstsAreKept
  <2>2. Metas(Talk(p))' = Metas(Talk(p)')
    BY DEF Metas
  <2> QED
    BY <2>1, <2>2 DEF FirstKept
<1> HIDE DEF Kept1
<1>2. Inv /\ Inv' /\ [Next]_vars => [Kept1]_vars
  BY <1>1
<1>3. [][Kept1]_vars => InitialKept
  BY PTL DEF InitialKept, Kept1
<1> QED
  BY <1>2, <1>3, InvariantHolds, PTL DEF Spec
=============================================================================
