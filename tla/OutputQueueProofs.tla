-------------------------- MODULE OutputQueueProofs --------------------------
(***************************************************************************)
(* Facts about the operators of OutputQueue, for every value of its        *)
(* constants and every set M of messages with a class and a positive size. *)
(* A sum over a sequence is a recursive function, so its facts are proved  *)
(* by induction; the induction is a least counterexample in a set of       *)
(* natural numbers (LeastElement).                                         *)
(***************************************************************************)
EXTENDS OutputQueue, WellFoundedInduction, TLAPS

\* M is a set of messages as the queue sees them.
QueueMessages(M) == \A m \in M : m.class \in Classes /\ m.size \in Nat \ {0}

QueueOf(M) == [messages : Seq(M), offset : Nat, bytes : Nat]

\* f holds the sums of the first k messages of ms.
SumsUpTo(f, ms, k) ==
  /\ f \in [0 .. k -> Nat]
  /\ f[0] = 0
  /\ \A n \in 1 .. k : f[n] = f[n - 1] + ms[n].size

\* The same of f's values alone.
Recurs(f, ms, k) ==
  /\ f[0] = 0
  /\ \A n \in 0 .. k : f[n] \in Nat
  /\ \A n \in 1 .. k : f[n] = f[n - 1] + ms[n].size

-----------------------------------------------------------------------------
\* Every nonempty set of natural numbers has a least element.
LEMMA LeastElement ==
  ASSUME NEW T \in SUBSET Nat, T # {}
  PROVE  \E m \in T : \A k \in T : m <= k
<1> DEFINE R == OpToRel(<, Nat)
<1>1. IsWellFoundedOn(R, Nat)
  BY NatLessThanWellFounded
<1>2. \A x, y \in Nat : <<y, x>> \in R <=> y < x
  BY DEF OpToRel
<1> HIDE DEF R
<1>3. PICK x \in T : \A y \in T : ~(<<y, x>> \in R)
  BY <1>1, WFMin, Zenon
<1>4. ASSUME NEW k \in T
      PROVE  x <= k
  <2>1. x \in Nat /\ k \in Nat
    OBVIOUS
  <2>2. ~(k < x)
    BY <1>2, <1>3, <2>1
  <2> QED
    BY <2>1, <2>2
<1> QED
  BY <1>4

\* The sums of a sequence of messages exist up to any length.
LEMMA SumsExist ==
  ASSUME NEW M, QueueMessages(M), NEW ms \in Seq(M), NEW k \in 0 .. Len(ms)
  PROVE  \E f : SumsUpTo(f, ms, k)
<1> DEFINE T == {j \in 0 .. Len(ms) : ~ \E f : SumsUpTo(f, ms, j)}
<1>1. SUFFICES ASSUME T # {}
               PROVE  FALSE
  OBVIOUS
<1>2. PICK m \in T : \A j \in T : m <= j
  <2>1. T \in SUBSET Nat
    OBVIOUS
  <2> HIDE DEF T
  <2> QED
    BY <1>1, <2>1, LeastElement
<1>3. m # 0
  <2>1. SumsUpTo([n \in 0 .. 0 |-> 0], ms, 0)
    BY DEF SumsUpTo
  <2> QED
    BY <2>1
<1>4. PICK f : SumsUpTo(f, ms, m - 1)
  BY <1>2, <1>3
<1>5. ms[m].size \in Nat
  BY <1>3 DEF QueueMessages
<1>6. SumsUpTo([n \in 0 .. m |-> IF n = m THEN f[m - 1] + ms[m].size ELSE f[n]], ms, m)
  BY <1>3, <1>4, <1>5 DEF SumsUpTo
<1> QED
  BY <1>6

\* Two sequences with the same sizes up to k have the same sums up to k.
LEMMA SumsAgree ==
  ASSUME NEW M, QueueMessages(M), NEW ms \in Seq(M), NEW ns \in Seq(M), NEW k \in Nat,
         NEW f, Recurs(f, ms, k), NEW g, Recurs(g, ns, k),
         \A i \in 1 .. k : ms[i].size = ns[i].size
  PROVE  \A n \in 0 .. k : f[n] = g[n]
<1> DEFINE T == {j \in 0 .. k : f[j] # g[j]}
<1>1. SUFFICES ASSUME T # {}
               PROVE  FALSE
  OBVIOUS
<1>2. PICK m \in T : \A j \in T : m <= j
  <2>1. T \in SUBSET Nat
    OBVIOUS
  <2> HIDE DEF T
  <2> QED
    BY <1>1, <2>1, LeastElement
<1>3. m # 0
  BY DEF Recurs
<1>4. f[m - 1] = g[m - 1]
  BY <1>2, <1>3
<1> QED
  BY <1>3, <1>4 DEF Recurs

\* Sums is what its recursive definition says.
LEMMA SumsDefinition ==
  ASSUME NEW M, QueueMessages(M), NEW ms \in Seq(M)
  PROVE  SumsUpTo(Sums(ms), ms, Len(ms))
<1>1. PICK f : SumsUpTo(f, ms, Len(ms))
  BY SumsExist
<1>2. f = [n \in 0 .. Len(ms) |-> IF n = 0 THEN 0 ELSE f[n - 1] + ms[n].size]
  BY <1>1 DEF SumsUpTo
<1>3. Sums(ms) = [n \in 0 .. Len(ms) |->
                    IF n = 0 THEN 0 ELSE Sums(ms)[n - 1] + ms[n].size]
  BY <1>2 DEF Sums
<1> DEFINE S == Sums(ms)
           T == {j \in 0 .. Len(ms) : S[j] # f[j]}
<1>4. T = {}
  <2>1. SUFFICES ASSUME T # {}
                 PROVE  FALSE
    OBVIOUS
  <2>2. PICK m \in T : \A j \in T : m <= j
    <3>1. T \in SUBSET Nat
      OBVIOUS
    <3> HIDE DEF T
    <3> QED
      BY <2>1, <3>1, LeastElement
  <2> HIDE DEF S
  <2>3. S = [n \in 0 .. Len(ms) |-> IF n = 0 THEN 0 ELSE S[n - 1] + ms[n].size]
    BY <1>3 DEF S
  <2>4. m # 0
    BY <2>3, <1>1 DEF SumsUpTo
  <2>5. S[m - 1] = f[m - 1]
    BY <2>2, <2>4
  <2> QED
    BY <2>3, <2>4, <2>5, <1>1 DEF SumsUpTo
<1>5. S = f
  <2> HIDE DEF S
  <2>1. S = [n \in 0 .. Len(ms) |-> IF n = 0 THEN 0 ELSE S[n - 1] + ms[n].size]
    BY <1>3 DEF S
  <2>2. \A j \in 0 .. Len(ms) : S[j] = f[j]
    BY <1>4
  <2>3. S = [n \in 0 .. Len(ms) |-> S[n]]
    BY <2>1
  <2>4. f = [n \in 0 .. Len(ms) |-> f[n]]
    BY <1>1 DEF SumsUpTo
  <2> QED
    BY <2>2, <2>3, <2>4
<1> QED
  BY <1>1, <1>5

\* What the later proofs use of it.
LEMMA SumsRecur ==
  ASSUME NEW M, QueueMessages(M), NEW ms \in Seq(M)
  PROVE  Recurs(Sums(ms), ms, Len(ms))
BY SumsDefinition DEF SumsUpTo, Recurs

\* Sums grow by each message's size, and never shrink.
LEMMA SumsMonotone ==
  ASSUME NEW M, QueueMessages(M), NEW ms \in Seq(M),
         NEW n \in 0 .. Len(ms), NEW k \in 0 .. Len(ms), n <= k
  PROVE  Sums(ms)[n] <= Sums(ms)[k]
<1> DEFINE S == Sums(ms)
           T == {j \in n .. Len(ms) : ~(S[n] <= S[j])}
<1>1. SUFFICES ASSUME T # {}
               PROVE  FALSE
  OBVIOUS
<1>2. PICK m \in T : \A j \in T : m <= j
  <2>1. T \in SUBSET Nat
    OBVIOUS
  <2> HIDE DEF T
  <2> QED
    BY <1>1, <2>1, LeastElement
<1>3. Recurs(S, ms, Len(ms))
  BY SumsRecur
<1> HIDE DEF S
<1>4. m # n
  BY <1>2, <1>3 DEF Recurs
<1>5. S[n] <= S[m - 1]
  BY <1>2, <1>4
<1>6. S[m] = S[m - 1] + ms[m].size
  BY <1>3, <1>4 DEF Recurs
<1>7. ms[m].size \in Nat
  BY <1>4 DEF QueueMessages
<1>8. S[n] \in Nat /\ S[m - 1] \in Nat
  BY <1>3, <1>4 DEF Recurs
<1> QED
  BY <1>2, <1>5, <1>6, <1>7, <1>8

\* The sums of a queue after a message is appended.
LEMMA SumsAppend ==
  ASSUME NEW M, QueueMessages(M), NEW ms \in Seq(M), NEW m \in M
  PROVE  Sums(Append(ms, m))[Len(ms) + 1] = Sums(ms)[Len(ms)] + m.size
<1> DEFINE ns == Append(ms, m)
<1>1. ns \in Seq(M) /\ Len(ns) = Len(ms) + 1
  OBVIOUS
<1>2. \A i \in 1 .. Len(ms) : ns[i] = ms[i]
  OBVIOUS
<1>3. ns[Len(ns)] = m
  OBVIOUS
<1>4. Recurs(Sums(ms), ms, Len(ms)) /\ Recurs(Sums(ns), ns, Len(ns))
  BY <1>1, SumsRecur
<1> HIDE DEF ns
<1>5. Recurs([n \in 0 .. Len(ms) |-> Sums(ns)[n]], ns, Len(ms))
  BY <1>1, <1>4 DEF Recurs
<1>6. \A n \in 0 .. Len(ms) : Sums(ms)[n] = [i \in 0 .. Len(ms) |-> Sums(ns)[i]][n]
  BY <1>1, <1>2, <1>4, <1>5, SumsAgree
<1>7. Sums(ns)[Len(ms)] = Sums(ms)[Len(ms)]
  BY <1>6
<1>8. Sums(ns)[Len(ms) + 1] = Sums(ns)[Len(ms)] + ns[Len(ms) + 1].size
  BY <1>1, <1>4 DEF Recurs
<1> QED
  BY <1>1, <1>3, <1>7, <1>8 DEF ns

\* The sums of the first n messages do not depend on what follows them.
LEMMA SumsPrefix ==
  ASSUME NEW M, QueueMessages(M), NEW ms \in Seq(M), NEW n \in 0 .. Len(ms)
  PROVE  Sums(SubSeq(ms, 1, n))[n] = Sums(ms)[n]
<1> DEFINE ns == SubSeq(ms, 1, n)
<1>1. ns \in Seq(M) /\ Len(ns) = n /\ \A i \in 1 .. n : ns[i] = ms[i]
  OBVIOUS
<1>2. Recurs(Sums(ms), ms, Len(ms)) /\ Recurs(Sums(ns), ns, n)
  BY <1>1, SumsRecur
<1> HIDE DEF ns
<1>3. Recurs([j \in 0 .. n |-> Sums(ms)[j]], ms, n)
  BY <1>2, SMTT(30) DEF Recurs
<1>4. \A j \in 0 .. n : Sums(ns)[j] = [i \in 0 .. n |-> Sums(ms)[i]][j]
  BY <1>1, <1>2, <1>3, SumsAgree
<1> QED
  BY <1>4 DEF ns

\* Taking the head off takes its size off every sum.
LEMMA SumsTail ==
  ASSUME NEW M, QueueMessages(M), NEW ms \in Seq(M), ms # <<>>
  PROVE  Sums(Tail(ms))[Len(ms) - 1] = Sums(ms)[Len(ms)] - Head(ms).size
<1> DEFINE ns == Tail(ms)
           S == Sums(ms)
           f == [n \in 0 .. Len(ns) |-> S[n + 1] - S[1]]
<1>1. ns \in Seq(M) /\ Len(ns) = Len(ms) - 1 /\ \A i \in 1 .. Len(ns) : ns[i] = ms[i + 1]
  OBVIOUS
<1>2. Recurs(S, ms, Len(ms)) /\ Recurs(Sums(ns), ns, Len(ns))
  BY <1>1, SumsRecur
<1>3. \A n \in 1 .. Len(ms) : S[1] <= S[n]
  BY SumsMonotone
<1>4. S[1] = Head(ms).size
  <2> HIDE DEF S
  <2>1. 1 \in 1 .. Len(ms) /\ Head(ms) = ms[1] /\ ms[1].size \in Nat
    BY DEF QueueMessages
  <2> QED
    BY <1>2, <2>1 DEF Recurs
<1> HIDE DEF ns, S
<1>5. Recurs(f, ns, Len(ns))
  <2>1. f \in [0 .. Len(ns) -> Nat]
    <3>1. ASSUME NEW n \in 0 .. Len(ns)
          PROVE  S[n + 1] - S[1] \in Nat
      <4>1. n + 1 \in 1 .. Len(ms) /\ 1 \in 1 .. Len(ms) /\ 1 .. Len(ms) \subseteq 0 .. Len(ms)
        BY <1>1
      <4>2. S[n + 1] \in Nat /\ S[1] \in Nat
        BY <1>2, <4>1 DEF Recurs
      <4> QED
        BY <1>3, <4>1, <4>2
    <3> QED
      BY <3>1
  <2>2. f[0] = 0
    BY <1>1, <1>2 DEF Recurs
  <2>3. ASSUME NEW n \in 1 .. Len(ns)
        PROVE  f[n] = f[n - 1] + ns[n].size
    <3>1. S[n + 1] = S[n] + ms[n + 1].size
      BY <1>1, <1>2 DEF Recurs
    <3>2. S[n + 1] \in Nat /\ S[n] \in Nat /\ S[1] \in Nat /\ ms[n + 1].size \in Nat
      BY <1>1, <1>2 DEF Recurs, QueueMessages
    <3>3. ns[n] = ms[n + 1] /\ n \in 0 .. Len(ns) /\ n - 1 \in 0 .. Len(ns)
      BY <1>1
    <3>4. f[n] = S[n + 1] - S[1] /\ f[n - 1] = S[n] - S[1]
      <4>1. f[n - 1] = S[(n - 1) + 1] - S[1]
        BY <3>3
      <4>2. (n - 1) + 1 = n
        OBVIOUS
      <4>3. f[n] = S[n + 1] - S[1]
        BY <3>3
      <4> QED
        BY ONLY <4>1, <4>2, <4>3
    <3> HIDE DEF f
    <3> QED
      BY <3>1, <3>2, <3>3, <3>4, SMTT(30)
  <2> QED
    BY <2>1, <2>2, <2>3 DEF Recurs
<1>6. \A n \in 0 .. Len(ns) : Sums(ns)[n] = f[n]
  <2> HIDE DEF f
  <2> QED
    BY <1>1, <1>2, <1>5, SumsAgree
<1> QED
  BY <1>1, <1>4, <1>6 DEF ns, S

-----------------------------------------------------------------------------
(***************************************************************************)
(* The cut that makes room for a message of a class.                       *)
(***************************************************************************)

\* The shortest allowed cut exists; nothing is always an allowed cut.
LEMMA KeptLeast ==
  ASSUME NEW M, NEW q \in QueueOf(M), NEW class
  PROVE  /\ Kept(q, class) \in Cuts(q, class)
         /\ \A k \in Cuts(q, class) : Kept(q, class) <= k
<1>1. Cuts(q, class) \in SUBSET Nat
  BY DEF Cuts, QueueOf
<1>2. Len(q.messages) \in Cuts(q, class)
  BY DEF Cuts, QueueOf
<1>3. \E n \in Cuts(q, class) : \A k \in Cuts(q, class) : n <= k
  BY <1>1, <1>2, LeastElement
<1> QED
  BY <1>3 DEF Kept

\* What is cut off was replaceable, so a head on the wire stays.
LEMMA KeptFacts ==
  ASSUME NEW M, NEW q \in QueueOf(M), NEW class
  PROVE  /\ Kept(q, class) \in 0 .. Len(q.messages)
         /\ \A i \in Kept(q, class) + 1 .. Len(q.messages) : Replaceable(q, class, i)
         /\ q.offset # 0 /\ q.messages # <<>> => Kept(q, class) >= 1
<1>1. Kept(q, class) \in Cuts(q, class)
  BY KeptLeast
<1>2. /\ Kept(q, class) \in 0 .. Len(q.messages)
      /\ \A i \in Kept(q, class) + 1 .. Len(q.messages) : Replaceable(q, class, i)
  BY <1>1 DEF Cuts
<1>3. ASSUME q.offset # 0, q.messages # <<>>, Kept(q, class) = 0
      PROVE  FALSE
  <2>1. Replaceable(q, class, 1)
    BY <1>2, <1>3 DEF QueueOf
  <2> QED
    BY <1>3, <2>1 DEF Replaceable
<1> QED
  BY <1>2, <1>3 DEF QueueOf

\* Cutting keeps a queue a queue, and a prefix of its messages.
LEMMA CutShape ==
  ASSUME NEW M, NEW q \in QueueOf(M), NEW class
  PROVE  /\ Cut(q, class).messages \in Seq(M)
         /\ Len(Cut(q, class).messages) = Kept(q, class)
         /\ \A i \in 1 .. Kept(q, class) : Cut(q, class).messages[i] = q.messages[i]
         /\ Cut(q, class).offset = q.offset
         /\ Cut(q, class).bytes = q.bytes - RemovedBytes(q, class)
BY KeptFacts DEF Cut, QueueOf

\* Cutting keeps the byte count exact: what it takes off is what it removes.
LEMMA CutAccounted ==
  ASSUME NEW M, QueueMessages(M), NEW q \in QueueOf(M), NEW class, Accounted(q)
  PROVE  /\ Cut(q, class) \in QueueOf(M)
         /\ Accounted(Cut(q, class))
         /\ Cut(q, class).bytes <= q.bytes
<1> DEFINE ms == q.messages
           n == Kept(q, class)
           c == Cut(q, class)
           S == Sums(ms)
<1>1. ms \in Seq(M) /\ q.offset \in Nat /\ q.bytes \in Nat
  BY DEF QueueOf
<1>2. n \in 0 .. Len(ms) /\ (q.offset # 0 /\ ms # <<>> => n >= 1)
  BY KeptFacts
<1>3. c.messages = SubSeq(ms, 1, n) /\ c.offset = q.offset /\ c.bytes = q.bytes - (S[Len(ms)] - S[n])
  BY DEF Cut, RemovedBytes
<1>4. Sums(c.messages)[n] = S[n] /\ Len(c.messages) = n /\ c.messages \in Seq(M)
  BY <1>1, <1>2, <1>3, SumsPrefix
<1>5. Recurs(S, ms, Len(ms))
  BY <1>1, SumsRecur
<1>6. S[n] <= S[Len(ms)]
  BY <1>1, <1>2, SumsMonotone
<1>7. n >= 1 => S[1] <= S[n] /\ S[1] = ms[1].size
  <2> HAVE n >= 1
  <2>1. 1 \in 0 .. Len(ms) /\ ms[1].size \in Nat
    BY <1>1, <1>2 DEF QueueMessages
  <2>2. S[1] <= S[n]
    BY <1>1, <1>2, <2>1, SumsMonotone
  <2> HIDE DEF S, ms, n
  <2> QED
    BY <1>2, <1>5, <2>1, <2>2 DEF Recurs
<1>8. /\ q.bytes + q.offset = S[Len(ms)]
      /\ q.bytes <= MaxOutputBytes
      /\ IF ms = <<>> THEN q.offset = 0 ELSE q.offset < ms[1].size
  BY <1>1 DEF Accounted
<1>9. S[n] \in Nat /\ S[Len(ms)] \in Nat
  <2> HIDE DEF S, ms, n
  <2> QED
    BY <1>1, <1>2, <1>5 DEF Recurs
<1>10. c = [messages |-> c.messages, offset |-> c.offset, bytes |-> c.bytes]
  BY DEF Cut
<1>11. c.messages # <<>> => n >= 1 /\ ms # <<>> /\ Head(c.messages) = ms[1]
  BY <1>1, <1>2, <1>3, <1>4
<1>12. c.messages = <<>> => n = 0 /\ (q.offset # 0 => ms = <<>>)
  BY <1>1, <1>2, <1>4
<1>13. n >= 1 => ms # <<>>
  BY <1>1, <1>2
<1> HIDE DEF S, ms, n, c
<1>14. q.offset <= S[n]
  <2>1. CASE n >= 1
    <3>1. ms[1].size \in Nat
      BY <1>1, <1>2, <2>1 DEF QueueMessages
    <3> QED
      BY <1>1, <1>7, <1>8, <1>9, <1>13, <2>1, <3>1
  <2>2. CASE n = 0
    BY <1>1, <1>2, <1>8, <1>9, <2>2
  <2> QED
    BY <1>1, <1>2, <2>1, <2>2
<1>15. c.bytes \in Nat /\ c.bytes <= q.bytes /\ c.bytes + c.offset = S[n]
  <2>1. c.bytes = q.bytes - (S[Len(ms)] - S[n]) /\ c.offset = q.offset
    BY <1>3
  <2>2. q.bytes + q.offset = S[Len(ms)]
    BY <1>8
  <2>3. q.bytes \in Nat /\ q.offset \in Nat
    BY <1>1
  <2> QED
    BY <1>6, <1>9, <1>14, <2>1, <2>2, <2>3, SMTT(30)
<1>16. c \in QueueOf(M)
  BY <1>1, <1>3, <1>4, <1>10, <1>15 DEF QueueOf
<1>17. MaxOutputBytes \in Nat
  BY LimitsAssumption DEF MaxOutputBytes
<1>18. Accounted(c)
  <2>1. c.bytes + c.offset = Sums(c.messages)[Len(c.messages)]
    BY <1>4, <1>15
  <2>2. c.bytes <= MaxOutputBytes
    BY <1>1, <1>8, <1>15, <1>17
  <2>3. IF c.messages = <<>> THEN c.offset = 0 ELSE c.offset < Head(c.messages).size
    BY <1>3, <1>8, <1>11, <1>12
  <2> QED
    BY <2>1, <2>2, <2>3 DEF Accounted
<1> QED
  BY <1>15, <1>16, <1>18 DEF c

-----------------------------------------------------------------------------
(***************************************************************************)
(* Pushes and writes.                                                      *)
(***************************************************************************)

\* An admitted message keeps the queue accounted: push.
LEMMA PushAccounted ==
  ASSUME NEW M, QueueMessages(M), NEW q \in QueueOf(M), NEW m \in M,
         Accounted(q), Fits(q, m)
  PROVE  Push(q, m) \in QueueOf(M) /\ Accounted(Push(q, m))
<1> DEFINE ms == q.messages
           p == Push(q, m)
<1>1. ms \in Seq(M) /\ q.offset \in Nat /\ q.bytes \in Nat /\ m.size \in Nat \ {0}
  BY DEF QueueOf, QueueMessages
<1>2. p.messages = Append(ms, m) /\ p.offset = q.offset /\ p.bytes = q.bytes + m.size
  BY DEF Push, QueueOf
<1>3. p \in QueueOf(M)
  BY <1>1 DEF Push, QueueOf
<1>4. /\ Len(p.messages) = Len(ms) + 1
      /\ p.messages # <<>>
      /\ Head(p.messages) = IF ms = <<>> THEN m ELSE Head(ms)
  <2> HIDE DEF ms, p
  <2>1. Len(p.messages) = Len(ms) + 1 /\ p.messages # <<>>
    BY <1>1, <1>2
  <2>2. p.messages[1] = IF ms = <<>> THEN m ELSE ms[1]
    BY <1>1, <1>2
  <2> QED
    BY <1>1, <1>2, <2>1, <2>2
<1>5. Sums(p.messages)[Len(p.messages)] = Sums(ms)[Len(ms)] + m.size
  BY <1>1, <1>2, <1>4, SumsAppend
<1>6. q.bytes + q.offset = Sums(ms)[Len(ms)]
  BY DEF Accounted
<1>7. p.bytes + p.offset = Sums(p.messages)[Len(p.messages)]
  BY <1>1, <1>2, <1>5, <1>6
<1>8. p.bytes <= MaxOutputBytes
  BY <1>2 DEF Fits
<1>9. p.offset < Head(p.messages).size
  BY <1>1, <1>2, <1>4 DEF Accounted
<1> HIDE DEF p
<1>10. Accounted(p)
  BY <1>4, <1>7, <1>8, <1>9 DEF Accounted
<1> QED
  BY <1>3, <1>10 DEF p

\* push_replaceable keeps the queue accounted.
LEMMA PushReplaceableAccounted ==
  ASSUME NEW M, QueueMessages(M), NEW q \in QueueOf(M), NEW m \in M,
         Accounted(q), FitsReplaceable(q, m)
  PROVE  PushReplaceable(q, m) \in QueueOf(M) /\ Accounted(PushReplaceable(q, m))
<1>1. Cut(q, m.class) \in QueueOf(M) /\ Accounted(Cut(q, m.class))
  BY CutAccounted
<1> QED
  BY <1>1, PushAccounted DEF PushReplaceable, FitsReplaceable

\* A new connection's queue owes nothing.
LEMMA EmptyAccounted ==
  ASSUME NEW M, QueueMessages(M)
  PROVE  Empty \in QueueOf(M) /\ Accounted(Empty)
<1>1. Empty \in QueueOf(M)
  BY DEF Empty, QueueOf
<1>2. Sums(<<>>)[0] = 0
  <2>1. <<>> \in Seq(M)
    OBVIOUS
  <2>2. Recurs(Sums(<<>>), <<>>, Len(<<>>))
    BY <2>1, SumsRecur
  <2> QED
    BY <2>2 DEF Recurs
<1>3. MaxOutputBytes \in Nat
  BY LimitsAssumption DEF MaxOutputBytes
<1> QED
  BY <1>1, <1>2, <1>3 DEF Accounted, Empty

\* A write of part or all of the head keeps the queue accounted: flush.
LEMMA WriteAccounted ==
  ASSUME NEW M, QueueMessages(M), NEW q \in QueueOf(M), Accounted(q), q.messages # <<>>,
         NEW n \in 1 .. Head(q.messages).size - q.offset
  PROVE  Write(q, n) \in QueueOf(M) /\ Accounted(Write(q, n))
<1> DEFINE ms == q.messages
           h == Head(ms)
           S == Sums(ms)
<1>1. ms \in Seq(M) /\ q.offset \in Nat /\ q.bytes \in Nat /\ h.size \in Nat \ {0}
  BY DEF QueueOf, QueueMessages
<1>2. /\ q.bytes + q.offset = S[Len(ms)]
      /\ q.bytes <= MaxOutputBytes
      /\ q.offset < h.size
  BY DEF Accounted
<1>3. h.size <= S[Len(ms)]
  <2>1. 1 \in 0 .. Len(ms) /\ ms[1] = h
    BY <1>1
  <2>2. S[1] <= S[Len(ms)]
    BY <1>1, <2>1, SumsMonotone
  <2>3. Recurs(S, ms, Len(ms))
    BY <1>1, SumsRecur
  <2>4. S[1] = h.size
    <3> HIDE DEF S, ms, h
    <3> QED
      BY <1>1, <2>1, <2>3 DEF Recurs
  <2> QED
    BY <2>2, <2>4
<1>4. n \in Nat /\ n <= q.bytes /\ MaxOutputBytes \in Nat
  BY <1>1, <1>2, <1>3, LimitsAssumption DEF MaxOutputBytes
<1>5. CASE q.offset + n = h.size
  <2> DEFINE w == [messages |-> Tail(ms), offset |-> 0, bytes |-> q.bytes - n]
  <2>1. Write(q, n) = w
    BY <1>5 DEF Write
  <2>2. Tail(ms) \in Seq(M) /\ Len(Tail(ms)) = Len(ms) - 1
    BY <1>1
  <2>3. w \in QueueOf(M)
    BY <1>1, <1>4, <2>2 DEF QueueOf
  <2>4. Sums(Tail(ms))[Len(ms) - 1] = S[Len(ms)] - h.size
    BY <1>1, SumsTail
  <2>5. w.bytes + w.offset = Sums(w.messages)[Len(w.messages)]
    BY <1>1, <1>2, <1>4, <1>5, <2>2, <2>4
  <2>6. w.bytes <= MaxOutputBytes
    BY <1>1, <1>2, <1>4
  <2>7. w.messages # <<>> => 0 < Head(w.messages).size
    BY <1>1, <2>2 DEF QueueMessages
  <2>8. w.offset = 0
    OBVIOUS
  <2> HIDE DEF w
  <2>9. Accounted(w)
    BY <2>5, <2>6, <2>7, <2>8 DEF Accounted
  <2> QED
    BY <2>1, <2>3, <2>9
<1>6. CASE q.offset + n # h.size
  <2> DEFINE w == [messages |-> ms, offset |-> q.offset + n, bytes |-> q.bytes - n]
  <2>1. Write(q, n) = w
    BY <1>6 DEF Write
  <2>2. w.messages = ms /\ w.offset = q.offset + n /\ w.bytes = q.bytes - n
    BY DEF QueueOf
  <2>3. w \in QueueOf(M)
    BY <1>1, <1>4 DEF QueueOf
  <2>4. w.bytes + w.offset = S[Len(ms)]
    BY <1>1, <1>2, <1>4, <2>2, SMTT(30)
  <2>5. w.bytes <= MaxOutputBytes /\ w.offset < h.size
    BY <1>1, <1>2, <1>4, <1>6, <2>2, SMTT(30)
  <2> HIDE DEF w
  <2>6. Accounted(w)
    BY <2>2, <2>4, <2>5 DEF Accounted
  <2> QED
    BY <2>1, <2>3, <2>6
<1> QED
  BY <1>5, <1>6

-----------------------------------------------------------------------------
(***************************************************************************)
(* Replaceable messages never pile up.                                     *)
(***************************************************************************)
LEMMA PushReplaceableCoalesced ==
  ASSUME NEW M, QueueMessages(M), NEW q \in QueueOf(M), NEW m \in M, Coalesced(q)
  PROVE  Coalesced(PushReplaceable(q, m))
<1> DEFINE n == Kept(q, m.class)
           c == Cut(q, m.class)
           p == PushReplaceable(q, m)
<1>1. /\ c.messages \in Seq(M) /\ Len(c.messages) = n /\ c.offset = q.offset
      /\ \A i \in 1 .. n : c.messages[i] = q.messages[i]
  BY CutShape
<1>2. p.messages = Append(c.messages, m) /\ p.offset = q.offset
  BY <1>1 DEF PushReplaceable, Push, Cut
<1>3. n \in Cuts(q, m.class) /\ \A k \in Cuts(q, m.class) : n <= k
  BY KeptLeast
<1>4. q.messages \in Seq(M) /\ q.offset \in Nat /\ n \in 0 .. Len(q.messages)
  BY <1>3 DEF QueueOf, Cuts
<1> SUFFICES ASSUME NEW i \in 2 .. Len(p.messages),
                    Supersedes(p.messages[i].class, p.messages[i - 1].class)
             PROVE  i = 2 /\ p.offset # 0
  BY DEF Coalesced
<1>5. CASE i <= n
  <2>1. i \in 2 .. Len(q.messages) /\ p.messages[i] = q.messages[i]
                                   /\ p.messages[i - 1] = q.messages[i - 1]
    BY <1>1, <1>2, <1>4, <1>5
  <2> QED
    BY <1>2, <2>1 DEF Coalesced
<1>6. CASE i = n + 1
  <2>1. n >= 1 /\ p.messages[i] = m /\ p.messages[i - 1] = q.messages[n]
    BY <1>1, <1>2, <1>4, <1>6
  <2>2. Supersedes(m.class, q.messages[n].class)
    BY <2>1
  <2>3. ~Replaceable(q, m.class, n)
    \* A replaceable message would have been cut: at once when the cut is of
    \* a run, and, for a preview, unless one preview is already cut behind it.
    <3>1. SUFFICES ASSUME Replaceable(q, m.class, n)
                   PROVE  FALSE
      OBVIOUS
    <3>2. \A k \in n .. Len(q.messages) : k >= n + 1 => Replaceable(q, m.class, k)
      BY <1>3, <1>4 DEF Cuts
    <3>3. n - 1 \notin Cuts(q, m.class)
      BY <1>3, <1>4, <2>1 DEF Cuts
    <3>4. \A k \in n .. Len(q.messages) : Replaceable(q, m.class, k)
      BY <1>4, <2>1, <3>1, <3>2
    <3>5. m.class = "Preview" /\ Len(q.messages) - (n - 1) > 1
      BY <1>4, <2>1, <3>3, <3>4 DEF Cuts
    <3>6. n + 1 \in 2 .. Len(q.messages) /\ n + 1 \in n .. Len(q.messages)
      <4>1. Len(q.messages) \in Nat /\ n \in Nat
        BY <1>4
      <4>2. n >= 1 /\ Len(q.messages) - (n - 1) > 1
        BY <2>1, <3>5
      <4> HIDE DEF n
      <4> QED
        BY <4>1, <4>2
    <3>7. q.messages[n].class = "Preview" /\ q.messages[n + 1].class = "Preview"
      BY <3>4, <3>5, <3>6, <1>4 DEF Replaceable, Supersedes
    <3>8. n + 1 = 2 /\ q.offset # 0
      BY <1>4, <3>6, <3>7 DEF Coalesced, Supersedes
    <3> QED
      BY <1>4, <3>1, <3>8 DEF Replaceable
  <2>4. n = 1 /\ q.offset # 0
    BY <2>2, <2>3 DEF Replaceable
  <2> QED
    BY <1>2, <1>6, <2>4
<1> QED
  BY <1>1, <1>2, <1>4, <1>5, <1>6

\* Cutting leaves the pairs in front of the cut as they were.
LEMMA CutCoalesced ==
  ASSUME NEW M, NEW q \in QueueOf(M), NEW class, Coalesced(q)
  PROVE  Coalesced(Cut(q, class))
<1>1. /\ Len(Cut(q, class).messages) = Kept(q, class)
      /\ \A i \in 1 .. Kept(q, class) : Cut(q, class).messages[i] = q.messages[i]
      /\ Cut(q, class).offset = q.offset
  BY CutShape
<1>2. Kept(q, class) \in 0 .. Len(q.messages)
  BY KeptFacts
<1>3. q.messages \in Seq(M)
  BY DEF QueueOf
<1>4. ASSUME NEW i \in 2 .. Len(Cut(q, class).messages),
             Supersedes(Cut(q, class).messages[i].class, Cut(q, class).messages[i - 1].class)
      PROVE  i = 2 /\ q.offset # 0
  <2>1. i \in 2 .. Len(q.messages) /\ i \in 1 .. Kept(q, class) /\ i - 1 \in 1 .. Kept(q, class)
    BY <1>1, <1>2, <1>3
  <2>2. Supersedes(q.messages[i].class, q.messages[i - 1].class)
    BY <1>1, <1>4, <2>1
  <2> QED
    BY <2>1, <2>2 DEF Coalesced
<1> QED
  BY <1>1, <1>4 DEF Coalesced

\* A write moves no message past another.
LEMMA WriteCoalesced ==
  ASSUME NEW M, NEW q \in QueueOf(M), q.messages # <<>>, Coalesced(q),
         NEW n \in 1 .. Head(q.messages).size - q.offset
  PROVE  Coalesced(Write(q, n))
<1>1. q.messages \in Seq(M) /\ q.offset \in Nat
  BY DEF QueueOf
<1>2. CASE q.offset + n = Head(q.messages).size
  <2>1. Write(q, n).messages = Tail(q.messages)
    BY <1>2 DEF Write
  <2>2. ASSUME NEW i \in 2 .. Len(Tail(q.messages)),
               Supersedes(Tail(q.messages)[i].class, Tail(q.messages)[i - 1].class)
        PROVE  FALSE
    <3>1. /\ i + 1 \in 3 .. Len(q.messages)
          /\ Tail(q.messages)[i] = q.messages[i + 1]
          /\ Tail(q.messages)[i - 1] = q.messages[i]
      BY <1>1
    <3>2. Supersedes(q.messages[i + 1].class, q.messages[i].class)
      BY <2>2, <3>1
    <3>3. (i + 1) - 1 = i /\ i + 1 # 2 /\ i + 1 \in 2 .. Len(q.messages)
      BY <3>1, SMTT(30)
    <3> HIDE DEF Supersedes
    <3> QED
      BY <3>2, <3>3 DEF Coalesced
  <2> QED
    BY <2>1, <2>2 DEF Coalesced
<1>3. CASE q.offset + n # Head(q.messages).size
  <2>1. Write(q, n).messages = q.messages /\ Write(q, n).offset = q.offset + n
    BY <1>3 DEF Write
  <2>2. q.offset + n # 0
    BY <1>1
  <2> QED
    BY <2>1, <2>2 DEF Coalesced
<1> QED
  BY <1>2, <1>3

-----------------------------------------------------------------------------
(***************************************************************************)
(* The preflights: a handler that was let through can push what it then    *)
(* has to push, so "admission contradicted its preflight" cannot be        *)
(* reached.                                                                *)
(***************************************************************************)

\* An ordered message replaces nothing.
LEMMA OrderedCutsNothing ==
  ASSUME NEW M, QueueMessages(M), NEW q \in QueueOf(M)
  PROVE  Cut(q, "Ordered") = q
<1>1. Kept(q, "Ordered") = Len(q.messages)
  <2>1. /\ Kept(q, "Ordered") \in 0 .. Len(q.messages)
        /\ \A i \in Kept(q, "Ordered") + 1 .. Len(q.messages) : Replaceable(q, "Ordered", i)
    BY KeptFacts
  <2>2. \A i \in 1 .. Len(q.messages) : ~Replaceable(q, "Ordered", i)
    BY DEF Replaceable, Supersedes
  <2>3. Len(q.messages) \in Nat
    BY DEF QueueOf
  <2> QED
    BY <2>1, <2>2, <2>3
<1>2. SubSeq(q.messages, 1, Len(q.messages)) = q.messages
  BY DEF QueueOf
<1>3. Recurs(Sums(q.messages), q.messages, Len(q.messages))
  BY SumsRecur DEF QueueOf
<1>4. RemovedBytes(q, "Ordered") = 0
  <2>1. Sums(q.messages)[Len(q.messages)] \in Nat
    BY <1>3 DEF Recurs, QueueOf
  <2> QED
    BY <1>1, <2>1 DEF RemovedBytes
<1>5. q.bytes - 0 = q.bytes
  BY DEF QueueOf
<1> QED
  BY <1>1, <1>2, <1>4, <1>5 DEF Cut, QueueOf

\* can_push_scroll_outcome admits every scroll outcome within the payload
\* limit: the error after the push in handle_vertical_scroll and
\* handle_selection_autoscroll is unreachable.
THEOREM ScrollOutcomeAdmitted ==
  ASSUME NEW M, QueueMessages(M), NEW q \in QueueOf(M), Accounted(q),
         NEW m \in M, m.class = "ScrollOutcome",
         m.size <= MaxPayloadBytes + HeaderBytes,
         CanPushScrollOutcome(q)
  PROVE  FitsReplaceable(q, m)
<1>1. Cut(q, "ScrollOutcome").bytes \in Nat
  BY CutAccounted DEF QueueOf
<1> QED
  BY <1>1, LimitsAssumption DEF CanPushScrollOutcome, FitsReplaceable, Fits, QueueMessages,
     MaxOutputBytes

\* can_push_frame_message admits every frame message: the same for
\* handle_vertical_wheel.
THEOREM FrameMessageAdmitted ==
  ASSUME NEW M, QueueMessages(M), NEW q \in QueueOf(M), Accounted(q),
         NEW m \in M, m.class = "Frame",
         m.size <= MaxFrameBytes + HeaderBytes,
         CanPushFrameMessage(q)
  PROVE  FitsReplaceable(q, m)
<1>1. Cut(q, "Frame").bytes \in Nat
  BY CutAccounted DEF QueueOf
<1> QED
  BY <1>1, LimitsAssumption DEF CanPushFrameMessage, FitsReplaceable, Fits, QueueMessages,
     MaxOutputBytes

\* can_push_host_selection_result, asked before a Finish: once the pending
\* frame is superseded, the completion, the frame and the copied text all
\* fit, so a finished selection is never cut short by its own output.
THEOREM FinishAdmitted ==
  ASSUME NEW M, QueueMessages(M), NEW q \in QueueOf(M), Accounted(q),
         NEW done \in M, done.class = "Ordered",
         NEW frame \in M, frame.size <= MaxFrameBytes + HeaderBytes,
         NEW copied \in M,
         done.size + copied.size <= MaxCopyBytes + TagBytes + 2 * HeaderBytes,
         CanPushHostSelectionResult(q, TRUE)
  PROVE  LET q0 == SupersedePendingFrame(q)
             q1 == PushReplaceable(q0, done)
             q2 == PushReplaceable(q1, frame)
         IN  /\ FitsReplaceable(q0, done)
             /\ FitsReplaceable(q1, frame)
             /\ Fits(q2, copied)
<1> DEFINE q0 == SupersedePendingFrame(q)
           q1 == PushReplaceable(q0, done)
           q2 == PushReplaceable(q1, frame)
<1>1. q0 \in QueueOf(M) /\ Accounted(q0)
  BY CutAccounted DEF SupersedePendingFrame
<1>2. /\ q0.bytes \in Nat
      /\ q0.bytes + MaxFrameBytes + MaxCopyBytes + TagBytes + 3 * HeaderBytes <= MaxOutputBytes
  <2>1. q0.bytes \in Nat
    BY <1>1 DEF QueueOf
  <2>2. Cut(q, "Frame").bytes = q0.bytes
    BY DEF SupersedePendingFrame
  <2>3. q0.bytes + (MaxFrameBytes + MaxCopyBytes + TagBytes + 3 * HeaderBytes) <= MaxOutputBytes
    BY <2>2 DEF CanPushHostSelectionResult
  <2> QED
    BY <2>1, <2>3, LimitsAssumption
<1>3. /\ done.size \in Nat /\ frame.size \in Nat /\ copied.size \in Nat
      /\ MaxFrameBytes \in Nat /\ MaxCopyBytes \in Nat /\ TagBytes \in Nat /\ HeaderBytes \in Nat
      /\ MaxOutputBytes \in Nat
  BY LimitsAssumption DEF QueueMessages, MaxOutputBytes
<1>4. Cut(q0, "Ordered") = q0
  BY <1>1, OrderedCutsNothing
<1> HIDE DEF q0
<1>5. FitsReplaceable(q0, done)
  BY <1>2, <1>3, <1>4 DEF FitsReplaceable, Fits
<1>6. q1 \in QueueOf(M) /\ Accounted(q1)
  BY <1>1, <1>5, PushReplaceableAccounted
<1>7. q1.bytes = q0.bytes + done.size
  BY <1>4 DEF PushReplaceable, Push
<1> HIDE DEF q1
<1>8. Cut(q1, frame.class).bytes \in Nat /\ Cut(q1, frame.class).bytes <= q1.bytes
  BY <1>6, CutAccounted DEF QueueOf
<1>9. FitsReplaceable(q1, frame)
  BY <1>2, <1>3, <1>7, <1>8 DEF FitsReplaceable, Fits
<1>10. q2.bytes = Cut(q1, frame.class).bytes + frame.size
  BY DEF PushReplaceable, Push
<1> HIDE DEF q2
<1>11. q2.bytes + copied.size <= MaxOutputBytes
  BY <1>2, <1>3, <1>7, <1>8, <1>10
<1>12. Fits(q2, copied)
  BY <1>11 DEF Fits
<1> QED
  BY <1>5, <1>9, <1>12 DEF q0, q1, q2

=============================================================================
