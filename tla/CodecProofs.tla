----------------------------- MODULE CodecProofs -----------------------------
(***************************************************************************)
(* The decoders are canonical, for all widths of the numbers and all       *)
(* limits: whatever bytes they take as a value are the bytes that encoding *)
(* this value yields.                                                      *)
(*                                                                         *)
(* A reader is followed field by field: what it has consumed is what       *)
(* putting the fields it has got writes.  Cells, rows and palettes are     *)
(* sequences of such pieces.                                               *)
(***************************************************************************)
EXTENDS SessionCodec, SequenceTheorems, WellFoundedInduction, TLAPS

-----------------------------------------------------------------------------
(***************************************************************************)
(* Induction and recursion.                                                *)
(***************************************************************************)
\* A set of the first numbers that has 0, and with a number the next, has all of them.
LEMMA RoundsInduct ==
  ASSUME NEW n \in Nat, NEW T \in SUBSET (0 .. n), 0 \in T,
         \A k \in 0 .. n - 1 : k \in T => k + 1 \in T
  PROVE  T = 0 .. n
<1> DEFINE R == OpToRel(<, Nat)
           U == (0 .. n) \ T
<1>1. IsWellFoundedOn(R, Nat)
  BY NatLessThanWellFounded
<1>2. \A x, y \in Nat : <<y, x>> \in R <=> y < x
  BY DEF OpToRel
<1> HIDE DEF R
<1>3. SUFFICES ASSUME U # {}
               PROVE  FALSE
  OBVIOUS
<1>4. U \subseteq Nat
  OBVIOUS
<1>5. PICK x \in U : \A y \in U : ~(<<y, x>> \in R)
  <2> HIDE DEF U
  <2> QED
    BY <1>1, <1>3, <1>4, WFMin, Zenon
<1>6. x \in 1 .. n /\ x - 1 \in 0 .. n - 1 /\ x - 1 \in Nat /\ x \in Nat /\ x - 1 < x
  OBVIOUS
<1>7. x - 1 \notin U
  BY <1>2, <1>5, <1>6
<1> QED
  BY <1>5, <1>6, <1>7

\* Numbers is what its recursion says.
LEMMA NumbersRecur ==
  ASSUME NEW bytes, NEW n \in Nat, n = Len(bytes)
  PROVE  /\ Numbers(bytes)[0] = 0
         /\ \A i \in 1 .. n : Numbers(bytes)[i] = bytes[n - i + 1] + 256 * Numbers(bytes)[i - 1]
<1> DEFINE Start == 0
           Step(v, i) == bytes[n - i + 1] + 256 * v
           Is(f, k) == f = [i \in 0 .. k |-> IF i = 0 THEN Start ELSE Step(f[i - 1], i)]
           T == {k \in 0 .. n : \E f : Is(f, k)}
           f == Numbers(bytes)
<1>1. f = CHOOSE g : Is(g, n)
  BY DEF Numbers
<1> HIDE DEF Start, Step, f
<1>2. 0 \in T
  <2>1. Is([i \in 0 .. 0 |-> Start], 0)
    OBVIOUS
  <2> HIDE DEF Is
  <2> QED
    BY <2>1
<1>3. ASSUME NEW k \in 0 .. n - 1, k \in T
      PROVE  k + 1 \in T
  <2>1. PICK h : Is(h, k)
    BY <1>3
  <2> DEFINE g == [i \in 0 .. k + 1 |-> IF i = k + 1 THEN Step(h[k], i) ELSE h[i]]
  <2>2. \A i \in 0 .. k + 1 : g[i] = IF i = 0 THEN Start ELSE Step(g[i - 1], i)
    BY <2>1
  <2>3. Is(g, k + 1)
    BY <2>2
  <2> HIDE DEF g, Is
  <2> QED
    BY <2>3
<1>4. n \in T
  <2>1. T \in SUBSET (0 .. n)
    OBVIOUS
  <2> HIDE DEF T
  <2>2. T = 0 .. n
    BY <1>2, <1>3, <2>1, RoundsInduct
  <2> QED
    BY <2>2
<1>5. Is(f, n)
  BY <1>1, <1>4
<1>6. f[0] = Start /\ \A i \in 1 .. n : f[i] = Step(f[i - 1], i)
  BY <1>5
<1> QED
  BY <1>6 DEF f, Start, Step

\* So is Readings,
LEMMA ReadingsRecur ==
  ASSUME NEW reader, NEW fields, NEW n \in Nat, n = Len(fields)
  PROVE  /\ Readings(reader, fields)[0] = reader
         /\ \A i \in 1 .. n :
              Readings(reader, fields)[i] = Take(Readings(reader, fields)[i - 1], fields[i])
<1> DEFINE Start == reader
           Step(v, i) == Take(v, fields[i])
           Is(f, k) == f = [i \in 0 .. k |-> IF i = 0 THEN Start ELSE Step(f[i - 1], i)]
           T == {k \in 0 .. n : \E f : Is(f, k)}
           f == Readings(reader, fields)
<1>1. f = CHOOSE g : Is(g, n)
  BY DEF Readings
<1> HIDE DEF Start, Step, f
<1>2. 0 \in T
  <2>1. Is([i \in 0 .. 0 |-> Start], 0)
    OBVIOUS
  <2> HIDE DEF Is
  <2> QED
    BY <2>1
<1>3. ASSUME NEW k \in 0 .. n - 1, k \in T
      PROVE  k + 1 \in T
  <2>1. PICK h : Is(h, k)
    BY <1>3
  <2> DEFINE g == [i \in 0 .. k + 1 |-> IF i = k + 1 THEN Step(h[k], i) ELSE h[i]]
  <2>2. \A i \in 0 .. k + 1 : g[i] = IF i = 0 THEN Start ELSE Step(g[i - 1], i)
    BY <2>1
  <2>3. Is(g, k + 1)
    BY <2>2
  <2> HIDE DEF g, Is
  <2> QED
    BY <2>3
<1>4. n \in T
  <2>1. T \in SUBSET (0 .. n)
    OBVIOUS
  <2> HIDE DEF T
  <2>2. T = 0 .. n
    BY <1>2, <1>3, <2>1, RoundsInduct
  <2> QED
    BY <2>2
<1>5. Is(f, n)
  BY <1>1, <1>4
<1>6. f[0] = Start /\ \A i \in 1 .. n : f[i] = Step(f[i - 1], i)
  BY <1>5
<1> QED
  BY <1>6 DEF f, Start, Step


\* Shifts,
LEMMA ShiftsRecur ==
  ASSUME NEW v, NEW n \in Nat
  PROVE  /\ Shifts(v, n)[0] = v
         /\ \A i \in 1 .. n : Shifts(v, n)[i] = Shifts(v, n)[i - 1] \div 256
<1> DEFINE Start == v
           Step(x, i) == x \div 256
           Is(f, k) == f = [i \in 0 .. k |-> IF i = 0 THEN Start ELSE Step(f[i - 1], i)]
           T == {k \in 0 .. n : \E f : Is(f, k)}
           f == Shifts(v, n)
<1>1. f = CHOOSE g : Is(g, n)
  BY DEF Shifts
<1> HIDE DEF Start, Step, f
<1>2. 0 \in T
  <2>1. Is([i \in 0 .. 0 |-> Start], 0)
    OBVIOUS
  <2> HIDE DEF Is
  <2> QED
    BY <2>1
<1>3. ASSUME NEW k \in 0 .. n - 1, k \in T
      PROVE  k + 1 \in T
  <2>1. PICK h : Is(h, k)
    BY <1>3
  <2> DEFINE g == [i \in 0 .. k + 1 |-> IF i = k + 1 THEN Step(h[k], i) ELSE h[i]]
  <2>2. \A i \in 0 .. k + 1 : g[i] = IF i = 0 THEN Start ELSE Step(g[i - 1], i)
    BY <2>1
  <2>3. Is(g, k + 1)
    BY <2>2
  <2> HIDE DEF g, Is
  <2> QED
    BY <2>3
<1>4. n \in T
  <2>1. T \in SUBSET (0 .. n)
    OBVIOUS
  <2> HIDE DEF T
  <2>2. T = 0 .. n
    BY <1>2, <1>3, <2>1, RoundsInduct
  <2> QED
    BY <2>2
<1>5. Is(f, n)
  BY <1>1, <1>4
<1>6. f[0] = Start /\ \A i \in 1 .. n : f[i] = Step(f[i - 1], i)
  BY <1>5
<1> QED
  BY <1>6 DEF f, Start, Step

\* CellSizes,
LEMMA CellSizesRecur ==
  ASSUME NEW cells, NEW n \in Nat, n = Len(cells)
  PROVE  /\ CellSizes(cells)[0] = RowFixedBytes
         /\ \A i \in 1 .. n :
              CellSizes(cells)[i] = CellSizes(cells)[i - 1] + SizeOfCell(cells[i])
<1> DEFINE Start == RowFixedBytes
           Step(v, i) == v + SizeOfCell(cells[i])
           Is(f, k) == f = [i \in 0 .. k |-> IF i = 0 THEN Start ELSE Step(f[i - 1], i)]
           T == {k \in 0 .. n : \E f : Is(f, k)}
           f == CellSizes(cells)
<1>1. f = CHOOSE g : Is(g, n)
  BY DEF CellSizes
<1> HIDE DEF Start, Step, f
<1>2. 0 \in T
  <2>1. Is([i \in 0 .. 0 |-> Start], 0)
    OBVIOUS
  <2> HIDE DEF Is
  <2> QED
    BY <2>1
<1>3. ASSUME NEW k \in 0 .. n - 1, k \in T
      PROVE  k + 1 \in T
  <2>1. PICK h : Is(h, k)
    BY <1>3
  <2> DEFINE g == [i \in 0 .. k + 1 |-> IF i = k + 1 THEN Step(h[k], i) ELSE h[i]]
  <2>2. \A i \in 0 .. k + 1 : g[i] = IF i = 0 THEN Start ELSE Step(g[i - 1], i)
    BY <2>1
  <2>3. Is(g, k + 1)
    BY <2>2
  <2> HIDE DEF g, Is
  <2> QED
    BY <2>3
<1>4. n \in T
  <2>1. T \in SUBSET (0 .. n)
    OBVIOUS
  <2> HIDE DEF T
  <2>2. T = 0 .. n
    BY <1>2, <1>3, <2>1, RoundsInduct
  <2> QED
    BY <2>2
<1>5. Is(f, n)
  BY <1>1, <1>4
<1>6. f[0] = Start /\ \A i \in 1 .. n : f[i] = Step(f[i - 1], i)
  BY <1>5
<1> QED
  BY <1>6 DEF f, Start, Step

\* RowSizes,
LEMMA RowSizesRecur ==
  ASSUME NEW start, NEW rows, NEW n \in Nat, n = Len(rows)
  PROVE  /\ RowSizes(start, rows)[0] = start
         /\ \A i \in 1 .. n :
              RowSizes(start, rows)[i] = RowSizes(start, rows)[i - 1] + SizeOfRow(rows[i])
<1> DEFINE Start == start
           Step(v, i) == v + SizeOfRow(rows[i])
           Is(f, k) == f = [i \in 0 .. k |-> IF i = 0 THEN Start ELSE Step(f[i - 1], i)]
           T == {k \in 0 .. n : \E f : Is(f, k)}
           f == RowSizes(start, rows)
<1>1. f = CHOOSE g : Is(g, n)
  BY DEF RowSizes
<1> HIDE DEF Start, Step, f
<1>2. 0 \in T
  <2>1. Is([i \in 0 .. 0 |-> Start], 0)
    OBVIOUS
  <2> HIDE DEF Is
  <2> QED
    BY <2>1
<1>3. ASSUME NEW k \in 0 .. n - 1, k \in T
      PROVE  k + 1 \in T
  <2>1. PICK h : Is(h, k)
    BY <1>3
  <2> DEFINE g == [i \in 0 .. k + 1 |-> IF i = k + 1 THEN Step(h[k], i) ELSE h[i]]
  <2>2. \A i \in 0 .. k + 1 : g[i] = IF i = 0 THEN Start ELSE Step(g[i - 1], i)
    BY <2>1
  <2>3. Is(g, k + 1)
    BY <2>2
  <2> HIDE DEF g, Is
  <2> QED
    BY <2>3
<1>4. n \in T
  <2>1. T \in SUBSET (0 .. n)
    OBVIOUS
  <2> HIDE DEF T
  <2>2. T = 0 .. n
    BY <1>2, <1>3, <2>1, RoundsInduct
  <2> QED
    BY <2>2
<1>5. Is(f, n)
  BY <1>1, <1>4
<1>6. f[0] = Start /\ \A i \in 1 .. n : f[i] = Step(f[i - 1], i)
  BY <1>5
<1> QED
  BY <1>6 DEF f, Start, Step

\* CellReadings
LEMMA CellReadingsRecur ==
  ASSUME NEW reader, NEW n \in Nat
  PROVE  /\ CellReadings(reader, n)[0] = reader
         /\ \A i \in 1 .. n :
              CellReadings(reader, n)[i] = TakeCell(CellReadings(reader, n)[i - 1])
<1> DEFINE Start == reader
           Step(v, i) == TakeCell(v)
           Is(f, k) == f = [i \in 0 .. k |-> IF i = 0 THEN Start ELSE Step(f[i - 1], i)]
           T == {k \in 0 .. n : \E f : Is(f, k)}
           f == CellReadings(reader, n)
<1>1. f = CHOOSE g : Is(g, n)
  BY DEF CellReadings
<1> HIDE DEF Start, Step, f
<1>2. 0 \in T
  <2>1. Is([i \in 0 .. 0 |-> Start], 0)
    OBVIOUS
  <2> HIDE DEF Is
  <2> QED
    BY <2>1
<1>3. ASSUME NEW k \in 0 .. n - 1, k \in T
      PROVE  k + 1 \in T
  <2>1. PICK h : Is(h, k)
    BY <1>3
  <2> DEFINE g == [i \in 0 .. k + 1 |-> IF i = k + 1 THEN Step(h[k], i) ELSE h[i]]
  <2>2. \A i \in 0 .. k + 1 : g[i] = IF i = 0 THEN Start ELSE Step(g[i - 1], i)
    BY <2>1
  <2>3. Is(g, k + 1)
    BY <2>2
  <2> HIDE DEF g, Is
  <2> QED
    BY <2>3
<1>4. n \in T
  <2>1. T \in SUBSET (0 .. n)
    OBVIOUS
  <2> HIDE DEF T
  <2>2. T = 0 .. n
    BY <1>2, <1>3, <2>1, RoundsInduct
  <2> QED
    BY <2>2
<1>5. Is(f, n)
  BY <1>1, <1>4
<1>6. f[0] = Start /\ \A i \in 1 .. n : f[i] = Step(f[i - 1], i)
  BY <1>5
<1> QED
  BY <1>6 DEF f, Start, Step

\* and RowReadings.
LEMMA RowReadingsRecur ==
  ASSUME NEW reader, NEW cols, NEW n \in Nat
  PROVE  /\ RowReadings(reader, cols, n)[0] = reader
         /\ \A i \in 1 .. n :
              RowReadings(reader, cols, n)[i] = TakeRow(RowReadings(reader, cols, n)[i - 1], cols)
<1> DEFINE Start == reader
           Step(v, i) == TakeRow(v, cols)
           Is(f, k) == f = [i \in 0 .. k |-> IF i = 0 THEN Start ELSE Step(f[i - 1], i)]
           T == {k \in 0 .. n : \E f : Is(f, k)}
           f == RowReadings(reader, cols, n)
<1>1. f = CHOOSE g : Is(g, n)
  BY DEF RowReadings
<1> HIDE DEF Start, Step, f
<1>2. 0 \in T
  <2>1. Is([i \in 0 .. 0 |-> Start], 0)
    OBVIOUS
  <2> HIDE DEF Is
  <2> QED
    BY <2>1
<1>3. ASSUME NEW k \in 0 .. n - 1, k \in T
      PROVE  k + 1 \in T
  <2>1. PICK h : Is(h, k)
    BY <1>3
  <2> DEFINE g == [i \in 0 .. k + 1 |-> IF i = k + 1 THEN Step(h[k], i) ELSE h[i]]
  <2>2. \A i \in 0 .. k + 1 : g[i] = IF i = 0 THEN Start ELSE Step(g[i - 1], i)
    BY <2>1
  <2>3. Is(g, k + 1)
    BY <2>2
  <2> HIDE DEF g, Is
  <2> QED
    BY <2>3
<1>4. n \in T
  <2>1. T \in SUBSET (0 .. n)
    OBVIOUS
  <2> HIDE DEF T
  <2>2. T = 0 .. n
    BY <1>2, <1>3, <2>1, RoundsInduct
  <2> QED
    BY <2>2
<1>5. Is(f, n)
  BY <1>1, <1>4
<1>6. f[0] = Start /\ \A i \in 1 .. n : f[i] = Step(f[i - 1], i)
  BY <1>5
<1> QED
  BY <1>6 DEF f, Start, Step


-----------------------------------------------------------------------------
(***************************************************************************)
(* Sequences that are joined.                                              *)
(***************************************************************************)
Join(s, t) == s \o t

\* The pieces s are joined one after the other, from nothing.
Joining(h, s, n) == h[0] = <<>> /\ \A i \in 1 .. n : h[i] = Join(h[i - 1], s[i])

\* What FlattenSeq joins, piece by piece.
Flattening(h, seqs, S) ==
  /\ h \in [0 .. Len(seqs) -> Seq(S)]
  /\ Joining(h, seqs, Len(seqs))
  /\ h[Len(seqs)] = FlattenSeq(seqs)

\* There is such a joining of any sequences,
LEMMA FlattenJoins ==
  ASSUME NEW S, NEW seqs \in Seq(Seq(S))
  PROVE  \E h : Flattening(h, seqs, S)
<1> DEFINE n == Len(seqs)
<1>n1. n \in Nat
  OBVIOUS
<1>n2. \A i \in 1 .. n : seqs[i] \in Seq(S)
  OBVIOUS
<1>n3. n = 0 => seqs = <<>>
  OBVIOUS
<1>n4. Len(seqs) = n
  OBVIOUS
<1> HIDE DEF n
<1> USE <1>n1, <1>n2, <1>n3
<1> DEFINE First(i) == seqs[i]
           Step(v, i) == v \o seqs[i]
           Is(f, k) == f = [i \in 1 .. k |-> IF i = 1 THEN First(i) ELSE Step(f[i - 1], i)]
           T == {k \in 0 .. n : \E f : Is(f, k)}
           flat == FlattenSeq(seqs)
<1>0. flat = IF n = 0 THEN seqs ELSE (CHOOSE f : Is(f, n))[n]
  BY <1>n4 DEF FlattenSeq
<1> HIDE DEF First, Step, flat
<1>1. 0 \in T
  <2>1. Is([i \in 1 .. 0 |-> <<>>], 0)
    OBVIOUS
  <2> HIDE DEF Is
  <2> QED
    BY <2>1
<1>2. ASSUME NEW k \in 0 .. n - 1, k \in T
      PROVE  k + 1 \in T
  <2>1. PICK f : Is(f, k)
    BY <1>2
  <2> DEFINE g == [i \in 1 .. k + 1 |->
                     IF i = k + 1 THEN IF i = 1 THEN First(i) ELSE Step(f[k], i) ELSE f[i]]
  <2>2. \A i \in 1 .. k + 1 : g[i] = IF i = 1 THEN First(i) ELSE Step(g[i - 1], i)
    BY <2>1
  <2>3. Is(g, k + 1)
    BY <2>2
  <2> HIDE DEF g, Is
  <2> QED
    BY <2>3
<1>3. n \in T
  <2>1. T \in SUBSET (0 .. n)
    OBVIOUS
  <2> HIDE DEF T
  <2>2. T = 0 .. n
    BY <1>1, <1>2, <2>1, RoundsInduct
  <2> QED
    BY <2>2
<1> DEFINE f == CHOOSE f : Is(f, n)
<1>4. Is(f, n)
  BY <1>3
<1>5. flat = IF n = 0 THEN seqs ELSE f[n]
  BY <1>0
<1> HIDE DEF f
<1> DEFINE h == [i \in 0 .. n |-> IF i = 0 THEN <<>> ELSE f[i]]
<1>6. \A i \in 1 .. n : f[i] = IF i = 1 THEN First(i) ELSE Step(f[i - 1], i)
  BY <1>4
<1> HIDE DEF Is, T
<1>7. \A i \in 1 .. n : h[i] = Step(h[i - 1], i)
  <2>1. SUFFICES ASSUME NEW i \in 1 .. n
                 PROVE  h[i] = Step(h[i - 1], i)
    OBVIOUS
  <2>2. CASE i = 1
    <3>1. h[1] = First(1) /\ h[0] = <<>>
      BY <1>6, <2>2
    <3>2. Step(<<>>, 1) = First(1)
      BY <2>2, ConcatEmptySeq DEF Step, First
    <3> QED
      BY <2>2, <3>1, <3>2
  <2>3. CASE i # 1
    BY <1>6, <2>3
  <2> QED
    BY <2>2, <2>3
<1>8. h[0] = <<>> /\ h[n] = flat
  BY <1>5
<1>9. \A i \in 0 .. n : h[i] \in Seq(S)
  <2> HIDE DEF h
  <2> DEFINE U == {i \in 0 .. n : h[i] \in Seq(S)}
  <2>1. 0 \in U
    <3>1. <<>> \in Seq(S) /\ 0 \in 0 .. n
      OBVIOUS
    <3> QED
      BY ONLY <1>8, <3>1
  <2>2. ASSUME NEW i \in 0 .. n - 1, i \in U
        PROVE  i + 1 \in U
    <3>1. i + 1 \in 1 .. n /\ i + 1 - 1 = i
      OBVIOUS
    <3>2. h[i + 1] = Step(h[i], i + 1)
      BY <1>7, <3>1
    <3>3. Step(h[i], i + 1) \in Seq(S)
      BY <2>2, <3>1 DEF Step
    <3> QED
      BY <3>1, <3>2, <3>3
  <2>3. U \in SUBSET (0 .. n)
    OBVIOUS
  <2> HIDE DEF U
  <2>4. U = 0 .. n
    BY <2>1, <2>2, <2>3, RoundsInduct
  <2> QED
    BY <2>4 DEF U
<1>10. h \in [0 .. n -> Seq(S)]
  <2>1. h = [i \in 0 .. n |-> h[i]]
    OBVIOUS
  <2> HIDE DEF h
  <2> QED
    BY <1>9, <2>1
<1> HIDE DEF h
<1>11. Joining(h, seqs, n)
  BY <1>7, <1>8, Zenon DEF Step, Join, Joining
<1> QED
  BY <1>8, <1>10, <1>11, <1>n4, Zenon DEF Flattening, flat

\* Two sequences have the same pieces.
Agree(s, t, n) == \A i \in 1 .. n : s[i] = t[i]

\* and the same pieces join in one way.
LEMMA JoinsUnique ==
  ASSUME NEW n \in Nat, NEW s, NEW t, NEW h, NEW k, Joining(h, s, n), Joining(k, t, n),
         Agree(s, t, n)
  PROVE  h[n] = k[n]
<1> DEFINE T == {i \in 0 .. n : h[i] = k[i]}
<1>1. 0 \in T
  BY DEF Joining
<1>2. ASSUME NEW i \in 0 .. n - 1, i \in T
      PROVE  i + 1 \in T
  <2>1. i + 1 \in 1 .. n /\ i + 1 - 1 = i
    OBVIOUS
  <2>2. h[i + 1] = Join(h[i], s[i + 1]) /\ k[i + 1] = Join(k[i], t[i + 1]) /\ s[i + 1] = t[i + 1]
    BY <2>1 DEF Joining, Agree
  <2> QED
    BY <1>2, <2>1, <2>2
<1>3. T \in SUBSET (0 .. n)
  OBVIOUS
<1> HIDE DEF T
<1>4. T = 0 .. n
  BY <1>1, <1>2, <1>3, RoundsInduct
<1> QED
  BY <1>4 DEF T

\* The empty sequence joins to itself,
LEMMA FlattenEmpty == FlattenSeq(<<>>) = <<>>
BY DEF FlattenSeq

\* and a piece more comes last.
LEMMA FlattenAppend ==
  ASSUME NEW S, NEW seqs \in Seq(Seq(S)), NEW x \in Seq(S)
  PROVE  /\ FlattenSeq(seqs) \in Seq(S)
         /\ FlattenSeq(Append(seqs, x)) = FlattenSeq(seqs) \o x
<1> DEFINE n == Len(seqs)
           m == n + 1
           more == Append(seqs, x)
<1>1. n \in Nat /\ m \in Nat /\ n \in 0 .. n /\ m \in 1 .. m /\ m - 1 = n /\ 1 .. n \subseteq 1 .. m
  OBVIOUS
<1>2. Len(seqs) = n /\ Len(more) = m /\ more[m] = x
  OBVIOUS
<1>3. Agree(seqs, more, n)
  BY DEF Agree
<1>4. more \in Seq(Seq(S))
  OBVIOUS
<1> HIDE DEF n, m, more
<1>5. PICK h : Flattening(h, seqs, S)
  BY FlattenJoins
<1>6. PICK k : Flattening(k, more, S)
  BY <1>4, FlattenJoins
<1>7. Joining(h, seqs, n) /\ h[n] = FlattenSeq(seqs) /\ h \in [0 .. n -> Seq(S)]
  BY <1>2, <1>5 DEF Flattening
<1>8. Joining(k, more, m) /\ k[m] = FlattenSeq(more)
  BY <1>2, <1>6 DEF Flattening
<1>9. Joining(k, more, n)
  BY <1>1, <1>8, Zenon DEF Joining
<1>10. n \in Nat
  BY <1>1
<1>11. h[n] = k[n]
  BY <1>3, <1>7, <1>9, <1>10, JoinsUnique
<1>12. k[m] = Join(k[n], more[m])
  BY <1>1, <1>8, Zenon DEF Joining
<1>13. h[n] \in Seq(S)
  BY <1>1, <1>7
<1> QED
  BY <1>1, <1>2, <1>7, <1>8, <1>11, <1>12, <1>13, Zenon DEF more, Join

-----------------------------------------------------------------------------
(***************************************************************************)
(* Readers.                                                                *)
(***************************************************************************)
\* Bytes are numbers.
LEMMA BytesAreNats == \A b \in Byte : b \in Nat /\ b <= 255
BY DEF Byte

\* Bytes are a number.
LEMMA NumIsNat ==
  ASSUME NEW s \in Seq(Byte)
  PROVE  Num(s) \in Nat
<1> DEFINE n == Len(s)
           number == Numbers(s)
           T == {i \in 0 .. n : number[i] \in Nat}
<1>1. n \in Nat
  OBVIOUS
<1>2. number[0] = 0 /\ \A i \in 1 .. n : number[i] = s[n - i + 1] + 256 * number[i - 1]
  BY <1>1, NumbersRecur
<1>3. \A i \in 1 .. n : s[i] \in Nat
  BY BytesAreNats
<1> HIDE DEF n, number
<1>4. 0 \in T
  BY <1>1, <1>2
<1>5. ASSUME NEW i \in 0 .. n - 1, i \in T
      PROVE  i + 1 \in T
  <2>1. i + 1 \in 1 .. n /\ i + 1 - 1 = i /\ n - (i + 1) + 1 \in 1 .. n
    BY <1>1
  <2>2. number[i + 1] = s[n - (i + 1) + 1] + 256 * number[i]
    BY <1>2, <2>1
  <2>3. number[i] \in Nat
    BY <1>5
  <2>4. number[i + 1] \in Nat
    BY <1>3, <2>1, <2>2, <2>3
  <2> QED
    BY <1>1, <2>1, <2>4
<1>6. T = 0 .. n
  <2>1. T \in SUBSET (0 .. n)
    OBVIOUS
  <2> HIDE DEF T
  <2> QED
    BY <1>1, <1>4, <1>5, <2>1, RoundsInduct
<1> QED
  BY <1>1, <1>6 DEF Num, n, number

IsSeq(t) == \E X : t \in Seq(X)

\* A reader has bytes left and fields taken.
IsReader(r) ==
  /\ r = [rest |-> r.rest, got |-> r.got]
  /\ r.rest \in Seq(Byte)
  /\ IsSeq(r.got)

\* What a sequence is with an element more, and with its last element replaced.
LEMMA SeqGrows ==
  ASSUME NEW t, IsSeq(t), NEW e
  PROVE  /\ Len(t) \in Nat
         /\ IsSeq(Append(t, e))
         /\ Len(Append(t, e)) = Len(t) + 1
         /\ Append(t, e)[Len(t) + 1] = e
         /\ \A i \in 1 .. Len(t) : Append(t, e)[i] = t[i]
<1>1. PICK X : t \in Seq(X)
  BY DEF IsSeq
<1>2. t \in Seq(X \union {e}) /\ Append(t, e) \in Seq(X \union {e})
  BY <1>1
<1> QED
  BY <1>2 DEF IsSeq

\* A field is given by its width, as text with its length, or as all that remains.
IsField(f) == f \in Nat \/ f = Remains

\* and an error stays one.
LEMMA ReadBad ==
  ASSUME NEW fields, NEW n \in Nat, n = Len(fields)
  PROVE  Read(Bad, fields) = Bad
<1> DEFINE reading == Readings(Bad, fields)
           T == {i \in 0 .. n : reading[i] = Bad}
<1>1. /\ reading[0] = Bad
      /\ \A i \in 1 .. n : reading[i] = Take(reading[i - 1], fields[i])
  BY ReadingsRecur
<1> HIDE DEF reading
<1>2. 0 \in T
  BY <1>1
<1>3. ASSUME NEW i \in 0 .. n - 1, i \in T
      PROVE  i + 1 \in T
  <2>1. i + 1 \in 1 .. n /\ i + 1 \in 0 .. n /\ i + 1 - 1 = i
    OBVIOUS
  <2>2. reading[i + 1] = Bad
    BY <1>1, <1>3, <2>1 DEF Take
  <2> QED
    BY <2>1, <2>2
<1>4. T = 0 .. n
  <2>1. T \in SUBSET (0 .. n)
    OBVIOUS
  <2> HIDE DEF T
  <2> QED
    BY <1>2, <1>3, <2>1, RoundsInduct
<1> QED
  BY <1>4 DEF Read, reading

\* The bytes of a number are those it was read from.
LEMMA NumberSpells ==
  ASSUME NEW s \in Seq(Byte)
  PROVE  LE(Num(s), Len(s)) = s
<1> DEFINE n == Len(s)
           number == Numbers(s)
           shift == Shifts(Num(s), n)
           T == {i \in 0 .. n : shift[i] = number[n - i]}
           U == {i \in 0 .. n : number[i] \in Nat}
<1>0. n \in Nat
  OBVIOUS
<1>1. number[0] = 0 /\ \A i \in 1 .. n : number[i] = s[n - i + 1] + 256 * number[i - 1]
  BY <1>0, NumbersRecur
<1>2. shift[0] = Num(s) /\ \A i \in 1 .. n : shift[i] = shift[i - 1] \div 256
  BY <1>0, ShiftsRecur
<1>3. Num(s) = number[n]
  BY DEF Num
<1>4. \A i \in 1 .. n : s[i] \in Nat /\ s[i] <= 255
  BY BytesAreNats
<1>5. LE(Num(s), n) = [i \in 1 .. n |-> shift[i - 1] % 256]
  BY DEF LE
<1>10. s = [i \in 1 .. n |-> s[i]]
  OBVIOUS
<1> HIDE DEF number, shift, n
<1> USE <1>0
<1>6. U = 0 .. n
  <2>1. 0 \in U
    BY <1>1
  <2>2. ASSUME NEW i \in 0 .. n - 1, i \in U
        PROVE  i + 1 \in U
    <3>1. i + 1 \in 1 .. n /\ i + 1 - 1 = i /\ n - (i + 1) + 1 \in 1 .. n
      OBVIOUS
    <3>2. number[i + 1] = s[n - (i + 1) + 1] + 256 * number[i] /\ number[i] \in Nat
      BY <1>1, <2>2, <3>1
    <3>3. s[n - (i + 1) + 1] \in Nat
      BY <1>4, <3>1
    <3> HIDE DEF U
    <3>4. number[i + 1] \in Nat
      BY <3>2, <3>3
    <3> QED
      BY <3>1, <3>4 DEF U
  <2>3. U \in SUBSET (0 .. n)
    OBVIOUS
  <2> HIDE DEF U
  <2> QED
    BY <2>1, <2>2, <2>3, RoundsInduct
<1>7. \A i \in 1 .. n : number[i] \div 256 = number[i - 1] /\ number[i] % 256 = s[n - i + 1]
  <2> SUFFICES ASSUME NEW i \in 1 .. n
               PROVE  number[i] \div 256 = number[i - 1] /\ number[i] % 256 = s[n - i + 1]
    OBVIOUS
  <2> DEFINE a == number[i - 1]
             b == s[n - i + 1]
  <2>1. a \in Nat
    <3>1. i - 1 \in 0 .. n
      OBVIOUS
    <3> QED
      BY <1>6, <3>1
  <2>2. b \in Nat /\ b <= 255
    <3>1. n - i + 1 \in 1 .. n
      OBVIOUS
    <3> QED
      BY <1>4, <3>1
  <2>3. number[i] = b + 256 * a
    BY <1>1
  <2> HIDE DEF a, b
  <2>4. (b + 256 * a) \div 256 = a /\ (b + 256 * a) % 256 = b
    BY ONLY <2>1, <2>2
  <2> QED
    BY <2>3, <2>4 DEF a, b
<1>8. T = 0 .. n
  <2>1. 0 \in T
    BY <1>2, <1>3
  <2>2. ASSUME NEW i \in 0 .. n - 1, i \in T
        PROVE  i + 1 \in T
    <3>1. i + 1 \in 1 .. n /\ i + 1 - 1 = i /\ n - i \in 1 .. n /\ n - i - 1 = n - (i + 1)
      OBVIOUS
    <3>2. shift[i + 1] = shift[i] \div 256 /\ shift[i] = number[n - i]
      BY <1>2, <2>2, <3>1
    <3>3. number[n - i] \div 256 = number[n - i - 1]
      BY <1>7, <3>1
    <3> QED
      BY <3>1, <3>2, <3>3
  <2>3. T \in SUBSET (0 .. n)
    OBVIOUS
  <2> HIDE DEF T
  <2> QED
    BY <2>1, <2>2, <2>3, RoundsInduct
<1>9. \A i \in 1 .. n : shift[i - 1] % 256 = s[i]
  <2> SUFFICES ASSUME NEW i \in 1 .. n
               PROVE  shift[i - 1] % 256 = s[i]
    OBVIOUS
  <2>1. i - 1 \in 0 .. n /\ n - (i - 1) \in 1 .. n /\ n - (n - (i - 1)) + 1 = i
    OBVIOUS
  <2>2. shift[i - 1] = number[n - (i - 1)]
    BY <1>8, <2>1
  <2>3. number[n - (i - 1)] % 256 = s[n - (n - (i - 1)) + 1]
    BY <1>7, <2>1
  <2> QED
    BY <2>1, <2>2, <2>3
<1> QED
  BY <1>5, <1>9, <1>10 DEF n

\* A sequence is its first elements, and the others.
LEMMA Split ==
  ASSUME NEW S, NEW s \in Seq(S), NEW n \in 0 .. Len(s)
  PROVE  /\ SubSeq(s, 1, n) \in Seq(S) /\ Len(SubSeq(s, 1, n)) = n
         /\ SubSeq(s, n + 1, Len(s)) \in Seq(S)
         /\ Len(SubSeq(s, n + 1, Len(s))) = Len(s) - n
         /\ s = SubSeq(s, 1, n) \o SubSeq(s, n + 1, Len(s))
         /\ n = Len(s) => SubSeq(s, n + 1, Len(s)) = <<>>
<1>1. Len(s) \in Nat /\ 1 \in 1 .. Len(s) + 1 /\ n \in 1 - 1 .. Len(s) /\ Len(s) \in n .. Len(s)
  OBVIOUS
<1>2. SubSeq(s, 1, n) \o SubSeq(s, n + 1, Len(s)) = SubSeq(s, 1, Len(s))
  BY <1>1, ConcatAdjacentSubSeq
<1>3. SubSeq(s, 1, Len(s)) = s
  BY SubSeqFull
<1>4. n = Len(s) => SubSeq(s, n + 1, Len(s)) = <<>>
  BY <1>1
<1>5. /\ SubSeq(s, 1, n) \in Seq(S) /\ Len(SubSeq(s, 1, n)) = n
      /\ SubSeq(s, n + 1, Len(s)) \in Seq(S)
      /\ Len(SubSeq(s, n + 1, Len(s))) = Len(s) - n
  BY <1>1
<1> QED
  BY <1>2, <1>3, <1>4, <1>5

\* Bytes are joined in any order.
LEMMA Associative == \A a, b, c_ \in Seq(Byte) : (a \o b) \o c_ = a \o (b \o c_)
BY ConcatAssociative

\* Bytes that are taken are those in front.
LEMMA TakeBytesTakes ==
  ASSUME NEW r, IsReader(r), NEW n \in Nat, TakeBytes(r, n) # Bad
  PROVE  LET q == TakeBytes(r, n)
             g == SubSeq(r.rest, 1, n)
         IN  /\ IsReader(q) /\ q.got = Append(r.got, g) /\ Last(q.got) = g
             /\ g \in Seq(Byte) /\ Len(g) = n /\ r.rest = g \o q.rest
             /\ n = Len(r.rest) => q.rest = <<>>
<1> DEFINE g == SubSeq(r.rest, 1, n)
           left == SubSeq(r.rest, n + 1, Len(r.rest))
           got == Append(r.got, g)
           q == TakeBytes(r, n)
<1>1. r.rest \in Seq(Byte) /\ Len(r.rest) \in Nat /\ IsSeq(r.got)
  BY DEF IsReader
<1>2. n \in 0 .. Len(r.rest) /\ q = [rest |-> left, got |-> got]
  BY <1>1 DEF TakeBytes
<1>3. /\ g \in Seq(Byte) /\ left \in Seq(Byte) /\ Len(g) = n /\ r.rest = g \o left
      /\ n = Len(r.rest) => left = <<>>
  BY <1>1, <1>2, Split
<1>4. /\ Len(r.got) \in Nat /\ IsSeq(got) /\ Len(got) = Len(r.got) + 1
      /\ got[Len(r.got) + 1] = g
  BY <1>1, SeqGrows
<1>5. Last(got) = g
  BY <1>4 DEF Last
<1> HIDE DEF g, left, got, q
<1>6. q.rest = left /\ q.got = got /\ q = [rest |-> q.rest, got |-> q.got]
  BY ONLY <1>2
<1> QED
  BY <1>3, <1>4, <1>5, <1>6 DEF IsReader, got, g, q

\* A field is spelt with its length in front, or as it is.
Spelt(f, g) == IF f = Prefixed THEN PutBytes(g) ELSE g

\* The reader q has taken a field more than r, which is g.
Takes(r, q, f, g) ==
  /\ IsReader(q)
  /\ q.got = Append(r.got, g)
  /\ g \in Seq(Byte)
  /\ f \in Nat \ {0} => Len(g) = f
  /\ Spelt(f, g) \in Seq(Byte)
  /\ r.rest = Spelt(f, g) \o q.rest
  /\ f = Remains => q.rest = <<>>

\* A text is taken with the length in front of it,
LEMMA TakeTextTakes ==
  ASSUME NEW r, IsReader(r), TakeText(r) # Bad
  PROVE  \E g : Takes(r, TakeText(r), Prefixed, g)
<1> DEFINE front == SubSeq(r.rest, 1, U32Bytes)
           back == SubSeq(r.rest, U32Bytes + 1, Len(r.rest))
           length == Num(front)
           body == [r EXCEPT !.rest = SubSeq(@, U32Bytes + 1, Len(@))]
           q == TakeBytes(body, length)
           g == SubSeq(back, 1, length)
<1>1. r.rest \in Seq(Byte) /\ Len(r.rest) \in Nat /\ U32Bytes \in Nat /\ IsSeq(r.got)
      /\ r = [rest |-> r.rest, got |-> r.got]
  BY WireAssumption DEF IsReader
<1>2. U32Bytes \in 0 .. Len(r.rest) /\ q # Bad /\ TakeText(r) = q
  BY <1>1 DEF TakeText
<1>3. /\ front \in Seq(Byte) /\ Len(front) = U32Bytes /\ back \in Seq(Byte)
      /\ r.rest = front \o back
  BY <1>1, <1>2, Split
<1>4. body = [rest |-> back, got |-> r.got]
  <2>1. body = [r EXCEPT !.rest = back]
    OBVIOUS
  <2> HIDE DEF back, body
  <2> QED
    BY ONLY <1>1, <2>1
<1>5. length \in Nat /\ LE(length, U32Bytes) = front
  BY <1>1, <1>3, NumIsNat, NumberSpells
<1> HIDE DEF front, back, body
<1>6. body.rest = back /\ body.got = r.got
  BY ONLY <1>4
<1>7. IsReader(body)
  BY <1>1, <1>3, <1>4, <1>6 DEF IsReader
<1>8. /\ IsReader(q) /\ q.got = Append(body.got, g)
      /\ g \in Seq(Byte) /\ Len(g) = length /\ body.rest = g \o q.rest
  BY <1>2, <1>5, <1>6, <1>7, TakeBytesTakes
<1>9. Spelt(Prefixed, g) = front \o g
  BY <1>5, <1>8 DEF Spelt, PutBytes, Put32
<1> HIDE DEF g, q, length
<1>10. q.rest \in Seq(Byte)
  BY <1>8 DEF IsReader
<1>11. front \o g \in Seq(Byte)
  BY <1>3, <1>8
<1>12. r.rest = (front \o g) \o q.rest
  <2>1. r.rest = front \o (g \o q.rest)
    BY <1>3, <1>6, <1>8
  <2>2. (front \o g) \o q.rest = front \o (g \o q.rest)
    BY <1>3, <1>8, <1>10, Associative, Zenon
  <2> QED
    BY <2>1, <2>2, Zenon
<1> HIDE DEF body
<1>13. Takes(r, q, Prefixed, g)
  <2>1. Prefixed \notin Nat \ {0} /\ Prefixed # Remains
    BY DEF Prefixed, Remains
  <2> QED
    BY <1>6, <1>8, <1>9, <1>11, <1>12, <2>1, Zenon DEF Takes
<1> QED
  BY <1>2, <1>13

\* and so is a field of any kind.
LEMMA TakeTakes ==
  ASSUME NEW r, IsReader(r), NEW f, IsField(f), Take(r, f) # Bad
  PROVE  \E g : Takes(r, Take(r, f), f, g)
<1>1. r # Bad
  BY DEF Take
<1>2. Len(r.rest) \in Nat
  BY DEF IsReader
<1>3. CASE f = Prefixed
  <2>1. Take(r, f) = TakeText(r)
    BY <1>1, <1>3 DEF Take, Remains, Prefixed
  <2> QED
    BY <1>3, <2>1, TakeTextTakes
<1>4. CASE f = Remains
  <2> DEFINE n == Len(r.rest)
             g == SubSeq(r.rest, 1, n)
  <2>1. Take(r, f) = TakeBytes(r, n)
    BY <1>1, <1>4 DEF Take, Remains, Prefixed
  <2>2. LET q == TakeBytes(r, n)
        IN  /\ IsReader(q) /\ q.got = Append(r.got, g)
            /\ g \in Seq(Byte) /\ r.rest = g \o q.rest /\ q.rest = <<>>
    BY <1>2, <2>1, TakeBytesTakes
  <2> HIDE DEF g, n
  <2>3. Takes(r, Take(r, f), f, g)
    BY <1>4, <2>1, <2>2 DEF Takes, Spelt, Remains, Prefixed
  <2> QED
    BY <2>3
<1>5. CASE f \in Nat \ {0}
  <2> DEFINE g == SubSeq(r.rest, 1, f)
  <2>1. Take(r, f) = TakeBytes(r, f)
    BY <1>1, <1>5 DEF Take, Remains, Prefixed
  <2>2. LET q == TakeBytes(r, f)
        IN  /\ IsReader(q) /\ q.got = Append(r.got, g)
            /\ g \in Seq(Byte) /\ Len(g) = f /\ r.rest = g \o q.rest
    BY <1>5, <2>1, TakeBytesTakes
  <2> HIDE DEF g
  <2>3. Takes(r, Take(r, f), f, g)
    BY <1>5, <2>1, <2>2 DEF Takes, Spelt, Remains, Prefixed
  <2> QED
    BY <2>3
<1> QED
  BY <1>3, <1>4, <1>5 DEF IsField, Prefixed

\* The fields gs, as they were spelt.
Spelling(fields, gs) == [i \in 1 .. Len(gs) |-> Spelt(fields[i], gs[i])]
Spelled(fields, gs) == FlattenSeq(Spelling(fields, gs))

\* The reader q has taken n fields more than r, which are gs.
HasRead(r, q, fields, gs, n) ==
  /\ IsReader(q)
  /\ gs \in Seq(Seq(Byte)) /\ Len(gs) = n
  /\ Len(q.got) = Len(r.got) + n
  /\ \A i \in 1 .. Len(r.got) : q.got[i] = r.got[i]
  /\ \A i \in 1 .. n : q.got[Len(r.got) + i] = gs[i]
  /\ \A i \in 1 .. n : fields[i] \in Nat \ {0} => Len(gs[i]) = fields[i]
  /\ Spelling(fields, gs) \in Seq(Seq(Byte))
  /\ r.rest = Join(Spelled(fields, gs), q.rest)
  /\ n # 0 /\ fields[n] = Remains => q.rest = <<>>

\* A field more is spelt after the others.
LEMMA SpellingGrows ==
  ASSUME NEW fields, NEW n \in Nat, NEW gs \in Seq(Seq(Byte)), Len(gs) = n,
         Spelling(fields, gs) \in Seq(Seq(Byte)),
         NEW g \in Seq(Byte), Spelt(fields[n + 1], g) \in Seq(Byte)
  PROVE  /\ Spelling(fields, Append(gs, g)) = Append(Spelling(fields, gs), Spelt(fields[n + 1], g))
         /\ Spelling(fields, Append(gs, g)) \in Seq(Seq(Byte))
         /\ Spelled(fields, Append(gs, g)) = Spelled(fields, gs) \o Spelt(fields[n + 1], g)
         /\ Spelled(fields, gs) \in Seq(Byte)
<1> DEFINE old == Spelling(fields, gs)
           new == Spelling(fields, Append(gs, g))
           e == Spelt(fields[n + 1], g)
<1>1. Len(old) = n /\ \A i \in 1 .. n : old[i] = Spelt(fields[i], gs[i])
  BY DEF Spelling
<1>2. Len(Append(gs, g)) = n + 1 /\ Append(gs, g)[n + 1] = g
      /\ \A i \in 1 .. n : Append(gs, g)[i] = gs[i]
  OBVIOUS
<1>3. new = [i \in 1 .. n + 1 |-> Spelt(fields[i], Append(gs, g)[i])]
  BY <1>2 DEF Spelling
<1>4. new = [i \in 1 .. n + 1 |-> IF i = n + 1 THEN e ELSE old[i]]
  <2> HIDE DEF old
  <2>1. \A i \in 1 .. n + 1 : Spelt(fields[i], Append(gs, g)[i]) = IF i = n + 1 THEN e ELSE old[i]
    BY <1>1, <1>2
  <2> HIDE DEF e, new
  <2> QED
    BY <1>3, <2>1
<1> HIDE DEF old, new, e
<1>5. old \in Seq(Seq(Byte)) /\ e \in Seq(Byte)
  BY DEF old, e
<1>6. new = Append(old, e)
  <2>1. Append(old, e) = [i \in 1 .. n + 1 |-> IF i = n + 1 THEN e ELSE old[i]]
    <3> DEFINE x == Append(old, e)
    <3>1. x \in Seq(Seq(Byte)) /\ Len(x) = n + 1 /\ x[n + 1] = e /\ \A i \in 1 .. n : x[i] = old[i]
      <4>1. /\ x \in Seq(Seq(Byte)) /\ Len(x) = Len(old) + 1 /\ x[Len(old) + 1] = e
            /\ \A i \in 1 .. Len(old) : x[i] = old[i]
        BY <1>5, AppendProperties
      <4> QED
        BY <1>1, <4>1
    <3> HIDE DEF x
    <3>2. x = [i \in 1 .. n + 1 |-> x[i]]
      BY <3>1
    <3>3. \A i \in 1 .. n + 1 : x[i] = IF i = n + 1 THEN e ELSE old[i]
      BY <3>1
    <3> QED
      BY <3>2, <3>3 DEF x
  <2> QED
    BY <1>4, <2>1
<1>7. Append(old, e) \in Seq(Seq(Byte))
  BY <1>5
<1>8. FlattenSeq(old) \in Seq(Byte) /\ FlattenSeq(Append(old, e)) = FlattenSeq(old) \o e
  BY <1>5, FlattenAppend
<1> QED
  BY <1>6, <1>7, <1>8, Zenon DEF old, new, e, Spelled

\* A reader takes the fields that lie in front of what it has left.
LEMMA ReadReads ==
  ASSUME NEW r, IsReader(r), NEW fields, NEW n \in Nat, n = Len(fields),
         \A i \in 1 .. n : IsField(fields[i]), Read(r, fields) # Bad
  PROVE  \E gs : HasRead(r, Read(r, fields), fields, gs, n)
<1> DEFINE reading == Readings(r, fields)
           T == {i \in 0 .. n : reading[i] = Bad \/ \E gs : HasRead(r, reading[i], fields, gs, i)}
<1>1. /\ reading[0] = r
      /\ \A i \in 1 .. n : reading[i] = Take(reading[i - 1], fields[i])
  BY ReadingsRecur
<1>2. Len(r.got) \in Nat /\ r.rest \in Seq(Byte) /\ IsSeq(r.got)
  BY SeqGrows DEF IsReader
<1> HIDE DEF reading
<1>3. 0 \in T
  <2>1. Spelling(fields, <<>>) = <<>>
    BY DEF Spelling
  <2>2. <<>> \in Seq(Seq(Byte)) /\ Len(<<>>) = 0
    OBVIOUS
  <2>3. r.rest = Join(Spelled(fields, <<>>), r.rest)
    BY <1>2, <2>1, FlattenEmpty DEF Join, Spelled
  <2>4. HasRead(r, r, fields, <<>>, 0)
    <3>1. Len(r.got) = Len(r.got) + 0 /\ \A i \in 1 .. 0 : FALSE
      BY <1>2
    <3> QED
      BY <2>1, <2>2, <2>3, <3>1, Zenon DEF HasRead
  <2> QED
    BY <1>1, <2>4
<1>4. ASSUME NEW i \in 0 .. n - 1, i \in T
      PROVE  i + 1 \in T
  <2> DEFINE f == fields[i + 1]
             q == reading[i]
             v == reading[i + 1]
  <2>1. i \in Nat /\ i + 1 \in 1 .. n /\ i + 1 \in 0 .. n /\ i + 1 - 1 = i
    OBVIOUS
  <2>2. v = Take(q, f)
    BY <1>1, <2>1
  <2>3. CASE v = Bad
    BY <2>1, <2>3
  <2>4. CASE v # Bad
    <3>1. q # Bad
      BY <2>2, <2>4 DEF Take
    <3>2. PICK gs : HasRead(r, q, fields, gs, i)
      BY <1>4, <3>1
    <3> HIDE DEF q, v, f
    <3>3. IsReader(q) /\ IsField(f)
      BY <2>1, <3>2 DEF HasRead, f
    <3>4. PICK g : Takes(q, v, f, g)
      BY <2>2, <2>4, <3>3, TakeTakes
    <3> DEFINE all == Append(gs, g)
    <3>5. gs \in Seq(Seq(Byte)) /\ Len(gs) = i /\ g \in Seq(Byte)
      BY <3>2, <3>4 DEF HasRead, Takes
    <3>6. /\ all \in Seq(Seq(Byte)) /\ Len(all) = i + 1 /\ all[i + 1] = g
          /\ \A j \in 1 .. i : all[j] = gs[j]
      BY <2>1, <3>5
    <3>7. /\ Spelling(fields, all) \in Seq(Seq(Byte))
          /\ Spelled(fields, all) = Spelled(fields, gs) \o Spelt(f, g)
          /\ Spelled(fields, gs) \in Seq(Byte) /\ Spelt(f, g) \in Seq(Byte)
      <4>1. Spelling(fields, gs) \in Seq(Seq(Byte)) /\ Spelt(fields[i + 1], g) \in Seq(Byte)
        BY <3>2, <3>4 DEF HasRead, Takes, f
      <4> QED
        BY <2>1, <3>5, <4>1, SpellingGrows DEF f
    <3>8. /\ IsReader(v) /\ v.rest \in Seq(Byte) /\ q.rest = Spelt(f, g) \o v.rest
          /\ v.got = Append(q.got, g)
      BY <3>4 DEF Takes, IsReader
    <3>9. r.rest = Join(Spelled(fields, all), v.rest)
      <4>1. r.rest = Spelled(fields, gs) \o (Spelt(f, g) \o v.rest)
        BY <3>2, <3>8, Zenon DEF HasRead, Join
      <4>2. (Spelled(fields, gs) \o Spelt(f, g)) \o v.rest
              = Spelled(fields, gs) \o (Spelt(f, g) \o v.rest)
        BY <3>7, <3>8, Associative, Zenon
      <4> QED
        BY <3>7, <4>1, <4>2, Zenon DEF Join
    <3> HIDE DEF all
    <3>10. /\ Len(q.got) = Len(r.got) + i
           /\ \A j \in 1 .. Len(r.got) : q.got[j] = r.got[j]
           /\ \A j \in 1 .. i : q.got[Len(r.got) + j] = gs[j]
           /\ \A j \in 1 .. i : fields[j] \in Nat \ {0} => Len(gs[j]) = fields[j]
      BY <3>2 DEF HasRead
    <3>11. /\ Len(v.got) = Len(q.got) + 1 /\ v.got[Len(q.got) + 1] = g
           /\ \A j \in 1 .. Len(q.got) : v.got[j] = q.got[j]
      BY <3>3, <3>8, SeqGrows DEF IsReader
    <3>12. /\ Len(v.got) = Len(r.got) + (i + 1)
           /\ \A j \in 1 .. Len(r.got) : v.got[j] = r.got[j]
           /\ \A j \in 1 .. i + 1 : v.got[Len(r.got) + j] = all[j]
      <4> DEFINE a == Len(r.got)
                 b == Len(q.got)
      <4>1. a \in Nat /\ b = a + i
        BY <1>2, <3>10
      <4> HIDE DEF a, b
      <4>2. Len(v.got) = a + (i + 1)
        BY <2>1, <3>11, <4>1 DEF b
      <4>3. \A j \in 1 .. a : v.got[j] = r.got[j]
        <5>1. \A j \in 1 .. a : j \in 1 .. b
          BY <2>1, <4>1
        <5> QED
          BY <3>10, <3>11, <5>1, Zenon DEF a, b
      <4>4. \A j \in 1 .. i + 1 : v.got[a + j] = all[j]
        <5> SUFFICES ASSUME NEW j \in 1 .. i + 1
                     PROVE  v.got[a + j] = all[j]
          OBVIOUS
        <5>1. CASE j = i + 1
          BY <2>1, <3>6, <3>11, <4>1, <5>1 DEF b
        <5>2. CASE j \in 1 .. i
          <6>1. a + j \in 1 .. b
            BY <2>1, <4>1, <5>2
          <6>2. v.got[a + j] = q.got[a + j]
            BY <3>11, <6>1 DEF b
          <6>3. q.got[a + j] = gs[j]
            BY <3>10, <5>2 DEF a
          <6> QED
            BY <3>6, <5>2, <6>2, <6>3
        <5> QED
          BY <2>1, <5>1, <5>2
      <4> QED
        BY <4>2, <4>3, <4>4 DEF a
    <3>13. \A j \in 1 .. i + 1 : fields[j] \in Nat \ {0} => Len(all[j]) = fields[j]
      <4> SUFFICES ASSUME NEW j \in 1 .. i + 1, fields[j] \in Nat \ {0}
                   PROVE  Len(all[j]) = fields[j]
        OBVIOUS
      <4>1. f \in Nat \ {0} => Len(g) = f
        BY <3>4 DEF Takes
      <4>2. CASE j = i + 1
        BY <3>6, <4>1, <4>2 DEF f
      <4>3. CASE j \in 1 .. i
        BY <3>6, <3>10, <4>3
      <4> QED
        BY <2>1, <4>2, <4>3
    <3>14. i + 1 # 0 /\ fields[i + 1] = Remains => v.rest = <<>>
      BY <3>4 DEF Takes, f
    <3>15. HasRead(r, v, fields, all, i + 1)
      BY <3>6, <3>7, <3>8, <3>9, <3>12, <3>13, <3>14, Zenon DEF HasRead
    <3> QED
      BY <2>1, <3>15 DEF v
  <2> QED
    BY <2>3, <2>4
<1>5. n \in T
  <2>1. T \in SUBSET (0 .. n)
    OBVIOUS
  <2> HIDE DEF T
  <2>2. T = 0 .. n
    BY <1>3, <1>4, <2>1, RoundsInduct
  <2> QED
    BY <2>2
<1> QED
  BY <1>5 DEF Read, reading

\* All of them are fields.
AreFields(fields, n) == n = Len(fields) /\ \A i \in 1 .. n : IsField(fields[i])

\* What was taken as n fields: bytes, as many as their widths say.
Taken(fields, g, n) ==
  /\ g \in Seq(Seq(Byte)) /\ Len(g) = n
  /\ \A i \in 1 .. n : fields[i] \in Nat \ {0} => Len(g[i]) = fields[i]
  /\ Spelling(fields, g) \in Seq(Seq(Byte))

\* What is read from the front of some bytes is all there was in front.
LEMMA ReadAll ==
  ASSUME NEW bytes \in Seq(Byte), NEW fields, NEW n \in Nat, AreFields(fields, n),
         Read(Reader(bytes), fields) # Bad
  PROVE  LET q == Read(Reader(bytes), fields)
         IN  /\ IsReader(q) /\ q.rest \in Seq(Byte)
             /\ Taken(fields, q.got, n)
             /\ bytes = Join(Spelled(fields, q.got), q.rest)
             /\ n # 0 /\ fields[n] = Remains => q.rest = <<>>
<1> DEFINE r == Reader(bytes)
           q == Read(r, fields)
<1>1. r.rest = bytes /\ r.got = <<>> /\ r = [rest |-> r.rest, got |-> r.got]
  BY DEF Reader
<1>2. IsReader(r) /\ Len(r.got) = 0
  <2>1. <<>> \in Seq(Byte)
    OBVIOUS
  <2> QED
    BY <1>1, <2>1 DEF IsReader, IsSeq
<1> HIDE DEF r
<1>3. PICK gs : HasRead(r, q, fields, gs, n)
  <2>1. q # Bad
    BY DEF r
  <2> QED
    BY <1>2, <2>1, ReadReads DEF AreFields
<1> HIDE DEF q
<1>4. IsReader(q) /\ gs \in Seq(Seq(Byte)) /\ Len(gs) = n /\ Len(q.got) = n
      /\ \A i \in 1 .. n : q.got[i] = gs[i]
  BY <1>2, <1>3 DEF HasRead
<1>5. q.got = gs
  <2>1. PICK X : q.got \in Seq(X)
    BY <1>4 DEF IsReader, IsSeq
  <2> DEFINE t == q.got
  <2>2. t = [i \in 1 .. n |-> t[i]]
    BY <1>4, <2>1
  <2>3. gs = [i \in 1 .. n |-> gs[i]]
    BY <1>4
  <2>4. \A i \in 1 .. n : t[i] = gs[i]
    BY <1>4
  <2> HIDE DEF t
  <2> QED
    BY <2>2, <2>3, <2>4 DEF t
<1>6. q.rest \in Seq(Byte)
  BY <1>4 DEF IsReader
<1> QED
  BY <1>1, <1>3, <1>4, <1>5, <1>6, Zenon DEF HasRead, Taken, q, r

\* The length of what is joined.
LenSum(s, t) == Len(s) + Len(t)

\* The spellings of the fields are joined one by one.
FieldsJoin(h, fields, gs, n) ==
  /\ h[1] = Spelt(fields[1], gs[1])
  /\ \A i \in 2 .. n : h[i] = Join(h[i - 1], Spelt(fields[i], gs[i]))
  /\ h[n] = Spelled(fields, gs)
  /\ \A i \in 1 .. n : h[i] \in Seq(Byte) /\ Spelt(fields[i], gs[i]) \in Seq(Byte)
  /\ \A i \in 2 .. n : Len(h[i]) = LenSum(h[i - 1], Spelt(fields[i], gs[i]))

\* What was spelt is one field after the other.
LEMMA FieldsJoined ==
  ASSUME NEW fields, NEW n \in Nat, NEW gs, Taken(fields, gs, n), n # 0
  PROVE  \E h : FieldsJoin(h, fields, gs, n)
<1> DEFINE s == Spelling(fields, gs)
<1>1. Len(s) = n /\ \A i \in 1 .. n : s[i] = Spelt(fields[i], gs[i])
  BY DEF Spelling, Taken
<1>2. s \in Seq(Seq(Byte))
  BY DEF Taken
<1>3. s[1] \in Seq(Byte)
  BY <1>1, <1>2
<1>a. \A i \in 1 .. n : Spelt(fields[i], gs[i]) \in Seq(Byte)
  <2> SUFFICES ASSUME NEW i \in 1 .. n
               PROVE  Spelt(fields[i], gs[i]) \in Seq(Byte)
    OBVIOUS
  <2>1. s[i] \in Seq(Byte)
    <3> HIDE DEF s
    <3> QED
      BY <1>1, <1>2
  <2> QED
    BY <1>1, <2>1
<1> HIDE DEF s
<1>4. PICK h : Flattening(h, s, Byte)
  BY <1>2, FlattenJoins
<1>5. h[0] = <<>> /\ (\A i \in 1 .. n : h[i] = Join(h[i - 1], s[i])) /\ h[n] = FlattenSeq(s)
  BY <1>1, <1>4, Zenon DEF Flattening, Joining
<1>6. h[1] = s[1]
  <2>1. h[1] = Join(h[0], s[1])
    BY <1>5
  <2>2. <<>> \o s[1] = s[1]
    BY <1>3, ConcatEmptySeq
  <2> QED
    BY <1>5, <2>1, <2>2 DEF Join
<1>7. \A i \in 2 .. n : h[i] = Join(h[i - 1], Spelt(fields[i], gs[i]))
  BY <1>1, <1>5
<1>8. h[1] = Spelt(fields[1], gs[1]) /\ h[n] = Spelled(fields, gs)
  BY <1>1, <1>5, <1>6 DEF Spelled, s
<1>9. \A i \in 1 .. n : h[i] \in Seq(Byte)
  BY <1>1, <1>4 DEF Flattening
<1>10. \A i \in 2 .. n : Len(h[i]) = LenSum(h[i - 1], Spelt(fields[i], gs[i]))
  <2> SUFFICES ASSUME NEW i \in 2 .. n
               PROVE  Len(h[i]) = LenSum(h[i - 1], Spelt(fields[i], gs[i]))
    OBVIOUS
  <2> DEFINE x == h[i - 1]
             y == Spelt(fields[i], gs[i])
  <2>1. i \in 1 .. n /\ i - 1 \in 1 .. n
    OBVIOUS
  <2>2. x \in Seq(Byte) /\ y \in Seq(Byte) /\ h[i] = Join(x, y)
    BY <1>7, <1>9, <1>a, <2>1
  <2> HIDE DEF x, y
  <2>3. Len(h[i]) = Len(x) + Len(y)
    BY <2>2, ConcatProperties DEF Join
  <2> QED
    BY <2>3 DEF x, y, LenSum
<1>11. FieldsJoin(h, fields, gs, n)
  BY <1>7, <1>8, <1>9, <1>10, <1>a DEF FieldsJoin
<1> QED
  BY <1>11

\* The same in its parts.
LEMMA SpelledFields ==
  ASSUME NEW fields, NEW n \in Nat, NEW gs, Taken(fields, gs, n), n # 0
  PROVE  \E h : /\ h[1] = Spelt(fields[1], gs[1])
                /\ \A i \in 2 .. n : h[i] = Join(h[i - 1], Spelt(fields[i], gs[i]))
                /\ h[n] = Spelled(fields, gs)
                /\ \A i \in 1 .. n : h[i] \in Seq(Byte) /\ Spelt(fields[i], gs[i]) \in Seq(Byte)
                /\ \A i \in 2 .. n : Len(h[i]) = LenSum(h[i - 1], Spelt(fields[i], gs[i]))
<1>1. PICK h : FieldsJoin(h, fields, gs, n)
  BY FieldsJoined
<1> QED
  BY <1>1 DEF FieldsJoin

-----------------------------------------------------------------------------
(***************************************************************************)
(* Values and their bytes.                                                 *)
(***************************************************************************)
\* Bytes of a number of a known width.
LEMMA Spell16 == \A g \in Seq(Byte) : Len(g) = 2 => Put16(Num(g)) = g
BY NumberSpells DEF Put16

\* So have the wider ones.
LEMMA Spell32 == \A g \in Seq(Byte) : Len(g) = U32Bytes => Put32(Num(g)) = g
BY NumberSpells DEF Put32

\* and the widest.
LEMMA Spell64 == \A g \in Seq(Byte) : Len(g) = U64Bytes => Put64(Num(g)) = g
BY NumberSpells DEF Put64

\* The byte of a boolean.
LEMMA SpellBool == \A g : Bool(g) # Bad => PutBool(Bool(g)) = g /\ Bool(g) \in BOOLEAN
BY DEF Bool, PutBool

\* Members are told apart.
Distinct(members) ==
  \A i, j \in 1 .. Len(members) : members[i] = members[j] => i = j

\* A byte alone.
LEMMA OneByte ==
  ASSUME NEW s \in Seq(Byte), Len(s) = 1
  PROVE  s[1] \in Byte /\ s = <<s[1]>>
<1>1. s = [i \in 1 .. 1 |-> s[i]]
  OBVIOUS
<1>2. s[1] \in Byte
  OBVIOUS
<1>3. \A i \in 1 .. 1 : s[i] = s[1]
  OBVIOUS
<1> QED
  BY <1>1, <1>2, <1>3

\* The tag of the member that a tag names.
LEMMA SpellTag ==
  ASSUME NEW members, Len(members) \in Nat, Distinct(members),
         NEW tag \in Seq(Byte), Len(tag) = 1, Member(members, tag) # Bad
  PROVE  /\ Tag(members, Member(members, tag)) = tag
         /\ tag[1] + 1 \in 1 .. Len(members)
         /\ Member(members, tag) = members[tag[1] + 1]
<1> DEFINE m == Member(members, tag)
           i == tag[1] + 1
<1>1. tag[1] \in Nat /\ tag = <<tag[1]>>
  BY BytesAreNats, OneByte
<1>2. i \in 1 .. Len(members) /\ m = members[i]
  BY <1>1 DEF Member
<1>3. \A j \in 1 .. Len(members) : members[j] = m => j = i
  BY <1>2 DEF Distinct
<1> HIDE DEF m
<1>4. (CHOOSE j \in 1 .. Len(members) : members[j] = m) = i
  BY <1>2, <1>3
<1>5. Tag(members, m) = <<i - 1>>
  BY <1>4 DEF Tag
<1>6. i - 1 = tag[1]
  BY <1>1
<1> QED
  BY <1>1, <1>2, <1>5, <1>6 DEF m

\* A number of two bytes is that of them.
LEMMA Num16 ==
  ASSUME NEW g \in Seq(Byte), Len(g) = 2
  PROVE  Num(g) \in Nat /\ Num(g) < 65536
<1> DEFINE n == Num(g)
           a == g[1]
           b == g[2]
<1>1. n = a + 256 * (b + 256 * 0)
  <2>1. /\ Numbers(g)[0] = 0
        /\ \A i \in 1 .. 2 : Numbers(g)[i] = g[2 - i + 1] + 256 * Numbers(g)[i - 1]
    <3>1. 2 \in Nat /\ 2 = Len(g)
      OBVIOUS
    <3> QED
      BY <3>1, NumbersRecur
  <2>2. Numbers(g)[1] = g[2] + 256 * 0 /\ Numbers(g)[2] = g[1] + 256 * Numbers(g)[1]
    BY <2>1
  <2> QED
    BY <2>2 DEF Num
<1>2. a \in Nat /\ a <= 255 /\ b \in Nat /\ b <= 255
  BY BytesAreNats
<1> HIDE DEF n, a, b
<1>3. b + 256 * 0 = b
  BY ONLY <1>2
<1>4. a + 256 * b \in Nat /\ a + 256 * b < 65536
  BY ONLY <1>2
<1>5. n = a + 256 * b
  BY <1>1, <1>3, Zenon
<1> QED
  BY ONLY <1>4, <1>5 DEF n

\* The two bytes of an i16.
LEMMA Spell16Signed ==
  ASSUME NEW g \in Seq(Byte), Len(g) = 2
  PROVE  /\ PutI16(I16(g)) = g
         /\ I16(g) \in Int /\ -32768 <= I16(g) /\ I16(g) <= 32767
<1> DEFINE n == Num(g)
           v == I16(g)
<1>1. n \in Nat /\ n < 65536
  BY Num16
<1>2. v = IF n < 32768 THEN n ELSE n - 65536
  BY DEF I16
<1> HIDE DEF n, v
<1>3. v % 65536 = n /\ v \in Int /\ -32768 <= v /\ v <= 32767
  <2>1. n % 65536 = n /\ (n - 65536) % 65536 = n
    BY <1>1
  <2> QED
    BY <1>1, <1>2, <2>1
<1>4. Put16(n) = g
  BY Spell16 DEF n
<1> QED
  BY <1>3, <1>4 DEF PutI16, v

\* HighFlags is what its recursion says.
LEMMA HighFlagsRecur ==
  ASSUME NEW bits, NEW n \in Nat, n = 16
  PROVE  /\ HighFlags(bits)[0] = 0
         /\ \A i \in 1 .. n :
              HighFlags(bits)[i] = (IF 16 - i \in bits THEN 1 ELSE 0) + 2 * HighFlags(bits)[i - 1]
<1> DEFINE Start == 0
           Step(v, i) == (IF 16 - i \in bits THEN 1 ELSE 0) + 2 * v
           Is(f, k) == f = [i \in 0 .. k |-> IF i = 0 THEN Start ELSE Step(f[i - 1], i)]
           T == {k \in 0 .. n : \E f : Is(f, k)}
           f == HighFlags(bits)
<1>1. f = CHOOSE g : Is(g, n)
  BY DEF HighFlags
<1> HIDE DEF Start, Step, f
<1>2. 0 \in T
  <2>1. Is([i \in 0 .. 0 |-> Start], 0)
    OBVIOUS
  <2> HIDE DEF Is
  <2> QED
    BY <2>1
<1>3. ASSUME NEW k \in 0 .. n - 1, k \in T
      PROVE  k + 1 \in T
  <2>1. PICK h : Is(h, k)
    BY <1>3
  <2> DEFINE g == [i \in 0 .. k + 1 |-> IF i = k + 1 THEN Step(h[k], i) ELSE h[i]]
  <2>2. \A i \in 0 .. k + 1 : g[i] = IF i = 0 THEN Start ELSE Step(g[i - 1], i)
    BY <2>1
  <2>3. Is(g, k + 1)
    BY <2>2
  <2> HIDE DEF g, Is
  <2> QED
    BY <2>3
<1>4. n \in T
  <2>1. T \in SUBSET (0 .. n)
    OBVIOUS
  <2> HIDE DEF T
  <2>2. T = 0 .. n
    BY <1>2, <1>3, <2>1, RoundsInduct
  <2> QED
    BY <2>2
<1>5. Is(f, n)
  BY <1>1, <1>4
<1>6. f[0] = Start /\ \A i \in 1 .. n : f[i] = Step(f[i - 1], i)
  BY <1>5
<1> QED
  BY <1>6 DEF f, Start, Step

\* The flags of the bits of a number are that number.
LEMMA SpellFlags ==
  ASSUME NEW v \in Nat, v < 65536, NEW bits,
         \A k \in 0 .. 15 : k \in bits <=> Bit(v, k)
  PROVE  Flags(bits) = v
<1> DEFINE number == HighFlags(bits)
           B(k) == IF k \in bits THEN 1 ELSE 0
<1>0. \A k \in 0 .. 15 : k \in bits <=> Bit(v, k)
  OBVIOUS
<1>1. number[0] = 0 /\ \A i \in 1 .. 16 : number[i] = B(16 - i) + 2 * number[i - 1]
  BY HighFlagsRecur
<1> HIDE DEF number
<1>2. \A k \in 0 .. 15 : B(k) = IF Bit(v, k) THEN 1 ELSE 0
  <2>1. ASSUME NEW k \in 0 .. 15, k \in bits
        PROVE  B(k) = IF Bit(v, k) THEN 1 ELSE 0
    BY ONLY <1>0, <2>1, Zenon DEF B
  <2>2. ASSUME NEW k \in 0 .. 15, k \notin bits
        PROVE  B(k) = IF Bit(v, k) THEN 1 ELSE 0
    BY ONLY <1>0, <2>2, Zenon DEF B
  <2> QED
    BY ONLY <2>1, <2>2, Zenon
<1> HIDE DEF B
<1>3. number[0] = v \div 65536
  BY <1>1
<1>4. number[1] = v \div 32768
  <2>1. number[1] = B(15) + 2 * number[0] /\ B(15) = IF Bit(v, 15) THEN 1 ELSE 0
    BY <1>1, <1>2
  <2>2. Bit(v, 15) <=> (v \div 32768) % 2 = 1
    BY DEF Bit
  <2>3. (v \div 32768) % 2 \in {0, 1}
    OBVIOUS
  <2>4. B(15) = (v \div 32768) % 2
    BY ONLY <2>1, <2>2, <2>3
  <2> QED
    BY ONLY <1>3, <2>1, <2>4, v \in Nat
<1>5. number[2] = v \div 16384
  <2>1. number[2] = B(14) + 2 * number[1] /\ B(14) = IF Bit(v, 14) THEN 1 ELSE 0
    BY <1>1, <1>2
  <2>2. Bit(v, 14) <=> (v \div 16384) % 2 = 1
    BY DEF Bit
  <2>3. (v \div 16384) % 2 \in {0, 1}
    OBVIOUS
  <2>4. B(14) = (v \div 16384) % 2
    BY ONLY <2>1, <2>2, <2>3
  <2> QED
    BY ONLY <1>4, <2>1, <2>4, v \in Nat
<1>6. number[3] = v \div 8192
  <2>1. number[3] = B(13) + 2 * number[2] /\ B(13) = IF Bit(v, 13) THEN 1 ELSE 0
    BY <1>1, <1>2
  <2>2. Bit(v, 13) <=> (v \div 8192) % 2 = 1
    BY DEF Bit
  <2>3. (v \div 8192) % 2 \in {0, 1}
    OBVIOUS
  <2>4. B(13) = (v \div 8192) % 2
    BY ONLY <2>1, <2>2, <2>3
  <2> QED
    BY ONLY <1>5, <2>1, <2>4, v \in Nat
<1>7. number[4] = v \div 4096
  <2>1. number[4] = B(12) + 2 * number[3] /\ B(12) = IF Bit(v, 12) THEN 1 ELSE 0
    BY <1>1, <1>2
  <2>2. Bit(v, 12) <=> (v \div 4096) % 2 = 1
    BY DEF Bit
  <2>3. (v \div 4096) % 2 \in {0, 1}
    OBVIOUS
  <2>4. B(12) = (v \div 4096) % 2
    BY ONLY <2>1, <2>2, <2>3
  <2> QED
    BY ONLY <1>6, <2>1, <2>4, v \in Nat
<1>8. number[5] = v \div 2048
  <2>1. number[5] = B(11) + 2 * number[4] /\ B(11) = IF Bit(v, 11) THEN 1 ELSE 0
    BY <1>1, <1>2
  <2>2. Bit(v, 11) <=> (v \div 2048) % 2 = 1
    BY DEF Bit
  <2>3. (v \div 2048) % 2 \in {0, 1}
    OBVIOUS
  <2>4. B(11) = (v \div 2048) % 2
    BY ONLY <2>1, <2>2, <2>3
  <2> QED
    BY ONLY <1>7, <2>1, <2>4, v \in Nat
<1>9. number[6] = v \div 1024
  <2>1. number[6] = B(10) + 2 * number[5] /\ B(10) = IF Bit(v, 10) THEN 1 ELSE 0
    BY <1>1, <1>2
  <2>2. Bit(v, 10) <=> (v \div 1024) % 2 = 1
    BY DEF Bit
  <2>3. (v \div 1024) % 2 \in {0, 1}
    OBVIOUS
  <2>4. B(10) = (v \div 1024) % 2
    BY ONLY <2>1, <2>2, <2>3
  <2> QED
    BY ONLY <1>8, <2>1, <2>4, v \in Nat
<1>10. number[7] = v \div 512
  <2>1. number[7] = B(9) + 2 * number[6] /\ B(9) = IF Bit(v, 9) THEN 1 ELSE 0
    BY <1>1, <1>2
  <2>2. Bit(v, 9) <=> (v \div 512) % 2 = 1
    BY DEF Bit
  <2>3. (v \div 512) % 2 \in {0, 1}
    OBVIOUS
  <2>4. B(9) = (v \div 512) % 2
    BY ONLY <2>1, <2>2, <2>3
  <2> QED
    BY ONLY <1>9, <2>1, <2>4, v \in Nat
<1>11. number[8] = v \div 256
  <2>1. number[8] = B(8) + 2 * number[7] /\ B(8) = IF Bit(v, 8) THEN 1 ELSE 0
    BY <1>1, <1>2
  <2>2. Bit(v, 8) <=> (v \div 256) % 2 = 1
    BY DEF Bit
  <2>3. (v \div 256) % 2 \in {0, 1}
    OBVIOUS
  <2>4. B(8) = (v \div 256) % 2
    BY ONLY <2>1, <2>2, <2>3
  <2> QED
    BY ONLY <1>10, <2>1, <2>4, v \in Nat
<1>12. number[9] = v \div 128
  <2>1. number[9] = B(7) + 2 * number[8] /\ B(7) = IF Bit(v, 7) THEN 1 ELSE 0
    BY <1>1, <1>2
  <2>2. Bit(v, 7) <=> (v \div 128) % 2 = 1
    BY DEF Bit
  <2>3. (v \div 128) % 2 \in {0, 1}
    OBVIOUS
  <2>4. B(7) = (v \div 128) % 2
    BY ONLY <2>1, <2>2, <2>3
  <2> QED
    BY ONLY <1>11, <2>1, <2>4, v \in Nat
<1>13. number[10] = v \div 64
  <2>1. number[10] = B(6) + 2 * number[9] /\ B(6) = IF Bit(v, 6) THEN 1 ELSE 0
    BY <1>1, <1>2
  <2>2. Bit(v, 6) <=> (v \div 64) % 2 = 1
    BY DEF Bit
  <2>3. (v \div 64) % 2 \in {0, 1}
    OBVIOUS
  <2>4. B(6) = (v \div 64) % 2
    BY ONLY <2>1, <2>2, <2>3
  <2> QED
    BY ONLY <1>12, <2>1, <2>4, v \in Nat
<1>14. number[11] = v \div 32
  <2>1. number[11] = B(5) + 2 * number[10] /\ B(5) = IF Bit(v, 5) THEN 1 ELSE 0
    BY <1>1, <1>2
  <2>2. Bit(v, 5) <=> (v \div 32) % 2 = 1
    BY DEF Bit
  <2>3. (v \div 32) % 2 \in {0, 1}
    OBVIOUS
  <2>4. B(5) = (v \div 32) % 2
    BY ONLY <2>1, <2>2, <2>3
  <2> QED
    BY ONLY <1>13, <2>1, <2>4, v \in Nat
<1>15. number[12] = v \div 16
  <2>1. number[12] = B(4) + 2 * number[11] /\ B(4) = IF Bit(v, 4) THEN 1 ELSE 0
    BY <1>1, <1>2
  <2>2. Bit(v, 4) <=> (v \div 16) % 2 = 1
    BY DEF Bit
  <2>3. (v \div 16) % 2 \in {0, 1}
    OBVIOUS
  <2>4. B(4) = (v \div 16) % 2
    BY ONLY <2>1, <2>2, <2>3
  <2> QED
    BY ONLY <1>14, <2>1, <2>4, v \in Nat
<1>16. number[13] = v \div 8
  <2>1. number[13] = B(3) + 2 * number[12] /\ B(3) = IF Bit(v, 3) THEN 1 ELSE 0
    BY <1>1, <1>2
  <2>2. Bit(v, 3) <=> (v \div 8) % 2 = 1
    BY DEF Bit
  <2>3. (v \div 8) % 2 \in {0, 1}
    OBVIOUS
  <2>4. B(3) = (v \div 8) % 2
    BY ONLY <2>1, <2>2, <2>3
  <2> QED
    BY ONLY <1>15, <2>1, <2>4, v \in Nat
<1>17. number[14] = v \div 4
  <2>1. number[14] = B(2) + 2 * number[13] /\ B(2) = IF Bit(v, 2) THEN 1 ELSE 0
    BY <1>1, <1>2
  <2>2. Bit(v, 2) <=> (v \div 4) % 2 = 1
    BY DEF Bit
  <2>3. (v \div 4) % 2 \in {0, 1}
    OBVIOUS
  <2>4. B(2) = (v \div 4) % 2
    BY ONLY <2>1, <2>2, <2>3
  <2> QED
    BY ONLY <1>16, <2>1, <2>4, v \in Nat
<1>18. number[15] = v \div 2
  <2>1. number[15] = B(1) + 2 * number[14] /\ B(1) = IF Bit(v, 1) THEN 1 ELSE 0
    BY <1>1, <1>2
  <2>2. Bit(v, 1) <=> (v \div 2) % 2 = 1
    BY DEF Bit
  <2>3. (v \div 2) % 2 \in {0, 1}
    OBVIOUS
  <2>4. B(1) = (v \div 2) % 2
    BY ONLY <2>1, <2>2, <2>3
  <2> QED
    BY ONLY <1>17, <2>1, <2>4, v \in Nat
<1>19. number[16] = v \div 1
  <2>1. number[16] = B(0) + 2 * number[15] /\ B(0) = IF Bit(v, 0) THEN 1 ELSE 0
    BY <1>1, <1>2
  <2>2. Bit(v, 0) <=> (v \div 1) % 2 = 1
    BY DEF Bit
  <2>3. (v \div 1) % 2 \in {0, 1}
    OBVIOUS
  <2>4. B(0) = (v \div 1) % 2
    BY ONLY <2>1, <2>2, <2>3
  <2> QED
    BY ONLY <1>18, <2>1, <2>4, v \in Nat
<1> QED
  BY <1>19 DEF Flags, number

\* A number of so many bits is the flags of its bits.
LEMMA SpellBits ==
  ASSUME NEW v \in Nat, NEW count \in {RowFlagBits, StyleFlagBits}, v < 2^count
  PROVE  Flags(Bits(v, count)) = v
<1>1. /\ v < 8 => \A k \in 3 .. 15 : ~Bit(v, k)
      /\ v < 1024 => \A k \in 10 .. 15 : ~Bit(v, k)
  <2>1. v < 1024 => /\ ~Bit(v, 10) /\ ~Bit(v, 11) /\ ~Bit(v, 12)
                    /\ ~Bit(v, 13) /\ ~Bit(v, 14) /\ ~Bit(v, 15)
    BY DEF Bit
  <2>2. v < 8 => /\ ~Bit(v, 3) /\ ~Bit(v, 4) /\ ~Bit(v, 5) /\ ~Bit(v, 6)
                 /\ ~Bit(v, 7) /\ ~Bit(v, 8) /\ ~Bit(v, 9)
    BY DEF Bit
  <2>3. v < 8 => v < 1024
    OBVIOUS
  <2>4. \A k \in 10 .. 15 : k = 10 \/ k = 11 \/ k = 12 \/ k = 13 \/ k = 14 \/ k = 15
    OBVIOUS
  <2>5. \A k \in 3 .. 15 : \/ k = 3 \/ k = 4 \/ k = 5 \/ k = 6 \/ k = 7 \/ k = 8 \/ k = 9
                           \/ k \in 10 .. 15
    OBVIOUS
  <2> QED
    BY <2>1, <2>2, <2>3, <2>4, <2>5, Zenon
<1>2. CASE count = RowFlagBits
  <2>1. count = 3 /\ v < 8
    BY <1>2 DEF RowFlagBits
  <2>2. \A k \in 0 .. 15 : k \in Bits(v, count) <=> Bit(v, k)
    <3>1. \A k \in 0 .. 15 : k \in 0 .. (count - 1) \/ k \in 3 .. 15
      BY <2>1
    <3>2. \A k \in 0 .. 15 : k \in 3 .. 15 => k \notin 0 .. (count - 1)
      BY <2>1
    <3> QED
      BY <1>1, <2>1, <3>1, <3>2, Zenon DEF Bits
  <2>3. v < 65536
    BY <2>1
  <2> QED
    BY <2>2, <2>3, SpellFlags
<1>3. CASE count = StyleFlagBits
  <2>1. count = 10 /\ v < 1024
    BY <1>3 DEF StyleFlagBits
  <2>2. \A k \in 0 .. 15 : k \in Bits(v, count) <=> Bit(v, k)
    <3>1. \A k \in 0 .. 15 : k \in 0 .. (count - 1) \/ k \in 10 .. 15
      BY <2>1
    <3>2. \A k \in 0 .. 15 : k \in 10 .. 15 => k \notin 0 .. (count - 1)
      BY <2>1
    <3> QED
      BY <1>1, <2>1, <3>1, <3>2, Zenon DEF Bits
  <2>3. v < 65536
    BY <2>1
  <2> QED
    BY <2>2, <2>3, SpellFlags
<1> QED
  BY <1>2, <1>3

\* Every number has its bytes,
LEMMA NumberBytes ==
  ASSUME NEW v \in Nat, NEW w \in Nat
  PROVE  LE(v, w) \in Seq(Byte) /\ Len(LE(v, w)) = w
<1> DEFINE shift == Shifts(v, w)
           T == {i \in 0 .. w : shift[i] \in Nat}
<1>1. shift[0] = v /\ \A i \in 1 .. w : shift[i] = shift[i - 1] \div 256
  BY ShiftsRecur
<1>2. LE(v, w) = [i \in 1 .. w |-> shift[i - 1] % 256]
  BY DEF LE
<1> HIDE DEF shift
<1>3. T = 0 .. w
  <2>1. 0 \in T
    BY <1>1
  <2>2. ASSUME NEW i \in 0 .. w - 1, i \in T
        PROVE  i + 1 \in T
    <3>1. i + 1 \in 1 .. w /\ i + 1 - 1 = i
      OBVIOUS
    <3>2. shift[i + 1] = shift[i] \div 256 /\ shift[i] \in Nat
      BY <1>1, <2>2, <3>1
    <3>3. shift[i + 1] \in Nat
      BY <3>2
    <3> QED
      BY <3>1, <3>3
  <2>3. T \in SUBSET (0 .. w)
    OBVIOUS
  <2> HIDE DEF T
  <2> QED
    BY <2>1, <2>2, <2>3, RoundsInduct
<1>4. \A i \in 1 .. w : shift[i - 1] % 256 \in Byte
  <2> SUFFICES ASSUME NEW i \in 1 .. w
               PROVE  shift[i - 1] % 256 \in Byte
    OBVIOUS
  <2>1. i - 1 \in 0 .. w
    OBVIOUS
  <2>2. shift[i - 1] \in Nat
    BY <1>3, <2>1
  <2> QED
    BY <2>2 DEF Byte
<1> DEFINE e == [i \in 1 .. w |-> shift[i - 1] % 256]
<1>5. e \in [1 .. w -> Byte]
  BY <1>4
<1>6. e \in Seq(Byte) /\ Len(e) = w
  <2> HIDE DEF e
  <2> QED
    BY <1>5
<1> QED
  BY <1>2, <1>6

\* and a text has those of its length in front.
LEMMA TextBytes ==
  ASSUME NEW s \in Seq(Byte)
  PROVE  PutBytes(s) \in Seq(Byte) /\ Len(PutBytes(s)) = U32Bytes + Len(s)
<1>1. Len(s) \in Nat /\ U32Bytes \in Nat
  BY WireAssumption
<1>2. LE(Len(s), U32Bytes) \in Seq(Byte) /\ Len(LE(Len(s), U32Bytes)) = U32Bytes
  BY <1>1, NumberBytes
<1> QED
  BY <1>1, <1>2, ConcatProperties DEF PutBytes, Put32

\* The tags of a style and of a cell tell their members apart.
LEMMA CellTags ==
  /\ Distinct(CellWidths) /\ Len(CellWidths) = 4
  /\ Distinct(Underlines) /\ Len(Underlines) = 6
BY DEF Distinct, CellWidths, Underlines

\* The bytes of a colour.
LEMMA SpellColour ==
  ASSUME NEW b \in Seq(Byte), Len(b) = 4, StyleColour(b) # Bad
  PROVE  PutStyleColour(StyleColour(b)) = b
<1>1. b = <<b[1], b[2], b[3], b[4]>>
  <2>1. b = [i \in 1 .. 4 |-> b[i]]
    OBVIOUS
  <2> QED
    BY <2>1
<1>2. CASE b = <<0, 0, 0, 0>>
  BY <1>2 DEF StyleColour, PutStyleColour
<1>3. CASE b # <<0, 0, 0, 0>> /\ b[1] = 1 /\ b[3] = 0 /\ b[4] = 0
  <2>1. StyleColour(b) = [kind |-> "Palette", index |-> b[2]]
    BY <1>3 DEF StyleColour
  <2>2. PutStyleColour(StyleColour(b)) = <<1, b[2], 0, 0>>
    BY <2>1 DEF PutStyleColour
  <2> QED
    BY <1>1, <1>3, <2>2
<1>4. CASE b # <<0, 0, 0, 0>> /\ b[1] = 2
  <2>1. StyleColour(b) = [kind |-> "Rgb", rgb |-> Tail(b)]
    BY <1>4 DEF StyleColour
  <2>2. PutStyleColour(StyleColour(b)) = <<2>> \o Tail(b)
    BY <2>1 DEF PutStyleColour
  <2>3. <<2>> \o Tail(b) = b
    <3>1. 1 \in 1 .. Len(b) /\ Len(b) \in 1 .. Len(b) /\ b # <<>> /\ 1 + 1 = 2
      OBVIOUS
    <3>2. SubSeq(b, 1, Len(b)) = <<b[1]>> \o SubSeq(b, 2, Len(b))
      BY <3>1, SubSeqRecursiveFirst
    <3>3. Tail(b) = SubSeq(b, 2, Len(b)) /\ SubSeq(b, 1, Len(b)) = b
      BY <3>1, TailIsSubSeq, SubSeqFull
    <3> QED
      BY <1>4, <3>2, <3>3
  <2> QED
    BY <2>2, <2>3
<1> QED
  BY <1>2, <1>3, <1>4 DEF StyleColour

\* The bytes of a style.
LEMMA SpellStyle ==
  ASSUME NEW a \in Seq(Byte), NEW b \in Seq(Byte), NEW d \in Seq(Byte), NEW e \in Seq(Byte),
         NEW u \in Seq(Byte), Len(a) = 4, Len(b) = 4, Len(d) = 4, Len(e) = 2, Len(u) = 1,
         Style(a, b, d, e, u) # Bad
  PROVE  PutStyle(Style(a, b, d, e, u)) = Join(Join(Join(Join(a, b), d), e), u)
<1> DEFINE v == Num(e)
           bits == Bits(v, StyleFlagBits)
           s == [foreground |-> StyleColour(a), background |-> StyleColour(b),
                 underlineColour |-> StyleColour(d), attributes |-> bits,
                 underline |-> Member(Underlines, u)]
<1>1. /\ Style(a, b, d, e, u) = s /\ v < 2^StyleFlagBits
      /\ Sound(<<s.foreground, s.background, s.underlineColour, s.underline>>)
  BY DEF Style, With, Checked
<1>2. /\ StyleColour(a) # Bad /\ StyleColour(b) # Bad /\ StyleColour(d) # Bad
      /\ Member(Underlines, u) # Bad
  <2> DEFINE parts == <<s.foreground, s.background, s.underlineColour, s.underline>>
  <2>1. /\ s.foreground = StyleColour(a) /\ s.background = StyleColour(b)
        /\ s.underlineColour = StyleColour(d) /\ s.underline = Member(Underlines, u)
    OBVIOUS
  <2>2. Sound(parts)
    BY <1>1
  <2> HIDE DEF s
  <2>3. Len(parts) = 4 /\ 1 \in 1 .. 4 /\ 2 \in 1 .. 4 /\ 3 \in 1 .. 4 /\ 4 \in 1 .. 4
    OBVIOUS
  <2>4. parts[1] # Bad /\ parts[2] # Bad /\ parts[3] # Bad /\ parts[4] # Bad
    BY ONLY <2>2, <2>3 DEF Sound
  <2> QED
    BY <2>1, <2>4
<1>3. /\ PutStyleColour(s.foreground) = a /\ PutStyleColour(s.background) = b
      /\ PutStyleColour(s.underlineColour) = d
  BY <1>2, SpellColour
<1>4. Tag(Underlines, s.underline) = u
  BY <1>2, CellTags, SpellTag
<1>5. Put16(Flags(s.attributes)) = e
  <2>1. v \in Nat /\ Put16(v) = e
    BY NumIsNat, Spell16
  <2> HIDE DEF v
  <2>2. Flags(bits) = v
    BY <1>1, <2>1, SpellBits
  <2> QED
    BY <2>1, <2>2
<1> HIDE DEF s
<1> QED
  BY <1>1, <1>3, <1>4, <1>5, Zenon DEF PutStyle, Join

\* Bytes joined are bytes.
LEMMA JoinBytes ==
  \A a, b \in Seq(Byte) : Join(a, b) \in Seq(Byte) /\ Len(Join(a, b)) = Len(a) + Len(b)
BY ConcatProperties DEF Join

\* and so they are however they are grouped.
LEMMA JoinGroups == \A a, b, d \in Seq(Byte) : Join(a, Join(b, d)) = Join(Join(a, b), d)
BY ConcatAssociative DEF Join

\* Pieces of bytes.
Pieces2(a, b) == a \in Seq(Byte) /\ b \in Seq(Byte)
Pieces4(a, b, d, e) == Pieces2(a, b) /\ Pieces2(d, e)
Pieces6(a, b, d, e, u, v) == Pieces4(a, b, d, e) /\ Pieces2(u, v)

\* Five pieces after a first one, joined one by one.
LEMMA JoinsSix ==
  ASSUME NEW a, NEW b, NEW d, NEW e, NEW u, NEW v, Pieces6(a, b, d, e, u, v)
  PROVE  /\ Join(a, Join(Join(Join(Join(b, d), e), u), v))
              = Join(Join(Join(Join(Join(a, b), d), e), u), v)
         /\ Join(Join(Join(Join(b, d), e), u), v) \in Seq(Byte)
         /\ Len(b) = 4 /\ Len(d) = 4 /\ Len(e) = 4 /\ Len(u) = 2 /\ Len(v) = 1
              => Len(Join(Join(Join(Join(b, d), e), u), v)) = 15
<1> DEFINE x == Join(b, d)
           y == Join(x, e)
           z == Join(y, u)
<1>0. /\ a \in Seq(Byte) /\ b \in Seq(Byte) /\ d \in Seq(Byte) /\ e \in Seq(Byte)
      /\ u \in Seq(Byte) /\ v \in Seq(Byte)
  BY DEF Pieces6, Pieces4, Pieces2
<1>1. x \in Seq(Byte) /\ Len(x) = Len(b) + Len(d)
  BY <1>0, JoinBytes
<1>2. Join(a, x) = Join(Join(a, b), d)
  BY <1>0, JoinGroups
<1> HIDE DEF x
<1>3. y \in Seq(Byte) /\ Len(y) = Len(x) + Len(e)
  BY <1>0, <1>1, JoinBytes
<1>4. Join(a, y) = Join(Join(a, x), e)
  BY <1>0, <1>1, JoinGroups
<1> HIDE DEF y
<1>5. z \in Seq(Byte) /\ Len(z) = Len(y) + Len(u)
  BY <1>0, <1>3, JoinBytes
<1>6. Join(a, z) = Join(Join(a, y), u)
  BY <1>0, <1>3, JoinGroups
<1> HIDE DEF z
<1>7. Join(z, v) \in Seq(Byte) /\ Len(Join(z, v)) = Len(z) + Len(v)
  BY <1>0, <1>5, JoinBytes
<1>8. Join(a, Join(z, v)) = Join(Join(a, z), v)
  BY <1>0, <1>5, JoinGroups
<1>9. Join(a, Join(z, v)) = Join(Join(Join(Join(Join(a, b), d), e), u), v)
  BY <1>2, <1>4, <1>6, <1>8, Zenon
<1>10. Join(z, v) = Join(Join(Join(Join(b, d), e), u), v)
  BY Zenon DEF x, y, z
<1>11. Len(b) = 4 /\ Len(d) = 4 /\ Len(e) = 4 /\ Len(u) = 2 /\ Len(v) = 1 => Len(Join(z, v)) = 15
  BY <1>1, <1>3, <1>5, <1>7
<1> QED
  BY <1>7, <1>9, <1>10, <1>11, Zenon

\* A field of a list of them.
LEMMA FieldBytes == \A g \in Seq(Seq(Byte)) : \A i \in 1 .. Len(g) : g[i] \in Seq(Byte)
OBVIOUS

\* The text and the link of a cell follow.
LEMMA JoinsEight ==
  ASSUME NEW a, NEW s, NEW t, NEW l, Pieces4(a, s, t, l)
  PROVE  /\ Join(Join(Join(a, s), t), l) \in Seq(Byte)
         /\ Len(Join(Join(Join(a, s), t), l)) = Len(a) + Len(s) + Len(t) + Len(l)
<1> DEFINE x == Join(a, s)
           y == Join(x, t)
<1>0. a \in Seq(Byte) /\ s \in Seq(Byte) /\ t \in Seq(Byte) /\ l \in Seq(Byte)
  BY DEF Pieces4, Pieces2
<1>1. x \in Seq(Byte) /\ Len(x) = Len(a) + Len(s)
  BY <1>0, JoinBytes
<1> HIDE DEF x
<1>2. y \in Seq(Byte) /\ Len(y) = Len(x) + Len(t)
  BY <1>0, <1>1, JoinBytes
<1> HIDE DEF y
<1>3. Join(y, l) \in Seq(Byte) /\ Len(Join(y, l)) = Len(y) + Len(l)
  BY <1>0, <1>2, JoinBytes
<1>4. Join(y, l) = Join(Join(Join(a, s), t), l)
  BY Zenon DEF x, y
<1>5. Len(Join(y, l)) = Len(a) + Len(s) + Len(t) + Len(l)
  BY <1>1, <1>2, <1>3, Zenon
<1> QED
  BY <1>3, <1>4, <1>5, Zenon

\* The widths of the fields of a cell.
LEMMA CellWidthsOf ==
  /\ Len(CellFields) = 8
  /\ CellFields[1] = 1 /\ CellFields[2] = 4 /\ CellFields[3] = 4 /\ CellFields[4] = 4
  /\ CellFields[5] = 2 /\ CellFields[6] = 1 /\ CellFields[7] = 0 /\ CellFields[8] = 0
BY DEF CellFields, Prefixed

\* What was taken as a cell.
CellTaken(g) == Taken(CellFields, g, 8)

\* They are bytes, as many as their widths say.
LEMMA CellTakenType ==
  ASSUME NEW g, CellTaken(g)
  PROVE  /\ g[1] \in Seq(Byte) /\ g[2] \in Seq(Byte) /\ g[3] \in Seq(Byte) /\ g[4] \in Seq(Byte)
         /\ g[5] \in Seq(Byte) /\ g[6] \in Seq(Byte) /\ g[7] \in Seq(Byte) /\ g[8] \in Seq(Byte)
         /\ Len(g[1]) = 1 /\ Len(g[2]) = 4 /\ Len(g[3]) = 4 /\ Len(g[4]) = 4
         /\ Len(g[5]) = 2 /\ Len(g[6]) = 1
<1>1. g \in Seq(Seq(Byte)) /\ Len(g) = 8
  BY DEF CellTaken, Taken
<1>2. \A i \in 1 .. 8 : g[i] \in Seq(Byte)
  BY <1>1, FieldBytes
<1>3. \A i \in 1 .. 8 : CellFields[i] \in Nat \ {0} => Len(g[i]) = CellFields[i]
  BY DEF CellTaken, Taken
<1>4. \A i \in 1 .. 6 : CellFields[i] \in Nat \ {0}
  BY CellWidthsOf
<1>5. \A i \in 1 .. 6 : Len(g[i]) = CellFields[i]
  <2>1. \A i \in 1 .. 6 : i \in 1 .. 8
    OBVIOUS
  <2> QED
    BY ONLY <1>3, <1>4, <2>1
<1>6. /\ g[1] \in Seq(Byte) /\ g[2] \in Seq(Byte) /\ g[3] \in Seq(Byte) /\ g[4] \in Seq(Byte)
      /\ g[5] \in Seq(Byte) /\ g[6] \in Seq(Byte) /\ g[7] \in Seq(Byte) /\ g[8] \in Seq(Byte)
  BY ONLY <1>2
<1>7. /\ Len(g[1]) = CellFields[1] /\ Len(g[2]) = CellFields[2] /\ Len(g[3]) = CellFields[3]
      /\ Len(g[4]) = CellFields[4] /\ Len(g[5]) = CellFields[5] /\ Len(g[6]) = CellFields[6]
  BY ONLY <1>5
<1> QED
  BY ONLY <1>6, <1>7, CellWidthsOf, Zenon

\* The fields of a cell, spelt.
LEMMA CellSpelled ==
  ASSUME NEW g, CellTaken(g)
  PROVE  Spelled(CellFields, g)
           = Join(Join(Join(Join(Join(Join(Join(g[1], g[2]), g[3]), g[4]), g[5]), g[6]),
                       PutBytes(g[7])), PutBytes(g[8]))
<1>1. PICK h : /\ h[1] = Spelt(CellFields[1], g[1])
               /\ \A i \in 2 .. 8 : h[i] = Join(h[i - 1], Spelt(CellFields[i], g[i]))
               /\ h[8] = Spelled(CellFields, g)
  <2>1. 8 \in Nat /\ 8 # 0
    OBVIOUS
  <2> QED
    BY <2>1, SpelledFields DEF CellTaken
<1>2. /\ h[2] = Join(h[1], Spelt(CellFields[2], g[2]))
      /\ h[3] = Join(h[2], Spelt(CellFields[3], g[3]))
      /\ h[4] = Join(h[3], Spelt(CellFields[4], g[4]))
      /\ h[5] = Join(h[4], Spelt(CellFields[5], g[5]))
      /\ h[6] = Join(h[5], Spelt(CellFields[6], g[6]))
      /\ h[7] = Join(h[6], Spelt(CellFields[7], g[7]))
      /\ h[8] = Join(h[7], Spelt(CellFields[8], g[8]))
  BY ONLY <1>1
<1>3. /\ Spelt(CellFields[1], g[1]) = g[1] /\ Spelt(CellFields[2], g[2]) = g[2]
      /\ Spelt(CellFields[3], g[3]) = g[3] /\ Spelt(CellFields[4], g[4]) = g[4]
      /\ Spelt(CellFields[5], g[5]) = g[5] /\ Spelt(CellFields[6], g[6]) = g[6]
      /\ Spelt(CellFields[7], g[7]) = PutBytes(g[7])
      /\ Spelt(CellFields[8], g[8]) = PutBytes(g[8])
  BY ONLY CellWidthsOf DEF Spelt, Prefixed
<1>4. h[3] = Join(Join(g[1], g[2]), g[3])
  BY ONLY <1>1, <1>2, <1>3, Zenon
<1>5. h[5] = Join(Join(Join(Join(g[1], g[2]), g[3]), g[4]), g[5])
  BY ONLY <1>2, <1>3, <1>4, Zenon
<1>6. h[7] = Join(Join(Join(Join(Join(Join(g[1], g[2]), g[3]), g[4]), g[5]), g[6]), PutBytes(g[7]))
  BY ONLY <1>2, <1>3, <1>5, Zenon
<1> QED
  BY ONLY <1>1, <1>2, <1>3, <1>6, Zenon

\* The bytes of a cell are its fields as they were spelt, and as many as FrameSize counts.
LEMMA SpellCell ==
  ASSUME NEW g, CellTaken(g), CellOf(g) # Bad
  PROVE  /\ PutCell(CellOf(g)) = Spelled(CellFields, g)
         /\ PutCell(CellOf(g)) \in Seq(Byte)
         /\ Len(PutCell(CellOf(g))) = SizeOfCell(CellOf(g))
<1> DEFINE style == Style(g[2], g[3], g[4], g[5], g[6])
           cell == [width |-> Member(CellWidths, g[1]), style |-> style,
                    text |-> g[7], link |-> g[8]]
           bytes == Join(Join(Join(Join(g[2], g[3]), g[4]), g[5]), g[6])
           text == PutBytes(g[7])
           link == PutBytes(g[8])
<1>1. CellOf(g) = cell /\ Sound(<<cell.width, cell.style>>)
  BY DEF CellOf, With, Checked
<1>2. Member(CellWidths, g[1]) # Bad /\ style # Bad
  <2> DEFINE parts == <<cell.width, cell.style>>
  <2>1. cell.width = Member(CellWidths, g[1]) /\ cell.style = style
    OBVIOUS
  <2>2. Sound(parts)
    BY <1>1
  <2> HIDE DEF cell
  <2>3. Len(parts) = 2 /\ 1 \in 1 .. 2 /\ 2 \in 1 .. 2
    OBVIOUS
  <2>4. parts[1] # Bad /\ parts[2] # Bad
    BY ONLY <2>2, <2>3 DEF Sound
  <2> QED
    BY <2>1, <2>4
<1>3. /\ g[1] \in Seq(Byte) /\ g[2] \in Seq(Byte) /\ g[3] \in Seq(Byte) /\ g[4] \in Seq(Byte)
      /\ g[5] \in Seq(Byte) /\ g[6] \in Seq(Byte) /\ g[7] \in Seq(Byte) /\ g[8] \in Seq(Byte)
      /\ Len(g[1]) = 1 /\ Len(g[2]) = 4 /\ Len(g[3]) = 4 /\ Len(g[4]) = 4
      /\ Len(g[5]) = 2 /\ Len(g[6]) = 1
  BY CellTakenType
<1>4. /\ cell.width = Member(CellWidths, g[1]) /\ cell.style = style
      /\ cell.text = g[7] /\ cell.link = g[8]
  OBVIOUS
<1>5. Tag(CellWidths, cell.width) = g[1]
  <2>1. Len(CellWidths) \in Nat /\ Distinct(CellWidths)
    BY CellTags
  <2>2. Tag(CellWidths, Member(CellWidths, g[1])) = g[1]
    BY ONLY <1>2, <1>3, <2>1, SpellTag
  <2> QED
    BY ONLY <1>4, <2>2
<1>6. PutStyle(cell.style) = bytes
  <2>1. PutStyle(style) = bytes
    BY ONLY <1>2, <1>3, SpellStyle
  <2> QED
    BY ONLY <1>4, <2>1
<1> HIDE DEF cell
<1>7. PutCell(cell) = Join(Join(Join(g[1], bytes), text), link)
  BY ONLY <1>4, <1>5, <1>6, Zenon DEF PutCell, Join
<1>8. /\ Join(g[1], bytes) = Join(Join(Join(Join(Join(g[1], g[2]), g[3]), g[4]), g[5]), g[6])
      /\ bytes \in Seq(Byte) /\ Len(bytes) = 15
  <2>1. Pieces6(g[1], g[2], g[3], g[4], g[5], g[6])
    BY ONLY <1>3, Zenon DEF Pieces6, Pieces4, Pieces2
  <2> QED
    BY ONLY <1>3, <2>1, JoinsSix
<1>9. Spelled(CellFields, g) = Join(Join(Join(g[1], bytes), text), link)
  BY <1>8, CellSpelled, Zenon
<1>10. /\ text \in Seq(Byte) /\ Len(text) = U32Bytes + Len(g[7])
       /\ link \in Seq(Byte) /\ Len(link) = U32Bytes + Len(g[8])
  BY ONLY <1>3, TextBytes
<1> HIDE DEF bytes, text, link
<1>12. /\ Join(Join(Join(g[1], bytes), text), link) \in Seq(Byte)
       /\ Len(Join(Join(Join(g[1], bytes), text), link))
            = Len(g[1]) + Len(bytes) + Len(text) + Len(link)
  <2>1. Pieces4(g[1], bytes, text, link)
    BY ONLY <1>3, <1>8, <1>10, Zenon DEF Pieces4, Pieces2
  <2> QED
    BY ONLY <2>1, JoinsEight
<1>13. SizeOfCell(cell) = 16 + (U32Bytes + Len(g[7])) + (U32Bytes + Len(g[8]))
  BY ONLY <1>4, Zenon DEF SizeOfCell, CellFixedBytes
<1>14. Len(g[1]) + Len(bytes) + Len(text) + Len(link)
         = 16 + (U32Bytes + Len(g[7])) + (U32Bytes + Len(g[8]))
  <2>1. Len(g[7]) \in Nat /\ Len(g[8]) \in Nat /\ U32Bytes \in Nat
    BY ONLY <1>3, WireAssumption
  <2> QED
    BY ONLY <1>3, <1>8, <1>10, <2>1
<1> QED
  BY ONLY <1>1, <1>7, <1>9, <1>12, <1>13, <1>14, Zenon

-----------------------------------------------------------------------------
(***************************************************************************)
(* Cells, rows and their sizes.                                            *)
(***************************************************************************)
\* A piece more is joined to those that lie in front.
LEMMA PieceMore ==
  ASSUME NEW pieces \in Seq(Seq(Byte)), NEW e \in Seq(Byte), NEW x, NEW y, NEW z \in Seq(Byte),
         x = Join(FlattenSeq(pieces), y), y = Join(e, z)
  PROVE  /\ Append(pieces, e) \in Seq(Seq(Byte))
         /\ x = Join(FlattenSeq(Append(pieces, e)), z)
<1> DEFINE f == FlattenSeq(pieces)
<1>1. f \in Seq(Byte) /\ FlattenSeq(Append(pieces, e)) = Join(f, e)
  BY FlattenAppend DEF Join
<1>2. Append(pieces, e) \in Seq(Seq(Byte))
  OBVIOUS
<1> HIDE DEF f
<1>3. Join(f, Join(e, z)) = Join(Join(f, e), z)
  BY <1>1, JoinGroups
<1> QED
  BY <1>1, <1>2, <1>3, Zenon DEF f

\* The size counts the pieces from start.
Counting(size, start, pieces, n) ==
  /\ size[0] = start
  /\ \A i \in 1 .. n : size[i] = size[i - 1] + Len(pieces[i])

\* It is start and the length of the pieces joined.
LEMMA CountingJoins ==
  ASSUME NEW pieces \in Seq(Seq(Byte)), NEW n \in Nat, Len(pieces) = n, NEW start \in Nat,
         NEW size, Counting(size, start, pieces, n)
  PROVE  size[n] = start + Len(FlattenSeq(pieces)) /\ FlattenSeq(pieces) \in Seq(Byte)
<1>1. PICK h : Flattening(h, pieces, Byte)
  BY FlattenJoins
<1>2. h \in [0 .. n -> Seq(Byte)] /\ Joining(h, pieces, n) /\ h[n] = FlattenSeq(pieces)
  BY <1>1 DEF Flattening
<1>c. size[0] = start /\ \A i \in 1 .. n : size[i] = size[i - 1] + Len(pieces[i])
  BY DEF Counting
<1>j. h[0] = <<>> /\ \A i \in 1 .. n : h[i] = Join(h[i - 1], pieces[i])
  BY <1>2 DEF Joining
<1> DEFINE T == {i \in 0 .. n : size[i] = start + Len(h[i])}
<1>3. \A i \in 0 .. n : h[i] \in Seq(Byte)
  BY <1>2
<1>4. \A i \in 1 .. n : pieces[i] \in Seq(Byte)
  BY FieldBytes
<1>5. 0 \in T
  <2>1. size[0] = start /\ h[0] = <<>>
    BY <1>c, <1>j
  <2>2. Len(h[0]) = 0 /\ start + 0 = start /\ 0 \in 0 .. n
    BY <2>1
  <2> QED
    BY <2>1, <2>2
<1>6. ASSUME NEW i \in 0 .. n - 1, i \in T
      PROVE  i + 1 \in T
  <2>1. i + 1 \in 1 .. n /\ i + 1 \in 0 .. n /\ i + 1 - 1 = i
    OBVIOUS
  <2>2. size[i + 1] = size[i] + Len(pieces[i + 1]) /\ h[i + 1] = Join(h[i], pieces[i + 1])
    <3>1. size[i + 1] = size[i] + Len(pieces[i + 1])
      BY <1>c, <2>1
    <3>2. h[i + 1] = Join(h[i], pieces[i + 1])
      BY <1>j, <2>1
    <3> QED
      BY <3>1, <3>2
  <2>3. h[i] \in Seq(Byte) /\ pieces[i + 1] \in Seq(Byte)
    BY <1>3, <1>4, <2>1
  <2>4. Len(h[i + 1]) = Len(h[i]) + Len(pieces[i + 1])
    BY <2>2, <2>3, JoinBytes
  <2>5. Len(h[i]) \in Nat /\ Len(pieces[i + 1]) \in Nat
    BY <2>3
  <2>6. size[i + 1] = start + Len(h[i + 1])
    <3>1. size[i] = start + Len(h[i])
      BY <1>6
    <3> DEFINE a == Len(h[i])
               d == Len(pieces[i + 1])
    <3>2. a \in Nat /\ d \in Nat /\ size[i] = start + a /\ size[i + 1] = size[i] + d
          /\ Len(h[i + 1]) = a + d
      BY <2>2, <2>4, <2>5, <3>1
    <3> HIDE DEF a, d
    <3>3. size[i] + d = start + (a + d)
      BY <3>2
    <3> QED
      BY ONLY <3>2, <3>3
  <2> QED
    BY <2>1, <2>6
<1>7. T \in SUBSET (0 .. n)
  OBVIOUS
<1> HIDE DEF T
<1>8. T = 0 .. n
  BY <1>5, <1>6, <1>7, RoundsInduct
<1>9. size[n] = start + Len(h[n]) /\ h[n] \in Seq(Byte)
  BY <1>3, <1>8 DEF T
<1> QED
  BY <1>2, <1>9

\* The cells of a row, each as its bytes.
PutCells(cells) == [i \in 1 .. Len(cells) |-> PutCell(cells[i])]

\* The rows of a frame, each as its bytes.
RowPieces(rows) == [i \in 1 .. Len(rows) |-> PutRow(rows[i])]

\* With a cell more, they have its bytes last,
LEMMA PutCellsGrow ==
  ASSUME NEW t, IsSeq(t), NEW e
  PROVE  PutCells(Append(t, e)) = Append(PutCells(t), PutCell(e))
<1> DEFINE n == Len(t)
           old == PutCells(t)
           new == PutCells(Append(t, e))
           p == PutCell(e)
<1>1. /\ n \in Nat /\ Len(Append(t, e)) = n + 1 /\ Append(t, e)[n + 1] = e
      /\ \A i \in 1 .. n : Append(t, e)[i] = t[i]
  BY SeqGrows
<1>2. Len(old) = n /\ \A i \in 1 .. n : old[i] = PutCell(t[i])
  BY <1>1 DEF PutCells
<1>3. new = [i \in 1 .. n + 1 |-> PutCell(Append(t, e)[i])]
  BY <1>1 DEF PutCells
<1>4. IsSeq(old)
  <2> DEFINE X == {PutCell(t[i]) : i \in 1 .. n}
  <2>1. old = [i \in 1 .. n |-> PutCell(t[i])]
    BY DEF PutCells
  <2>2. old \in [1 .. n -> X]
    BY <2>1
  <2> HIDE DEF X, n, old
  <2>3. old \in Seq(X)
    BY <1>1, <2>2
  <2> QED
    BY <2>3 DEF IsSeq
<1> HIDE DEF n, old, new, p
<1>5. /\ Len(Append(old, p)) = n + 1 /\ Append(old, p)[n + 1] = p
      /\ \A i \in 1 .. n : Append(old, p)[i] = old[i]
      /\ IsSeq(Append(old, p))
  BY <1>2, <1>4, SeqGrows
<1>6. Append(old, p) = [i \in 1 .. n + 1 |-> Append(old, p)[i]]
  <2>1. PICK X : Append(old, p) \in Seq(X)
    BY <1>5 DEF IsSeq
  <2> DEFINE x == Append(old, p)
  <2>2. x \in Seq(X) /\ Len(x) = n + 1
    BY <1>5, <2>1
  <2> HIDE DEF x
  <2>3. x = [i \in 1 .. n + 1 |-> x[i]]
    BY ONLY <2>2
  <2> QED
    BY <2>3 DEF x
<1>7. \A i \in 1 .. n + 1 : PutCell(Append(t, e)[i]) = Append(old, p)[i]
  <2> SUFFICES ASSUME NEW i \in 1 .. n + 1
               PROVE  PutCell(Append(t, e)[i]) = Append(old, p)[i]
    OBVIOUS
  <2>1. CASE i = n + 1
    BY <1>1, <1>5, <2>1 DEF p
  <2>2. CASE i \in 1 .. n
    BY <1>1, <1>2, <1>5, <2>2
  <2>3. i = n + 1 \/ i \in 1 .. n
    BY <1>1
  <2> QED
    BY <2>1, <2>2, <2>3
<1>8. new = Append(old, p)
  BY <1>3, <1>6, <1>7
<1> QED
  BY <1>8 DEF new, old, p

\* and so have rows.
LEMMA RowPiecesGrow ==
  ASSUME NEW t, IsSeq(t), NEW e
  PROVE  RowPieces(Append(t, e)) = Append(RowPieces(t), PutRow(e))
<1> DEFINE n == Len(t)
           old == RowPieces(t)
           new == RowPieces(Append(t, e))
           p == PutRow(e)
<1>1. /\ n \in Nat /\ Len(Append(t, e)) = n + 1 /\ Append(t, e)[n + 1] = e
      /\ \A i \in 1 .. n : Append(t, e)[i] = t[i]
  BY SeqGrows
<1>2. Len(old) = n /\ \A i \in 1 .. n : old[i] = PutRow(t[i])
  BY <1>1 DEF RowPieces
<1>3. new = [i \in 1 .. n + 1 |-> PutRow(Append(t, e)[i])]
  BY <1>1 DEF RowPieces
<1>4. IsSeq(old)
  <2> DEFINE X == {PutRow(t[i]) : i \in 1 .. n}
  <2>1. old = [i \in 1 .. n |-> PutRow(t[i])]
    BY DEF RowPieces
  <2>2. old \in [1 .. n -> X]
    BY <2>1
  <2> HIDE DEF X, n, old
  <2>3. old \in Seq(X)
    BY <1>1, <2>2
  <2> QED
    BY <2>3 DEF IsSeq
<1> HIDE DEF n, old, new, p
<1>5. /\ Len(Append(old, p)) = n + 1 /\ Append(old, p)[n + 1] = p
      /\ \A i \in 1 .. n : Append(old, p)[i] = old[i]
      /\ IsSeq(Append(old, p))
  BY <1>2, <1>4, SeqGrows
<1>6. Append(old, p) = [i \in 1 .. n + 1 |-> Append(old, p)[i]]
  <2>1. PICK X : Append(old, p) \in Seq(X)
    BY <1>5 DEF IsSeq
  <2> DEFINE x == Append(old, p)
  <2>2. x \in Seq(X) /\ Len(x) = n + 1
    BY <1>5, <2>1
  <2> HIDE DEF x
  <2>3. x = [i \in 1 .. n + 1 |-> x[i]]
    BY ONLY <2>2
  <2> QED
    BY <2>3 DEF x
<1>7. \A i \in 1 .. n + 1 : PutRow(Append(t, e)[i]) = Append(old, p)[i]
  <2> SUFFICES ASSUME NEW i \in 1 .. n + 1
               PROVE  PutRow(Append(t, e)[i]) = Append(old, p)[i]
    OBVIOUS
  <2>1. CASE i = n + 1
    BY <1>1, <1>5, <2>1 DEF p
  <2>2. CASE i \in 1 .. n
    BY <1>1, <1>2, <1>5, <2>2
  <2>3. i = n + 1 \/ i \in 1 .. n
    BY <1>1
  <2> QED
    BY <2>1, <2>2, <2>3
<1>8. new = Append(old, p)
  BY <1>3, <1>6, <1>7
<1> QED
  BY <1>8 DEF new, old, p

\* The reader q has taken n things more than r, of which the pieces are the bytes.
Unpacks(r, q, pieces, n) ==
  /\ IsReader(q) /\ Len(q.got) = Len(r.got) + n
  /\ pieces \in Seq(Seq(Byte)) /\ Len(pieces) = n
  /\ r.rest = Join(FlattenSeq(pieces), q.rest)

\* The reader q has taken a thing more than r, of which p are the bytes.
Unpack(r, q, v, p) ==
  /\ q = [rest |-> q.rest, got |-> q.got]
  /\ q.got = Append(r.got, v)
  /\ q.rest \in Seq(Byte) /\ p \in Seq(Byte)
  /\ r.rest = Join(p, q.rest)

\* With it, the reader has one piece more.
LEMMA UnpackMore ==
  ASSUME NEW r, NEW q, NEW s, NEW pieces, NEW n \in Nat, NEW v, NEW p,
         Unpacks(r, q, pieces, n), Unpack(q, s, v, p), Len(r.got) \in Nat
  PROVE  Unpacks(r, s, Append(pieces, p), n + 1)
<1>1. /\ IsReader(q) /\ Len(q.got) = Len(r.got) + n
      /\ pieces \in Seq(Seq(Byte)) /\ Len(pieces) = n
      /\ r.rest = Join(FlattenSeq(pieces), q.rest)
  BY DEF Unpacks
<1>2. /\ s = [rest |-> s.rest, got |-> s.got]
      /\ s.got = Append(q.got, v)
      /\ s.rest \in Seq(Byte) /\ p \in Seq(Byte)
      /\ q.rest = Join(p, s.rest)
  BY DEF Unpack
<1>3. IsSeq(q.got)
  BY <1>1 DEF IsReader
<1>4. IsSeq(s.got) /\ Len(s.got) = Len(q.got) + 1
  BY <1>2, <1>3, SeqGrows
<1>5. IsReader(s)
  BY <1>2, <1>4, Zenon DEF IsReader
<1>6. Len(s.got) = Len(r.got) + (n + 1)
  <2> DEFINE a == Len(r.got)
             b == Len(q.got)
  <2>1. a \in Nat /\ b = a + n /\ Len(s.got) = b + 1
    BY <1>1, <1>4
  <2> HIDE DEF a, b
  <2>2. (a + n) + 1 = a + (n + 1)
    BY <2>1
  <2>3. Len(s.got) = a + (n + 1)
    BY ONLY <2>1, <2>2, Zenon
  <2> QED
    BY ONLY <2>3 DEF a
<1>7. /\ Append(pieces, p) \in Seq(Seq(Byte))
      /\ r.rest = Join(FlattenSeq(Append(pieces, p)), s.rest)
  BY <1>1, <1>2, PieceMore
<1>8. Len(Append(pieces, p)) = n + 1
  BY <1>1, <1>2
<1> QED
  BY <1>5, <1>6, <1>7, <1>8, Zenon DEF Unpacks

\* Nothing is unpacked at first.
LEMMA UnpackNone ==
  ASSUME NEW r, IsReader(r)
  PROVE  Unpacks(r, r, <<>>, 0) /\ Len(r.got) \in Nat
<1>1. Len(r.got) \in Nat /\ r.rest \in Seq(Byte)
  BY SeqGrows DEF IsReader
<1>2. <<>> \in Seq(Seq(Byte)) /\ Len(<<>>) = 0 /\ Len(r.got) = Len(r.got) + 0
  BY <1>1
<1>3. r.rest = Join(FlattenSeq(<<>>), r.rest)
  BY <1>1, FlattenEmpty DEF Join
<1> QED
  BY <1>1, <1>2, <1>3, Zenon DEF Unpacks

\* The reader of some bytes.
LEMMA ReaderType ==
  ASSUME NEW bytes \in Seq(Byte)
  PROVE  /\ IsReader(Reader(bytes)) /\ Reader(bytes).rest = bytes
         /\ Reader(bytes).got = <<>> /\ Len(Reader(bytes).got) = 0
<1>1. Reader(bytes).rest = bytes /\ Reader(bytes).got = <<>>
      /\ Reader(bytes) = [rest |-> Reader(bytes).rest, got |-> Reader(bytes).got]
  BY DEF Reader
<1>2. <<>> \in Seq(Byte) /\ Len(<<>>) = 0
  OBVIOUS
<1>3. IsSeq(Reader(bytes).got)
  BY <1>1, <1>2 DEF IsSeq
<1> QED
  BY <1>1, <1>2, <1>3, Zenon DEF IsReader

\* A cell is unpacked from the bytes that it is encoded to, which FrameSize counts.
LEMMA TakeCellTakes ==
  ASSUME NEW r, IsReader(r), TakeCell(r) # Bad
  PROVE  \E cell : /\ Unpack(r, TakeCell(r), cell, PutCell(cell))
                   /\ Len(PutCell(cell)) = SizeOfCell(cell)
<1> DEFINE q == Read(Reader(r.rest), CellFields)
           cell == CellOf(q.got)
           s == [rest |-> q.rest, got |-> Append(r.got, cell)]
<1>1. q # Bad /\ cell # Bad /\ TakeCell(r) = s
  BY DEF TakeCell, With
<1>2. r.rest \in Seq(Byte)
  BY DEF IsReader
<1>3. AreFields(CellFields, 8)
  BY DEF CellFields, IsField, Prefixed, AreFields
<1>4. /\ CellTaken(q.got) /\ q.rest \in Seq(Byte)
      /\ r.rest = Join(Spelled(CellFields, q.got), q.rest)
  <2>1. 8 \in Nat
    OBVIOUS
  <2> QED
    BY <1>1, <1>2, <1>3, <2>1, ReadAll DEF CellTaken
<1>5. /\ PutCell(cell) = Spelled(CellFields, q.got)
      /\ PutCell(cell) \in Seq(Byte)
      /\ Len(PutCell(cell)) = SizeOfCell(cell)
  BY <1>1, <1>4, SpellCell
<1> HIDE DEF cell, q
<1>6. s.rest = q.rest /\ s.got = Append(r.got, cell) /\ s = [rest |-> s.rest, got |-> s.got]
  OBVIOUS
<1> HIDE DEF s
<1>7. Unpack(r, s, cell, PutCell(cell))
  BY <1>4, <1>5, <1>6, Zenon DEF Unpack
<1> QED
  BY <1>1, <1>5, <1>7, Zenon

\* FrameSize counts the cells of a row right.
Counted(cells) == \A i \in 1 .. Len(cells) : Len(PutCell(cells[i])) = SizeOfCell(cells[i])

\* So are the cells of a row.
LEMMA CellsRead ==
  ASSUME NEW r, IsReader(r), r.got = <<>>, NEW n \in Nat, CellReadings(r, n)[n] # Bad
  PROVE  LET q == CellReadings(r, n)[n]
         IN  Unpacks(r, q, PutCells(q.got), n) /\ Counted(q.got)
<1> DEFINE reading == CellReadings(r, n)
           Has(q, i) == Unpacks(r, q, PutCells(q.got), i) /\ Counted(q.got)
           T == {i \in 0 .. n : reading[i] = Bad \/ Has(reading[i], i)}
<1>1. reading[0] = r /\ \A i \in 1 .. n : reading[i] = TakeCell(reading[i - 1])
  BY CellReadingsRecur
<1> HIDE DEF reading
<1>2. 0 \in T
  <2>1. PutCells(<<>>) = <<>> /\ Counted(<<>>)
    BY DEF PutCells, Counted
  <2>2. Has(r, 0)
    BY <2>1, UnpackNone
  <2> QED
    BY <1>1, <2>2
<1>3. ASSUME NEW i \in 0 .. n - 1, i \in T
      PROVE  i + 1 \in T
  <2> DEFINE q == reading[i]
             s == reading[i + 1]
  <2>1. i \in Nat /\ i + 1 \in 1 .. n /\ i + 1 \in 0 .. n /\ i + 1 - 1 = i
    OBVIOUS
  <2>2. s = TakeCell(q)
    BY <1>1, <2>1
  <2>3. CASE s = Bad
    BY <2>1, <2>3
  <2>4. CASE s # Bad
    <3>1. q # Bad
      BY <2>2, <2>4 DEF TakeCell, With
    <3>2. Has(q, i)
      BY <1>3, <3>1
    <3> HIDE DEF q, s
    <3>3. Unpacks(r, q, PutCells(q.got), i) /\ Counted(q.got) /\ IsReader(q)
      BY <3>2 DEF Unpacks
    <3>4. PICK cell : Unpack(q, s, cell, PutCell(cell)) /\ Len(PutCell(cell)) = SizeOfCell(cell)
      BY <2>2, <2>4, <3>3, TakeCellTakes
    <3>5. s.got = Append(q.got, cell) /\ IsSeq(q.got)
      BY <3>3, <3>4 DEF Unpack, IsReader
    <3>6. PutCells(s.got) = Append(PutCells(q.got), PutCell(cell))
      BY <3>5, PutCellsGrow
    <3>7. Unpacks(r, s, PutCells(s.got), i + 1)
      BY <2>1, <3>3, <3>4, <3>6, UnpackMore, UnpackNone
    <3>8. Counted(s.got)
      <4>1. /\ Len(q.got) \in Nat /\ Len(s.got) = Len(q.got) + 1 /\ s.got[Len(q.got) + 1] = cell
            /\ \A j \in 1 .. Len(q.got) : s.got[j] = q.got[j]
        BY <3>5, SeqGrows
      <4>2. \A j \in 1 .. Len(q.got) : Len(PutCell(q.got[j])) = SizeOfCell(q.got[j])
        BY <3>3 DEF Counted
      <4> SUFFICES ASSUME NEW j \in 1 .. Len(s.got)
                   PROVE  Len(PutCell(s.got[j])) = SizeOfCell(s.got[j])
        BY DEF Counted
      <4>3. j = Len(q.got) + 1 \/ j \in 1 .. Len(q.got)
        BY <4>1
      <4>4. CASE j = Len(q.got) + 1
        BY <3>4, <4>1, <4>4
      <4>5. CASE j \in 1 .. Len(q.got)
        BY <4>1, <4>2, <4>5
      <4> QED
        BY <4>3, <4>4, <4>5
    <3>9. Has(s, i + 1)
      BY <3>7, <3>8
    <3> QED
      BY <2>1, <3>9 DEF s
  <2> QED
    BY <2>3, <2>4
<1>4. n \in T
  <2>1. T \in SUBSET (0 .. n)
    OBVIOUS
  <2> HIDE DEF T
  <2>2. T = 0 .. n
    BY <1>2, <1>3, <2>1, RoundsInduct
  <2> QED
    BY <2>2
<1> QED
  BY <1>4 DEF reading

\* The byte of a row's flags, and what its cells take.
LEMMA RowBytes ==
  ASSUME NEW row, NEW n \in Nat, n = Len(row.cells), Counted(row.cells),
         PutCells(row.cells) \in Seq(Seq(Byte)), Flags(row.flags) \in Byte
  PROVE  /\ PutRow(row) = Join(<<Flags(row.flags)>>, FlattenSeq(PutCells(row.cells)))
         /\ PutRow(row) \in Seq(Byte)
         /\ Len(PutRow(row)) = SizeOfRow(row)
<1> DEFINE cells == row.cells
           size == CellSizes(cells)
           pieces == PutCells(cells)
           flag == <<Flags(row.flags)>>
           rest == FlattenSeq(pieces)
<1>1. Len(pieces) = n /\ \A i \in 1 .. n : Len(pieces[i]) = SizeOfCell(cells[i])
  BY DEF PutCells, Counted
<1>2. size[0] = 1 /\ \A i \in 1 .. n : size[i] = size[i - 1] + SizeOfCell(cells[i])
  BY CellSizesRecur DEF RowFixedBytes
<1>3. flag \in Seq(Byte) /\ Len(flag) = 1
  OBVIOUS
<1>4. PutRow(row) = Join(flag, rest)
  BY DEF PutRow, PutCells, Join
<1>5. SizeOfRow(row) = size[n]
  BY DEF SizeOfRow
<1>6. pieces \in Seq(Seq(Byte))
  OBVIOUS
<1> HIDE DEF cells, size, pieces, flag
<1>7. Counting(size, 1, pieces, n)
  BY <1>1, <1>2 DEF Counting
<1>8. size[n] = 1 + Len(rest) /\ rest \in Seq(Byte)
  <2>1. 1 \in Nat
    OBVIOUS
  <2> QED
    BY <1>1, <1>6, <1>7, <2>1, CountingJoins
<1> HIDE DEF rest
<1>9. Join(flag, rest) \in Seq(Byte) /\ Len(Join(flag, rest)) = Len(flag) + Len(rest)
  BY <1>3, <1>8, JoinBytes
<1> QED
  BY <1>3, <1>4, <1>5, <1>8, <1>9, Zenon DEF flag, rest, pieces, cells

\* A row that was decoded: as long as FrameSize counts it, and valid.
RowSound(row, cols) == Len(PutRow(row)) = SizeOfRow(row) /\ ValidRow(row, cols)

\* A row is unpacked from the bytes that it is encoded to.
LEMMA TakeRowTakes ==
  ASSUME NEW r, IsReader(r), NEW cols \in Nat, TakeRow(r, cols) # Bad
  PROVE  \E row : /\ Unpack(r, TakeRow(r, cols), row, PutRow(row))
                  /\ RowSound(row, cols)
<1> DEFINE front == Reader(r.rest)
           f == Take(front, 1)
           back == Reader(f.rest)
           q == CellReadings(back, cols)[cols]
           v == f.got[1][1]
           row == RowOf(v, q.got)
           s == [rest |-> q.rest, got |-> Append(r.got, row)]
<1>1. f # Bad /\ q # Bad /\ row # Bad /\ TakeRow(r, cols) = s
  BY DEF TakeRow, With
<1>2. r.rest \in Seq(Byte)
  BY DEF IsReader
<1>3. IsReader(front) /\ front.rest = r.rest /\ front.got = <<>>
  BY <1>2, ReaderType
<1>4. PICK g : Takes(front, f, 1, g)
  <2>1. IsField(1)
    BY DEF IsField
  <2> HIDE DEF front
  <2> QED
    BY <1>1, <1>3, <2>1, TakeTakes
<1>5. /\ IsReader(f) /\ f.got = Append(<<>>, g) /\ g \in Seq(Byte) /\ Len(g) = 1
      /\ r.rest = Join(g, f.rest) /\ f.rest \in Seq(Byte)
  <2>1. /\ IsReader(f) /\ f.got = Append(front.got, g) /\ g \in Seq(Byte)
        /\ 1 \in Nat \ {0} => Len(g) = 1
        /\ front.rest = Spelt(1, g) \o f.rest
    BY <1>4, Zenon DEF Takes
  <2>2. Spelt(1, g) = g
    BY DEF Spelt, Prefixed
  <2>3. f.rest \in Seq(Byte)
    BY <2>1 DEF IsReader
  <2>4. 1 \in Nat \ {0}
    OBVIOUS
  <2> HIDE DEF front, f
  <2> QED
    BY <1>3, <2>1, <2>2, <2>3, <2>4, Zenon DEF Join
<1>6. f.got[1] = g /\ v = g[1] /\ g = <<v>> /\ v \in Byte
  <2>1. g[1] \in Byte /\ g = <<g[1]>>
    BY <1>5, OneByte
  <2>2. f.got[1] = g
    BY <1>5
  <2> QED
    BY <2>1, <2>2
<1> HIDE DEF front, f
<1>7. IsReader(back) /\ back.rest = f.rest /\ back.got = <<>> /\ Len(back.got) = 0
  BY <1>5, ReaderType
<1> HIDE DEF back
<1>8. Unpacks(back, q, PutCells(q.got), cols) /\ Counted(q.got)
  BY <1>1, <1>7, CellsRead
<1> HIDE DEF q, v
<1>9. /\ IsReader(q) /\ Len(q.got) = cols /\ PutCells(q.got) \in Seq(Seq(Byte))
      /\ f.rest = Join(FlattenSeq(PutCells(q.got)), q.rest) /\ q.rest \in Seq(Byte)
  BY <1>7, <1>8 DEF Unpacks, IsReader
<1>10. /\ row = [flags |-> Bits(v, RowFlagBits), cells |-> q.got]
       /\ v < 2^RowFlagBits /\ ValidTopology(row)
  BY <1>1 DEF RowOf, With, Checked
<1>11. row.flags = Bits(v, RowFlagBits) /\ row.cells = q.got
  BY <1>10
<1> HIDE DEF row
<1>12. Flags(row.flags) = v
  <2>1. v \in Nat
    BY <1>6, BytesAreNats
  <2> QED
    BY <1>10, <1>11, <2>1, SpellBits
<1>13. /\ PutRow(row) = Join(<<Flags(row.flags)>>, FlattenSeq(PutCells(row.cells)))
       /\ PutRow(row) \in Seq(Byte) /\ Len(PutRow(row)) = SizeOfRow(row)
  BY <1>6, <1>8, <1>9, <1>11, <1>12, RowBytes
<1>14. ValidRow(row, cols)
  BY <1>9, <1>10, <1>11 DEF ValidRow
<1> DEFINE cells == FlattenSeq(PutCells(q.got))
<1>15. cells \in Seq(Byte)
  BY <1>9, FlattenAppend
<1>16. PutRow(row) = Join(g, cells)
  BY <1>6, <1>11, <1>12, <1>13, Zenon
<1> HIDE DEF cells
<1>17. r.rest = Join(PutRow(row), q.rest)
  <2>1. Join(g, Join(cells, q.rest)) = Join(Join(g, cells), q.rest)
    BY <1>5, <1>9, <1>15, JoinGroups
  <2> QED
    BY <1>5, <1>9, <1>16, <2>1, Zenon DEF cells
<1>18. s.rest = q.rest /\ s.got = Append(r.got, row) /\ s = [rest |-> s.rest, got |-> s.got]
  OBVIOUS
<1> HIDE DEF s
<1>19. Unpack(r, s, row, PutRow(row))
  BY <1>9, <1>13, <1>17, <1>18, Zenon DEF Unpack
<1> QED
  BY <1>1, <1>13, <1>14, <1>19, Zenon DEF RowSound

\* All of them were decoded.
RowsSound(rows, cols) == \A i \in 1 .. Len(rows) : RowSound(rows[i], cols)

\* So are the rows of a frame.
LEMMA RowsRead ==
  ASSUME NEW r, IsReader(r), r.got = <<>>, NEW cols \in Nat, NEW n \in Nat,
         RowReadings(r, cols, n)[n] # Bad
  PROVE  LET q == RowReadings(r, cols, n)[n]
         IN  Unpacks(r, q, RowPieces(q.got), n) /\ RowsSound(q.got, cols)
<1> DEFINE reading == RowReadings(r, cols, n)
           Has(q, i) == Unpacks(r, q, RowPieces(q.got), i) /\ RowsSound(q.got, cols)
           T == {i \in 0 .. n : reading[i] = Bad \/ Has(reading[i], i)}
<1>1. reading[0] = r /\ \A i \in 1 .. n : reading[i] = TakeRow(reading[i - 1], cols)
  BY RowReadingsRecur
<1> HIDE DEF reading
<1>2. 0 \in T
  <2>1. RowPieces(<<>>) = <<>> /\ RowsSound(<<>>, cols)
    BY DEF RowPieces, RowsSound
  <2>2. Has(r, 0)
    BY <2>1, UnpackNone
  <2> QED
    BY <1>1, <2>2
<1>3. ASSUME NEW i \in 0 .. n - 1, i \in T
      PROVE  i + 1 \in T
  <2> DEFINE q == reading[i]
             s == reading[i + 1]
  <2>1. i \in Nat /\ i + 1 \in 1 .. n /\ i + 1 \in 0 .. n /\ i + 1 - 1 = i
    OBVIOUS
  <2>2. s = TakeRow(q, cols)
    BY <1>1, <2>1
  <2>3. CASE s = Bad
    BY <2>1, <2>3
  <2>4. CASE s # Bad
    <3>1. q # Bad
      BY <2>2, <2>4 DEF TakeRow, With
    <3>2. Has(q, i)
      BY <1>3, <3>1
    <3> HIDE DEF q, s
    <3>3. Unpacks(r, q, RowPieces(q.got), i) /\ RowsSound(q.got, cols) /\ IsReader(q)
      BY <3>2 DEF Unpacks
    <3>4. PICK row : Unpack(q, s, row, PutRow(row)) /\ RowSound(row, cols)
      BY <2>2, <2>4, <3>3, TakeRowTakes
    <3>5. s.got = Append(q.got, row) /\ IsSeq(q.got)
      BY <3>3, <3>4 DEF Unpack, IsReader
    <3>6. RowPieces(s.got) = Append(RowPieces(q.got), PutRow(row))
      BY <3>5, RowPiecesGrow
    <3>7. Unpacks(r, s, RowPieces(s.got), i + 1)
      BY <2>1, <3>3, <3>4, <3>6, UnpackMore, UnpackNone
    <3>8. RowsSound(s.got, cols)
      <4>1. /\ Len(q.got) \in Nat /\ Len(s.got) = Len(q.got) + 1 /\ s.got[Len(q.got) + 1] = row
            /\ \A j \in 1 .. Len(q.got) : s.got[j] = q.got[j]
        BY <3>5, SeqGrows
      <4>2. \A j \in 1 .. Len(q.got) : RowSound(q.got[j], cols)
        BY <3>3 DEF RowsSound
      <4> SUFFICES ASSUME NEW j \in 1 .. Len(s.got)
                   PROVE  RowSound(s.got[j], cols)
        BY DEF RowsSound
      <4>3. j = Len(q.got) + 1 \/ j \in 1 .. Len(q.got)
        BY <4>1
      <4>4. CASE j = Len(q.got) + 1
        BY <3>4, <4>1, <4>4
      <4>5. CASE j \in 1 .. Len(q.got)
        BY <4>1, <4>2, <4>5
      <4> QED
        BY <4>3, <4>4, <4>5
    <3>9. Has(s, i + 1)
      BY <3>7, <3>8
    <3> QED
      BY <2>1, <3>9 DEF s
  <2> QED
    BY <2>3, <2>4
<1>4. n \in T
  <2>1. T \in SUBSET (0 .. n)
    OBVIOUS
  <2> HIDE DEF T
  <2>2. T = 0 .. n
    BY <1>2, <1>3, <2>1, RoundsInduct
  <2> QED
    BY <2>2
<1> QED
  BY <1>4 DEF reading

\* FrameSize counts the bytes of the rows.
LEMMA RowsCounted ==
  ASSUME NEW rows, NEW cols, NEW n \in Nat, n = Len(rows), NEW start \in Nat,
         RowPieces(rows) \in Seq(Seq(Byte)), RowsSound(rows, cols)
  PROVE  SizeOfRows(start, rows) = start + Len(FlattenSeq(RowPieces(rows)))
<1> DEFINE pieces == RowPieces(rows)
           size == RowSizes(start, rows)
<1>1. Len(pieces) = n /\ \A i \in 1 .. n : Len(pieces[i]) = SizeOfRow(rows[i])
  BY DEF RowPieces, RowsSound, RowSound
<1>2. size[0] = start /\ \A i \in 1 .. n : size[i] = size[i - 1] + SizeOfRow(rows[i])
  BY RowSizesRecur
<1>3. SizeOfRows(start, rows) = size[n]
  BY DEF SizeOfRows
<1>4. pieces \in Seq(Seq(Byte))
  OBVIOUS
<1> HIDE DEF pieces, size
<1>5. Counting(size, start, pieces, n)
  BY <1>1, <1>2 DEF Counting
<1>6. size[n] = start + Len(FlattenSeq(pieces))
  BY <1>1, <1>4, <1>5, CountingJoins
<1> QED
  BY <1>3, <1>6 DEF pieces

(***************************************************************************)
(* Rows are decoded (decode_canonical_rows) only from the bytes that       *)
(* encoding them yields, and FrameSize, with which a producer counts,      *)
(* counts just them.                                                       *)
(***************************************************************************)
THEOREM RowsSpelled ==
  ASSUME NEW r, r.rest \in Seq(Byte), NEW cols \in Nat, NEW n \in Nat, NEW start \in Nat,
         RowsOf(r, cols, n) # Bad
  PROVE  LET rows == RowsOf(r, cols, n)
         IN  /\ PutRows(rows) = r.rest
             /\ Len(rows) = n /\ IsSeq(rows) /\ RowsSound(rows, cols)
             /\ SizeOfRows(start, rows) = start + Len(r.rest)
<1> DEFINE front == Reader(r.rest)
           q == RowReadings(front, cols, n)[n]
           all == RowsOf(r, cols, n)
<1>1. q # Bad /\ q.rest = <<>> /\ all = q.got
  BY DEF RowsOf, With, Checked
<1>2. IsReader(front) /\ front.rest = r.rest /\ front.got = <<>> /\ Len(front.got) = 0
  BY ReaderType
<1> HIDE DEF front
<1>3. Unpacks(front, q, RowPieces(q.got), n) /\ RowsSound(q.got, cols)
  BY <1>1, <1>2, RowsRead
<1> HIDE DEF q, all
<1> DEFINE pieces == RowPieces(all)
<1>4. /\ IsSeq(all) /\ Len(all) = n /\ pieces \in Seq(Seq(Byte)) /\ Len(pieces) = n
      /\ r.rest = Join(FlattenSeq(pieces), <<>>) /\ RowsSound(all, cols)
  BY <1>1, <1>2, <1>3 DEF Unpacks, IsReader
<1>5. FlattenSeq(pieces) \in Seq(Byte)
  BY <1>4, FlattenAppend
<1>6. r.rest = FlattenSeq(pieces)
  BY <1>4, <1>5, ConcatEmptySeq DEF Join
<1>7. PutRows(all) = FlattenSeq(pieces)
  BY DEF PutRows, RowPieces
<1>8. SizeOfRows(start, all) = start + Len(FlattenSeq(pieces))
  <2>1. n = Len(all)
    BY <1>4
  <2> QED
    BY <1>4, <2>1, RowsCounted
<1> QED
  BY <1>4, <1>6, <1>7, <1>8, Zenon DEF all

-----------------------------------------------------------------------------
(***************************************************************************)
(* The head of a frame.                                                    *)
(***************************************************************************)
\* The flag of an optional value, and its fields where there is one.
Present(fields, value) ==
  Join(PutBool(value # <<>>), IF value = <<>> THEN <<>> ELSE Spelled(fields, value))

\* What was taken as an optional value of n fields.
OptionTaken(fields, value, n) == value = <<>> \/ Taken(fields, value, n)

\* The reader q has taken an optional value more than r.
TakesOption(r, q, fields, value, n) ==
  /\ IsReader(q)
  /\ q.got = Append(r.got, value)
  /\ OptionTaken(fields, value, n)
  /\ Present(fields, value) \in Seq(Byte)
  /\ r.rest = Join(Present(fields, value), q.rest)

\* A sequence of which the last element is replaced.
LEMMA AppendReplaced ==
  ASSUME NEW t, IsSeq(t), NEW g, NEW e
  PROVE  LET u == Append(t, g)
         IN  [u EXCEPT ![Len(u)] = e] = Append(t, e)
<1> DEFINE n == Len(t)
           u == Append(t, g)
           w == Append(t, e)
           v == [u EXCEPT ![n + 1] = e]
<1>1. PICK X : t \in Seq(X)
  BY DEF IsSeq
<1> DEFINE Y == X \union {g, e}
<1>2. /\ u \in Seq(Y) /\ w \in Seq(Y) /\ n \in Nat /\ Len(u) = n + 1 /\ Len(w) = n + 1
      /\ w[n + 1] = e /\ \A i \in 1 .. n : u[i] = t[i] /\ w[i] = t[i]
  BY <1>1
<1> HIDE DEF u, w, n, Y
<1>3. u \in [1 .. n + 1 -> Y] /\ w = [i \in 1 .. n + 1 |-> w[i]] /\ n + 1 \in 1 .. n + 1
  BY <1>2
<1>4. v = [i \in 1 .. n + 1 |-> IF i = n + 1 THEN e ELSE u[i]]
  BY ONLY <1>3
<1>5. \A i \in 1 .. n + 1 : w[i] = IF i = n + 1 THEN e ELSE u[i]
  BY <1>2
<1> HIDE DEF v
<1>6. v = w
  BY ONLY <1>3, <1>4, <1>5
<1> QED
  BY <1>2, <1>6, Zenon DEF v, w, u

\* An optional value lies behind its flag.
LEMMA OptionReads ==
  ASSUME NEW r, IsReader(r), NEW fields, NEW n \in Nat, AreFields(fields, n), n # 0,
         ReadOptional(r, fields) # Bad
  PROVE  \E value : TakesOption(r, ReadOptional(r, fields), fields, value, n)
<1> DEFINE f == Take(r, 1)
           q == ReadOptional(r, fields)
           front == Reader(f.rest)
           s == Read(front, fields)
<1>1. f # Bad
  BY DEF ReadOptional, With
<1>2. PICK g : Takes(r, f, 1, g)
  <2>1. IsField(1)
    BY DEF IsField
  <2> QED
    BY <1>1, <2>1, TakeTakes
<1>3. /\ IsReader(f) /\ f.got = Append(r.got, g) /\ g \in Seq(Byte)
      /\ f.rest \in Seq(Byte) /\ r.rest = Join(g, f.rest) /\ IsSeq(r.got)
  <2>1. /\ IsReader(f) /\ f.got = Append(r.got, g) /\ g \in Seq(Byte)
        /\ r.rest = Spelt(1, g) \o f.rest
    BY <1>2, Zenon DEF Takes
  <2>2. Spelt(1, g) = g
    BY DEF Spelt, Prefixed
  <2>3. f.rest \in Seq(Byte)
    BY <2>1 DEF IsReader
  <2>4. IsSeq(r.got)
    BY DEF IsReader
  <2> HIDE DEF f
  <2> QED
    BY <2>1, <2>2, <2>3, <2>4, Zenon DEF Join
<1>4. Last(f.got) = g
  <2>1. Len(f.got) = Len(r.got) + 1 /\ f.got[Len(r.got) + 1] = g
    BY <1>3, SeqGrows
  <2> QED
    BY <2>1 DEF Last
<1>5. q = CASE Bool(g) = Bad -> Bad
            [] Bool(g) = FALSE -> [f EXCEPT !.got[Len(f.got)] = <<>>]
            [] Bool(g) = TRUE -> With(s, LAMBDA value :
                                   [rest |-> value.rest, got |-> Append(r.got, value.got)])
  BY <1>1, <1>4 DEF ReadOptional, With
<1>6. Bool(g) # Bad /\ q # Bad
  <2>1. q # Bad
    OBVIOUS
  <2> HIDE DEF q, f, s
  <2> QED
    BY <1>5, <2>1, BadAssumption
<1>7. PutBool(Bool(g)) = g /\ Bool(g) \in BOOLEAN
  BY <1>6, SpellBool
<1>8. CASE Bool(g) = FALSE
  <2>1. q = [f EXCEPT !.got[Len(f.got)] = <<>>]
    BY <1>5, <1>6, <1>8
  <2> DEFINE more == [f.got EXCEPT ![Len(f.got)] = <<>>]
  <2>2. more = Append(r.got, <<>>)
    BY <1>3, AppendReplaced
  <2>3. f = [rest |-> f.rest, got |-> f.got]
    BY <1>3 DEF IsReader
  <2>4. q = [f EXCEPT !.got = more]
    BY <2>1
  <2> HIDE DEF more, q, f
  <2>5. q = [rest |-> f.rest, got |-> more]
    BY ONLY <2>3, <2>4
  <2>6. q.rest = f.rest /\ q.got = more /\ q = [rest |-> q.rest, got |-> q.got]
    BY ONLY <2>5
  <2>7. IsSeq(more)
    BY <1>3, <2>2, SeqGrows
  <2>8. IsReader(q)
    BY <1>3, <2>6, <2>7, Zenon DEF IsReader
  <2>9. Present(fields, <<>>) = g
    <3>1. Present(fields, <<>>) = Join(g, <<>>)
      BY <1>7, <1>8 DEF Present
    <3>2. g \o <<>> = g
      BY <1>3, ConcatEmptySeq
    <3> QED
      BY <3>1, <3>2 DEF Join
  <2>10. OptionTaken(fields, <<>>, n)
    BY DEF OptionTaken
  <2>11. TakesOption(r, q, fields, <<>>, n)
    BY <1>3, <2>2, <2>6, <2>8, <2>9, <2>10, Zenon DEF TakesOption
  <2> QED
    BY <2>11 DEF q
<1>9. CASE Bool(g) = TRUE
  <2>1. s # Bad /\ q = [rest |-> s.rest, got |-> Append(r.got, s.got)]
    BY <1>5, <1>6, <1>9 DEF With
  <2>2. /\ s.rest \in Seq(Byte) /\ Taken(fields, s.got, n)
        /\ f.rest = Join(Spelled(fields, s.got), s.rest)
    BY <1>3, <2>1, ReadAll
  <2> DEFINE value == s.got
             spelt == Spelled(fields, value)
  <2> HIDE DEF s, q, f
  <2>3. q.rest = s.rest /\ q.got = Append(r.got, value) /\ q = [rest |-> q.rest, got |-> q.got]
    BY <2>1
  <2>4. IsSeq(q.got)
    BY <1>3, <2>3, SeqGrows
  <2>5. IsReader(q)
    BY <2>2, <2>3, <2>4, Zenon DEF IsReader
  <2>6. value # <<>>
    <3>1. Len(value) = n
      BY <2>2 DEF Taken
    <3> HIDE DEF value
    <3> QED
      BY <3>1
  <2>7. spelt \in Seq(Byte)
    BY <2>2, FlattenAppend DEF Taken, Spelled
  <2>8. Present(fields, value) = Join(g, spelt)
    BY <1>7, <1>9, <2>6 DEF Present
  <2> HIDE DEF value, spelt
  <2>9. Present(fields, value) \in Seq(Byte)
    BY <1>3, <2>7, <2>8, JoinBytes
  <2>10. r.rest = Join(Present(fields, value), q.rest)
    <3>1. Join(g, Join(spelt, s.rest)) = Join(Join(g, spelt), s.rest)
      BY <1>3, <2>2, <2>7, JoinGroups
    <3> QED
      BY <1>3, <2>2, <2>3, <2>8, <3>1, Zenon DEF spelt, value
  <2>11. OptionTaken(fields, value, n)
    BY <2>2 DEF OptionTaken, value
  <2>12. TakesOption(r, q, fields, value, n)
    BY <2>3, <2>5, <2>9, <2>10, <2>11, Zenon DEF TakesOption
  <2> QED
    BY <2>12 DEF q
<1> QED
  BY <1>7, <1>8, <1>9

\* and so it is where there was an error before.
LEMMA OptionBad == \A fields : ReadOptional(Bad, fields) = Bad
BY DEF ReadOptional, With, Take

\* The fields behind the colour of a cursor: the palette and four of the cursor.
PaletteFields == [i \in 1 .. PaletteLen |-> 3] \o <<1, 1, 1, 1>>
PositionFields == <<2, 2, 1>>
ScrollFields == <<U64Bytes, U64Bytes>>

\* Their widths.
LEMMA PaletteFieldsAre ==
  /\ Len(PaletteFields) = PaletteLen + 4 /\ PaletteLen \in Nat
  /\ \A i \in 1 .. PaletteLen : PaletteFields[i] = 3
  /\ \A i \in PaletteLen + 1 .. PaletteLen + 4 : PaletteFields[i] = 1
  /\ AreFields(PaletteFields, PaletteLen + 4)
<1> DEFINE p == [i \in 1 .. PaletteLen |-> 3]
           t == <<1, 1, 1, 1>>
           f == PaletteFields
<1>1. PaletteLen \in Nat
  BY FrameAssumption
<1>2. p \in Seq(Nat) /\ Len(p) = PaletteLen /\ \A i \in 1 .. PaletteLen : p[i] = 3
  BY <1>1
<1>3. t \in Seq(Nat) /\ Len(t) = 4 /\ \A i \in 1 .. 4 : t[i] = 1
  OBVIOUS
<1> HIDE DEF p, t
<1>4. /\ Len(p \o t) = Len(p) + Len(t)
      /\ \A i \in 1 .. Len(p) + Len(t) :
           (p \o t)[i] = IF i <= Len(p) THEN p[i] ELSE t[i - Len(p)]
  BY <1>2, <1>3, ConcatProperties
<1>5. f = p \o t
  BY DEF PaletteFields, p, t
<1> HIDE DEF f
<1>6. Len(f) = PaletteLen + 4
  BY <1>2, <1>3, <1>4, <1>5
<1>7. \A i \in 1 .. PaletteLen : f[i] = 3
  BY <1>1, <1>2, <1>3, <1>4, <1>5
<1>8. \A i \in PaletteLen + 1 .. PaletteLen + 4 : f[i] = 1
  <2> SUFFICES ASSUME NEW i \in PaletteLen + 1 .. PaletteLen + 4
               PROVE  f[i] = 1
    OBVIOUS
  <2>1. i \in 1 .. Len(p) + Len(t) /\ ~(i <= Len(p)) /\ i - Len(p) \in 1 .. 4
    BY <1>1, <1>2, <1>3
  <2> QED
    BY <1>3, <1>4, <1>5, <2>1
<1>9. \A i \in 1 .. PaletteLen + 4 : IsField(f[i])
  <2> SUFFICES ASSUME NEW i \in 1 .. PaletteLen + 4
               PROVE  IsField(f[i])
    OBVIOUS
  <2>1. i \in 1 .. PaletteLen \/ i \in PaletteLen + 1 .. PaletteLen + 4
    BY <1>1
  <2>2. f[i] = 3 \/ f[i] = 1
    BY <1>7, <1>8, <2>1
  <2> QED
    BY <2>2 DEF IsField
<1>10. AreFields(f, PaletteLen + 4)
  BY <1>6, <1>9 DEF AreFields
<1> QED
  BY <1>1, <1>6, <1>7, <1>8, <1>10 DEF f

\* and those of the other parts.
LEMMA HeadFieldsAre ==
  /\ AreFields(HeadFields, 12) /\ AreFields(<<3>>, 1) /\ AreFields(PositionFields, 3)
  /\ AreFields(ScrollFields, 2)
BY WireAssumption DEF AreFields, IsField, HeadFields, PositionFields, ScrollFields, Prefixed

\* The fields gs were taken, and lie in order behind k others.
Placed(got, k, gs, n) == \A i \in 1 .. n : got[k + i] = gs[i]

\* A reader takes fields and leaves those it has in place.
LEMMA ReadPlaces ==
  ASSUME NEW r, IsReader(r), NEW k \in Nat, Len(r.got) = k, NEW fields, NEW n \in Nat,
         AreFields(fields, n), Read(r, fields) # Bad
  PROVE  \E gs : LET q == Read(r, fields)
                 IN  /\ IsReader(q) /\ Len(q.got) = k + n
                     /\ Taken(fields, gs, n) /\ Placed(q.got, k, gs, n)
                     /\ Placed(q.got, 0, r.got, k)
                     /\ r.rest = Join(Spelled(fields, gs), q.rest)
<1> DEFINE q == Read(r, fields)
<1>1. PICK gs : HasRead(r, q, fields, gs, n)
  BY ReadReads DEF AreFields
<1> HIDE DEF q
<1>2. /\ IsReader(q) /\ Len(q.got) = k + n
      /\ \A i \in 1 .. k : q.got[i] = r.got[i]
      /\ Placed(q.got, k, gs, n) /\ Taken(fields, gs, n)
      /\ r.rest = Join(Spelled(fields, gs), q.rest)
  BY <1>1, Zenon DEF HasRead, Placed, Taken
<1>3. Placed(q.got, 0, r.got, k)
  <2>1. \A i \in 1 .. k : 0 + i = i
    OBVIOUS
  <2> QED
    BY <1>2, <2>1 DEF Placed
<1> QED
  BY <1>2, <1>3 DEF q

\* The same for an optional value.
LEMMA OptionPlaces ==
  ASSUME NEW r, IsReader(r), NEW k \in Nat, Len(r.got) = k, NEW fields, NEW n \in Nat,
         AreFields(fields, n), n # 0, ReadOptional(r, fields) # Bad
  PROVE  \E value : LET q == ReadOptional(r, fields)
                    IN  /\ IsReader(q) /\ Len(q.got) = k + 1
                        /\ OptionTaken(fields, value, n) /\ q.got[k + 1] = value
                        /\ Placed(q.got, 0, r.got, k)
                        /\ r.rest = Join(Present(fields, value), q.rest)
                        /\ Present(fields, value) \in Seq(Byte)
<1> DEFINE q == ReadOptional(r, fields)
<1>1. PICK value : TakesOption(r, q, fields, value, n)
  BY OptionReads
<1> HIDE DEF q
<1>2. /\ IsReader(q) /\ q.got = Append(r.got, value) /\ OptionTaken(fields, value, n)
      /\ r.rest = Join(Present(fields, value), q.rest) /\ Present(fields, value) \in Seq(Byte)
  BY <1>1, Zenon DEF TakesOption
<1>3. /\ Len(q.got) = k + 1 /\ q.got[k + 1] = value /\ \A i \in 1 .. k : q.got[i] = r.got[i]
  BY <1>2, SeqGrows DEF IsReader
<1>4. Placed(q.got, 0, r.got, k)
  <2>1. \A i \in 1 .. k : 0 + i = i
    OBVIOUS
  <2> QED
    BY <1>3, <2>1 DEF Placed
<1> QED
  BY <1>2, <1>3, <1>4 DEF q

\* Fields in place stay there where all are kept.
LEMMA StaysPlaced ==
  ASSUME NEW got, NEW more, NEW m \in Nat, Placed(more, 0, got, m), NEW k \in Nat, NEW n \in Nat,
         k + n <= m, NEW gs, Placed(got, k, gs, n)
  PROVE  Placed(more, k, gs, n)
<1>1. \A i \in 1 .. m : more[i] = got[i]
  BY DEF Placed
<1>2. \A i \in 1 .. n : k + i \in 1 .. m /\ got[k + i] = gs[i]
  BY DEF Placed
<1> QED
  BY <1>1, <1>2 DEF Placed

\* What the head of a frame is, and where its fields lie.
HeadIs(bytes, head, g, colour, p, position, s) ==
  /\ IsReader(head) /\ Len(head.got) = PaletteLen + 20
  /\ Taken(HeadFields, g, 12) /\ Placed(head.got, 0, g, 12)
  /\ OptionTaken(<<3>>, colour, 1) /\ head.got[13] = colour
  /\ Taken(PaletteFields, p, PaletteLen + 4) /\ Placed(head.got, 13, p, PaletteLen + 4)
  /\ OptionTaken(PositionFields, position, 3) /\ head.got[13 + PaletteLen + 5] = position
  /\ Taken(ScrollFields, s, 2) /\ Placed(head.got, 13 + PaletteLen + 5, s, 2)
  /\ Present(<<3>>, colour) \in Seq(Byte) /\ Present(PositionFields, position) \in Seq(Byte)
  /\ bytes = Join(Spelled(HeadFields, g),
               Join(Present(<<3>>, colour),
                 Join(Spelled(PaletteFields, p),
                   Join(Present(PositionFields, position),
                     Join(Spelled(ScrollFields, s), head.rest)))))

\* An element by itself.
LEMMA OnePlace ==
  ASSUME NEW got, NEW more, NEW m \in Nat, Placed(more, 0, got, m), NEW k \in 1 .. m
  PROVE  more[k] = got[k]
<1>1. 0 + k = k
  OBVIOUS
<1> QED
  BY <1>1 DEF Placed

\* The head of a frame is read so.
LEMMA HeadReads ==
  ASSUME NEW bytes \in Seq(Byte), ReadHead(bytes) # Bad
  PROVE  \E g, colour, p, position, s : HeadIs(bytes, ReadHead(bytes), g, colour, p, position, s)
<1> DEFINE r0 == Reader(bytes)
           r1 == Read(r0, HeadFields)
           r2 == ReadOptional(r1, <<3>>)
           r3 == Read(r2, PaletteFields)
           r4 == ReadOptional(r3, PositionFields)
           r5 == Read(r4, ScrollFields)
           n == PaletteLen
<1>0. n \in Nat /\ ReadHead(bytes) = r5
  BY PaletteFieldsAre DEF ReadHead, PaletteFields, PositionFields, ScrollFields
<1>1. r5 # Bad /\ r4 # Bad /\ r3 # Bad /\ r2 # Bad /\ r1 # Bad
  <2>1. /\ 2 \in Nat /\ 2 = Len(ScrollFields) /\ n + 4 \in Nat /\ n + 4 = Len(PaletteFields)
    BY <1>0, HeadFieldsAre, PaletteFieldsAre DEF AreFields
  <2>2. r4 = Bad => r5 = Bad
    BY <2>1, ReadBad
  <2>3. r3 = Bad => r4 = Bad
    BY OptionBad
  <2>4. r2 = Bad => r3 = Bad
    BY <2>1, ReadBad
  <2>5. r1 = Bad => r2 = Bad
    BY OptionBad
  <2> HIDE DEF r0, r1, r2, r3, r4, r5
  <2> QED
    BY <1>0, <2>2, <2>3, <2>4, <2>5
<1>2. IsReader(r0) /\ r0.rest = bytes /\ Len(r0.got) = 0
  BY ReaderType
<1> HIDE DEF r0, n
<1>3. PICK g : /\ IsReader(r1) /\ Len(r1.got) = 12
               /\ Taken(HeadFields, g, 12) /\ Placed(r1.got, 0, g, 12)
               /\ bytes = Join(Spelled(HeadFields, g), r1.rest)
  <2>1. 0 \in Nat /\ 12 \in Nat /\ 0 + 12 = 12
    OBVIOUS
  <2>2. AreFields(HeadFields, 12) /\ r1 # Bad
    BY <1>1, HeadFieldsAre
  <2> DEFINE z == 0
  <2>3. z \in Nat /\ 12 \in Nat /\ Len(r0.got) = z /\ z + 12 = 12
    BY <1>2
  <2> HIDE DEF z
  <2>4. PICK g : /\ IsReader(r1) /\ Len(r1.got) = z + 12
                 /\ Taken(HeadFields, g, 12) /\ Placed(r1.got, z, g, 12)
                 /\ r0.rest = Join(Spelled(HeadFields, g), r1.rest)
    BY <1>2, <2>2, <2>3, ReadPlaces
  <2> HIDE DEF r1
  <2> QED
    BY <1>2, <2>3, <2>4 DEF z
<1> HIDE DEF r1
<1>4. PICK colour : /\ IsReader(r2) /\ Len(r2.got) = 13
                    /\ OptionTaken(<<3>>, colour, 1) /\ r2.got[13] = colour
                    /\ Placed(r2.got, 0, r1.got, 12)
                    /\ r1.rest = Join(Present(<<3>>, colour), r2.rest)
                    /\ Present(<<3>>, colour) \in Seq(Byte)
  <2>1. 1 \in Nat /\ 12 \in Nat /\ 12 + 1 = 13 /\ 1 # 0
    OBVIOUS
  <2>2. AreFields(<<3>>, 1) /\ r2 # Bad
    BY <1>1, HeadFieldsAre
  <2>3. PICK colour : /\ IsReader(r2) /\ Len(r2.got) = 12 + 1
                      /\ OptionTaken(<<3>>, colour, 1) /\ r2.got[12 + 1] = colour
                      /\ Placed(r2.got, 0, r1.got, 12)
                      /\ r1.rest = Join(Present(<<3>>, colour), r2.rest)
                      /\ Present(<<3>>, colour) \in Seq(Byte)
    BY <1>3, <2>1, <2>2, OptionPlaces
  <2> HIDE DEF r2
  <2> QED
    BY <2>1, <2>3
<1> HIDE DEF r2
<1>5. PICK p : /\ IsReader(r3) /\ Len(r3.got) = 13 + (n + 4)
               /\ Taken(PaletteFields, p, n + 4) /\ Placed(r3.got, 13, p, n + 4)
               /\ Placed(r3.got, 0, r2.got, 13)
               /\ r2.rest = Join(Spelled(PaletteFields, p), r3.rest)
  <2>1. 13 \in Nat /\ n + 4 \in Nat
    BY <1>0
  <2>2. AreFields(PaletteFields, n + 4)
    BY PaletteFieldsAre DEF n
  <2> QED
    BY <1>1, <1>4, <2>1, <2>2, ReadPlaces
<1> HIDE DEF r3
<1> DEFINE k == 13 + (n + 4)
<1>6. k \in Nat /\ k + 1 \in Nat /\ k + 1 = 13 + n + 5
  BY <1>0
<1>7. PICK position : /\ IsReader(r4) /\ Len(r4.got) = k + 1
                      /\ OptionTaken(PositionFields, position, 3) /\ r4.got[k + 1] = position
                      /\ Placed(r4.got, 0, r3.got, k)
                      /\ r3.rest = Join(Present(PositionFields, position), r4.rest)
                      /\ Present(PositionFields, position) \in Seq(Byte)
  <2>1. 3 \in Nat /\ 3 # 0
    OBVIOUS
  <2> HIDE DEF k
  <2>2. Len(r3.got) = k
    BY <1>5 DEF k
  <2> QED
    BY <1>1, <1>5, <1>6, <2>1, <2>2, HeadFieldsAre, OptionPlaces
<1> HIDE DEF r4
<1>8. PICK s : /\ IsReader(r5) /\ Len(r5.got) = k + 1 + 2
               /\ Taken(ScrollFields, s, 2) /\ Placed(r5.got, k + 1, s, 2)
               /\ Placed(r5.got, 0, r4.got, k + 1)
               /\ r4.rest = Join(Spelled(ScrollFields, s), r5.rest)
  <2>1. 2 \in Nat
    OBVIOUS
  <2> HIDE DEF k
  <2> QED
    BY <1>1, <1>6, <1>7, <2>1, HeadFieldsAre, ReadPlaces
<1> HIDE DEF r5
<1>9. Placed(r3.got, 0, g, 12) /\ r3.got[13] = colour
  <2>1. 0 \in Nat /\ 12 \in Nat /\ 0 + 12 <= 12 /\ 13 \in Nat /\ 0 + 12 <= 13 /\ 13 \in 1 .. 13
    OBVIOUS
  <2>2. Placed(r2.got, 0, g, 12)
    BY <1>3, <1>4, <2>1, StaysPlaced
  <2> QED
    BY <1>4, <1>5, <2>1, <2>2, StaysPlaced, OnePlace
<1>10. Placed(r4.got, 0, g, 12) /\ r4.got[13] = colour /\ Placed(r4.got, 13, p, n + 4)
  <2>1. /\ 0 \in Nat /\ 12 \in Nat /\ 0 + 12 <= k /\ 13 \in 1 .. k
        /\ 13 \in Nat /\ n + 4 \in Nat /\ 13 + (n + 4) <= k
    BY <1>0
  <2> HIDE DEF k
  <2> QED
    BY <1>5, <1>6, <1>7, <1>9, <2>1, StaysPlaced, OnePlace
<1>11. /\ Placed(r5.got, 0, g, 12) /\ r5.got[13] = colour /\ Placed(r5.got, 13, p, n + 4)
       /\ r5.got[k + 1] = position
  <2>1. /\ 0 \in Nat /\ 12 \in Nat /\ 0 + 12 <= k + 1 /\ 13 \in 1 .. k + 1
        /\ 13 \in Nat /\ n + 4 \in Nat /\ 13 + (n + 4) <= k + 1 /\ k + 1 \in 1 .. k + 1
    BY <1>0
  <2> HIDE DEF k
  <2> QED
    BY <1>6, <1>7, <1>8, <1>10, <2>1, StaysPlaced, OnePlace
<1>12. bytes = Join(Spelled(HeadFields, g),
                 Join(Present(<<3>>, colour),
                   Join(Spelled(PaletteFields, p),
                     Join(Present(PositionFields, position),
                       Join(Spelled(ScrollFields, s), r5.rest)))))
  BY <1>3, <1>4, <1>5, <1>7, <1>8, Zenon
<1>13. Len(r5.got) = PaletteLen + 20
  <2>1. k + 1 + 2 = n + 20
    BY <1>0
  <2> QED
    BY <1>8, <2>1 DEF n
<1>14. HeadIs(bytes, r5, g, colour, p, position, s)
  <2> HIDE DEF k
  <2> QED
    BY <1>3, <1>4, <1>5, <1>6, <1>7, <1>8, <1>11, <1>12, <1>13, Zenon DEF HeadIs, n
<1> QED
  BY <1>0, <1>14, Zenon

\* The widths of the first fields of a frame.
LEMMA HeadWidths ==
  /\ HeadFields[1] = 4 /\ HeadFields[2] = 2 /\ HeadFields[3] = U64Bytes /\ HeadFields[4] = 2
  /\ HeadFields[5] = 2 /\ HeadFields[6] = 1 /\ HeadFields[7] = 0 /\ HeadFields[8] = 0
  /\ HeadFields[9] = 1 /\ HeadFields[10] = 1 /\ HeadFields[11] = 3 /\ HeadFields[12] = 3
  /\ U64Bytes \in Nat \ {0, 1}
BY WireAssumption DEF HeadFields, Prefixed

\* The first fields of a frame have these widths.
LEMMA HeadTakenType ==
  ASSUME NEW g, Taken(HeadFields, g, 12)
  PROVE  /\ \A i \in 1 .. 12 : g[i] \in Seq(Byte)
         /\ Len(g[1]) = 4 /\ Len(g[2]) = 2 /\ Len(g[3]) = U64Bytes /\ Len(g[4]) = 2
         /\ Len(g[5]) = 2 /\ Len(g[6]) = 1 /\ Len(g[9]) = 1 /\ Len(g[10]) = 1
         /\ Len(g[11]) = 3 /\ Len(g[12]) = 3
<1>1. g \in Seq(Seq(Byte)) /\ Len(g) = 12
  BY DEF Taken
<1>2. \A i \in 1 .. 12 : g[i] \in Seq(Byte)
  BY <1>1, FieldBytes
<1>3. \A i \in 1 .. 12 : HeadFields[i] \in Nat \ {0} => Len(g[i]) = HeadFields[i]
  BY DEF Taken
<1>4. \A i \in 1 .. 12 : i # 7 /\ i # 8 => HeadFields[i] \in Nat \ {0}
  BY HeadWidths
<1>5. \A i \in 1 .. 12 : i # 7 /\ i # 8 => Len(g[i]) = HeadFields[i]
  BY ONLY <1>3, <1>4
<1>6. /\ Len(g[1]) = HeadFields[1] /\ Len(g[2]) = HeadFields[2] /\ Len(g[3]) = HeadFields[3]
      /\ Len(g[4]) = HeadFields[4] /\ Len(g[5]) = HeadFields[5] /\ Len(g[6]) = HeadFields[6]
      /\ Len(g[9]) = HeadFields[9] /\ Len(g[10]) = HeadFields[10]
      /\ Len(g[11]) = HeadFields[11] /\ Len(g[12]) = HeadFields[12]
  BY ONLY <1>5
<1> QED
  BY ONLY <1>2, <1>6, HeadWidths, Zenon

\* The first fields of a frame, joined one by one.
HeadJoined(g) ==
  LET a == Join(Join(Join(Join(Join(g[1], g[2]), g[3]), g[4]), g[5]), g[6])
      b == Join(Join(a, PutBytes(g[7])), PutBytes(g[8]))
  IN  Join(Join(Join(Join(b, g[9]), g[10]), g[11]), g[12])

\* They are spelt so, in as many bytes as FrameSize counts.
LEMMA HeadSpelled ==
  ASSUME NEW g, Taken(HeadFields, g, 12)
  PROVE  /\ Spelled(HeadFields, g) = HeadJoined(g)
         /\ HeadJoined(g) \in Seq(Byte)
         /\ Len(HeadJoined(g)) = 19 + U64Bytes + (U32Bytes + Len(g[7])) + (U32Bytes + Len(g[8]))
<1>1. PICK h : /\ h[1] = Spelt(HeadFields[1], g[1])
               /\ \A i \in 2 .. 12 : h[i] = Join(h[i - 1], Spelt(HeadFields[i], g[i]))
               /\ h[12] = Spelled(HeadFields, g)
               /\ \A i \in 1 .. 12 : h[i] \in Seq(Byte) /\ Spelt(HeadFields[i], g[i]) \in Seq(Byte)
               /\ \A i \in 2 .. 12 : Len(h[i]) = LenSum(h[i - 1], Spelt(HeadFields[i], g[i]))
  <2>1. 12 \in Nat /\ 12 # 0
    OBVIOUS
  <2>2. PICK h : FieldsJoin(h, HeadFields, g, 12)
    BY <2>1, FieldsJoined
  <2> QED
    BY ONLY <2>2 DEF FieldsJoin
<1>2. /\ \A i \in 1 .. 12 : g[i] \in Seq(Byte)
      /\ Len(g[1]) = 4 /\ Len(g[2]) = 2 /\ Len(g[3]) = U64Bytes /\ Len(g[4]) = 2
      /\ Len(g[5]) = 2 /\ Len(g[6]) = 1 /\ Len(g[9]) = 1 /\ Len(g[10]) = 1
      /\ Len(g[11]) = 3 /\ Len(g[12]) = 3
  BY HeadTakenType
<1>3. /\ Spelt(HeadFields[1], g[1]) = g[1]
      /\ Spelt(HeadFields[2], g[2]) = g[2]
      /\ Spelt(HeadFields[3], g[3]) = g[3]
      /\ Spelt(HeadFields[4], g[4]) = g[4]
      /\ Spelt(HeadFields[5], g[5]) = g[5]
      /\ Spelt(HeadFields[6], g[6]) = g[6]
      /\ Spelt(HeadFields[7], g[7]) = PutBytes(g[7])
      /\ Spelt(HeadFields[8], g[8]) = PutBytes(g[8])
      /\ Spelt(HeadFields[9], g[9]) = g[9]
      /\ Spelt(HeadFields[10], g[10]) = g[10]
      /\ Spelt(HeadFields[11], g[11]) = g[11]
      /\ Spelt(HeadFields[12], g[12]) = g[12]
  BY ONLY HeadWidths DEF Spelt, Prefixed
<1>4. /\ \A i \in 2 .. 12 : h[i] = Join(h[i - 1], Spelt(HeadFields[i], g[i]))
      /\ \A i \in 2 .. 12 : Len(h[i]) = LenSum(h[i - 1], Spelt(HeadFields[i], g[i]))
  BY ONLY <1>1
<1>s1. h[1] = g[1]
  BY ONLY <1>1, <1>3, Zenon
<1>s2. h[2] = Join(h[1], g[2]) /\ Len(h[2]) = Len(h[1]) + Len(g[2])
  <2>1. /\ h[2] = Join(h[1], Spelt(HeadFields[2], g[2]))
        /\ Len(h[2]) = LenSum(h[1], Spelt(HeadFields[2], g[2]))
    BY ONLY <1>4
  <2> QED
    BY ONLY <1>3, <2>1, Zenon DEF LenSum
<1>s3. h[3] = Join(h[2], g[3]) /\ Len(h[3]) = Len(h[2]) + Len(g[3])
  <2>1. /\ h[3] = Join(h[2], Spelt(HeadFields[3], g[3]))
        /\ Len(h[3]) = LenSum(h[2], Spelt(HeadFields[3], g[3]))
    BY ONLY <1>4
  <2> QED
    BY ONLY <1>3, <2>1, Zenon DEF LenSum
<1>s4. h[4] = Join(h[3], g[4]) /\ Len(h[4]) = Len(h[3]) + Len(g[4])
  <2>1. /\ h[4] = Join(h[3], Spelt(HeadFields[4], g[4]))
        /\ Len(h[4]) = LenSum(h[3], Spelt(HeadFields[4], g[4]))
    BY ONLY <1>4
  <2> QED
    BY ONLY <1>3, <2>1, Zenon DEF LenSum
<1>s5. h[5] = Join(h[4], g[5]) /\ Len(h[5]) = Len(h[4]) + Len(g[5])
  <2>1. /\ h[5] = Join(h[4], Spelt(HeadFields[5], g[5]))
        /\ Len(h[5]) = LenSum(h[4], Spelt(HeadFields[5], g[5]))
    BY ONLY <1>4
  <2> QED
    BY ONLY <1>3, <2>1, Zenon DEF LenSum
<1>s6. h[6] = Join(h[5], g[6]) /\ Len(h[6]) = Len(h[5]) + Len(g[6])
  <2>1. /\ h[6] = Join(h[5], Spelt(HeadFields[6], g[6]))
        /\ Len(h[6]) = LenSum(h[5], Spelt(HeadFields[6], g[6]))
    BY ONLY <1>4
  <2> QED
    BY ONLY <1>3, <2>1, Zenon DEF LenSum
<1>s7. h[7] = Join(h[6], PutBytes(g[7])) /\ Len(h[7]) = Len(h[6]) + Len(PutBytes(g[7]))
  <2>1. /\ h[7] = Join(h[6], Spelt(HeadFields[7], g[7]))
        /\ Len(h[7]) = LenSum(h[6], Spelt(HeadFields[7], g[7]))
    BY ONLY <1>4
  <2> QED
    BY ONLY <1>3, <2>1, Zenon DEF LenSum
<1>s8. h[8] = Join(h[7], PutBytes(g[8])) /\ Len(h[8]) = Len(h[7]) + Len(PutBytes(g[8]))
  <2>1. /\ h[8] = Join(h[7], Spelt(HeadFields[8], g[8]))
        /\ Len(h[8]) = LenSum(h[7], Spelt(HeadFields[8], g[8]))
    BY ONLY <1>4
  <2> QED
    BY ONLY <1>3, <2>1, Zenon DEF LenSum
<1>s9. h[9] = Join(h[8], g[9]) /\ Len(h[9]) = Len(h[8]) + Len(g[9])
  <2>1. /\ h[9] = Join(h[8], Spelt(HeadFields[9], g[9]))
        /\ Len(h[9]) = LenSum(h[8], Spelt(HeadFields[9], g[9]))
    BY ONLY <1>4
  <2> QED
    BY ONLY <1>3, <2>1, Zenon DEF LenSum
<1>s10. h[10] = Join(h[9], g[10]) /\ Len(h[10]) = Len(h[9]) + Len(g[10])
  <2>1. /\ h[10] = Join(h[9], Spelt(HeadFields[10], g[10]))
        /\ Len(h[10]) = LenSum(h[9], Spelt(HeadFields[10], g[10]))
    BY ONLY <1>4
  <2> QED
    BY ONLY <1>3, <2>1, Zenon DEF LenSum
<1>s11. h[11] = Join(h[10], g[11]) /\ Len(h[11]) = Len(h[10]) + Len(g[11])
  <2>1. /\ h[11] = Join(h[10], Spelt(HeadFields[11], g[11]))
        /\ Len(h[11]) = LenSum(h[10], Spelt(HeadFields[11], g[11]))
    BY ONLY <1>4
  <2> QED
    BY ONLY <1>3, <2>1, Zenon DEF LenSum
<1>s12. h[12] = Join(h[11], g[12]) /\ Len(h[12]) = Len(h[11]) + Len(g[12])
  <2>1. /\ h[12] = Join(h[11], Spelt(HeadFields[12], g[12]))
        /\ Len(h[12]) = LenSum(h[11], Spelt(HeadFields[12], g[12]))
    BY ONLY <1>4
  <2> QED
    BY ONLY <1>3, <2>1, Zenon DEF LenSum
<1>6. h[6] = Join(Join(Join(Join(Join(g[1], g[2]), g[3]), g[4]), g[5]), g[6])
  <2>1. h[3] = Join(Join(g[1], g[2]), g[3])
    BY ONLY <1>s1, <1>s2, <1>s3, Zenon
  <2>2. h[5] = Join(Join(h[3], g[4]), g[5])
    BY ONLY <1>s4, <1>s5, Zenon
  <2> QED
    BY ONLY <1>s6, <2>1, <2>2, Zenon
<1>7. h[8] = Join(Join(h[6], PutBytes(g[7])), PutBytes(g[8]))
  BY ONLY <1>s7, <1>s8, Zenon
<1>8. h[12] = Join(Join(Join(Join(h[8], g[9]), g[10]), g[11]), g[12])
  <2>1. h[10] = Join(Join(h[8], g[9]), g[10])
    BY ONLY <1>s9, <1>s10, Zenon
  <2> QED
    BY ONLY <1>s11, <1>s12, <2>1, Zenon
<1>9. h[12] = HeadJoined(g)
  BY ONLY <1>6, <1>7, <1>8, Zenon DEF HeadJoined
<1>10. \A i \in 1 .. 12 : h[i] \in Seq(Byte)
  BY ONLY <1>1
<1>11. /\ PutBytes(g[7]) \in Seq(Byte) /\ Len(PutBytes(g[7])) = U32Bytes + Len(g[7])
       /\ PutBytes(g[8]) \in Seq(Byte) /\ Len(PutBytes(g[8])) = U32Bytes + Len(g[8])
       /\ Len(g[7]) \in Nat /\ Len(g[8]) \in Nat /\ U32Bytes \in Nat /\ U64Bytes \in Nat
  <2>1. g[7] \in Seq(Byte) /\ g[8] \in Seq(Byte)
    BY ONLY <1>2
  <2>2. /\ PutBytes(g[7]) \in Seq(Byte) /\ Len(PutBytes(g[7])) = U32Bytes + Len(g[7])
        /\ PutBytes(g[8]) \in Seq(Byte) /\ Len(PutBytes(g[8])) = U32Bytes + Len(g[8])
    BY ONLY <2>1, TextBytes, Zenon
  <2>3. U32Bytes \in Nat /\ U64Bytes \in Nat
    BY WireAssumption
  <2>4. Len(g[7]) \in Nat /\ Len(g[8]) \in Nat
    BY ONLY <2>1
  <2> QED
    BY ONLY <2>2, <2>3, <2>4, Zenon
<1>12. Len(h[6]) = 11 + U64Bytes
  BY ONLY <1>2, <1>11, <1>s1, <1>s2, <1>s3, <1>s4, <1>s5, <1>s6
<1>13. Len(h[8]) = Len(h[6]) + (U32Bytes + Len(g[7])) + (U32Bytes + Len(g[8]))
  BY ONLY <1>11, <1>12, <1>s7, <1>s8
<1>14. Len(h[12]) = Len(h[8]) + 8
  BY ONLY <1>2, <1>11, <1>12, <1>13, <1>s9, <1>s10, <1>s11, <1>s12
<1>15. Len(h[12]) = 19 + U64Bytes + (U32Bytes + Len(g[7])) + (U32Bytes + Len(g[8]))
  <2> DEFINE x == Len(g[7])
             y == Len(g[8])
  <2>1. x \in Nat /\ y \in Nat /\ U32Bytes \in Nat /\ U64Bytes \in Nat
    BY ONLY <1>11
  <2>2. Len(h[12]) = 11 + U64Bytes + (U32Bytes + x) + (U32Bytes + y) + 8
    BY ONLY <1>12, <1>13, <1>14, Zenon
  <2> HIDE DEF x, y
  <2>3. 11 + U64Bytes + (U32Bytes + x) + (U32Bytes + y) + 8
          = 19 + U64Bytes + (U32Bytes + x) + (U32Bytes + y)
    BY ONLY <2>1
  <2> QED
    BY ONLY <2>2, <2>3, Zenon DEF x, y
<1>16. h[12] \in Seq(Byte)
  BY ONLY <1>10
<1> QED
  BY ONLY <1>1, <1>9, <1>15, <1>16, Zenon

\* The palette and the four bytes of the cursor behind it.
LEMMA PaletteSpelled ==
  ASSUME NEW p, Taken(PaletteFields, p, PaletteLen + 4),
         NEW palette \in Seq(Seq(Byte)), Len(palette) = PaletteLen, Agree(p, palette, PaletteLen)
  PROVE  /\ Spelled(PaletteFields, p)
              = Join(Join(Join(Join(FlattenSeq(palette), p[PaletteLen + 1]), p[PaletteLen + 2]),
                          p[PaletteLen + 3]), p[PaletteLen + 4])
         /\ FlattenSeq(palette) \in Seq(Byte) /\ Len(FlattenSeq(palette)) = 3 * PaletteLen
         /\ p[PaletteLen + 1] \in Seq(Byte) /\ Len(p[PaletteLen + 1]) = 1
         /\ p[PaletteLen + 2] \in Seq(Byte) /\ Len(p[PaletteLen + 2]) = 1
         /\ p[PaletteLen + 3] \in Seq(Byte) /\ Len(p[PaletteLen + 3]) = 1
         /\ p[PaletteLen + 4] \in Seq(Byte) /\ Len(p[PaletteLen + 4]) = 1
<1> DEFINE n == PaletteLen
           m == n + 4
           s == Spelling(PaletteFields, p)
<1>1. /\ n \in Nat /\ m \in Nat /\ n \in 0 .. n /\ 1 .. n \subseteq 1 .. m
      /\ n + 1 \in 1 .. m /\ n + 2 \in 1 .. m /\ n + 3 \in 1 .. m /\ n + 4 \in 1 .. m
      /\ n + 1 \in n + 1 .. m /\ n + 2 \in n + 1 .. m
      /\ n + 3 \in n + 1 .. m /\ n + 4 \in n + 1 .. m
      /\ n + 1 - 1 = n /\ n + 2 - 1 = n + 1 /\ n + 3 - 1 = n + 2 /\ n + 4 - 1 = n + 3
  BY PaletteFieldsAre
<1>2. /\ p \in Seq(Seq(Byte)) /\ Len(p) = m /\ s \in Seq(Seq(Byte))
      /\ \A i \in 1 .. m : PaletteFields[i] \in Nat \ {0} => Len(p[i]) = PaletteFields[i]
  BY DEF Taken
<1>3. /\ \A i \in 1 .. n : PaletteFields[i] = 3
      /\ \A i \in n + 1 .. m : PaletteFields[i] = 1
  BY PaletteFieldsAre
<1>4. Len(s) = m /\ \A i \in 1 .. m : s[i] = Spelt(PaletteFields[i], p[i])
  BY <1>2 DEF Spelling
<1>5. \A i \in 1 .. m : PaletteFields[i] = 3 \/ PaletteFields[i] = 1
  <2> SUFFICES ASSUME NEW i \in 1 .. m
               PROVE  PaletteFields[i] = 3 \/ PaletteFields[i] = 1
    OBVIOUS
  <2>1. i \in 1 .. n \/ i \in n + 1 .. m
    BY <1>1
  <2> QED
    BY <1>3, <2>1
<1>6. \A i \in 1 .. m : s[i] = p[i] /\ Len(p[i]) = PaletteFields[i] /\ p[i] \in Seq(Byte)
  <2> SUFFICES ASSUME NEW i \in 1 .. m
               PROVE  s[i] = p[i] /\ Len(p[i]) = PaletteFields[i] /\ p[i] \in Seq(Byte)
    OBVIOUS
  <2>1. PaletteFields[i] # 0 /\ PaletteFields[i] \in Nat \ {0}
    BY <1>5
  <2>2. p[i] \in Seq(Byte)
    BY <1>2, FieldBytes
  <2>3. Len(p[i]) = PaletteFields[i]
    BY <1>2, <2>1
  <2>4. Spelt(PaletteFields[i], p[i]) = p[i]
    BY <2>1 DEF Spelt, Prefixed
  <2> HIDE DEF s
  <2> QED
    BY <1>4, <2>2, <2>3, <2>4
<1> HIDE DEF n, m, s
<1>7. \A i \in 1 .. n : s[i] = palette[i] /\ Len(palette[i]) = 3
  <2> SUFFICES ASSUME NEW i \in 1 .. n
               PROVE  s[i] = palette[i] /\ Len(palette[i]) = 3
    OBVIOUS
  <2>1. p[i] = palette[i]
    BY DEF Agree, n
  <2>2. i \in 1 .. m
    BY <1>1
  <2> QED
    BY <1>3, <1>6, <2>1, <2>2
<1>8. PICK h : Flattening(h, s, Byte)
  BY <1>2, FlattenJoins
<1>9. PICK k : Flattening(k, palette, Byte)
  BY FlattenJoins
<1>10. Joining(h, s, m) /\ h[m] = FlattenSeq(s)
  BY <1>4, <1>8 DEF Flattening
<1>11. Joining(k, palette, n) /\ k[n] = FlattenSeq(palette)
  BY <1>9 DEF Flattening, n
<1>12. Joining(h, s, n)
  BY <1>1, <1>10, Zenon DEF Joining
<1>13. h[n] = FlattenSeq(palette)
  <2>1. Agree(s, palette, n)
    BY <1>7 DEF Agree
  <2> QED
    BY <1>1, <1>11, <1>12, <2>1, JoinsUnique
<1>14. \A i \in 1 .. m : h[i] = Join(h[i - 1], s[i])
  BY <1>10, Zenon DEF Joining
<1>15. /\ h[n + 1] = Join(h[n], p[n + 1]) /\ h[n + 2] = Join(h[n + 1], p[n + 2])
       /\ h[n + 3] = Join(h[n + 2], p[n + 3]) /\ h[n + 4] = Join(h[n + 3], p[n + 4])
  <2>1. h[n + 1] = Join(h[n + 1 - 1], s[n + 1])
    BY ONLY <1>1, <1>14
  <2>2. h[n + 2] = Join(h[n + 2 - 1], s[n + 2])
    BY ONLY <1>1, <1>14
  <2>3. h[n + 3] = Join(h[n + 3 - 1], s[n + 3])
    BY ONLY <1>1, <1>14
  <2>4. h[n + 4] = Join(h[n + 4 - 1], s[n + 4])
    BY ONLY <1>1, <1>14
  <2>5. s[n + 1] = p[n + 1] /\ s[n + 2] = p[n + 2] /\ s[n + 3] = p[n + 3] /\ s[n + 4] = p[n + 4]
    BY ONLY <1>1, <1>6
  <2> QED
    BY ONLY <1>1, <2>1, <2>2, <2>3, <2>4, <2>5
<1>16. Spelled(PaletteFields, p)
         = Join(Join(Join(Join(FlattenSeq(palette), p[n + 1]), p[n + 2]), p[n + 3]), p[n + 4])
  <2>1. Spelled(PaletteFields, p) = h[n + 4]
    BY <1>10 DEF Spelled, s, m
  <2>2. h[n + 2] = Join(Join(FlattenSeq(palette), p[n + 1]), p[n + 2])
    BY ONLY <1>13, <1>15, Zenon
  <2> QED
    BY ONLY <1>15, <2>1, <2>2, Zenon
<1>17. /\ p[n + 1] \in Seq(Byte) /\ Len(p[n + 1]) = 1 /\ p[n + 2] \in Seq(Byte) /\ Len(p[n + 2]) = 1
       /\ p[n + 3] \in Seq(Byte) /\ Len(p[n + 3]) = 1 /\ p[n + 4] \in Seq(Byte) /\ Len(p[n + 4]) = 1
  <2>1. \A i \in n + 1 .. m : i \in 1 .. m
    BY <1>1 DEF m
  <2>2. \A i \in n + 1 .. m : p[i] \in Seq(Byte) /\ Len(p[i]) = 1
    BY ONLY <1>3, <1>6, <2>1
  <2> QED
    BY ONLY <1>1, <2>2
<1>18. FlattenSeq(palette) \in Seq(Byte) /\ Len(FlattenSeq(palette)) = 3 * n
  <2> DEFINE size == [i \in 0 .. n |-> 3 * i]
  <2>1. size[0] = 0 /\ size[n] = 3 * n /\ \A i \in 1 .. n : size[i] = size[i - 1] + 3
    BY <1>1
  <2> HIDE DEF size
  <2>2. Counting(size, 0, palette, n)
    BY <1>7, <2>1 DEF Counting
  <2>3. 0 \in Nat /\ Len(palette) = n
    BY DEF n
  <2>4. size[n] = 0 + Len(FlattenSeq(palette)) /\ FlattenSeq(palette) \in Seq(Byte)
    BY <1>1, <2>2, <2>3, CountingJoins
  <2>5. Len(FlattenSeq(palette)) \in Nat
    BY <2>4
  <2> QED
    BY ONLY <2>1, <2>4, <2>5
<1> QED
  BY <1>16, <1>17, <1>18 DEF n

\* Two fields, spelt.
LEMMA TwoSpelled ==
  ASSUME NEW fields, NEW g, Taken(fields, g, 2), fields[1] \in Nat \ {0}, fields[2] \in Nat \ {0}
  PROVE  /\ Spelled(fields, g) = Join(g[1], g[2])
         /\ g[1] \in Seq(Byte) /\ Len(g[1]) = fields[1]
         /\ g[2] \in Seq(Byte) /\ Len(g[2]) = fields[2]
<1>1. PICK h : /\ h[1] = Spelt(fields[1], g[1])
               /\ \A i \in 2 .. 2 : h[i] = Join(h[i - 1], Spelt(fields[i], g[i]))
               /\ h[2] = Spelled(fields, g)
  <2>1. 2 \in Nat /\ 2 # 0
    OBVIOUS
  <2> QED
    BY <2>1, SpelledFields
<1>2. h[2] = Join(h[1], Spelt(fields[2], g[2]))
  BY ONLY <1>1
<1>3. Spelt(fields[1], g[1]) = g[1] /\ Spelt(fields[2], g[2]) = g[2]
  BY DEF Spelt, Prefixed
<1>4. Spelled(fields, g) = Join(g[1], g[2])
  BY ONLY <1>1, <1>2, <1>3, Zenon
<1>5. /\ g \in Seq(Seq(Byte)) /\ Len(g) = 2
      /\ \A i \in 1 .. 2 : fields[i] \in Nat \ {0} => Len(g[i]) = fields[i]
  BY DEF Taken
<1>6. Len(g[1]) = fields[1] /\ Len(g[2]) = fields[2]
  BY <1>5
<1>7. \A i \in 1 .. 2 : g[i] \in Seq(Byte)
  BY <1>5, FieldBytes
<1>8. g[1] \in Seq(Byte) /\ g[2] \in Seq(Byte)
  BY ONLY <1>7
<1> QED
  BY ONLY <1>4, <1>6, <1>8, Zenon

\* The bytes of a position.
LEMMA PositionSpelled ==
  ASSUME NEW g, Taken(PositionFields, g, 3)
  PROVE  /\ Spelled(PositionFields, g) = Join(Join(g[1], g[2]), g[3])
         /\ g[1] \in Seq(Byte) /\ Len(g[1]) = 2 /\ g[2] \in Seq(Byte) /\ Len(g[2]) = 2
         /\ g[3] \in Seq(Byte) /\ Len(g[3]) = 1
<1>1. PICK h : /\ h[1] = Spelt(PositionFields[1], g[1])
               /\ \A i \in 2 .. 3 : h[i] = Join(h[i - 1], Spelt(PositionFields[i], g[i]))
               /\ h[3] = Spelled(PositionFields, g)
  <2>1. 3 \in Nat /\ 3 # 0
    OBVIOUS
  <2> QED
    BY <2>1, SpelledFields
<1>2. /\ h[2] = Join(h[1], Spelt(PositionFields[2], g[2]))
      /\ h[3] = Join(h[2], Spelt(PositionFields[3], g[3]))
  BY ONLY <1>1
<1>3. PositionFields[1] = 2 /\ PositionFields[2] = 2 /\ PositionFields[3] = 1
  BY DEF PositionFields
<1>4. /\ Spelt(PositionFields[1], g[1]) = g[1] /\ Spelt(PositionFields[2], g[2]) = g[2]
      /\ Spelt(PositionFields[3], g[3]) = g[3]
  BY ONLY <1>3 DEF Spelt, Prefixed
<1>5. Spelled(PositionFields, g) = Join(Join(g[1], g[2]), g[3])
  BY ONLY <1>1, <1>2, <1>4, Zenon
<1>6. /\ g \in Seq(Seq(Byte)) /\ Len(g) = 3
      /\ \A i \in 1 .. 3 : PositionFields[i] \in Nat \ {0} => Len(g[i]) = PositionFields[i]
  BY DEF Taken
<1>7. \A i \in 1 .. 3 : g[i] \in Seq(Byte)
  BY <1>6, FieldBytes
<1>8. g[1] \in Seq(Byte) /\ g[2] \in Seq(Byte) /\ g[3] \in Seq(Byte)
  BY ONLY <1>7
<1>9. Len(g[1]) = PositionFields[1] /\ Len(g[2]) = PositionFields[2]
      /\ Len(g[3]) = PositionFields[3]
  <2>1. \A i \in 1 .. 3 : PositionFields[i] \in Nat \ {0}
    BY <1>3
  <2>2. \A i \in 1 .. 3 : Len(g[i]) = PositionFields[i]
    BY ONLY <1>6, <2>1, Zenon
  <2> QED
    BY ONLY <2>2
<1> QED
  BY ONLY <1>3, <1>5, <1>8, <1>9, Zenon

\* The bytes of a colour of the cursor.
LEMMA ColourSpelled ==
  ASSUME NEW colour, OptionTaken(<< 3 >>, colour, 1)
  PROVE  /\ Present(<<3>>, colour) = Join(PutBool(colour # <<>>), FlattenSeq(colour))
         /\ FlattenSeq(colour) \in Seq(Byte)
         /\ Len(FlattenSeq(colour)) = IF colour # <<>> THEN 3 ELSE 0
<1>1. CASE colour = <<>>
  <2>1. Present(<<3>>, colour) = Join(PutBool(colour # <<>>), <<>>)
    BY <1>1, Zenon DEF Present
  <2>2. FlattenSeq(colour) = <<>>
    BY <1>1, FlattenEmpty, Zenon
  <2>3. <<>> \in Seq(Byte) /\ Len(<<>>) = 0
    OBVIOUS
  <2>4. Present(<<3>>, colour) = Join(PutBool(colour # <<>>), FlattenSeq(colour))
    BY ONLY <2>1, <2>2
  <2>5. FlattenSeq(colour) \in Seq(Byte) /\ Len(FlattenSeq(colour)) = 0
    BY ONLY <2>2, <2>3
  <2> QED
    BY ONLY <1>1, <2>4, <2>5
<1>2. CASE colour # <<>>
  <2>1. /\ colour \in Seq(Seq(Byte)) /\ Len(colour) = 1
        /\ \A i \in 1 .. 1 : <<3>>[i] \in Nat \ {0} => Len(colour[i]) = <<3>>[i]
    BY <1>2 DEF OptionTaken, Taken
  <2> DEFINE e == colour[1]
             none == <<>>
  <2>2. e \in Seq(Byte) /\ Len(e) = 3
    BY <2>1
  <2>3. colour = Append(none, e)
    <3>1. colour = [i \in 1 .. 1 |-> colour[i]]
      BY <2>1
    <3>2. \A i \in 1 .. 1 : colour[i] = e
      OBVIOUS
    <3> QED
      BY <3>1, <3>2
  <2>4. Spelling(<<3>>, colour) = colour
    <3>1. Spelling(<<3>>, colour) = [i \in 1 .. 1 |-> Spelt(<<3>>[i], colour[i])]
      BY <2>1 DEF Spelling
    <3>2. \A i \in 1 .. 1 : Spelt(<<3>>[i], colour[i]) = colour[i]
      BY DEF Spelt, Prefixed
    <3>3. colour = [i \in 1 .. 1 |-> colour[i]]
      BY <2>1
    <3> QED
      BY <3>1, <3>2, <3>3
  <2>5. Present(<<3>>, colour) = Join(PutBool(colour # <<>>), FlattenSeq(colour))
    BY <1>2, <2>4 DEF Present, Spelled
  <2> HIDE DEF e
  <2>6. FlattenSeq(colour) = e
    <3>1. none \in Seq(Seq(Byte))
      OBVIOUS
    <3>2. FlattenSeq(Append(none, e)) = FlattenSeq(none) \o e
      BY <2>2, <3>1, FlattenAppend
    <3>3. FlattenSeq(none) \o e = e
      BY <2>2, FlattenEmpty, ConcatEmptySeq
    <3> QED
      BY <2>3, <3>2, <3>3
  <2> QED
    BY <1>2, <2>2, <2>5, <2>6
<1> QED
  BY <1>1, <1>2

\* Pieces that lie one behind the other, as a decoder finds them and as an encoder joins them.
Six(x, u, v, w, y, z) ==
  /\ x \in Seq(Byte) /\ u \in Seq(Byte) /\ v \in Seq(Byte) /\ w \in Seq(Byte)
  /\ y \in Seq(Byte) /\ z \in Seq(Byte)

\* They are the same, grouped from the left or from the right.
LEMMA Regroup ==
  ASSUME NEW x, NEW u, NEW v, NEW w, NEW y, NEW z, Six(x, u, v, w, y, z)
  PROVE  Join(x, Join(u, Join(v, Join(w, Join(y, z)))))
           = Join(Join(Join(Join(Join(x, u), v), w), y), z)
<1>0. /\ x \in Seq(Byte) /\ u \in Seq(Byte) /\ v \in Seq(Byte) /\ w \in Seq(Byte)
      /\ y \in Seq(Byte) /\ z \in Seq(Byte)
  BY DEF Six
<1> DEFINE a == Join(y, z)
           b == Join(w, a)
           d == Join(v, b)
<1>1. a \in Seq(Byte)
  BY <1>0, JoinBytes
<1> HIDE DEF a
<1>2. b \in Seq(Byte)
  BY <1>0, <1>1, JoinBytes
<1> HIDE DEF b
<1>3. d \in Seq(Byte)
  BY <1>0, <1>2, JoinBytes
<1> HIDE DEF d
<1> DEFINE l == Join(x, u)
<1>4. Join(x, Join(u, d)) = Join(l, d) /\ l \in Seq(Byte)
  BY <1>0, <1>3, JoinBytes, JoinGroups
<1> HIDE DEF l
<1> DEFINE m == Join(l, v)
<1>5. Join(l, Join(v, b)) = Join(m, b) /\ m \in Seq(Byte)
  BY <1>0, <1>2, <1>4, JoinBytes, JoinGroups
<1> HIDE DEF m
<1> DEFINE n == Join(m, w)
<1>6. Join(m, Join(w, a)) = Join(n, a) /\ n \in Seq(Byte)
  BY <1>0, <1>1, <1>5, JoinBytes, JoinGroups
<1> HIDE DEF n
<1>7. Join(n, Join(y, z)) = Join(Join(n, y), z)
  BY <1>0, <1>6, JoinGroups
<1>8. Join(x, Join(u, Join(v, Join(w, Join(y, z))))) = Join(x, Join(u, d))
  BY Zenon DEF d, b, a
<1>9. Join(x, Join(u, d)) = Join(Join(n, y), z)
  BY <1>4, <1>5, <1>6, <1>7, Zenon DEF a, b, d
<1>10. n = Join(Join(Join(x, u), v), w)
  BY Zenon DEF l, m, n
<1> QED
  BY <1>8, <1>9, <1>10, Zenon

\* The frame f is made of what a head took.
FrameIs(f, g, colour, p, position, s) ==
  /\ f.revision = Num(g[3]) /\ f.cols = Num(g[4]) /\ f.count = Num(g[5])
  /\ f.screen = Member(Screens, g[6]) /\ f.title = g[7] /\ f.cwd = g[8]
  /\ f.hyperlinks = Bool(g[9]) /\ f.kitty = Bool(g[10])
  /\ f.background = g[11] /\ f.foreground = g[12] /\ f.colour = colour
  /\ f.palette \in Seq(Seq(Byte)) /\ Len(f.palette) = PaletteLen
  /\ Agree(p, f.palette, PaletteLen)
  /\ f.visible = Bool(p[PaletteLen + 1]) /\ f.blinking = Bool(p[PaletteLen + 2])
  /\ f.password = Bool(p[PaletteLen + 3]) /\ f.shape = Member(CursorShapes, p[PaletteLen + 4])
  /\ f.viewport = (IF position = <<>> THEN <<>> ELSE <<CursorAt(position)>>)
  /\ f.fromLive = Num(s[1]) /\ f.history = Num(s[2])

\* The palette of a frame is the colours that its head took.
LEMMA PaletteTaken ==
  ASSUME NEW got, NEW m \in Nat, Len(got) = m, IsSeq(got), m >= 13 + PaletteLen, NEW p,
         Taken(PaletteFields, p, PaletteLen + 4), Placed(got, 13, p, PaletteLen + 4)
  PROVE  LET palette == SubSeq(got, 14, 13 + PaletteLen)
         IN  /\ palette \in Seq(Seq(Byte)) /\ Len(palette) = PaletteLen
             /\ Agree(p, palette, PaletteLen)
<1> DEFINE palette == SubSeq(got, 14, 13 + PaletteLen)
<1>1. PaletteLen \in Nat
  BY PaletteFieldsAre
<1>2. palette = [i \in 1 .. PaletteLen |-> got[13 + i]]
  BY <1>1 DEF IsSeq
<1>3. \A i \in 1 .. PaletteLen + 4 : p[i] \in Seq(Byte)
  BY FieldBytes DEF Taken
<1>4. \A i \in 1 .. PaletteLen : got[13 + i] = p[i]
  BY <1>1 DEF Placed
<1>5. \A i \in 1 .. PaletteLen : got[13 + i] \in Seq(Byte)
  BY <1>1, <1>3, <1>4
<1> HIDE DEF palette
<1>6. palette \in Seq(Seq(Byte)) /\ Len(palette) = PaletteLen
  BY <1>1, <1>2, <1>5
<1>7. \A i \in 1 .. PaletteLen : palette[i] = got[13 + i]
  BY <1>2
<1>8. Agree(p, palette, PaletteLen)
  BY <1>4, <1>7 DEF Agree
<1> QED
  BY <1>6, <1>8 DEF palette

\* Every field of a frame is one that its head took.
LEMMA FrameTaken ==
  ASSUME NEW bytes, NEW head, NEW g, NEW colour, NEW p, NEW position, NEW s,
         HeadIs(bytes, head, g, colour, p, position, s)
  PROVE  FrameIs(FrameOf(head.got), g, colour, p, position, s)
<1> DEFINE got == head.got
           c == 13 + PaletteLen
<1>1. PaletteLen \in Nat
  BY PaletteFieldsAre
<1>2. /\ got[3] = g[3] /\ got[4] = g[4] /\ got[5] = g[5] /\ got[6] = g[6] /\ got[7] = g[7]
      /\ got[8] = g[8] /\ got[9] = g[9] /\ got[10] = g[10] /\ got[11] = g[11] /\ got[12] = g[12]
  BY DEF HeadIs, Placed
<1>3. got[13] = colour /\ got[c + 5] = position
  BY DEF HeadIs
<1>4. /\ got[c + 1] = p[PaletteLen + 1] /\ got[c + 2] = p[PaletteLen + 2]
      /\ got[c + 3] = p[PaletteLen + 3] /\ got[c + 4] = p[PaletteLen + 4]
  <2>1. Placed(got, 13, p, PaletteLen + 4)
    BY DEF HeadIs
  <2>2. \A i \in 1 .. PaletteLen + 4 : got[13 + i] = p[i]
    BY <2>1 DEF Placed
  <2> HIDE DEF got
  <2>3. \A i \in 1 .. 4 : got[c + i] = p[PaletteLen + i]
    <3>1. TAKE i \in 1 .. 4
    <3>2. PaletteLen + i \in 1 .. PaletteLen + 4 /\ 13 + (PaletteLen + i) = c + i
      BY <1>1
    <3>3. got[13 + (PaletteLen + i)] = p[PaletteLen + i]
      BY <2>2, <3>2
    <3> QED
      BY <3>2, <3>3
  <2> QED
    BY ONLY <2>3
<1>5. got[c + 6] = s[1] /\ got[c + 7] = s[2]
  <2>1. Placed(got, 13 + PaletteLen + 5, s, 2)
    BY DEF HeadIs
  <2>2. got[13 + PaletteLen + 5 + 1] = s[1] /\ got[13 + PaletteLen + 5 + 2] = s[2]
    BY <2>1 DEF Placed
  <2>3. 13 + PaletteLen + 5 + 1 = c + 6 /\ 13 + PaletteLen + 5 + 2 = c + 7
    BY <1>1
  <2> QED
    BY <2>2, <2>3
<1>6. LET palette == SubSeq(got, 14, c)
      IN  /\ palette \in Seq(Seq(Byte)) /\ Len(palette) = PaletteLen
          /\ Agree(p, palette, PaletteLen)
  <2>1. Taken(PaletteFields, p, PaletteLen + 4) /\ Placed(got, 13, p, PaletteLen + 4)
    BY DEF HeadIs
  <2> DEFINE m == PaletteLen + 20
  <2>2. m \in Nat /\ Len(got) = m /\ m >= 13 + PaletteLen /\ IsSeq(got)
    BY <1>1 DEF HeadIs, IsReader
  <2> HIDE DEF m, got
  <2> QED
    BY <2>1, <2>2, PaletteTaken DEF got
<1> DEFINE f == FrameOf(got)
<1>7. /\ f.revision = Num(got[3]) /\ f.cols = Num(got[4]) /\ f.count = Num(got[5])
      /\ f.screen = Member(Screens, got[6]) /\ f.title = got[7] /\ f.cwd = got[8]
      /\ f.hyperlinks = Bool(got[9]) /\ f.kitty = Bool(got[10])
      /\ f.background = got[11] /\ f.foreground = got[12] /\ f.colour = got[13]
      /\ f.palette = SubSeq(got, 14, c)
      /\ f.visible = Bool(got[c + 1]) /\ f.blinking = Bool(got[c + 2])
      /\ f.password = Bool(got[c + 3]) /\ f.shape = Member(CursorShapes, got[c + 4])
      /\ f.viewport = (IF got[c + 5] = <<>> THEN <<>> ELSE <<CursorAt(got[c + 5])>>)
      /\ f.fromLive = Num(got[c + 6]) /\ f.history = Num(got[c + 7])
  BY DEF FrameOf
<1> HIDE DEF f, got, c
<1>8. FrameIs(f, g, colour, p, position, s)
  BY ONLY <1>2, <1>3, <1>4, <1>5, <1>6, <1>7, Zenon DEF FrameIs
<1> QED
  BY <1>8 DEF f, got

\* With other lines too.
LEMMA FrameIsWithLines ==
  ASSUME NEW got, NEW lines, NEW g, NEW colour, NEW p, NEW position, NEW s,
         FrameIs(FrameOf(got), g, colour, p, position, s)
  PROVE  LET f == [FrameOf(got) EXCEPT !.lines = lines]
         IN  FrameIs(f, g, colour, p, position, s) /\ f.lines = lines
<1> DEFINE e == FrameOf(got)
           f == [e EXCEPT !.lines = lines]
<1>1. /\ f.revision = e.revision /\ f.cols = e.cols /\ f.count = e.count
      /\ f.screen = e.screen /\ f.title = e.title /\ f.cwd = e.cwd
      /\ f.hyperlinks = e.hyperlinks /\ f.kitty = e.kitty
      /\ f.background = e.background /\ f.foreground = e.foreground /\ f.colour = e.colour
      /\ f.palette = e.palette /\ f.visible = e.visible /\ f.blinking = e.blinking
      /\ f.password = e.password /\ f.shape = e.shape /\ f.viewport = e.viewport
      /\ f.fromLive = e.fromLive /\ f.history = e.history /\ f.lines = lines
  <2> DEFINE names == {"revision", "cols", "count", "screen", "title", "cwd", "hyperlinks", "kitty",
                       "background", "foreground", "colour", "palette", "visible", "blinking",
                       "password", "shape", "viewport", "fromLive", "history", "lines"}
  <2>1. DOMAIN e = names
    BY DEF FrameOf
  <2>2. "lines" \in names
    OBVIOUS
  <2> HIDE DEF names, e
  <2>3. f["lines"] = lines /\ \A n \in names : n # "lines" => f[n] = e[n]
    BY <2>1, <2>2
  <2> HIDE DEF f
  <2>4. f.lines = lines
    BY <2>3
  <2>5. \A n \in names \ {"lines"} : f[n] = e[n]
    BY ONLY <2>3
  <2> QED
    BY <2>4, <2>5 DEF names
<1> HIDE DEF f, e
<1>2. FrameIs(e, g, colour, p, position, s)
  BY DEF e
<1>3. FrameIs(f, g, colour, p, position, s) /\ f.lines = lines
  BY ONLY <1>1, <1>2, Zenon DEF FrameIs
<1> QED
  BY <1>3 DEF f, e

\* Four pieces after a first one, joined one by one.
LEMMA JoinsFive ==
  ASSUME NEW a \in Seq(Byte), NEW b \in Seq(Byte), NEW d \in Seq(Byte), NEW e \in Seq(Byte),
         NEW u \in Seq(Byte)
  PROVE  /\ Join(Join(Join(Join(a, b), d), e), u) = Join(a, Join(Join(Join(b, d), e), u))
         /\ Join(Join(Join(b, d), e), u) \in Seq(Byte)
         /\ Len(b) = 1 /\ Len(d) = 1 /\ Len(e) = 1 /\ Len(u) = 1
              => Len(Join(Join(Join(b, d), e), u)) = 4
<1> DEFINE x == Join(b, d)
<1>1. x \in Seq(Byte) /\ Len(x) = Len(b) + Len(d) /\ Join(Join(a, b), d) = Join(a, x)
  BY JoinBytes, JoinGroups
<1> HIDE DEF x
<1> DEFINE y == Join(x, e)
<1>2. y \in Seq(Byte) /\ Len(y) = Len(x) + Len(e) /\ Join(Join(a, x), e) = Join(a, y)
  <2>1. y \in Seq(Byte) /\ Len(y) = Len(x) + Len(e)
    BY <1>1, JoinBytes
  <2>2. Join(Join(a, x), e) = Join(a, y)
    BY <1>1, JoinGroups
  <2> QED
    BY <2>1, <2>2
<1> HIDE DEF y
<1> DEFINE z == Join(y, u)
<1>3. z \in Seq(Byte) /\ Len(z) = Len(y) + Len(u) /\ Join(Join(a, y), u) = Join(a, z)
  <2>1. z \in Seq(Byte) /\ Len(z) = Len(y) + Len(u)
    BY <1>2, JoinBytes
  <2>2. Join(Join(a, y), u) = Join(a, z)
    BY <1>2, JoinGroups
  <2> QED
    BY <2>1, <2>2
<1> HIDE DEF z
<1>4. Join(Join(Join(Join(a, b), d), e), u) = Join(a, z)
  BY ONLY <1>1, <1>2, <1>3, Zenon
<1>5. z = Join(Join(Join(b, d), e), u)
  BY Zenon DEF x, y, z
<1>6. Len(b) \in Nat /\ Len(d) \in Nat /\ Len(e) \in Nat /\ Len(u) \in Nat
  OBVIOUS
<1>7. Len(b) = 1 /\ Len(d) = 1 /\ Len(e) = 1 /\ Len(u) = 1 => Len(z) = 4
  BY ONLY <1>1, <1>2, <1>3, <1>6
<1> QED
  BY <1>3, <1>4, <1>5, <1>7, Zenon

\* The pieces of a frame, as its head and its rows are found.
FramePieces(x, b, c, F, four, fl, vp, l, h, R) ==
  /\ x \in Seq(Byte) /\ b \in Seq(Byte) /\ c \in Seq(Byte) /\ F \in Seq(Byte)
  /\ four \in Seq(Byte) /\ fl \in Seq(Byte) /\ vp \in Seq(Byte) /\ l \in Seq(Byte)
  /\ h \in Seq(Byte) /\ R \in Seq(Byte)

\* The bytes of those before the rows, and of all of them.
HeadLen(x, b, c, F, four, fl, vp, l, h) ==
  Len(x) + Len(b) + Len(c) + Len(F) + Len(four) + Len(fl) + Len(vp) + Len(l) + Len(h)
FrameLen(x, b, c, F, four, fl, vp, l, h, R) == HeadLen(x, b, c, F, four, fl, vp, l, h) + Len(R)

\* They are joined as an encoder joins them.
LEMMA FrameJoins ==
  ASSUME NEW x, NEW b, NEW c, NEW F, NEW four, NEW fl, NEW vp, NEW l, NEW h, NEW R,
         FramePieces(x, b, c, F, four, fl, vp, l, h, R)
  PROVE  LET cursor == Join(Join(four, fl), vp)
             bytes == Join(x, Join(Join(b, c), Join(Join(F, four),
                        Join(Join(fl, vp), Join(Join(l, h), R)))))
         IN  /\ bytes = Join(Join(Join(Join(Join(Join(Join(x, b), c), F), cursor), l), h), R)
             /\ Len(bytes) = FrameLen(x, b, c, F, four, fl, vp, l, h, R)
<1> DEFINE P1 == Join(b, c)
           S2 == Join(F, four)
           P2 == Join(fl, vp)
           S3 == Join(l, h)
           cursor == Join(Join(four, fl), vp)
<1>0. /\ x \in Seq(Byte) /\ b \in Seq(Byte) /\ c \in Seq(Byte) /\ F \in Seq(Byte)
      /\ four \in Seq(Byte) /\ fl \in Seq(Byte) /\ vp \in Seq(Byte) /\ l \in Seq(Byte)
      /\ h \in Seq(Byte) /\ R \in Seq(Byte)
  BY DEF FramePieces
<1>1. P1 \in Seq(Byte) /\ Len(P1) = Len(b) + Len(c) /\ Join(x, P1) = Join(Join(x, b), c)
  BY <1>0, JoinBytes, JoinGroups
<1>2. S2 \in Seq(Byte) /\ Len(S2) = Len(F) + Len(four)
  BY <1>0, JoinBytes
<1>3. P2 \in Seq(Byte) /\ Len(P2) = Len(fl) + Len(vp)
  BY <1>0, JoinBytes
<1>4. S3 \in Seq(Byte) /\ Len(S3) = Len(l) + Len(h)
  BY <1>0, JoinBytes
<1>5. Join(four, P2) = cursor
  BY <1>0, JoinGroups
<1>6. cursor \in Seq(Byte)
  <2> HIDE DEF cursor
  <2> QED
    BY <1>0, <1>3, <1>5, JoinBytes
<1> DEFINE w == <<1>>
<1>7. Six(x, P1, S2, P2, S3, R)
  BY <1>0, <1>1, <1>2, <1>3, <1>4 DEF Six
<1> DEFINE bytes == Join(x, Join(P1, Join(S2, Join(P2, Join(S3, R)))))
<1>8. bytes = Join(Join(Join(Join(Join(x, P1), S2), P2), S3), R)
  <2> HIDE DEF P1, S2, P2, S3
  <2> QED
    BY <1>7, Regroup
<1>9. /\ \A y \in Seq(Byte) : Join(y, S2) = Join(Join(y, F), four)
      /\ \A y \in Seq(Byte) : Join(y, S3) = Join(Join(y, l), h)
  BY <1>0, JoinGroups
<1> DEFINE A == Join(x, P1)
<1>10. A \in Seq(Byte) /\ Len(A) = Len(x) + Len(P1)
  BY <1>0, <1>1, JoinBytes
<1> DEFINE A1 == Join(A, S2)
<1> HIDE DEF A, P1, S2, P2, S3
<1>11. A1 \in Seq(Byte) /\ Len(A1) = Len(A) + Len(S2) /\ A1 = Join(Join(A, F), four)
  BY <1>2, <1>9, <1>10, JoinBytes
<1> DEFINE A0 == Join(A, F)
<1>12. A0 \in Seq(Byte)
  BY <1>0, <1>10, JoinBytes
<1> DEFINE A2 == Join(A1, P2)
<1>13. A2 \in Seq(Byte) /\ Len(A2) = Len(A1) + Len(P2)
  BY <1>3, <1>11, JoinBytes
<1>14. A2 = Join(A0, cursor)
  <2> HIDE DEF A0, A1, cursor
  <2>1. A1 = Join(A0, four)
    BY <1>11 DEF A0
  <2>2. Join(Join(A0, four), P2) = Join(A0, Join(four, P2))
    BY <1>0, <1>3, <1>12, JoinGroups
  <2> QED
    BY ONLY <1>5, <2>1, <2>2, Zenon
<1> DEFINE A3 == Join(A2, S3)
<1> HIDE DEF A0, A1, A2, cursor
<1>15. A3 \in Seq(Byte) /\ Len(A3) = Len(A2) + Len(S3) /\ A3 = Join(Join(A2, l), h)
  BY <1>4, <1>9, <1>13, JoinBytes
<1> HIDE DEF A3
<1>16. bytes = Join(A3, R)
  BY <1>8, Zenon DEF A, A1, A2, A3
<1>17. Len(Join(A3, R)) = Len(A3) + Len(R)
  BY <1>0, <1>15, JoinBytes
<1>18. bytes = Join(Join(Join(Join(Join(Join(Join(x, b), c), F), cursor), l), h), R)
  <2>1. A = Join(Join(x, b), c)
    BY <1>1 DEF A
  <2>2. A0 = Join(Join(Join(x, b), c), F)
    BY <2>1, Zenon DEF A0
  <2> HIDE DEF bytes
  <2> QED
    BY ONLY <1>14, <1>15, <1>16, <2>2, Zenon
<1>19. /\ Len(x) \in Nat /\ Len(b) \in Nat /\ Len(c) \in Nat /\ Len(F) \in Nat /\ Len(four) \in Nat
       /\ Len(fl) \in Nat /\ Len(vp) \in Nat /\ Len(l) \in Nat /\ Len(h) \in Nat /\ Len(R) \in Nat
  BY <1>0
<1>20. Len(bytes) = Len(A3) + Len(R)
  <2> HIDE DEF bytes
  <2> QED
    BY ONLY <1>16, <1>17, Zenon
<1>21. Len(bytes) = Len(x) + Len(b) + Len(c) + Len(F) + Len(four) + Len(fl) + Len(vp)
                      + Len(l) + Len(h) + Len(R)
  <2> HIDE DEF bytes
  <2> QED
    <3>1. /\ Len(P1) = Len(b) + Len(c) /\ Len(S2) = Len(F) + Len(four)
          /\ Len(P2) = Len(fl) + Len(vp) /\ Len(S3) = Len(l) + Len(h)
          /\ Len(A) = Len(x) + Len(P1) /\ Len(A1) = Len(A) + Len(S2)
          /\ Len(A2) = Len(A1) + Len(P2) /\ Len(A3) = Len(A2) + Len(S3)
      BY ONLY <1>1, <1>2, <1>3, <1>4, <1>10, <1>11, <1>13, <1>15, Zenon
    <3> QED
      BY ONLY <1>19, <1>20, <3>1
<1>22. Len(bytes) = FrameLen(x, b, c, F, four, fl, vp, l, h, R)
  <2> HIDE DEF bytes
  <2> QED
    BY ONLY <1>21, Zenon DEF FrameLen, HeadLen
<1> QED
  BY <1>18, <1>22, Zenon DEF bytes, P1, S2, P2, S3, cursor

\* Members are told apart, of the enumerations of a frame too.
LEMMA FrameTags ==
  /\ Distinct(Screens) /\ Len(Screens) = 2
  /\ Distinct(CursorShapes) /\ Len(CursorShapes) = 4
BY DEF Distinct, Screens, CursorShapes

\* The bytes of the head of a frame whose fields are valid.
LEMMA HeadPut ==
  ASSUME NEW f, NEW g, NEW colour, NEW p, NEW position, NEW s,
         FrameIs(f, g, colour, p, position, s), Taken(HeadFields, g, 12),
         g[1] = FrameMagic, Num(g[2]) = FrameVersion,
         f.screen # Bad, f.hyperlinks # Bad, f.kitty # Bad
  PROVE  /\ FrameMagic = g[1] /\ Put16(FrameVersion) = g[2] /\ Put64(f.revision) = g[3]
         /\ Put16(f.cols) = g[4] /\ Put16(f.count) = g[5] /\ Tag(Screens, f.screen) = g[6]
         /\ f.title = g[7] /\ f.cwd = g[8]
         /\ PutBool(f.hyperlinks) = g[9] /\ PutBool(f.kitty) = g[10]
         /\ f.background = g[11] /\ f.foreground = g[12]
         /\ f.cols \in Nat /\ f.count \in Nat /\ f.revision \in Nat
<1>1. /\ \A i \in 1 .. 12 : g[i] \in Seq(Byte)
      /\ Len(g[1]) = 4 /\ Len(g[2]) = 2 /\ Len(g[3]) = U64Bytes /\ Len(g[4]) = 2
      /\ Len(g[5]) = 2 /\ Len(g[6]) = 1 /\ Len(g[9]) = 1 /\ Len(g[10]) = 1
      /\ Len(g[11]) = 3 /\ Len(g[12]) = 3
  BY HeadTakenType
<1>2. /\ g[2] \in Seq(Byte) /\ g[3] \in Seq(Byte) /\ g[4] \in Seq(Byte) /\ g[5] \in Seq(Byte)
      /\ g[6] \in Seq(Byte)
  BY ONLY <1>1
<1>3. /\ f.revision = Num(g[3]) /\ f.cols = Num(g[4]) /\ f.count = Num(g[5])
      /\ f.screen = Member(Screens, g[6]) /\ f.title = g[7] /\ f.cwd = g[8]
      /\ f.hyperlinks = Bool(g[9]) /\ f.kitty = Bool(g[10])
      /\ f.background = g[11] /\ f.foreground = g[12]
  BY DEF FrameIs
<1>4. Put16(FrameVersion) = g[2]
  BY <1>1, <1>2, Spell16
<1>5. Put64(f.revision) = g[3]
  BY <1>1, <1>2, <1>3, Spell64
<1>6. Put16(f.cols) = g[4]
  BY <1>1, <1>2, <1>3, Spell16
<1>7. Put16(f.count) = g[5]
  BY <1>1, <1>2, <1>3, Spell16
<1>8. Tag(Screens, f.screen) = g[6]
  <2>1. Member(Screens, g[6]) # Bad /\ Len(Screens) \in Nat
    BY <1>3, FrameTags
  <2>2. Tag(Screens, Member(Screens, g[6])) = g[6]
    BY <1>1, <1>2, <2>1, FrameTags, SpellTag
  <2> QED
    BY <1>3, <2>2
<1>9. PutBool(f.hyperlinks) = g[9] /\ PutBool(f.kitty) = g[10]
  BY <1>3, SpellBool
<1>10. Num(g[3]) \in Nat /\ Num(g[4]) \in Nat /\ Num(g[5]) \in Nat
  BY <1>2, NumIsNat
<1> QED
  BY <1>3, <1>4, <1>5, <1>6, <1>7, <1>8, <1>9, <1>10

\* Three pieces of a position.
LEMMA JoinsThree ==
  ASSUME NEW x \in Seq(Byte), NEW y \in Seq(Byte), NEW t \in Seq(Byte),
         Len(x) = 2, Len(y) = 2, Len(t) = 1
  PROVE  Join(Join(x, y), t) \in Seq(Byte) /\ Len(Join(Join(x, y), t)) = 5
<1> DEFINE xy == Join(x, y)
<1>1. xy \in Seq(Byte) /\ Len(xy) = Len(x) + Len(y)
  BY JoinBytes
<1> HIDE DEF xy
<1>2. Join(xy, t) \in Seq(Byte) /\ Len(Join(xy, t)) = Len(xy) + Len(t)
  BY <1>1, JoinBytes
<1>3. Len(Join(xy, t)) = 5
  BY <1>1, <1>2
<1> QED
  BY <1>2, <1>3 DEF xy

\* The bytes of its cursor, in two parts.
LEMMA CursorPut ==
  ASSUME NEW f, NEW g, NEW colour, NEW p, NEW position, NEW s,
         FrameIs(f, g, colour, p, position, s), Taken(PaletteFields, p, PaletteLen + 4),
         OptionTaken(PositionFields, position, 3),
         f.visible # Bad, f.blinking # Bad, f.password # Bad, f.shape # Bad,
         \A at \in ToSet(f.viewport) : at.tail # Bad
  PROVE  LET four == Join(Join(Join(p[PaletteLen + 1], p[PaletteLen + 2]), p[PaletteLen + 3]),
                          p[PaletteLen + 4])
         IN  \E vp : /\ PutCursor(f) = Join(Join(four, PutBool(f.viewport # <<>>)), vp)
                     /\ Present(PositionFields, position) = Join(PutBool(f.viewport # <<>>), vp)
                     /\ vp \in Seq(Byte) /\ Len(vp) = IF f.viewport # <<>> THEN 5 ELSE 0
<1> DEFINE a == p[PaletteLen + 1]
           b == p[PaletteLen + 2]
           d == p[PaletteLen + 3]
           e == p[PaletteLen + 4]
           at == CursorAt(position)
           vp == IF position = <<>> THEN <<>> ELSE Join(Join(position[1], position[2]), position[3])
<1>1. PaletteLen \in Nat
  BY PaletteFieldsAre
<1>2. /\ f.visible = Bool(a) /\ f.blinking = Bool(b) /\ f.password = Bool(d)
      /\ f.shape = Member(CursorShapes, e)
      /\ f.viewport = (IF position = <<>> THEN <<>> ELSE <<at>>)
  BY DEF FrameIs
<1>3. PutBool(f.visible) = a /\ PutBool(f.blinking) = b /\ PutBool(f.password) = d
  BY <1>2, SpellBool
<1>4. Tag(CursorShapes, f.shape) = e
  <2>1. Member(CursorShapes, e) # Bad /\ Len(CursorShapes) \in Nat
    BY <1>2, FrameTags
  <2>2. e \in Seq(Byte) /\ Len(e) = 1
    <3>1. f.palette \in Seq(Seq(Byte)) /\ Len(f.palette) = PaletteLen
          /\ Agree(p, f.palette, PaletteLen)
      BY DEF FrameIs
    <3> QED
      BY <3>1, PaletteSpelled
  <2> HIDE DEF e
  <2>3. Tag(CursorShapes, Member(CursorShapes, e)) = e
    BY <2>1, <2>2, FrameTags, SpellTag
  <2> QED
    BY <1>2, <2>3
<1>5. (f.viewport # <<>>) = (position # <<>>)
  BY <1>2
<1> HIDE DEF a, b, d, e, at
<1>6. PutCursor(f) = Join(Join(Join(Join(Join(a, b), d), e), PutBool(f.viewport # <<>>)), vp)
      /\ Present(PositionFields, position) = Join(PutBool(f.viewport # <<>>), vp)
      /\ vp \in Seq(Byte) /\ Len(vp) = IF f.viewport # <<>> THEN 5 ELSE 0
  <2>1. PutCursor(f) = Join(Join(Join(Join(Join(a, b), d), e), PutBool(f.viewport # <<>>)),
          IF f.viewport = <<>> THEN <<>>
          ELSE LET v == f.viewport[1] IN Join(Join(Put16(v.x), Put16(v.y)), PutBool(v.tail)))
    BY <1>3, <1>4, Zenon DEF PutCursor, Join
  <2>2. CASE position = <<>>
    <3>1. f.viewport = <<>> /\ vp = <<>>
      BY <1>2, <2>2
    <3>2. Present(PositionFields, position) = Join(PutBool(f.viewport # <<>>), <<>>)
      BY <1>5, <2>2, Zenon DEF Present
    <3>3. <<>> \in Seq(Byte) /\ Len(<<>>) = 0
      OBVIOUS
    <3>4. PutCursor(f) = Join(Join(Join(Join(Join(a, b), d), e), PutBool(f.viewport # <<>>)), <<>>)
      BY <2>1, <3>1, Zenon
    <3> HIDE DEF vp
    <3>5. PutCursor(f) = Join(Join(Join(Join(Join(a, b), d), e), PutBool(f.viewport # <<>>)), vp)
          /\ Present(PositionFields, position) = Join(PutBool(f.viewport # <<>>), vp)
      BY ONLY <3>1, <3>2, <3>4, Zenon
    <3>6. vp \in Seq(Byte) /\ Len(vp) = 0 /\ ~(f.viewport # <<>>)
      BY ONLY <3>1, <3>3
    <3> QED
      BY ONLY <3>5, <3>6
  <2>3. CASE position # <<>>
    <3>1. Taken(PositionFields, position, 3)
      BY <2>3 DEF OptionTaken
    <3> DEFINE x == position[1]
               y == position[2]
               t == position[3]
    <3>2. /\ Spelled(PositionFields, position) = Join(Join(x, y), t)
          /\ x \in Seq(Byte) /\ Len(x) = 2 /\ y \in Seq(Byte) /\ Len(y) = 2
          /\ t \in Seq(Byte) /\ Len(t) = 1
      BY <3>1, PositionSpelled
    <3>3. f.viewport = <<at>> /\ f.viewport # <<>> /\ f.viewport[1] = at
      BY <1>2, <2>3
    <3>4. at.x = Num(x) /\ at.y = Num(y) /\ at.tail = Bool(t)
      BY DEF at, CursorAt
    <3>5. at.tail # Bad
      <4>1. at \in ToSet(f.viewport)
        BY <3>3 DEF ToSet
      <4> QED
        BY <4>1
    <3> HIDE DEF x, y, t
    <3>6. Put16(at.x) = x /\ Put16(at.y) = y /\ PutBool(at.tail) = t
      BY <3>2, <3>4, <3>5, Spell16, SpellBool
    <3>7. vp = Join(Join(x, y), t)
      BY <2>3, Zenon DEF x, y, t
    <3>8. Present(PositionFields, position) = Join(PutBool(f.viewport # <<>>), vp)
      BY <1>5, <2>3, <3>2, <3>7, Zenon DEF Present
    <3> HIDE DEF vp
    <3>9. PutCursor(f) = Join(Join(Join(Join(Join(a, b), d), e), PutBool(f.viewport # <<>>)), vp)
      BY <2>1, <3>3, <3>6, <3>7, Zenon
    <3>10. /\ x \in Seq(Byte) /\ Len(x) = 2 /\ y \in Seq(Byte) /\ Len(y) = 2
           /\ t \in Seq(Byte) /\ Len(t) = 1
      BY ONLY <3>2
    <3>11. Join(Join(x, y), t) \in Seq(Byte) /\ Len(Join(Join(x, y), t)) = 5
      BY ONLY <3>10, JoinsThree
    <3>12. vp \in Seq(Byte) /\ Len(vp) = 5
      BY ONLY <3>7, <3>11, Zenon
    <3> QED
      BY ONLY <3>3, <3>8, <3>9, <3>12
  <2> QED
    BY <2>2, <2>3
<1> HIDE DEF vp
<1> QED
  BY <1>6 DEF a, b, d, e

\* The frame f is read from the bytes, and its head is valid.
FrameRead(bytes, f, head) ==
  LET f0 == FrameOf(head.got)
      rows == RowsOf(head, f0.cols, f0.count)
  IN  /\ head = ReadHead(bytes) /\ head # Bad
      /\ ValidHead(head.got, f0) /\ rows # Bad /\ f = [f0 EXCEPT !.lines = rows]

\* Only such bytes are decoded, and only within the largest frame.
LEMMA FrameDecodes ==
  ASSUME NEW bytes \in Seq(Byte), DecodeFrame(bytes) # Bad
  PROVE  /\ FrameRead(bytes, DecodeFrame(bytes), ReadHead(bytes))
         /\ Len(bytes) <= MaxFrameBytes
<1> DEFINE head == ReadHead(bytes)
           f0 == FrameOf(head.got)
           rows == RowsOf(head, f0.cols, f0.count)
           found == IF ValidHead(head.got, f0) THEN rows ELSE Bad
<1>1. DecodeFrame(bytes)
        = IF Len(bytes) > MaxFrameBytes THEN Bad
          ELSE IF head = Bad THEN Bad
          ELSE IF f0 = Bad THEN Bad
          ELSE IF found = Bad THEN Bad ELSE [f0 EXCEPT !.lines = found]
  BY Zenon DEF DecodeFrame, With
<1> HIDE DEF head, f0, rows
<1>2. /\ ~(Len(bytes) > MaxFrameBytes) /\ head # Bad /\ ValidHead(head.got, f0) /\ rows # Bad
      /\ DecodeFrame(bytes) = [f0 EXCEPT !.lines = rows]
  BY <1>1
<1>3. Len(bytes) <= MaxFrameBytes
  BY <1>2, FrameAssumption
<1> QED
  BY <1>2, <1>3, Zenon DEF FrameRead, head, f0, rows

\* The size of a frame without its rows is that of its head.
LEMMA HeadSize ==
  ASSUME NEW n \in Nat, NEW t \in Nat, NEW w \in Nat, NEW col \in BOOLEAN, NEW pos \in BOOLEAN,
         NEW title, NEW cwd, Len(title) = t, Len(cwd) = w,
         n = 19 + U64Bytes + (U32Bytes + t) + (U32Bytes + w) + 1 + (IF col THEN 3 ELSE 0)
               + 3 * PaletteLen + 4 + 1 + (IF pos THEN 5 ELSE 0) + U64Bytes + U64Bytes
  PROVE  SizeStart(title, cwd, col, pos) = n
<1>1. PaletteLen \in Nat /\ U64Bytes \in Nat /\ U32Bytes \in Nat
  BY PaletteFieldsAre, WireAssumption
<1> QED
  BY <1>1 DEF SizeStart, FrameFixedBytes

(***************************************************************************)
(* What a frame was decoded from is what it is encoded to.                 *)
(***************************************************************************)
LEMMA FramePieced ==
  ASSUME NEW bytes \in Seq(Byte), NEW f, NEW head, FrameRead(bytes, f, head)
  PROVE  \E x, b, c, F, four, fl, vp, l, h :
           /\ FramePieces(x, b, c, F, four, fl, vp, l, h, head.rest)
           /\ bytes = Join(x, Join(Join(b, c), Join(Join(F, four),
                        Join(Join(fl, vp), Join(Join(l, h), head.rest)))))
           /\ x = FrameMagic \o Put16(FrameVersion) \o Put64(f.revision)
                    \o Put16(f.cols) \o Put16(f.count) \o Tag(Screens, f.screen)
                    \o PutBytes(f.title) \o PutBytes(f.cwd)
                    \o PutBool(f.hyperlinks) \o PutBool(f.kitty)
                    \o f.background \o f.foreground
           /\ b = PutBool(f.colour # <<>>) /\ c = FlattenSeq(f.colour) /\ F = FlattenSeq(f.palette)
           /\ PutCursor(f) = Join(Join(four, fl), vp)
           /\ l = Put64(f.fromLive) /\ h = Put64(f.history)
           /\ SizeStart(f.title, f.cwd, f.colour # <<>>, f.viewport # <<>>)
                = HeadLen(x, b, c, F, four, fl, vp, l, h)
           /\ f.cols \in Nat /\ f.count \in Nat /\ f.revision \in Nat
<1> DEFINE f0 == FrameOf(head.got)
           rows == RowsOf(head, f0.cols, f0.count)
<1>1. /\ head = ReadHead(bytes) /\ head # Bad /\ ValidHead(head.got, f0)
      /\ f = [f0 EXCEPT !.lines = rows]
  BY DEF FrameRead
<1>2. PICK g, colour, p, position, s : HeadIs(bytes, head, g, colour, p, position, s)
  BY <1>1, HeadReads
<1>3. FrameIs(f0, g, colour, p, position, s)
  BY <1>2, FrameTaken
<1> HIDE DEF f0
<1>4. FrameIs(f, g, colour, p, position, s)
  BY <1>1, <1>3, FrameIsWithLines DEF f0
<1>5. /\ g[1] = FrameMagic /\ Num(g[2]) = FrameVersion
      /\ f.screen # Bad /\ f.hyperlinks # Bad /\ f.kitty # Bad /\ f.visible # Bad
      /\ f.blinking # Bad /\ f.password # Bad /\ f.shape # Bad
      /\ \A at \in ToSet(f.viewport) : at.tail # Bad
  <2>1. /\ head.got[1] = FrameMagic /\ Num(head.got[2]) = FrameVersion
        /\ Sound(<<f0.screen, f0.hyperlinks, f0.kitty, f0.visible, f0.blinking,
                   f0.password, f0.shape>>)
        /\ \A at \in ToSet(f0.viewport) : at.tail # Bad
    BY <1>1 DEF ValidHead
  <2>2. head.got[1] = g[1] /\ head.got[2] = g[2]
    BY <1>2 DEF HeadIs, Placed
  <2>3. /\ f.screen = f0.screen /\ f.hyperlinks = f0.hyperlinks /\ f.kitty = f0.kitty
        /\ f.visible = f0.visible /\ f.blinking = f0.blinking /\ f.password = f0.password
        /\ f.shape = f0.shape /\ f.viewport = f0.viewport
    BY ONLY <1>3, <1>4, Zenon DEF FrameIs
  <2> DEFINE parts == <<f0.screen, f0.hyperlinks, f0.kitty, f0.visible, f0.blinking,
                        f0.password, f0.shape>>
  <2>4. /\ Len(parts) = 7 /\ parts[1] = f0.screen /\ parts[2] = f0.hyperlinks
        /\ parts[3] = f0.kitty /\ parts[4] = f0.visible /\ parts[5] = f0.blinking
        /\ parts[6] = f0.password /\ parts[7] = f0.shape
    OBVIOUS
  <2> HIDE DEF parts
  <2>5. /\ f0.screen # Bad /\ f0.hyperlinks # Bad /\ f0.kitty # Bad /\ f0.visible # Bad
        /\ f0.blinking # Bad /\ f0.password # Bad /\ f0.shape # Bad
    <3>1. Sound(parts)
      BY <2>1, Zenon DEF parts
    <3>2. \A i \in 1 .. 7 : parts[i] # Bad
      BY ONLY <2>4, <3>1 DEF Sound
    <3> QED
      BY ONLY <2>4, <3>2
  <2> QED
    BY ONLY <2>1, <2>2, <2>3, <2>5
<1>6. /\ Taken(HeadFields, g, 12) /\ OptionTaken(<<3>>, colour, 1)
      /\ Taken(PaletteFields, p, PaletteLen + 4) /\ OptionTaken(PositionFields, position, 3)
      /\ Taken(ScrollFields, s, 2) /\ head.rest \in Seq(Byte)
      /\ bytes = Join(Spelled(HeadFields, g),
                   Join(Present(<<3>>, colour),
                     Join(Spelled(PaletteFields, p),
                       Join(Present(PositionFields, position),
                         Join(Spelled(ScrollFields, s), head.rest)))))
  BY <1>2 DEF HeadIs, IsReader
<1>7. /\ FrameMagic = g[1] /\ Put16(FrameVersion) = g[2] /\ Put64(f.revision) = g[3]
      /\ Put16(f.cols) = g[4] /\ Put16(f.count) = g[5] /\ Tag(Screens, f.screen) = g[6]
      /\ f.title = g[7] /\ f.cwd = g[8]
      /\ PutBool(f.hyperlinks) = g[9] /\ PutBool(f.kitty) = g[10]
      /\ f.background = g[11] /\ f.foreground = g[12]
      /\ f.cols \in Nat /\ f.count \in Nat /\ f.revision \in Nat
  BY ONLY <1>4, <1>5, <1>6, HeadPut
<1>8. /\ Spelled(HeadFields, g) = HeadJoined(g) /\ HeadJoined(g) \in Seq(Byte)
      /\ Len(HeadJoined(g)) = 19 + U64Bytes + (U32Bytes + Len(g[7])) + (U32Bytes + Len(g[8]))
  BY ONLY <1>6, HeadSpelled
<1> DEFINE x == HeadJoined(g)
           b == PutBool(f.colour # <<>>)
           c == FlattenSeq(f.colour)
           F == FlattenSeq(f.palette)
           four == Join(Join(Join(p[PaletteLen + 1], p[PaletteLen + 2]), p[PaletteLen + 3]),
                        p[PaletteLen + 4])
           fl == PutBool(f.viewport # <<>>)
           l == Put64(f.fromLive)
           h == Put64(f.history)
<1>9. x = FrameMagic \o Put16(FrameVersion) \o Put64(f.revision)
            \o Put16(f.cols) \o Put16(f.count) \o Tag(Screens, f.screen)
            \o PutBytes(f.title) \o PutBytes(f.cwd)
            \o PutBool(f.hyperlinks) \o PutBool(f.kitty)
            \o f.background \o f.foreground
  BY ONLY <1>7, Zenon DEF HeadJoined, Join
<1>10. f.colour = colour
  BY <1>4 DEF FrameIs
<1>11. /\ Present(<<3>>, colour) = Join(b, c) /\ c \in Seq(Byte)
       /\ Len(c) = IF f.colour # <<>> THEN 3 ELSE 0
  BY <1>6, <1>10, ColourSpelled
<1>12. \A t \in BOOLEAN : PutBool(t) \in Seq(Byte) /\ Len(PutBool(t)) = 1
  <2>1. <<0>> \in Seq(Byte) /\ <<1>> \in Seq(Byte) /\ Len(<<0>>) = 1 /\ Len(<<1>>) = 1
    BY DEF Byte
  <2> QED
    BY <2>1 DEF PutBool
<1>13. /\ Spelled(PaletteFields, p)
            = Join(Join(Join(Join(F, p[PaletteLen + 1]), p[PaletteLen + 2]), p[PaletteLen + 3]),
                   p[PaletteLen + 4])
       /\ F \in Seq(Byte) /\ Len(F) = 3 * PaletteLen
       /\ p[PaletteLen + 1] \in Seq(Byte) /\ Len(p[PaletteLen + 1]) = 1
       /\ p[PaletteLen + 2] \in Seq(Byte) /\ Len(p[PaletteLen + 2]) = 1
       /\ p[PaletteLen + 3] \in Seq(Byte) /\ Len(p[PaletteLen + 3]) = 1
       /\ p[PaletteLen + 4] \in Seq(Byte) /\ Len(p[PaletteLen + 4]) = 1
  <2>1. f.palette \in Seq(Seq(Byte)) /\ Len(f.palette) = PaletteLen
        /\ Agree(p, f.palette, PaletteLen)
    BY <1>4 DEF FrameIs
  <2> QED
    BY <1>6, <2>1, PaletteSpelled
<1>14. Spelled(PaletteFields, p) = Join(F, four) /\ four \in Seq(Byte) /\ Len(four) = 4
  <2> DEFINE q1 == p[PaletteLen + 1]
             q2 == p[PaletteLen + 2]
             q3 == p[PaletteLen + 3]
             q4 == p[PaletteLen + 4]
  <2>1. /\ Spelled(PaletteFields, p) = Join(Join(Join(Join(F, q1), q2), q3), q4)
        /\ F \in Seq(Byte) /\ q1 \in Seq(Byte) /\ Len(q1) = 1 /\ q2 \in Seq(Byte) /\ Len(q2) = 1
        /\ q3 \in Seq(Byte) /\ Len(q3) = 1 /\ q4 \in Seq(Byte) /\ Len(q4) = 1
    BY ONLY <1>13, Zenon
  <2>2. four = Join(Join(Join(q1, q2), q3), q4)
    OBVIOUS
  <2> HIDE DEF F, q1, q2, q3, q4, four
  <2>3. /\ Join(Join(Join(Join(F, q1), q2), q3), q4) = Join(F, Join(Join(Join(q1, q2), q3), q4))
        /\ Join(Join(Join(q1, q2), q3), q4) \in Seq(Byte)
        /\ Len(Join(Join(Join(q1, q2), q3), q4)) = 4
    BY ONLY <2>1, JoinsFive
  <2> QED
    BY ONLY <2>1, <2>2, <2>3, Zenon
<1>15. PICK vp : /\ PutCursor(f) = Join(Join(four, fl), vp)
                 /\ Present(PositionFields, position) = Join(fl, vp)
                 /\ vp \in Seq(Byte) /\ Len(vp) = IF f.viewport # <<>> THEN 5 ELSE 0
  BY ONLY <1>4, <1>5, <1>6, CursorPut
<1>16. Spelled(ScrollFields, s) = Join(l, h) /\ l \in Seq(Byte) /\ h \in Seq(Byte)
       /\ Len(l) = U64Bytes /\ Len(h) = U64Bytes
  <2>1. ScrollFields[1] = U64Bytes /\ ScrollFields[2] = U64Bytes /\ U64Bytes \in Nat \ {0}
    BY WireAssumption DEF ScrollFields
  <2>2. /\ Spelled(ScrollFields, s) = Join(s[1], s[2])
        /\ s[1] \in Seq(Byte) /\ Len(s[1]) = ScrollFields[1]
        /\ s[2] \in Seq(Byte) /\ Len(s[2]) = ScrollFields[2]
    BY <1>6, <2>1, TwoSpelled
  <2>3. f.fromLive = Num(s[1]) /\ f.history = Num(s[2])
    BY <1>4 DEF FrameIs
  <2>4. Put64(Num(s[1])) = s[1] /\ Put64(Num(s[2])) = s[2]
    BY <2>1, <2>2, Spell64
  <2> QED
    BY <2>1, <2>2, <2>3, <2>4
<1>17. bytes = Join(x, Join(Join(b, c), Join(Join(F, four),
                 Join(Join(fl, vp), Join(Join(l, h), head.rest)))))
  BY ONLY <1>6, <1>8, <1>11, <1>14, <1>15, <1>16, Zenon
<1>18. /\ b \in Seq(Byte) /\ Len(b) = 1 /\ fl \in Seq(Byte) /\ Len(fl) = 1
  <2>1. (f.colour # <<>>) \in BOOLEAN /\ (f.viewport # <<>>) \in BOOLEAN
    OBVIOUS
  <2> QED
    BY <1>12, <2>1
<1>19. FramePieces(x, b, c, F, four, fl, vp, l, h, head.rest)
  BY ONLY <1>6, <1>8, <1>11, <1>13, <1>14, <1>15, <1>16, <1>18, Zenon DEF FramePieces
<1>20. SizeStart(f.title, f.cwd, f.colour # <<>>, f.viewport # <<>>)
         = Len(x) + Len(b) + Len(c) + Len(F) + Len(four) + Len(fl) + Len(vp) + Len(l) + Len(h)
  <2> DEFINE t == Len(f.title)
             w == Len(f.cwd)
             col == f.colour # <<>>
             pos == f.viewport # <<>>
             n == Len(x) + Len(b) + Len(c) + Len(F) + Len(four) + Len(fl) + Len(vp)
                    + Len(l) + Len(h)
  <2>1. t \in Nat /\ w \in Nat
    <3>1. \A i \in 1 .. 12 : g[i] \in Seq(Byte)
      BY <1>6, HeadTakenType
    <3>2. g[7] \in Seq(Byte) /\ g[8] \in Seq(Byte)
      BY ONLY <3>1
    <3>3. Len(g[7]) \in Nat /\ Len(g[8]) \in Nat
      BY ONLY <3>2
    <3> QED
      BY <1>7, <3>3
  <2>2. /\ Len(x) = 19 + U64Bytes + (U32Bytes + t) + (U32Bytes + w)
        /\ Len(c) = (IF col THEN 3 ELSE 0) /\ Len(vp) = (IF pos THEN 5 ELSE 0)
        /\ Len(b) = 1 /\ Len(fl) = 1 /\ Len(F) = 3 * PaletteLen /\ Len(four) = 4
        /\ Len(l) = U64Bytes /\ Len(h) = U64Bytes
    BY ONLY <1>7, <1>8, <1>11, <1>13, <1>14, <1>15, <1>16, <1>18, Zenon
  <2>3. col \in BOOLEAN /\ pos \in BOOLEAN
    OBVIOUS
  <2>4. PaletteLen \in Nat /\ U64Bytes \in Nat /\ U32Bytes \in Nat
    BY PaletteFieldsAre, WireAssumption
  <2> HIDE DEF col, pos, x, b, c, F, four, fl, l, h
  <2> DEFINE title == f.title
             cwd == f.cwd
  <2>5. Len(title) = t /\ Len(cwd) = w
    OBVIOUS
  <2> HIDE DEF title, cwd, t, w
  <2>6. n = 19 + U64Bytes + (U32Bytes + t) + (U32Bytes + w) + 1 + (IF col THEN 3 ELSE 0)
               + 3 * PaletteLen + 4 + 1 + (IF pos THEN 5 ELSE 0) + U64Bytes + U64Bytes
    BY ONLY <2>1, <2>2, <2>4
  <2>7. n \in Nat
    BY ONLY <2>1, <2>3, <2>4, <2>6
  <2> HIDE DEF n
  <2>8. SizeStart(title, cwd, col, pos) = n
    BY ONLY <2>1, <2>3, <2>5, <2>6, <2>7, HeadSize
  <2> QED
    BY <2>8 DEF n, title, cwd, col, pos
<1> HIDE DEF x, b, c, F, four, fl, l, h
<1> QED
  <2>1. b = PutBool(f.colour # <<>>) /\ c = FlattenSeq(f.colour) /\ F = FlattenSeq(f.palette)
    BY DEF b, c, F
  <2>2. l = Put64(f.fromLive) /\ h = Put64(f.history)
    BY DEF l, h
  <2>3. SizeStart(f.title, f.cwd, f.colour # <<>>, f.viewport # <<>>)
          = HeadLen(x, b, c, F, four, fl, vp, l, h)
    BY ONLY <1>20, Zenon DEF HeadLen
  <2> QED
    BY ONLY <1>7, <1>9, <1>15, <1>17, <1>19, <2>1, <2>2, <2>3, ZenonT(60)

\* FrameSize counts the bytes a frame is read from, and they are what it is encoded to
\* when there are not too many.
LEMMA FrameWhole ==
  ASSUME NEW bytes \in Seq(Byte), NEW f, NEW head, FrameRead(bytes, f, head)
  PROVE  /\ FrameSize(f) = Len(bytes)
         /\ Len(bytes) <= MaxFrameBytes => ValidFrame(f)
         /\ ValidFrame(f) => EncodeFrame(f) = bytes
         /\ f.revision \in Nat /\ f.cols \in Nat /\ f.count \in Nat
<1> DEFINE f0 == FrameOf(head.got)
           rows == RowsOf(head, f0.cols, f0.count)
<1>1. FrameRead(bytes, f, head)
  OBVIOUS
<1>2. /\ ValidHead(head.got, f0) /\ rows # Bad
      /\ f = [f0 EXCEPT !.lines = rows]
  BY <1>1 DEF FrameRead
<1> HIDE DEF f0, rows
<1>3. PICK x, b, c, F, four, fl, vp, l, h :
           /\ FramePieces(x, b, c, F, four, fl, vp, l, h, head.rest)
           /\ bytes = Join(x, Join(Join(b, c), Join(Join(F, four),
                        Join(Join(fl, vp), Join(Join(l, h), head.rest)))))
           /\ x = FrameMagic \o Put16(FrameVersion) \o Put64(f.revision)
                    \o Put16(f.cols) \o Put16(f.count) \o Tag(Screens, f.screen)
                    \o PutBytes(f.title) \o PutBytes(f.cwd)
                    \o PutBool(f.hyperlinks) \o PutBool(f.kitty)
                    \o f.background \o f.foreground
           /\ b = PutBool(f.colour # <<>>) /\ c = FlattenSeq(f.colour) /\ F = FlattenSeq(f.palette)
           /\ PutCursor(f) = Join(Join(four, fl), vp)
           /\ l = Put64(f.fromLive) /\ h = Put64(f.history)
           /\ SizeStart(f.title, f.cwd, f.colour # <<>>, f.viewport # <<>>)
                = HeadLen(x, b, c, F, four, fl, vp, l, h)
           /\ f.cols \in Nat /\ f.count \in Nat /\ f.revision \in Nat
  BY <1>1, FramePieced
<1> DEFINE R == head.rest
           cursor == Join(Join(four, fl), vp)
           start == SizeStart(f.title, f.cwd, f.colour # <<>>, f.viewport # <<>>)
<1>4. /\ bytes = Join(Join(Join(Join(Join(Join(Join(x, b), c), F), cursor), l), h), R)
      /\ Len(bytes) = FrameLen(x, b, c, F, four, fl, vp, l, h, R)
  BY ONLY <1>3, FrameJoins
<1>5. R \in Seq(Byte) /\ Len(R) \in Nat /\ start \in Nat /\ Len(bytes) = start + Len(R)
  <2>1. /\ x \in Seq(Byte) /\ b \in Seq(Byte) /\ c \in Seq(Byte) /\ F \in Seq(Byte)
        /\ four \in Seq(Byte) /\ fl \in Seq(Byte) /\ vp \in Seq(Byte) /\ l \in Seq(Byte)
        /\ h \in Seq(Byte) /\ R \in Seq(Byte)
    BY <1>3 DEF FramePieces
  <2> HIDE DEF R
  <2>2. /\ Len(x) \in Nat /\ Len(b) \in Nat /\ Len(c) \in Nat /\ Len(F) \in Nat /\ Len(four) \in Nat
        /\ Len(fl) \in Nat /\ Len(vp) \in Nat /\ Len(l) \in Nat /\ Len(h) \in Nat /\ Len(R) \in Nat
    BY ONLY <2>1
  <2>3. start = Len(x) + Len(b) + Len(c) + Len(F) + Len(four) + Len(fl) + Len(vp)
                    + Len(l) + Len(h)
    BY ONLY <1>3, Zenon DEF start, HeadLen
  <2>4. Len(bytes) = Len(x) + Len(b) + Len(c) + Len(F) + Len(four) + Len(fl) + Len(vp)
                        + Len(l) + Len(h) + Len(R)
    BY ONLY <1>4, Zenon DEF R, FrameLen, HeadLen
  <2> HIDE DEF start
  <2> QED
    BY ONLY <2>1, <2>2, <2>3, <2>4
<1> DEFINE e == FrameOf(head.got)
<1>6. /\ f.cols = f0.cols /\ f.count = f0.count /\ f.hyperlinks = f0.hyperlinks
      /\ f.kitty = f0.kitty /\ f.fromLive = f0.fromLive /\ f.history = f0.history
      /\ f.screen = f0.screen /\ f.viewport = f0.viewport /\ f.lines = rows
  <2>1. PICK g, colour, p, position, s : HeadIs(bytes, head, g, colour, p, position, s)
    BY <1>1, HeadReads DEF FrameRead
  <2>2. FrameIs(f0, g, colour, p, position, s)
    BY <2>1, FrameTaken DEF f0
  <2>3. FrameIs(f, g, colour, p, position, s) /\ f.lines = rows
    BY <1>2, <2>2, FrameIsWithLines DEF f0
  <2> QED
    BY ONLY <2>2, <2>3, Zenon DEF FrameIs
<1> HIDE DEF start, cursor
<1>7. /\ PutRows(rows) = R /\ Len(rows) = f.count /\ IsSeq(rows) /\ RowsSound(rows, f.cols)
      /\ SizeOfRows(start, rows) = start + Len(R)
  <2>1. RowsOf(head, f.cols, f.count) = rows
    BY <1>6 DEF rows
  <2>2. head.rest \in Seq(Byte) /\ f.cols \in Nat /\ f.count \in Nat /\ start \in Nat
    BY <1>3, <1>5
  <2> QED
    BY <1>2, <2>1, <2>2, RowsSpelled
<1>8. FrameSize(f) = Len(bytes)
  BY <1>5, <1>6, <1>7, Zenon DEF FrameSize, start
<1>9. ASSUME Len(bytes) <= MaxFrameBytes
      PROVE  ValidFrame(f)
  <2>1. /\ ValidDimensions(f0.cols, f0.count) /\ ValidCapabilities(f0) /\ ValidCursor(f0)
        /\ ValidScrollPosition(f0)
    BY <1>2 DEF ValidHead
  <2>2. ValidDimensions(f.cols, f.count)
    BY <1>6, <2>1
  <2>3. ValidCapabilities(f)
    BY <1>6, <2>1 DEF ValidCapabilities
  <2>4. ValidCursor(f)
    BY <1>6, <2>1 DEF ValidCursor
  <2>5. ValidScrollPosition(f)
    BY <1>6, <2>1 DEF ValidScrollPosition
  <2>6. \A row \in ToSet(f.lines) : ValidRow(row, f.cols)
    <3>1. \A i \in 1 .. Len(rows) : ValidRow(rows[i], f.cols)
      BY <1>7 DEF RowsSound, RowSound
    <3>2. ASSUME NEW row \in ToSet(rows)
          PROVE  ValidRow(row, f.cols)
      <4>1. PICK i \in 1 .. Len(rows) : row = rows[i]
        <5>1. PICK i \in DOMAIN rows : row = rows[i]
          BY DEF ToSet
        <5>2. DOMAIN rows = 1 .. Len(rows)
          BY <1>7 DEF IsSeq
        <5> QED
          BY <5>1, <5>2
      <4> QED
        BY <3>1, <4>1
    <3> QED
      BY <1>6, <3>2
  <2>8. FrameSize(f) <= MaxFrameBytes
    BY <1>9, <1>8
  <2>9. Len(f.lines) = f.count
    BY <1>6, <1>7
  <2> QED
    BY <2>2, <2>3, <2>4, <2>5, <2>6, <2>8, <2>9 DEF ValidFrame
<1>10. ASSUME ValidFrame(f)
      PROVE  EncodeFrame(f) = bytes
  <2>1. EncodeFrame(f)
          = FrameMagic \o Put16(FrameVersion) \o Put64(f.revision)
              \o Put16(f.cols) \o Put16(f.count) \o Tag(Screens, f.screen)
              \o PutBytes(f.title) \o PutBytes(f.cwd)
              \o PutBool(f.hyperlinks) \o PutBool(f.kitty)
              \o f.background \o f.foreground
              \o PutBool(f.colour # <<>>) \o FlattenSeq(f.colour)
              \o FlattenSeq(f.palette) \o PutCursor(f)
              \o Put64(f.fromLive) \o Put64(f.history)
              \o PutRows(f.lines)
    BY <1>10, Zenon DEF EncodeFrame
  <2>2. EncodeFrame(f)
          = x \o b \o c \o F \o cursor \o l \o h \o R
    BY ONLY <1>3, <1>6, <1>7, <2>1, Zenon DEF cursor
  <2> QED
    BY ONLY <1>4, <2>2, Zenon DEF Join
<1> QED
  BY <1>3, <1>9, <1>10, <1>8

(***************************************************************************)
(* A frame is decoded (decode_frame) only from the bytes that encoding it  *)
(* yields: there is one spelling of a frame.  It passes validate_frame,    *)
(* with the size that FrameSize counts, although the decoder counts none.  *)
(***************************************************************************)
THEOREM FrameValid ==
  ASSUME NEW bytes \in Seq(Byte), DecodeFrame(bytes) # Bad
  PROVE  LET f == DecodeFrame(bytes)
         IN  /\ ValidFrame(f) /\ EncodeFrame(f) = bytes
             /\ f.revision \in Nat /\ f.cols \in Nat /\ f.count \in Nat
<1> DEFINE f == DecodeFrame(bytes)
           head == ReadHead(bytes)
<1>1. FrameRead(bytes, f, head) /\ Len(bytes) <= MaxFrameBytes
  BY FrameDecodes
<1> HIDE DEF f, head
<1> QED
  BY <1>1, FrameWhole DEF f

-----------------------------------------------------------------------------
(***************************************************************************)
(* Messages.                                                               *)
(***************************************************************************)
\* The bytes of a header lie one behind the other in front of the payload.
LEMMA HeaderJoins ==
  ASSUME NEW bytes \in Seq(Byte), Len(bytes) >= HeaderBytes
  PROVE  LET p == SubSeq(bytes, HeaderBytes + 1, Len(bytes))
             L == SubSeq(bytes, 9, HeaderBytes)
         IN  /\ bytes = Join(Join(Join(Join(SubSeq(bytes, 1, 4), SubSeq(bytes, 5, 6)),
                                       <<bytes[7], bytes[8]>>), L), p)
             /\ SubSeq(bytes, 5, 6) \in Seq(Byte) /\ Len(SubSeq(bytes, 5, 6)) = 2
             /\ L \in Seq(Byte) /\ Len(L) = U32Bytes
             /\ p \in Seq(Byte) /\ Len(p) = Len(bytes) - HeaderBytes
<1> DEFINE n == Len(bytes)
           H == HeaderBytes
<1>1. n \in Nat /\ H \in Nat /\ H >= 10 /\ H <= n /\ H = 8 + U32Bytes /\ U32Bytes \in Nat
  BY WireAssumption DEF HeaderBytes
<1> HIDE DEF H
<1>2. \A m \in 0 .. n : \A k \in m .. n :
        SubSeq(bytes, 1, m) \o SubSeq(bytes, m + 1, k) = SubSeq(bytes, 1, k)
  <2>1. SUFFICES ASSUME NEW m \in 0 .. n, NEW k \in m .. n
                 PROVE  SubSeq(bytes, 1, m) \o SubSeq(bytes, m + 1, k) = SubSeq(bytes, 1, k)
    OBVIOUS
  <2>2. 1 \in 1 .. Len(bytes) + 1 /\ m \in 1 - 1 .. Len(bytes) /\ k \in m .. Len(bytes)
    BY <1>1
  <2> QED
    BY <2>2, ConcatAdjacentSubSeq
<1>3. SubSeq(bytes, 1, 4) \o SubSeq(bytes, 5, 6) = SubSeq(bytes, 1, 6)
  <2>1. 4 \in 0 .. n /\ 6 \in 4 .. n /\ 4 + 1 = 5
    BY <1>1
  <2> QED
    BY <1>2, <2>1
<1>4. SubSeq(bytes, 1, 6) \o SubSeq(bytes, 7, 8) = SubSeq(bytes, 1, 8)
  <2>1. 6 \in 0 .. n /\ 8 \in 6 .. n /\ 6 + 1 = 7
    BY <1>1
  <2> QED
    BY <1>2, <2>1
<1>5. SubSeq(bytes, 1, 8) \o SubSeq(bytes, 9, H) = SubSeq(bytes, 1, H)
  <2>1. 8 \in 0 .. n /\ H \in 8 .. n /\ 8 + 1 = 9
    BY <1>1
  <2> QED
    BY <1>2, <2>1
<1>6. SubSeq(bytes, 1, H) \o SubSeq(bytes, H + 1, n) = bytes
  <2>1. H \in 0 .. n /\ n \in H .. n
    BY <1>1
  <2>2. SubSeq(bytes, 1, n) = bytes
    BY SubSeqFull
  <2> QED
    BY <1>2, <2>1, <2>2
<1>7. SubSeq(bytes, 7, 8) = <<bytes[7], bytes[8]>>
  <2> DEFINE t == SubSeq(bytes, 7, 8)
  <2>1. t \in Seq(Byte) /\ Len(t) = 2 /\ t[1] = bytes[7] /\ t[2] = bytes[8]
    BY <1>1
  <2> HIDE DEF t
  <2>2. t = <<t[1], t[2]>>
    BY <2>1
  <2> QED
    BY <2>1, <2>2, Zenon DEF t
<1>8. /\ SubSeq(bytes, 5, 6) \in Seq(Byte) /\ Len(SubSeq(bytes, 5, 6)) = 2
      /\ SubSeq(bytes, 9, H) \in Seq(Byte) /\ Len(SubSeq(bytes, 9, H)) = U32Bytes
      /\ SubSeq(bytes, H + 1, n) \in Seq(Byte) /\ Len(SubSeq(bytes, H + 1, n)) = n - H
  BY <1>1
<1>9. bytes = Join(Join(Join(Join(SubSeq(bytes, 1, 4), SubSeq(bytes, 5, 6)),
                             <<bytes[7], bytes[8]>>), SubSeq(bytes, 9, H)), SubSeq(bytes, H + 1, n))
  BY ONLY <1>3, <1>4, <1>5, <1>6, <1>7, Zenon DEF Join
<1> QED
  BY <1>8, <1>9 DEF H

\* Every kind has a least and a greatest payload.
LimitsAre(kinds, last, limits) ==
  \A i \in 1 .. last : kinds[i] # "" => limits[kinds[i]][1] \in Nat /\ limits[kinds[i]][2] \in Nat

\* The kind that a header names, the payload behind it, and what frames the two.
HeaderSays(bytes, kinds, first, last, limits) ==
  LET kind == KindOf(kinds, first, bytes[7])
      p == SubSeq(bytes, HeaderBytes + 1, Len(bytes))
  IN  /\ kind # Bad /\ bytes[7] - first \in 0 .. last - 1
      /\ kind = kinds[bytes[7] - first + 1] /\ kind # ""
      /\ p \in Seq(Byte) /\ p # Bad /\ Len(p) = Len(bytes) - HeaderBytes
      /\ Len(p) \in limits[kind][1] .. limits[kind][2]
      /\ Framed(kind, kinds, first, p, limits[kind]) = bytes

\* The message of that length is what its header and its payload are framed to.
LEMMA HeaderSpells ==
  ASSUME NEW bytes \in Seq(Byte), NEW kinds, NEW last \in Nat, Len(kinds) = last, Distinct(kinds),
         NEW first \in Nat, NEW limits, LimitsAre(kinds, last, limits),
         MessageLen(bytes, kinds, first, limits) = Len(bytes),
         MessageLen(bytes, kinds, first, limits) # Bad, Len(bytes) >= HeaderBytes
  PROVE  HeaderSays(bytes, kinds, first, last, limits)
<1> DEFINE kind == KindOf(kinds, first, bytes[7])
           p == SubSeq(bytes, HeaderBytes + 1, Len(bytes))
           L == SubSeq(bytes, 9, HeaderBytes)
           payload == Num(L)
           tag == bytes[7]
<1>0. HeaderBytes \in Nat /\ HeaderBytes >= 10 /\ Len(bytes) \in Nat
  BY WireAssumption DEF HeaderBytes
<1>1. /\ bytes = Join(Join(Join(Join(SubSeq(bytes, 1, 4), SubSeq(bytes, 5, 6)),
                                <<tag, bytes[8]>>), L), p)
      /\ SubSeq(bytes, 5, 6) \in Seq(Byte) /\ Len(SubSeq(bytes, 5, 6)) = 2
      /\ L \in Seq(Byte) /\ Len(L) = U32Bytes
      /\ p \in Seq(Byte) /\ Len(p) = Len(bytes) - HeaderBytes
  BY HeaderJoins
<1>2. MessageLen(bytes, kinds, first, limits) =
        IF Len(bytes) < HeaderBytes THEN Incomplete
        ELSE IF /\ SubSeq(bytes, 1, 4) = SessionMagic
                /\ Num(SubSeq(bytes, 5, 6)) = SessionVersion
                /\ bytes[8] = 0
                /\ kind # Bad
             THEN Checked(HeaderBytes + payload, Within(payload, limits[kind]))
             ELSE Bad
  BY DEF MessageLen
<1>3. ~(Len(bytes) < HeaderBytes)
  BY <1>0
<1>4. /\ SubSeq(bytes, 1, 4) = SessionMagic /\ Num(SubSeq(bytes, 5, 6)) = SessionVersion
      /\ bytes[8] = 0 /\ kind # Bad
      /\ Within(payload, limits[kind]) /\ HeaderBytes + payload = Len(bytes)
  BY <1>2, <1>3 DEF Checked
<1>5. payload \in Nat
  BY <1>1, NumIsNat
<1> HIDE DEF payload
<1>6. payload = Len(p)
  BY <1>0, <1>1, <1>4, <1>5
<1>7. kind = IF tag - first \in 0 .. (Len(kinds) - 1) /\ kinds[tag - first + 1] # ""
             THEN kinds[tag - first + 1] ELSE Bad
  BY DEF KindOf
<1> HIDE DEF kind
<1>8. tag - first \in 0 .. last - 1 /\ kind = kinds[tag - first + 1] /\ kind # ""
  BY <1>4, <1>7
<1>9. tag \in Nat
  BY <1>0, BytesAreNats
<1>10. first + (CHOOSE i \in 1 .. Len(kinds) : kinds[i] = kind) - 1 = tag
  <2> DEFINE k == tag - first + 1
  <2> HIDE DEF tag
  <2>1. k \in 1 .. last /\ kinds[k] = kind
    <3>1. tag - first \in 0 .. last - 1 /\ tag \in Nat /\ first \in Nat /\ last \in Nat
      BY <1>8, <1>9
    <3>2. k \in 1 .. last
      BY ONLY <3>1
    <3> QED
      BY <1>8, <3>2
  <2>2. \A i \in 1 .. last : kinds[i] = kind => i = k
    BY <2>1 DEF Distinct
  <2>3. first + k - 1 = tag
    BY <1>9
  <2> HIDE DEF k
  <2>4. (CHOOSE i \in 1 .. Len(kinds) : kinds[i] = kind) = k
    BY <2>1, <2>2
  <2> QED
    BY ONLY <2>3, <2>4, Zenon
<1>11. Put16(SessionVersion) = SubSeq(bytes, 5, 6)
  BY <1>1, <1>4, Spell16
<1>12. Put32(Len(p)) = L
  BY <1>1, <1>6, Spell32 DEF payload
<1>13. p # Bad
  BY <1>1, BadAssumption
<1>14. Len(p) \in limits[kind][1] .. limits[kind][2]
  BY <1>4, <1>6 DEF Within
<1> DEFINE body == SessionMagic \o Put16(SessionVersion)
                     \o <<first + (CHOOSE i \in 1 .. Len(kinds) : kinds[i] = kind) - 1, 0>>
                     \o Put32(Len(p)) \o p
<1>15. body = bytes
  <2> HIDE DEF p, L, tag
  <2>1. body = Join(Join(Join(Join(SessionMagic, Put16(SessionVersion)), <<tag, 0>>),
                         Put32(Len(p))), p)
    BY ONLY <1>10, Zenon DEF Join
  <2> HIDE DEF body
  <2> QED
    BY ONLY <1>1, <1>4, <1>11, <1>12, <2>1, Zenon
<1>16. Framed(kind, kinds, first, p, limits[kind]) = bytes
  <2>1. Framed(kind, kinds, first, p, limits[kind])
          = IF p = Bad THEN Bad ELSE IF Len(p) <= limits[kind][2] THEN body ELSE Bad
    BY Zenon DEF Framed, Checked
  <2>2. Len(p) <= limits[kind][2]
    <3> DEFINE a == limits[kind][1]
               b == limits[kind][2]
    <3>1. tag - first + 1 \in 1 .. last
      <4> HIDE DEF tag
      <4>1. tag - first \in 0 .. last - 1 /\ tag \in Nat /\ first \in Nat /\ last \in Nat
        BY <1>8, <1>9
      <4> QED
        BY ONLY <4>1
    <3>2. a \in Nat /\ b \in Nat
      BY <1>8, <3>1 DEF LimitsAre
    <3>3. Len(p) \in a .. b
      BY <1>14
    <3>4. Len(p) <= b
      <4> DEFINE size == Len(p)
      <4>1. size \in a .. b
        BY <3>3
      <4> HIDE DEF a, b, size
      <4>2. size <= b
        BY ONLY <3>2, <4>1
      <4> QED
        BY <4>2 DEF size
    <3> QED
      BY <3>4 DEF b
  <2> HIDE DEF body, p
  <2> QED
    BY <1>13, <1>15, <2>1, <2>2
<1> QED
  BY <1>1, <1>4, <1>8, <1>13, <1>14, <1>16, Zenon DEF kind, tag, HeaderSays

\* What is read with nothing left over is all there was.
LEMMA AllRead ==
  ASSUME NEW bytes \in Seq(Byte), NEW fields, NEW n \in Nat, n # 0, AreFields(fields, n),
         Read(Reader(bytes), fields) # Bad, Read(Reader(bytes), fields).rest = <<>>
  PROVE  LET g == Read(Reader(bytes), fields).got
         IN  Taken(fields, g, n) /\ bytes = Spelled(fields, g)
<1> DEFINE q == Read(Reader(bytes), fields)
           g == q.got
<1>1. q.rest = <<>>
  OBVIOUS
<1>2. Taken(fields, g, n) /\ bytes = Join(Spelled(fields, g), q.rest)
  BY ReadAll
<1> HIDE DEF q, g
<1>3. Taken(fields, g, n) /\ bytes = Join(Spelled(fields, g), <<>>)
  BY ONLY <1>1, <1>2, Zenon
<1>4. Spelled(fields, g) \in Seq(Byte)
  <2>1. PICK h : h[n] = Spelled(fields, g)
                 /\ \A i \in 1 .. n : h[i] \in Seq(Byte) /\ Spelt(fields[i], g[i]) \in Seq(Byte)
    BY <1>3, SpelledFields
  <2>2. n \in 1 .. n
    OBVIOUS
  <2> QED
    BY <2>1, <2>2
<1>5. Join(Spelled(fields, g), <<>>) = Spelled(fields, g)
  BY <1>4, ConcatEmptySeq DEF Join
<1> QED
  BY <1>3, <1>5, Zenon DEF g, q

\* The fields of a payload are all of it.
LEMMA FieldsAll ==
  ASSUME NEW bytes \in Seq(Byte), NEW fields, NEW n \in Nat, n # 0, AreFields(fields, n),
         Fields(bytes, fields) # Bad
  PROVE  /\ Taken(fields, Fields(bytes, fields), n)
         /\ bytes = Spelled(fields, Fields(bytes, fields))
<1> DEFINE q == Read(Reader(bytes), fields)
<1>1. q # Bad /\ q.rest = <<>> /\ Fields(bytes, fields) = q.got
  BY DEF Fields, With, Checked
<1> QED
  BY <1>1, AllRead

\* What is read up to all that remains is all there was.
LEMMA ReadsAll ==
  ASSUME NEW bytes \in Seq(Byte), NEW fields, NEW n \in Nat, n # 0, AreFields(fields, n),
         fields[n] = Remains, Read(Reader(bytes), fields) # Bad
  PROVE  LET g == Read(Reader(bytes), fields).got
         IN  Taken(fields, g, n) /\ bytes = Spelled(fields, g)
<1>1. Read(Reader(bytes), fields).rest = <<>>
  BY ReadAll
<1> QED
  BY <1>1, AllRead

\* A field of a width, or all that remains, is spelt as it is.
LEMMA SpeltPlain == \A f, g : f # Prefixed => Spelt(f, g) = g
BY DEF Spelt

\* The fields that were taken are bytes of their widths.
LEMMA FieldsTaken ==
  ASSUME NEW fields, NEW g, NEW n \in Nat, Taken(fields, g, n)
  PROVE  /\ \A i \in 1 .. n : g[i] \in Seq(Byte)
         /\ \A i \in 1 .. n : fields[i] \in Nat \ {0} => Len(g[i]) = fields[i]
BY FieldBytes DEF Taken

\* Two fields, spelt.
LEMMA SpelledTwo ==
  ASSUME NEW fields, NEW g, Taken(fields, g, 2)
  PROVE  Spelled(fields, g)
           = Join(Spelt(fields[1], g[1]), Spelt(fields[2], g[2]))
<1>1. PICK h : /\ h[1] = Spelt(fields[1], g[1])
               /\ \A i \in 2 .. 2 : h[i] = Join(h[i - 1], Spelt(fields[i], g[i]))
               /\ h[2] = Spelled(fields, g)
  <2>1. 2 \in Nat /\ 2 # 0
    OBVIOUS
  <2> QED
    BY <2>1, SpelledFields
<1>2. /\ h[2] = Join(h[1], Spelt(fields[2], g[2]))
  BY ONLY <1>1
<1> QED
  BY ONLY <1>1, <1>2, Zenon

\* Three fields, spelt.
LEMMA SpelledThree ==
  ASSUME NEW fields, NEW g, Taken(fields, g, 3)
  PROVE  Spelled(fields, g)
           = Join(Join(Spelt(fields[1], g[1]), Spelt(fields[2], g[2])), Spelt(fields[3], g[3]))
<1>1. PICK h : /\ h[1] = Spelt(fields[1], g[1])
               /\ \A i \in 2 .. 3 : h[i] = Join(h[i - 1], Spelt(fields[i], g[i]))
               /\ h[3] = Spelled(fields, g)
  <2>1. 3 \in Nat /\ 3 # 0
    OBVIOUS
  <2> QED
    BY <2>1, SpelledFields
<1>2. /\ h[2] = Join(h[1], Spelt(fields[2], g[2]))
      /\ h[3] = Join(h[2], Spelt(fields[3], g[3]))
  BY ONLY <1>1
<1> QED
  BY ONLY <1>1, <1>2, Zenon

\* Four fields, spelt.
LEMMA SpelledFour ==
  ASSUME NEW fields, NEW g, Taken(fields, g, 4)
  PROVE  Spelled(fields, g)
           = Join(Join(Join(Spelt(fields[1], g[1]), Spelt(fields[2], g[2])),
                       Spelt(fields[3], g[3])), Spelt(fields[4], g[4]))
<1>1. PICK h : /\ h[1] = Spelt(fields[1], g[1])
               /\ \A i \in 2 .. 4 : h[i] = Join(h[i - 1], Spelt(fields[i], g[i]))
               /\ h[4] = Spelled(fields, g)
  <2>1. 4 \in Nat /\ 4 # 0
    OBVIOUS
  <2> QED
    BY <2>1, SpelledFields
<1>2. /\ h[2] = Join(h[1], Spelt(fields[2], g[2]))
      /\ h[3] = Join(h[2], Spelt(fields[3], g[3]))
      /\ h[4] = Join(h[3], Spelt(fields[4], g[4]))
  BY ONLY <1>1
<1> QED
  BY ONLY <1>1, <1>2, Zenon

\* Five fields, spelt.
LEMMA SpelledFive ==
  ASSUME NEW fields, NEW g, Taken(fields, g, 5)
  PROVE  Spelled(fields, g)
           = Join(Join(Join(Join(Spelt(fields[1], g[1]), Spelt(fields[2], g[2])),
                 Spelt(fields[3], g[3])), Spelt(fields[4], g[4])), Spelt(fields[5], g[5]))
<1>1. PICK h : /\ h[1] = Spelt(fields[1], g[1])
               /\ \A i \in 2 .. 5 : h[i] = Join(h[i - 1], Spelt(fields[i], g[i]))
               /\ h[5] = Spelled(fields, g)
  <2>1. 5 \in Nat /\ 5 # 0
    OBVIOUS
  <2> QED
    BY <2>1, SpelledFields
<1>2. /\ h[2] = Join(h[1], Spelt(fields[2], g[2]))
      /\ h[3] = Join(h[2], Spelt(fields[3], g[3]))
      /\ h[4] = Join(h[3], Spelt(fields[4], g[4]))
      /\ h[5] = Join(h[4], Spelt(fields[5], g[5]))
  BY ONLY <1>1
<1> QED
  BY ONLY <1>1, <1>2, Zenon

\* Ten fields, spelt.
LEMMA SpelledTen ==
  ASSUME NEW fields, NEW g, Taken(fields, g, 10)
  PROVE  Spelled(fields, g)
           = Join(Join(Join(Join(Join(Join(Join(Join(Join(Spelt(fields[1], g[1]),
                 Spelt(fields[2], g[2])), Spelt(fields[3], g[3])), Spelt(fields[4], g[4])),
                 Spelt(fields[5], g[5])), Spelt(fields[6], g[6])), Spelt(fields[7], g[7])),
                 Spelt(fields[8], g[8])), Spelt(fields[9], g[9])), Spelt(fields[10], g[10]))
<1>1. PICK h : /\ h[1] = Spelt(fields[1], g[1])
               /\ \A i \in 2 .. 10 : h[i] = Join(h[i - 1], Spelt(fields[i], g[i]))
               /\ h[10] = Spelled(fields, g)
  <2>1. 10 \in Nat /\ 10 # 0
    OBVIOUS
  <2> QED
    BY <2>1, SpelledFields
<1>2. /\ h[1] = Spelt(fields[1], g[1])
      /\ h[2] = Join(h[1], Spelt(fields[2], g[2]))
      /\ h[3] = Join(h[2], Spelt(fields[3], g[3]))
      /\ h[4] = Join(h[3], Spelt(fields[4], g[4]))
      /\ h[5] = Join(h[4], Spelt(fields[5], g[5]))
  BY ONLY <1>1
<1>3. /\ h[6] = Join(h[5], Spelt(fields[6], g[6]))
      /\ h[7] = Join(h[6], Spelt(fields[7], g[7]))
      /\ h[8] = Join(h[7], Spelt(fields[8], g[8]))
      /\ h[9] = Join(h[8], Spelt(fields[9], g[9]))
      /\ h[10] = Join(h[9], Spelt(fields[10], g[10]))
  BY ONLY <1>1
<1>4. h[5] = Join(Join(Join(Join(Spelt(fields[1], g[1]), Spelt(fields[2], g[2])),
                      Spelt(fields[3], g[3])), Spelt(fields[4], g[4])), Spelt(fields[5], g[5]))
  BY ONLY <1>2, Zenon
<1>5. h[10] = Join(Join(Join(Join(Join(h[5], Spelt(fields[6], g[6])), Spelt(fields[7], g[7])),
                 Spelt(fields[8], g[8])), Spelt(fields[9], g[9])), Spelt(fields[10], g[10]))
  BY ONLY <1>3, Zenon
<1> QED
  BY ONLY <1>1, <1>4, <1>5, Zenon

\* The kinds of a server, one by one.
LEMMA ServerKindsAre ==
  /\ Len(ServerKinds) = 19 /\ DOMAIN ServerKinds = 1 .. 19
  /\ ServerKinds[1] = "Attached" /\ ServerKinds[2] = "Busy" /\ ServerKinds[3] = ""
  /\ ServerKinds[4] = "Frame" /\ ServerKinds[5] = "Accepted" /\ ServerKinds[6] = "Failure"
  /\ ServerKinds[7] = "Exited" /\ ServerKinds[8] = "CopiedText" /\ ServerKinds[9] = "ClipboardWrite"
  /\ ServerKinds[10] = "WheelTerminalRouted" /\ ServerKinds[11] = "WheelViewportUp"
  /\ ServerKinds[12] = "WheelViewportStill" /\ ServerKinds[13] = "WheelViewportDown"
  /\ ServerKinds[14] = "VerticalPreview" /\ ServerKinds[15] = "ObservingMetadata"
  /\ ServerKinds[16] = "Metadata" /\ ServerKinds[17] = "ScrollTerminalOwned"
  /\ ServerKinds[18] = "ScrollViewport" /\ ServerKinds[19] = "SelectionFinished"
BY DEF ServerKinds

\* and those of a client.
LEMMA ClientKindsAre ==
  /\ Len(ClientKinds) = 11
  /\ ClientKinds[1] = "Hello" /\ ClientKinds[2] = "Key" /\ ClientKinds[3] = "Mouse"
  /\ ClientKinds[4] = "Focus" /\ ClientKinds[5] = "Paste" /\ ClientKinds[6] = "Resize"
  /\ ClientKinds[7] = "Selection" /\ ClientKinds[8] = "PreviewVertical"
  /\ ClientKinds[9] = "ObserveMetadata" /\ ClientKinds[10] = "ScrollVertical"
  /\ ClientKinds[11] = "ReturnToLive"
BY DEF ClientKinds

\* No two kinds of a server are the same.
LEMMA ServerKindsDistinct == Distinct(ServerKinds)
<1> DEFINE Rank(kind) ==
             CASE kind = "Attached" -> 1
               [] kind = "Busy" -> 2 [] kind = "" -> 3
               [] kind = "Frame" -> 4 [] kind = "Accepted" -> 5
               [] kind = "Failure" -> 6 [] kind = "Exited" -> 7
               [] kind = "CopiedText" -> 8 [] kind = "ClipboardWrite" -> 9
               [] kind = "WheelTerminalRouted" -> 10 [] kind = "WheelViewportUp" -> 11
               [] kind = "WheelViewportStill" -> 12 [] kind = "WheelViewportDown" -> 13
               [] kind = "VerticalPreview" -> 14 [] kind = "ObservingMetadata" -> 15
               [] kind = "Metadata" -> 16 [] kind = "ScrollTerminalOwned" -> 17
               [] kind = "ScrollViewport" -> 18 [] kind = "SelectionFinished" -> 19
<1>1. \A i \in 1 .. 19 : \/ i = 1 \/ i = 2 \/ i = 3 \/ i = 4 \/ i = 5 \/ i = 6 \/ i = 7 \/ i = 8 \/ i = 9
                         \/ i = 10 \/ i = 11 \/ i = 12 \/ i = 13 \/ i = 14 \/ i = 15
                         \/ i = 16 \/ i = 17 \/ i = 18 \/ i = 19
  OBVIOUS
<1>2. /\ Rank(ServerKinds[1]) = 1
      /\ Rank(ServerKinds[2]) = 2
      /\ Rank(ServerKinds[3]) = 3
      /\ Rank(ServerKinds[4]) = 4
      /\ Rank(ServerKinds[5]) = 5
      /\ Rank(ServerKinds[6]) = 6
      /\ Rank(ServerKinds[7]) = 7
      /\ Rank(ServerKinds[8]) = 8
      /\ Rank(ServerKinds[9]) = 9
      /\ Rank(ServerKinds[10]) = 10
  BY ServerKindsAre
<1>3. /\ Rank(ServerKinds[11]) = 11
      /\ Rank(ServerKinds[12]) = 12
      /\ Rank(ServerKinds[13]) = 13
      /\ Rank(ServerKinds[14]) = 14
      /\ Rank(ServerKinds[15]) = 15
      /\ Rank(ServerKinds[16]) = 16
      /\ Rank(ServerKinds[17]) = 17
      /\ Rank(ServerKinds[18]) = 18
      /\ Rank(ServerKinds[19]) = 19
  BY ServerKindsAre
<1>4. \A i \in 1 .. 19 : Rank(ServerKinds[i]) = i
  <2> HIDE DEF Rank
  <2> QED
    BY ONLY <1>1, <1>2, <1>3
<1> HIDE DEF Rank
<1> QED
  BY <1>4, ServerKindsAre DEF Distinct

\* The tables of the kinds and of the enumerations.
LEMMA Tables ==
  /\ Distinct(ClientKinds) /\ Len(ClientKinds) = 11
  /\ Distinct(ServerKinds) /\ Len(ServerKinds) = 19
  /\ Distinct(KeyActions) /\ Len(KeyActions) = 3
  /\ Distinct(MouseActions) /\ Len(MouseActions) = 3
  /\ Distinct(MouseButtons) /\ Len(MouseButtons) = 12
  /\ Distinct(FocusEvents) /\ Len(FocusEvents) = 2
  /\ Distinct(Directions) /\ Len(Directions) = 2
  /\ Distinct(FailureCodes) /\ Len(FailureCodes) = 3
  /\ Distinct(Locations) /\ Len(Locations) = 3
  /\ Distinct(Phases) /\ Len(Phases) = 6
<1>1. Distinct(ClientKinds) /\ Len(ClientKinds) = 11
  BY DEF Distinct, ClientKinds
<1>2. Distinct(ServerKinds) /\ Len(ServerKinds) = 19
  BY ServerKindsAre, ServerKindsDistinct
<1>3. /\ Distinct(KeyActions) /\ Len(KeyActions) = 3
      /\ Distinct(MouseActions) /\ Len(MouseActions) = 3
      /\ Distinct(FocusEvents) /\ Len(FocusEvents) = 2
      /\ Distinct(Directions) /\ Len(Directions) = 2
      /\ Distinct(FailureCodes) /\ Len(FailureCodes) = 3
      /\ Distinct(Locations) /\ Len(Locations) = 3
  BY DEF Distinct, KeyActions, MouseActions, FocusEvents, Directions, FailureCodes, Locations
<1>4. Distinct(MouseButtons) /\ Len(MouseButtons) = 12
  BY DEF Distinct, MouseButtons
<1>5. Distinct(Phases) /\ Len(Phases) = 6
  BY DEF Distinct, Phases
<1> QED
  BY <1>1, <1>2, <1>3, <1>4, <1>5

\* The limits of a client's messages,
ClientTable == [kind \in ToSet(ClientKinds) |-> ClientLimits(kind)]

\* which are numbers.
LEMMA ClientTableType ==
  /\ LimitsAre(ClientKinds, 11, ClientTable)
  /\ \A i \in 1 .. 11 : ClientTable[ClientKinds[i]] = ClientLimits(ClientKinds[i])
<1>1. \A i \in 1 .. 11 : ClientKinds[i] \in ToSet(ClientKinds)
  BY ClientKindsAre DEF ToSet
<1>2. \A i \in 1 .. 11 : ClientTable[ClientKinds[i]] = ClientLimits(ClientKinds[i])
  BY <1>1 DEF ClientTable
<1>3. U32Bytes \in Nat /\ U64Bytes \in Nat /\ MaxKeyTextBytes \in Nat /\ MaxPasteBytes \in Nat
  BY WireAssumption, SessionAssumption
<1>4. \A i \in 1 .. 11 : \/ i = 1 \/ i = 2 \/ i = 3 \/ i = 4 \/ i = 5 \/ i = 6 \/ i = 7 \/ i = 8 \/ i = 9
                         \/ i = 10 \/ i = 11
  OBVIOUS
<1> DEFINE Good(kind) == ClientLimits(kind)[1] \in Nat /\ ClientLimits(kind)[2] \in Nat
<1>5. /\ Good("Hello") /\ Good("Key")
      /\ Good("Mouse") /\ Good("Focus")
      /\ Good("Paste") /\ Good("Resize")
  BY <1>3 DEF ClientLimits
<1>6. /\ Good("Selection") /\ Good("PreviewVertical")
      /\ Good("ObserveMetadata") /\ Good("ScrollVertical")
      /\ Good("ReturnToLive")
  BY <1>3 DEF ClientLimits
<1> HIDE DEF Good
<1>7. \A i \in 1 .. 11 : Good(ClientKinds[i])
  BY ONLY <1>4, <1>5, <1>6, ClientKindsAre
<1> QED
  BY <1>2, <1>7 DEF LimitsAre, Good

\* The limits of a server's messages,
ServerTable == [kind \in ToSet(ServerKinds) |-> ServerLimits(kind)]

\* which are numbers, too.
LEMMA ServerTableType ==
  /\ LimitsAre(ServerKinds, 19, ServerTable)
  /\ \A i \in 1 .. 19 : ServerTable[ServerKinds[i]] = ServerLimits(ServerKinds[i])
<1>1. \A i \in 1 .. 19 : ServerKinds[i] \in ToSet(ServerKinds)
  BY ServerKindsAre DEF ToSet
<1>2. \A i \in 1 .. 19 : ServerTable[ServerKinds[i]] = ServerLimits(ServerKinds[i])
  BY <1>1 DEF ServerTable
<1>3. /\ U32Bytes \in Nat /\ U64Bytes \in Nat /\ MaxFailureBytes \in Nat /\ MaxCopyBytes \in Nat
      /\ MaxMetadataBytes \in Nat /\ MinFrameBytes \in Nat /\ MaxFrameBytes \in Nat
      /\ MaxPayloadBytes \in Nat
  <2>1. /\ U32Bytes \in Nat /\ U64Bytes \in Nat /\ MaxFailureBytes \in Nat /\ MaxCopyBytes \in Nat
        /\ MaxMetadataBytes \in Nat /\ MaxFrameBytes \in Nat /\ PaletteLen \in Nat
    BY WireAssumption, SessionAssumption, FrameAssumption
  <2> QED
    BY <2>1 DEF MinFrameBytes, MaxPayloadBytes, FrameFixedBytes, RowFixedBytes, CellFixedBytes
<1>4. \A i \in 1 .. 19 : \/ i = 1 \/ i = 2 \/ i = 3 \/ i = 4 \/ i = 5 \/ i = 6 \/ i = 7 \/ i = 8 \/ i = 9
                         \/ i = 10 \/ i = 11 \/ i = 12 \/ i = 13 \/ i = 14 \/ i = 15
                         \/ i = 16 \/ i = 17 \/ i = 18 \/ i = 19
  OBVIOUS
<1> DEFINE Good(kind) == ServerLimits(kind)[1] \in Nat /\ ServerLimits(kind)[2] \in Nat
<1>5. /\ Good("Attached") /\ Good("Busy")
      /\ Good("Frame") /\ Good("Accepted")
      /\ Good("Failure") /\ Good("Exited")
      /\ Good("CopiedText") /\ Good("ClipboardWrite")
      /\ Good("WheelTerminalRouted")
  BY <1>3 DEF ServerLimits, WheelViewports
<1>6. /\ Good("WheelViewportUp") /\ Good("WheelViewportStill")
      /\ Good("WheelViewportDown") /\ Good("VerticalPreview")
      /\ Good("ObservingMetadata") /\ Good("Metadata")
      /\ Good("ScrollTerminalOwned") /\ Good("ScrollViewport")
      /\ Good("SelectionFinished")
  BY <1>3 DEF ServerLimits, WheelViewports
<1> HIDE DEF Good
<1> DEFINE Fine(i) == ServerKinds[i] # "" => Good(ServerKinds[i])
<1>7. /\ Fine(1) /\ Fine(2)
      /\ Fine(3) /\ Fine(4)
      /\ Fine(5) /\ Fine(6)
      /\ Fine(7) /\ Fine(8)
      /\ Fine(9) /\ Fine(10)
  BY ONLY <1>5, ServerKindsAre
<1>8. /\ Fine(11) /\ Fine(12)
      /\ Fine(13) /\ Fine(14)
      /\ Fine(15) /\ Fine(16)
      /\ Fine(17) /\ Fine(18)
      /\ Fine(19)
  BY ONLY <1>6, ServerKindsAre
<1>9. \A i \in 1 .. 19 : Fine(i)
  <2> HIDE DEF Fine
  <2> QED
    BY ONLY <1>4, <1>7, <1>8
<1> QED
  BY <1>2, <1>9 DEF LimitsAre, Good

\* A group of pieces is joined one by one,
LEMMA JoinsGrouped ==
  ASSUME NEW a \in Seq(Byte), NEW b \in Seq(Byte), NEW d \in Seq(Byte), NEW e \in Seq(Byte)
  PROVE  /\ Join(a, Join(Join(b, d), e)) = Join(Join(Join(a, b), d), e)
         /\ Join(Join(b, d), e) \in Seq(Byte)
<1> DEFINE x == Join(b, d)
<1>1. x \in Seq(Byte) /\ Join(a, x) = Join(Join(a, b), d)
  BY JoinBytes, JoinGroups
<1> HIDE DEF x
<1>2. Join(a, Join(x, e)) = Join(Join(a, x), e) /\ Join(x, e) \in Seq(Byte)
  BY <1>1, JoinBytes, JoinGroups
<1> QED
  BY ONLY <1>1, <1>2, Zenon DEF x

\* Five fields that are spelt as they are.
LEMMA PlainFive ==
  ASSUME NEW p \in Seq(Byte), NEW fields, AreFields(fields, 5), Fields(p, fields) # Bad,
         \A i \in 1 .. 5 : fields[i] \in Nat \ {0}
  PROVE  LET g == Fields(p, fields)
         IN  /\ p = Join(Join(Join(Join(g[1], g[2]), g[3]), g[4]), g[5])
             /\ \A i \in 1 .. 5 : g[i] \in Seq(Byte) /\ Len(g[i]) = fields[i]
<1> DEFINE g == Fields(p, fields)
<1>0. 5 \in Nat /\ 5 # 0
  OBVIOUS
<1>1. Taken(fields, g, 5) /\ p = Spelled(fields, g)
  BY <1>0, FieldsAll
<1> HIDE DEF g
<1>2. \A i \in 1 .. 5 : Spelt(fields[i], g[i]) = g[i]
  BY SpeltPlain DEF Prefixed
<1>3. \A i \in 1 .. 5 : g[i] \in Seq(Byte) /\ Len(g[i]) = fields[i]
  BY <1>0, <1>1, FieldsTaken
<1>4. p = Join(Join(Join(Join(Spelt(fields[1], g[1]), Spelt(fields[2], g[2])),
                 Spelt(fields[3], g[3])), Spelt(fields[4], g[4])), Spelt(fields[5], g[5]))
  BY <1>1, SpelledFive
<1>5. /\ Spelt(fields[1], g[1]) = g[1] /\ Spelt(fields[2], g[2]) = g[2]
      /\ Spelt(fields[3], g[3]) = g[3] /\ Spelt(fields[4], g[4]) = g[4]
      /\ Spelt(fields[5], g[5]) = g[5]
  BY ONLY <1>2
<1>6. p = Join(Join(Join(Join(g[1], g[2]), g[3]), g[4]), g[5])
  BY ONLY <1>4, <1>5, Zenon
<1> QED
  BY <1>3, <1>6 DEF g

\* What is taken as a mouse event was put as it.
LEMMA MouseSpelled ==
  ASSUME NEW p \in Seq(Byte), TakeMouse(p) # Bad
  PROVE  TakeMouse(p).type = "Mouse" /\ PutMouse(TakeMouse(p)) = p
<1> DEFINE fields == <<1, 1, 2, U32Bytes, U32Bytes>>
           g == Fields(p, fields)
           button == IF g[2] = <<0>> THEN <<>> ELSE <<Member(MouseButtons, <<g[2][1] - 1>>)>>
           m == [type |-> "Mouse", action |-> Member(MouseActions, g[1]), button |-> button,
                 modifiers |-> Num(g[3]), x |-> Num(g[4]), y |-> Num(g[5])]
<1>1. g # Bad /\ TakeMouse(p) = Checked(m, m.action # Bad /\ Sound(m.button) /\ ValidMouse(m))
  BY Zenon DEF TakeMouse, With
<1>2. TakeMouse(p) = m /\ m.action # Bad /\ Sound(m.button) /\ ValidMouse(m)
  <2> HIDE DEF m
  <2> QED
    BY <1>1 DEF Checked
<1>3. AreFields(fields, 5) /\ \A i \in 1 .. 5 : fields[i] \in Nat \ {0}
  BY WireAssumption DEF AreFields, IsField
<1>4. /\ p = Join(Join(Join(Join(g[1], g[2]), g[3]), g[4]), g[5])
      /\ \A i \in 1 .. 5 : g[i] \in Seq(Byte) /\ Len(g[i]) = fields[i]
  <2> HIDE DEF fields
  <2> QED
    BY <1>1, <1>3, PlainFive
<1>5. /\ m.type = "Mouse" /\ m.action = Member(MouseActions, g[1]) /\ m.button = button
      /\ m.modifiers = Num(g[3]) /\ m.x = Num(g[4]) /\ m.y = Num(g[5])
  OBVIOUS
<1>6. /\ g[1] \in Seq(Byte) /\ Len(g[1]) = 1 /\ g[2] \in Seq(Byte) /\ Len(g[2]) = 1
      /\ g[3] \in Seq(Byte) /\ Len(g[3]) = 2 /\ g[4] \in Seq(Byte) /\ Len(g[4]) = U32Bytes
      /\ g[5] \in Seq(Byte) /\ Len(g[5]) = U32Bytes
  BY ONLY <1>4 DEF fields
<1> HIDE DEF m, g
<1>7. Tag(MouseActions, m.action) = g[1]
  <2> DEFINE t == g[1]
  <2>1. Distinct(MouseActions) /\ Len(MouseActions) \in Nat
    BY Tables
  <2>2. /\ t \in Seq(Byte) /\ Len(t) = 1
        /\ Member(MouseActions, t) # Bad /\ m.action = Member(MouseActions, t)
    BY <1>2, <1>5, <1>6
  <2> HIDE DEF t
  <2>3. Tag(MouseActions, Member(MouseActions, t)) = t
    BY ONLY <2>1, <2>2, SpellTag
  <2> QED
    BY ONLY <2>2, <2>3, Zenon DEF t
<1>8. (IF m.button = <<>> THEN <<0>> ELSE <<Tag(MouseButtons, m.button[1])[1] + 1>>) = g[2]
  <2>1. CASE g[2] = <<0>>
    BY <1>5, <2>1
  <2>2. CASE g[2] # <<0>>
    <3> DEFINE t == g[2][1]
               tag == <<t - 1>>
               b == Member(MouseButtons, tag)
    <3>1. t \in Byte /\ g[2] = <<t>>
      BY <1>6, OneByte
    <3>2. m.button = <<b>>
      BY <1>5, <2>2
    <3>3. b # Bad
      BY <1>2, <3>2 DEF Sound
    <3> HIDE DEF t
    <3>4. t - 1 \in Byte
      <4>1. t # 0
        BY <2>2, <3>1
      <4> QED
        BY <3>1, <4>1 DEF Byte
    <3>5. tag \in Seq(Byte) /\ Len(tag) = 1 /\ tag[1] = t - 1
      BY <3>4
    <3> HIDE DEF tag, b
    <3>6. Tag(MouseButtons, b) = tag
      <4>1. Distinct(MouseButtons) /\ Len(MouseButtons) \in Nat
        BY Tables
      <4>2. tag \in Seq(Byte) /\ Len(tag) = 1 /\ Member(MouseButtons, tag) # Bad
        BY <3>3, <3>5 DEF b
      <4> QED
        BY ONLY <4>1, <4>2, SpellTag DEF b
    <3>7. m.button # <<>> /\ m.button[1] = b
      BY <3>2
    <3>8. t - 1 + 1 = t
      BY <3>1 DEF Byte
    <3> QED
      BY <3>1, <3>5, <3>6, <3>7, <3>8
  <2> QED
    BY <2>1, <2>2
<1>9. Put16(m.modifiers) = g[3] /\ Put32(m.x) = g[4] /\ Put32(m.y) = g[5]
  BY <1>5, <1>6, Spell16, Spell32
<1> DEFINE mid == IF m.button = <<>> THEN <<0>> ELSE <<Tag(MouseButtons, m.button[1])[1] + 1>>
<1>10. PutMouse(m) = Join(Join(Tag(MouseActions, m.action), mid), PutPointer(m))
  BY <1>2, Zenon DEF PutMouse, Join
<1>11. PutPointer(m) = Join(Join(g[3], g[4]), g[5])
  BY <1>9, Zenon DEF PutPointer, Join
<1> HIDE DEF mid
<1> DEFINE front == Join(g[1], g[2])
<1>12. PutMouse(m) = Join(front, Join(Join(g[3], g[4]), g[5]))
  <2>1. mid = g[2]
    BY <1>8 DEF mid
  <2> QED
    BY ONLY <1>7, <1>10, <1>11, <2>1, Zenon
<1>13. front \in Seq(Byte)
  BY <1>6, JoinBytes
<1> HIDE DEF front
<1>14. Join(front, Join(Join(g[3], g[4]), g[5])) = Join(Join(Join(front, g[3]), g[4]), g[5])
  <2> DEFINE u == g[3]
             v == g[4]
             w == g[5]
  <2>1. u \in Seq(Byte) /\ v \in Seq(Byte) /\ w \in Seq(Byte)
    BY <1>6
  <2> HIDE DEF u, v, w
  <2>2. Join(front, Join(Join(u, v), w)) = Join(Join(Join(front, u), v), w)
    BY ONLY <1>13, <2>1, JoinsGrouped
  <2> QED
    BY ONLY <2>2, Zenon DEF u, v, w
<1>15. PutMouse(m) = p
  BY ONLY <1>4, <1>12, <1>14, Zenon DEF front
<1> QED
  BY <1>2, <1>5, <1>15

\* What is taken as a size was put as it.
LEMMA ResizeSpelled ==
  ASSUME NEW p \in Seq(Byte), TakeResize(p) # Bad
  PROVE  TakeResize(p).type = "Resize" /\ PutResize(TakeResize(p)) = p
<1> DEFINE fields == <<2, 2>> \o [i \in 1 .. 8 |-> U32Bytes]
           g == Fields(p, fields)
           m == [type |-> "Resize", cols |-> Num(g[1]), rows |-> Num(g[2]),
                 screenWidth |-> Num(g[3]), screenHeight |-> Num(g[4]),
                 cellWidth |-> Num(g[5]), cellHeight |-> Num(g[6]),
                 top |-> Num(g[7]), bottom |-> Num(g[8]), left |-> Num(g[9]), right |-> Num(g[10])]
<1>1. g # Bad /\ TakeResize(p) = Checked(m, ValidSurface(m))
  BY Zenon DEF TakeResize, With
<1>2. TakeResize(p) = m /\ ValidSurface(m)
  <2> HIDE DEF m
  <2> QED
    BY <1>1 DEF Checked
<1>3. /\ AreFields(fields, 10) /\ \A i \in 1 .. 10 : fields[i] \in Nat \ {0}
      /\ \A i \in 1 .. 10 : fields[i] = IF i <= 2 THEN 2 ELSE U32Bytes
  <2> DEFINE u == [i \in 1 .. 8 |-> U32Bytes]
             t == <<2, 2>>
  <2>1. U32Bytes \in Nat \ {0}
    BY WireAssumption
  <2>2. u \in Seq(Nat) /\ Len(u) = 8 /\ \A i \in 1 .. 8 : u[i] = U32Bytes
    BY <2>1
  <2>3. t \in Seq(Nat) /\ Len(t) = 2 /\ \A i \in 1 .. 2 : t[i] = 2
    OBVIOUS
  <2>4. fields = t \o u
    OBVIOUS
  <2> HIDE DEF u, t, fields
  <2>5. /\ Len(t \o u) = Len(t) + Len(u)
        /\ \A i \in 1 .. Len(t) + Len(u) : (t \o u)[i] = IF i <= Len(t) THEN t[i] ELSE u[i - Len(t)]
    BY <2>2, <2>3, ConcatProperties
  <2>6. \A i \in 1 .. 10 : fields[i] = IF i <= 2 THEN 2 ELSE U32Bytes
    <3> SUFFICES ASSUME NEW i \in 1 .. 10
                 PROVE  fields[i] = IF i <= 2 THEN 2 ELSE U32Bytes
      OBVIOUS
    <3>1. fields[i] = IF i <= 2 THEN t[i] ELSE u[i - 2]
      <4>1. i \in 1 .. Len(t) + Len(u)
        BY <2>2, <2>3
      <4>2. (t \o u)[i] = IF i <= Len(t) THEN t[i] ELSE u[i - Len(t)]
        BY <2>5, <4>1
      <4>3. Len(t) = 2 /\ fields[i] = (t \o u)[i]
        BY <2>3, <2>4
      <4> QED
        BY ONLY <4>2, <4>3
    <3>2. i <= 2 => i \in 1 .. 2
      OBVIOUS
    <3>3. ~(i <= 2) => i - 2 \in 1 .. 8
      OBVIOUS
    <3> QED
      BY ONLY <2>2, <2>3, <3>1, <3>2, <3>3
  <2>7. Len(fields) = 10
    BY ONLY <2>2, <2>3, <2>4, <2>5
  <2>8. \A i \in 1 .. 10 : fields[i] \in Nat \ {0}
    BY ONLY <2>1, <2>6
  <2> QED
    BY <2>6, <2>7, <2>8 DEF AreFields, IsField
<1> HIDE DEF fields
<1>0. 10 \in Nat /\ 10 # 0
  OBVIOUS
<1>4. Taken(fields, g, 10) /\ p = Spelled(fields, g)
  BY <1>0, <1>1, <1>3, FieldsAll
<1>5. /\ m.type = "Resize" /\ m.cols = Num(g[1]) /\ m.rows = Num(g[2])
      /\ m.screenWidth = Num(g[3]) /\ m.screenHeight = Num(g[4])
      /\ m.cellWidth = Num(g[5]) /\ m.cellHeight = Num(g[6])
      /\ m.top = Num(g[7]) /\ m.bottom = Num(g[8]) /\ m.left = Num(g[9]) /\ m.right = Num(g[10])
  OBVIOUS
<1> HIDE DEF m, g
<1>6. \A i \in 1 .. 10 : /\ g[i] \in Seq(Byte) /\ Len(g[i]) = fields[i]
                        /\ Spelt(fields[i], g[i]) = g[i]
  BY <1>0, <1>3, <1>4, FieldsTaken, SpeltPlain DEF Prefixed
<1>7. \A i \in 1 .. 2 : Put16(Num(g[i])) = g[i]
  <2> SUFFICES ASSUME NEW i \in 1 .. 2
               PROVE  Put16(Num(g[i])) = g[i]
    OBVIOUS
  <2>1. i \in 1 .. 10 /\ i <= 2
    OBVIOUS
  <2>2. g[i] \in Seq(Byte) /\ Len(g[i]) = 2
    BY <1>3, <1>6, <2>1
  <2> QED
    BY <2>2, Spell16
<1>8. \A i \in 3 .. 10 : Put32(Num(g[i])) = g[i]
  <2> SUFFICES ASSUME NEW i \in 3 .. 10
               PROVE  Put32(Num(g[i])) = g[i]
    OBVIOUS
  <2>1. i \in 1 .. 10 /\ ~(i <= 2)
    OBVIOUS
  <2>2. g[i] \in Seq(Byte) /\ Len(g[i]) = U32Bytes
    BY <1>3, <1>6, <2>1
  <2> QED
    BY <2>2, Spell32
<1> DEFINE S(i) == Spelt(fields[i], g[i])
<1>9. p = Join(Join(Join(Join(Join(Join(Join(Join(Join(S(1), S(2)), S(3)), S(4)), S(5)), S(6)),
                 S(7)), S(8)), S(9)), S(10))
  BY <1>4, SpelledTen
<1>10. /\ S(1) = Put16(m.cols) /\ S(2) = Put16(m.rows) /\ S(3) = Put32(m.screenWidth)
       /\ S(4) = Put32(m.screenHeight) /\ S(5) = Put32(m.cellWidth)
  BY ONLY <1>5, <1>6, <1>7, <1>8
<1>11. /\ S(6) = Put32(m.cellHeight) /\ S(7) = Put32(m.top) /\ S(8) = Put32(m.bottom)
       /\ S(9) = Put32(m.left) /\ S(10) = Put32(m.right)
  BY ONLY <1>5, <1>6, <1>8
<1> HIDE DEF S
<1>12. PutResize(m)
         = Join(Join(Join(Join(Join(Join(Join(Join(Join(S(1), S(2)), S(3)), S(4)), S(5)), S(6)),
                 S(7)), S(8)), S(9)), S(10))
  BY ONLY <1>2, <1>10, <1>11, Zenon DEF PutResize, Join
<1>13. PutResize(m) = p
  BY ONLY <1>9, <1>12, Zenon
<1> QED
  BY <1>2, <1>5, <1>13

\* Three fields that are spelt as they are,
LEMMA PlainThree ==
  ASSUME NEW p \in Seq(Byte), NEW fields, AreFields(fields, 3), Fields(p, fields) # Bad,
         \A i \in 1 .. 3 : fields[i] \in Nat \ {0}
  PROVE  LET g == Fields(p, fields)
         IN  /\ p = Join(Join(g[1], g[2]), g[3])
             /\ \A i \in 1 .. 3 : g[i] \in Seq(Byte) /\ Len(g[i]) = fields[i]
<1> DEFINE g == Fields(p, fields)
<1>0. 3 \in Nat /\ 3 # 0
  OBVIOUS
<1>1. Taken(fields, g, 3) /\ p = Spelled(fields, g)
  BY <1>0, FieldsAll
<1> HIDE DEF g
<1>2. \A i \in 1 .. 3 : Spelt(fields[i], g[i]) = g[i]
  BY SpeltPlain DEF Prefixed
<1>3. \A i \in 1 .. 3 : g[i] \in Seq(Byte) /\ Len(g[i]) = fields[i]
  BY <1>0, <1>1, FieldsTaken
<1>4. p = Join(Join(Spelt(fields[1], g[1]), Spelt(fields[2], g[2])), Spelt(fields[3], g[3]))
  BY <1>1, SpelledThree
<1>5. /\ Spelt(fields[1], g[1]) = g[1] /\ Spelt(fields[2], g[2]) = g[2]
      /\ Spelt(fields[3], g[3]) = g[3]
  BY ONLY <1>2
<1>6. p = Join(Join(g[1], g[2]), g[3])
  BY ONLY <1>4, <1>5, Zenon
<1> QED
  BY <1>3, <1>6 DEF g

\* and two.
LEMMA PlainTwo ==
  ASSUME NEW p \in Seq(Byte), NEW fields, AreFields(fields, 2), Fields(p, fields) # Bad,
         \A i \in 1 .. 2 : fields[i] \in Nat \ {0}
  PROVE  LET g == Fields(p, fields)
         IN  /\ p = Join(g[1], g[2])
             /\ \A i \in 1 .. 2 : g[i] \in Seq(Byte) /\ Len(g[i]) = fields[i]
<1> DEFINE g == Fields(p, fields)
<1>0. 2 \in Nat /\ 2 # 0
  OBVIOUS
<1>1. Taken(fields, g, 2) /\ p = Spelled(fields, g)
  BY <1>0, FieldsAll
<1> HIDE DEF g
<1>2. \A i \in 1 .. 2 : Spelt(fields[i], g[i]) = g[i]
  BY SpeltPlain DEF Prefixed
<1>3. \A i \in 1 .. 2 : g[i] \in Seq(Byte) /\ Len(g[i]) = fields[i]
  BY <1>0, <1>1, FieldsTaken
<1>4. p = Join(Spelt(fields[1], g[1]), Spelt(fields[2], g[2]))
  BY <1>1, SpelledTwo
<1>5. Spelt(fields[1], g[1]) = g[1] /\ Spelt(fields[2], g[2]) = g[2]
  BY ONLY <1>2
<1>6. p = Join(g[1], g[2])
  BY ONLY <1>4, <1>5, Zenon
<1> QED
  BY <1>3, <1>6 DEF g

\* What is taken without fields is nothing.
LEMMA PlainNone ==
  ASSUME NEW p \in Seq(Byte), Fields(p, <<>>) # Bad
  PROVE  p = <<>>
<1> DEFINE fields == <<>>
           z == Len(fields)
           r == Reader(p)
<1>1. z = 0 /\ z \in Nat
  OBVIOUS
<1>2. Readings(r, fields)[0] = r
  <2> HIDE DEF fields, r
  <2> QED
    BY <1>1, ReadingsRecur
<1>3. Read(r, fields) = r
  BY <1>1, <1>2 DEF Read
<1>4. Read(r, fields).rest = <<>>
  BY DEF Fields, With, Checked
<1> QED
  BY <1>3, <1>4 DEF Reader

\* A tag of one byte.
LEMMA TagSpelled ==
  ASSUME NEW members, Distinct(members), Len(members) \in Nat,
         NEW t, t \in Seq(Byte), Len(t) = 1, Member(members, t) # Bad
  PROVE  Tag(members, Member(members, t)) = t
BY SpellTag

\* What is taken as a request of a preview was put as it.
LEMMA PreviewRequestSpelled ==
  ASSUME NEW p \in Seq(Byte), TakePreviewRequest(p) # Bad
  PROVE  LET m == TakePreviewRequest(p)
         IN  m.type = "PreviewVertical" /\ Put64(m.revision) \o Tag(Directions, m.direction) = p
<1> DEFINE fields == <<U64Bytes, 1>>
           g == Fields(p, fields)
           d == Member(Directions, g[2])
           m == [type |-> "PreviewVertical", revision |-> Num(g[1]), direction |-> d]
<1>1. g # Bad /\ d # Bad /\ TakePreviewRequest(p) = m
  BY DEF TakePreviewRequest, With
<1>2. AreFields(fields, 2) /\ \A i \in 1 .. 2 : fields[i] \in Nat \ {0}
  BY WireAssumption DEF AreFields, IsField
<1>3. p = Join(g[1], g[2]) /\ \A i \in 1 .. 2 : g[i] \in Seq(Byte) /\ Len(g[i]) = fields[i]
  <2> HIDE DEF fields
  <2> QED
    BY <1>1, <1>2, PlainTwo
<1> DEFINE a == g[1]
           t == g[2]
<1>4. a \in Seq(Byte) /\ Len(a) = U64Bytes /\ t \in Seq(Byte) /\ Len(t) = 1
  BY ONLY <1>3 DEF fields
<1>5. m.type = "PreviewVertical" /\ m.revision = Num(a) /\ m.direction = Member(Directions, t)
  OBVIOUS
<1>6. Member(Directions, t) # Bad
  BY <1>1
<1>7. p = Join(a, t)
  BY <1>3
<1> HIDE DEF m, a, t
<1>8. Distinct(Directions) /\ Len(Directions) \in Nat
  BY Tables
<1>9. Put64(m.revision) = a
  BY <1>4, <1>5, Spell64
<1>10. Tag(Directions, m.direction) = t
  BY ONLY <1>4, <1>5, <1>6, <1>8, TagSpelled
<1>11. Put64(m.revision) \o Tag(Directions, m.direction) = p
  BY ONLY <1>7, <1>9, <1>10, Zenon DEF Join
<1> QED
  BY <1>1, <1>5, <1>11

\* What is taken as a request to scroll was put as it.
LEMMA ScrollRequestSpelled ==
  ASSUME NEW p \in Seq(Byte), TakeScrollRequest(p) # Bad
  PROVE  LET m == TakeScrollRequest(p)
         IN  /\ m.type = "ScrollVertical" /\ ValidScrollRows(m.rows)
             /\ Put64(m.revision) \o PutI16(m.rows) = p
<1> DEFINE fields == <<U64Bytes, 2>>
           g == Fields(p, fields)
           d == I16(g[2])
           m == [type |-> "ScrollVertical", revision |-> Num(g[1]), rows |-> d]
<1>1. g # Bad /\ d # Bad /\ TakeScrollRequest(p) = m /\ ValidScrollRows(d)
  BY DEF TakeScrollRequest, With, Checked
<1>2. AreFields(fields, 2) /\ \A i \in 1 .. 2 : fields[i] \in Nat \ {0}
  BY WireAssumption DEF AreFields, IsField
<1>3. p = Join(g[1], g[2]) /\ \A i \in 1 .. 2 : g[i] \in Seq(Byte) /\ Len(g[i]) = fields[i]
  <2> HIDE DEF fields
  <2> QED
    BY <1>1, <1>2, PlainTwo
<1> DEFINE a == g[1]
           t == g[2]
<1>4. a \in Seq(Byte) /\ Len(a) = U64Bytes /\ t \in Seq(Byte) /\ Len(t) = 2
  BY ONLY <1>3 DEF fields
<1>5. m.type = "ScrollVertical" /\ m.revision = Num(a) /\ m.rows = I16(t)
  OBVIOUS
<1>6. ValidScrollRows(m.rows)
  BY <1>1
<1>7. p = Join(a, t)
  BY <1>3
<1> HIDE DEF m, a, t
<1>9. Put64(m.revision) = a
  BY <1>4, <1>5, Spell64
<1>10. PutI16(m.rows) = t
  BY <1>4, <1>5, Spell16Signed
<1>11. Put64(m.revision) \o PutI16(m.rows) = p
  BY ONLY <1>7, <1>9, <1>10, Zenon DEF Join
<1> QED
  BY <1>1, <1>5, <1>6, <1>11

\* A sequence is its first element, and the others.
LEMMA HeadAndTail ==
  ASSUME NEW p \in Seq(Byte), Len(p) >= 1
  PROVE  /\ p[1] \in Byte /\ <<p[1]>> \in Seq(Byte) /\ Len(<<p[1]>>) = 1
         /\ Tail(p) \in Seq(Byte) /\ p = Join(<<p[1]>>, Tail(p))
<1>1. p # <<>>
  OBVIOUS
<1>2. p[1] \in Byte /\ Tail(p) \in Seq(Byte)
  BY <1>1
<1>3. p = <<p[1]>> \o Tail(p)
  BY <1>1
<1> QED
  BY <1>2, <1>3 DEF Join

\* The bytes of a pointer are its three fields.
LEMMA PointerSpelled ==
  ASSUME NEW m, NEW a, NEW b, NEW d, a \in Seq(Byte), b \in Seq(Byte), d \in Seq(Byte),
         Len(a) = 2, Len(b) = U32Bytes, Len(d) = U32Bytes,
         m.modifiers = Num(a), m.x = Num(b), m.y = Num(d)
  PROVE  PutPointer(m) = Join(Join(a, b), d)
<1>1. Put16(m.modifiers) = a /\ Put32(m.x) = b /\ Put32(m.y) = d
  BY Spell16, Spell32
<1> QED
  BY ONLY <1>1, Zenon DEF PutPointer, Join

\* The beginning of a gesture,
LEMMA BeginSpelled ==
  ASSUME NEW p \in Seq(Byte), NEW g, g = Fields(p, SelectionFields("Begin")), g # Bad
  PROVE  LET m == SelectionOf("Begin", g)
         IN  Put64(m.revision) \o Put64(m.time) \o PutPointer(m) = p
<1> DEFINE fields == <<U64Bytes, U64Bytes, 2, U32Bytes, U32Bytes>>
           a == g[1]
           b == g[2]
           d == g[3]
           e == g[4]
           u == g[5]
           m == SelectionOf("Begin", g)
<1>1. SelectionFields("Begin") = fields
  BY DEF SelectionFields
<1>2. AreFields(fields, 5) /\ \A i \in 1 .. 5 : fields[i] \in Nat \ {0}
  BY WireAssumption DEF AreFields, IsField
<1>3. /\ p = Join(Join(Join(Join(a, b), d), e), u)
      /\ \A i \in 1 .. 5 : g[i] \in Seq(Byte) /\ Len(g[i]) = fields[i]
  <2> HIDE DEF fields
  <2> QED
    BY <1>1, <1>2, PlainFive
<1>4. /\ a \in Seq(Byte) /\ Len(a) = U64Bytes /\ b \in Seq(Byte) /\ Len(b) = U64Bytes
      /\ d \in Seq(Byte) /\ Len(d) = 2 /\ e \in Seq(Byte) /\ Len(e) = U32Bytes
      /\ u \in Seq(Byte) /\ Len(u) = U32Bytes
  BY ONLY <1>3 DEF fields
<1>5. m = [type |-> "Selection", phase |-> "Begin", revision |-> Num(a), time |-> Num(b),
           modifiers |-> Num(d), x |-> Num(e), y |-> Num(u)]
  BY DEF SelectionOf
<1>6. /\ m.revision = Num(a) /\ m.time = Num(b) /\ m.modifiers = Num(d) /\ m.x = Num(e)
      /\ m.y = Num(u)
  BY <1>5
<1>7. p = Join(Join(Join(Join(a, b), d), e), u)
  BY <1>3
<1> HIDE DEF a, b, d, e, u, m
<1>8. PutPointer(m) = Join(Join(d, e), u)
  BY ONLY <1>4, <1>6, PointerSpelled
<1>9. Put64(m.revision) = a /\ Put64(m.time) = b
  BY <1>4, <1>6, Spell64
<1> DEFINE front == Join(a, b)
<1>10. front \in Seq(Byte)
  BY <1>4, JoinBytes
<1>11. Put64(m.revision) \o Put64(m.time) \o PutPointer(m) = Join(front, Join(Join(d, e), u))
  BY ONLY <1>8, <1>9, Zenon DEF Join
<1> HIDE DEF front
<1>12. Join(front, Join(Join(d, e), u)) = Join(Join(Join(front, d), e), u)
  BY ONLY <1>4, <1>10, JoinsGrouped
<1>13. Put64(m.revision) \o Put64(m.time) \o PutPointer(m) = p
  BY ONLY <1>7, <1>11, <1>12, Zenon DEF front
<1> QED
  BY <1>13 DEF m

\* where it is updated or finished,
LEMMA UpdateSpelled ==
  ASSUME NEW ph \in {"Update", "Finish"}, NEW p \in Seq(Byte), NEW g,
         g = Fields(p, SelectionFields(ph)), g # Bad
  PROVE  PutPointer(SelectionOf(ph, g)) = p
<1> DEFINE fields == <<2, U32Bytes, U32Bytes>>
           a == g[1]
           b == g[2]
           d == g[3]
           m == SelectionOf(ph, g)
<1>1. SelectionFields(ph) = fields
  BY DEF SelectionFields
<1>2. AreFields(fields, 3) /\ \A i \in 1 .. 3 : fields[i] \in Nat \ {0}
  BY WireAssumption DEF AreFields, IsField
<1>3. /\ p = Join(Join(a, b), d)
      /\ \A i \in 1 .. 3 : g[i] \in Seq(Byte) /\ Len(g[i]) = fields[i]
  <2> HIDE DEF fields
  <2> QED
    BY <1>1, <1>2, PlainThree
<1>4. /\ a \in Seq(Byte) /\ Len(a) = 2 /\ b \in Seq(Byte) /\ Len(b) = U32Bytes
      /\ d \in Seq(Byte) /\ Len(d) = U32Bytes
  BY ONLY <1>3 DEF fields
<1>5. m = [type |-> "Selection", phase |-> ph, modifiers |-> Num(a), x |-> Num(b), y |-> Num(d)]
  BY DEF SelectionOf
<1>6. m.modifiers = Num(a) /\ m.x = Num(b) /\ m.y = Num(d)
  BY <1>5
<1>7. p = Join(Join(a, b), d)
  BY <1>3
<1> HIDE DEF a, b, d, m
<1>8. PutPointer(m) = Join(Join(a, b), d)
  BY ONLY <1>4, <1>6, PointerSpelled
<1> QED
  BY ONLY <1>7, <1>8, Zenon DEF m

\* and where it scrolls.
LEMMA AutoscrollSpelled ==
  ASSUME NEW p \in Seq(Byte), NEW g, g = Fields(p, SelectionFields("AutoscrollUp")), g # Bad
  PROVE  LET m == SelectionOf("AutoscrollUp", g) IN Put32(m.x) \o Put32(m.y) = p
<1> DEFINE fields == <<U32Bytes, U32Bytes>>
           a == g[1]
           b == g[2]
           m == SelectionOf("AutoscrollUp", g)
<1>1. SelectionFields("AutoscrollUp") = fields
  BY DEF SelectionFields
<1>2. AreFields(fields, 2) /\ \A i \in 1 .. 2 : fields[i] \in Nat \ {0}
  BY WireAssumption DEF AreFields, IsField
<1>3. p = Join(a, b) /\ \A i \in 1 .. 2 : g[i] \in Seq(Byte) /\ Len(g[i]) = fields[i]
  <2> HIDE DEF fields
  <2> QED
    BY <1>1, <1>2, PlainTwo
<1>4. a \in Seq(Byte) /\ Len(a) = U32Bytes /\ b \in Seq(Byte) /\ Len(b) = U32Bytes
  BY ONLY <1>3 DEF fields
<1>5. m = [type |-> "Selection", phase |-> "AutoscrollUp", x |-> Num(a), y |-> Num(b)]
  BY DEF SelectionOf
<1>6. m.x = Num(a) /\ m.y = Num(b)
  BY <1>5
<1>7. p = Join(a, b)
  BY <1>3
<1> HIDE DEF a, b, m
<1>8. Put32(m.x) = a /\ Put32(m.y) = b
  BY <1>4, <1>6, Spell32
<1>9. Put32(m.x) \o Put32(m.y) = p
  BY ONLY <1>7, <1>8, Zenon DEF Join
<1> QED
  BY <1>9 DEF m

\* What is taken as a phase of a gesture was put as it.
LEMMA SelectionSpelled ==
  ASSUME NEW p \in Seq(Byte), Len(p) >= 1, TakeSelection(p) # Bad
  PROVE  TakeSelection(p).type = "Selection" /\ PutSelection(TakeSelection(p)) = p
<1> DEFINE ph == Member(Phases, p)
           t == <<p[1]>>
           back == Tail(p)
           g == Fields(back, SelectionFields(ph))
           m == SelectionOf(ph, g)
<1>1. ph # Bad /\ g # Bad /\ TakeSelection(p) = m /\ ValidSelection(m)
  BY DEF TakeSelection, With, Checked
<1>2. /\ p[1] \in Byte /\ t \in Seq(Byte) /\ Len(t) = 1
      /\ back \in Seq(Byte) /\ p = Join(t, back)
  BY HeadAndTail
<1>3. Member(Phases, t) = ph
  BY DEF Member
<1>4. Tag(Phases, ph) = t
  <2>1. Distinct(Phases) /\ Len(Phases) \in Nat
    BY Tables
  <2> HIDE DEF t, ph
  <2> QED
    BY ONLY <1>1, <1>2, <1>3, <2>1, TagSpelled
<1>5. ph \in {"Begin", "Update", "Finish", "Copy", "Cancel", "AutoscrollUp"}
  <2>1. p[1] \in Nat
    BY <1>2, BytesAreNats
  <2>2. p[1] + 1 \in 1 .. 6 /\ ph = Phases[p[1] + 1]
    BY <1>1, <2>1 DEF Member, Phases
  <2> HIDE DEF ph
  <2> QED
    BY ONLY <2>2 DEF Phases
<1>6. m.type = "Selection" /\ m.phase = ph
  <2> HIDE DEF ph, g
  <2> QED
    BY ONLY <1>5 DEF SelectionOf, m
<1> DEFINE rest == CASE m.phase = "Begin" -> Put64(m.revision) \o Put64(m.time) \o PutPointer(m)
                     [] m.phase \in {"Update", "Finish"} -> PutPointer(m)
                     [] m.phase = "AutoscrollUp" -> Put32(m.x) \o Put32(m.y)
                     [] m.phase \in {"Copy", "Cancel"} -> <<>>
<1>7. PutSelection(m) = Join(Tag(Phases, m.phase), rest)
  <2> HIDE DEF m
  <2> QED
    BY ONLY <1>1, Zenon DEF PutSelection, Join, rest
<1>8. rest = back
  <2> HIDE DEF ph, back
  <2>1. CASE ph = "Begin"
    <3>1. Put64(m.revision) \o Put64(m.time) \o PutPointer(m) = back
      BY <1>1, <1>2, <2>1, BeginSpelled
    <3> HIDE DEF m
    <3> QED
      BY ONLY <1>6, <2>1, <3>1
  <2>2. CASE ph \in {"Update", "Finish"}
    <3>1. PutPointer(m) = back
      BY <1>1, <1>2, <2>2, UpdateSpelled
    <3> HIDE DEF m
    <3> QED
      BY ONLY <1>6, <2>2, <3>1
  <2>3. CASE ph = "AutoscrollUp"
    <3>1. Put32(m.x) \o Put32(m.y) = back
      BY <1>1, <1>2, <2>3, AutoscrollSpelled
    <3> HIDE DEF m
    <3> QED
      BY ONLY <1>6, <2>3, <3>1
  <2>4. CASE ph \in {"Copy", "Cancel"}
    <3>1. SelectionFields(ph) = <<>>
      BY <2>4 DEF SelectionFields
    <3>2. back = <<>>
      BY <1>1, <1>2, <3>1, PlainNone
    <3> HIDE DEF m
    <3> QED
      BY ONLY <1>6, <2>4, <3>2
  <2> QED
    BY <1>5, <2>1, <2>2, <2>3, <2>4
<1> HIDE DEF m, rest, ph, back, t
<1>9. PutSelection(m) = p
  BY ONLY <1>2, <1>4, <1>6, <1>7, <1>8, Zenon
<1> QED
  BY <1>1, <1>6, <1>9

\* An optional text is its length and its bytes, or the largest length.
OptionalText(text) == IF text = <<>> THEN Put32(MaxU32) ELSE PutBytes(text[1])

\* It lies in front of what is left when it is taken.
LEMMA TextPlaces ==
  ASSUME NEW r, IsReader(r), NEW k \in Nat, Len(r.got) = k, TakeOptionalText(r) # Bad
  PROVE  \E text : LET q == TakeOptionalText(r)
                   IN  /\ IsReader(q) /\ Len(q.got) = k + 1 /\ q.got[k + 1] = text
                       /\ Placed(q.got, 0, r.got, k)
                       /\ OptionalText(text) \in Seq(Byte)
                       /\ r.rest = Join(OptionalText(text), q.rest)
<1> DEFINE q == TakeOptionalText(r)
           front == SubSeq(r.rest, 1, U32Bytes)
           back == SubSeq(r.rest, U32Bytes + 1, Len(r.rest))
           t == Take(r, Prefixed)
           None == Len(r.rest) >= U32Bytes /\ Num(front) = MaxU32
<1>1. r.rest \in Seq(Byte) /\ Len(r.rest) \in Nat /\ U32Bytes \in Nat /\ IsSeq(r.got)
  BY WireAssumption DEF IsReader
<1>2. q = IF r = Bad THEN Bad
          ELSE IF None THEN [rest |-> back, got |-> Append(r.got, <<>>)]
          ELSE With(t, LAMBDA text : [text EXCEPT !.got[Len(text.got)] = <<@>>])
  BY DEF TakeOptionalText
<1>3. r # Bad /\ q # Bad
  BY DEF TakeOptionalText
<1>4. ASSUME NEW text, IsReader(q), q.got = Append(r.got, text),
             OptionalText(text) \in Seq(Byte), r.rest = Join(OptionalText(text), q.rest)
      PROVE  /\ IsReader(q) /\ Len(q.got) = k + 1 /\ q.got[k + 1] = text
             /\ Placed(q.got, 0, r.got, k)
             /\ OptionalText(text) \in Seq(Byte) /\ r.rest = Join(OptionalText(text), q.rest)
  <2> HIDE DEF q
  <2>1. /\ Len(q.got) = k + 1 /\ q.got[k + 1] = text /\ \A i \in 1 .. k : q.got[i] = r.got[i]
    <3> DEFINE v == r.got
               w == q.got
    <3>1. IsSeq(v) /\ Len(v) = k /\ w = Append(v, text)
      BY <1>1, <1>4
    <3> HIDE DEF v, w
    <3>2. /\ Len(w) = k + 1 /\ w[k + 1] = text /\ \A i \in 1 .. k : w[i] = v[i]
      BY ONLY <3>1, SeqGrows
    <3> QED
      BY <3>2 DEF v, w
  <2>2. \A i \in 1 .. k : 0 + i = i
    OBVIOUS
  <2> QED
    BY <1>4, <2>1, <2>2 DEF Placed
<1>5. CASE None
  <2>1. q = [rest |-> back, got |-> Append(r.got, <<>>)]
    BY <1>2, <1>3, <1>5
  <2>2. /\ front \in Seq(Byte) /\ Len(front) = U32Bytes /\ back \in Seq(Byte)
        /\ r.rest = front \o back
    <3>1. U32Bytes \in 0 .. Len(r.rest)
      BY <1>1, <1>5
    <3> QED
      BY <1>1, <3>1, Split
  <2>3. OptionalText(<<>>) = front
    <3>1. Put32(Num(front)) = front
      BY <2>2, Spell32
    <3> QED
      BY <1>5, <3>1 DEF OptionalText
  <2>4. IsSeq(Append(r.got, <<>>))
    BY <1>1, SeqGrows
  <2> HIDE DEF q, front, back
  <2>5. IsReader(q) /\ q.got = Append(r.got, <<>>) /\ q.rest = back
    BY <2>1, <2>2, <2>4 DEF IsReader
  <2>6. OptionalText(<<>>) \in Seq(Byte) /\ r.rest = Join(OptionalText(<<>>), q.rest)
    BY <2>2, <2>3, <2>5 DEF Join
  <2> QED
    BY <1>4, <2>5, <2>6 DEF q
<1>6. CASE ~None
  <2>1. t # Bad /\ q = [t EXCEPT !.got[Len(t.got)] = <<@>>]
    BY <1>2, <1>3, <1>6 DEF With
  <2>2. PICK g : Takes(r, t, Prefixed, g)
    <3>1. IsField(Prefixed)
      BY DEF IsField, Prefixed
    <3> QED
      BY <2>1, <3>1, TakeTakes
  <2>3. /\ IsReader(t) /\ t.got = Append(r.got, g) /\ PutBytes(g) \in Seq(Byte)
        /\ r.rest = Join(PutBytes(g), t.rest)
    <3>1. Spelt(Prefixed, g) = PutBytes(g)
      BY DEF Spelt
    <3> QED
      BY <2>2, <3>1, Zenon DEF Takes, Join
  <2> DEFINE e == <<g>>
             more == [t.got EXCEPT ![Len(t.got)] = e]
  <2> HIDE DEF t
  <2>4. t.got[Len(t.got)] = g
    <3>1. Len(t.got) = Len(r.got) + 1 /\ t.got[Len(r.got) + 1] = g
      BY <1>1, <2>3, SeqGrows
    <3> QED
      BY ONLY <3>1
  <2>5. q = [t EXCEPT !.got = more]
    BY <2>1, <2>4
  <2>6. more = Append(r.got, e)
    <3> HIDE DEF e
    <3> DEFINE u == Append(r.got, g)
    <3>1. [u EXCEPT ![Len(u)] = e] = Append(r.got, e)
      BY <1>1, AppendReplaced
    <3> QED
      BY <2>3, <3>1
  <2>7. t = [rest |-> t.rest, got |-> t.got] /\ t.rest \in Seq(Byte)
    BY <2>3 DEF IsReader
  <2> HIDE DEF more, q
  <2>8. q = [rest |-> t.rest, got |-> more]
    BY ONLY <2>5, <2>7
  <2>9. IsSeq(more)
    BY <1>1, <2>6, SeqGrows
  <2>10. IsReader(q) /\ q.rest = t.rest /\ q.got = Append(r.got, e)
    BY <2>6, <2>7, <2>8, <2>9 DEF IsReader
  <2>11. OptionalText(e) = PutBytes(g)
    BY DEF OptionalText
  <2> HIDE DEF e
  <2>12. OptionalText(e) \in Seq(Byte) /\ r.rest = Join(OptionalText(e), q.rest)
    BY ONLY <2>3, <2>10, <2>11
  <2> QED
    BY <1>4, <2>10, <2>12 DEF q
<1> QED
  BY <1>5, <1>6

\* What is taken as a key was put as it.
LEMMA KeySpelled ==
  ASSUME NEW p \in Seq(Byte), TakeKey(p) # Bad
  PROVE  TakeKey(p).type = "Key" /\ PutKey(TakeKey(p)) = p
<1> DEFINE five == <<1, 2, 2, 2, 1>>
           last == <<U32Bytes>>
           r1 == Read(Reader(p), five)
           r2 == TakeOptionalText(r1)
           r == Read(r2, last)
           h == r.got
           m == [type |-> "Key", action |-> Member(KeyActions, h[1]), key |-> Num(h[2]),
                 modifiers |-> Num(h[3]), consumed |-> Num(h[4]),
                 composing |-> Bool(h[5]), text |-> h[6],
                 codepoint |-> IF Num(h[7]) = MaxU32 THEN <<>> ELSE <<Num(h[7])>>]
           valid == /\ r.rest = <<>>
                    /\ Sound(<<m.action, m.composing>>)
                    /\ m.key <= MaxPhysicalKey
                    /\ \A c \in ToSet(m.codepoint) : ValidChar(c)
                    /\ ValidKey(m)
<1>1. r # Bad /\ TakeKey(p) = Checked(m, valid)
  <2>1. TakeKey(p) = IF r = Bad THEN Bad ELSE IF m = Bad THEN Bad ELSE Checked(m, valid)
    BY Zenon DEF TakeKey, With
  <2> HIDE DEF r, m, valid
  <2> QED
    BY <2>1
<1>2. TakeKey(p) = m /\ valid
  <2> HIDE DEF r, m, valid
  <2> QED
    BY <1>1 DEF Checked
<1>3. /\ r.rest = <<>> /\ m.action # Bad /\ m.composing # Bad /\ ValidKey(m)
  <2>1. r.rest = <<>> /\ Sound(<<m.action, m.composing>>) /\ ValidKey(m)
    BY <1>2
  <2> HIDE DEF m, r
  <2> QED
    BY <2>1 DEF Sound
<1>4. /\ m.type = "Key" /\ m.action = Member(KeyActions, h[1]) /\ m.key = Num(h[2])
      /\ m.modifiers = Num(h[3]) /\ m.consumed = Num(h[4]) /\ m.composing = Bool(h[5])
      /\ m.text = h[6]
      /\ m.codepoint = IF Num(h[7]) = MaxU32 THEN <<>> ELSE <<Num(h[7])>>
  OBVIOUS
<1> HIDE DEF m, valid
<1>5. r2 # Bad /\ r1 # Bad
  <2>1. r2 # Bad
    <3>1. r2 = Bad => r = Bad
      <4> HIDE DEF r2
      <4> QED
        BY ReadBad
    <3> QED
      BY <1>1, <3>1
  <2>2. r1 = Bad => r2 = Bad
    <3> HIDE DEF r1
    <3> QED
      BY DEF TakeOptionalText
  <2> QED
    BY <2>1, <2>2
<1>6. AreFields(five, 5) /\ AreFields(last, 1) /\ \A i \in 1 .. 5 : five[i] \in Nat \ {0}
  BY WireAssumption DEF AreFields, IsField
<1>7. /\ IsReader(r1) /\ r1.rest \in Seq(Byte) /\ Taken(five, r1.got, 5)
      /\ p = Join(Spelled(five, r1.got), r1.rest)
  <2>1. 5 \in Nat
    OBVIOUS
  <2> HIDE DEF five
  <2> QED
    BY <1>5, <1>6, <2>1, ReadAll
<1> DEFINE g == r1.got
<1>8. Len(g) = 5 /\ 5 \in Nat
  BY <1>7 DEF Taken
<1>9. PICK text : /\ IsReader(r2) /\ Len(r2.got) = 5 + 1 /\ r2.got[5 + 1] = text
                  /\ Placed(r2.got, 0, g, 5)
                  /\ OptionalText(text) \in Seq(Byte)
                  /\ r1.rest = Join(OptionalText(text), r2.rest)
  <2> DEFINE k == 5
  <2>1. k \in Nat /\ Len(r1.got) = k
    BY <1>8
  <2> HIDE DEF r1, k
  <2>2. \E text : /\ IsReader(r2) /\ Len(r2.got) = k + 1 /\ r2.got[k + 1] = text
                  /\ Placed(r2.got, 0, r1.got, k)
                  /\ OptionalText(text) \in Seq(Byte)
                  /\ r1.rest = Join(OptionalText(text), r2.rest)
    BY <1>5, <1>7, <2>1, TextPlaces
  <2> HIDE DEF r2
  <2> QED
    BY <2>2 DEF k
<1>10. PICK gs : /\ Taken(last, gs, 1) /\ Placed(h, 6, gs, 1) /\ Placed(h, 0, r2.got, 6)
                 /\ r2.rest = Join(Spelled(last, gs), r.rest)
  <2> DEFINE k == 6
             n == 1
  <2>1. k \in Nat /\ n \in Nat /\ Len(r2.got) = k /\ AreFields(last, n)
    BY <1>6, <1>9
  <2> HIDE DEF r2, k, n, last
  <2>2. \E gs : /\ IsReader(r) /\ Len(h) = k + n
                /\ Taken(last, gs, n) /\ Placed(h, k, gs, n) /\ Placed(h, 0, r2.got, k)
                /\ r2.rest = Join(Spelled(last, gs), r.rest)
    BY <1>1, <1>9, <2>1, ReadPlaces
  <2> HIDE DEF r
  <2> QED
    BY <2>2 DEF k, n
<1> DEFINE d == gs[1]
<1>11. /\ h[1] = g[1] /\ h[2] = g[2] /\ h[3] = g[3] /\ h[4] = g[4] /\ h[5] = g[5]
       /\ h[6] = text /\ h[7] = d
  <2> HIDE DEF r, r1, r2
  <2>1. \A i \in 1 .. 5 : r2.got[i] = g[i]
    BY <1>9 DEF Placed
  <2>2. \A i \in 1 .. 6 : h[i] = r2.got[i]
    BY <1>10 DEF Placed
  <2>3. h[7] = gs[1]
    BY <1>10 DEF Placed
  <2> QED
    BY ONLY <1>9, <2>1, <2>2, <2>3
<1>12. d \in Seq(Byte) /\ Len(d) = U32Bytes /\ Spelled(last, gs) = d
  <2> DEFINE n == 1
  <2>1. n \in Nat /\ n # 0 /\ Taken(last, gs, n)
    BY <1>10
  <2> HIDE DEF n
  <2>2. \A i \in 1 .. n : gs[i] \in Seq(Byte)
    BY <2>1, FieldsTaken
  <2>3. \A i \in 1 .. n : last[i] \in Nat \ {0} => Len(gs[i]) = last[i]
    BY <2>1, FieldsTaken
  <2>4. PICK w : w[1] = Spelt(last[1], gs[1]) /\ w[n] = Spelled(last, gs)
    BY <2>1, SpelledFields
  <2>5. last[1] = U32Bytes /\ U32Bytes \in Nat \ {0}
    BY WireAssumption
  <2>6. Spelt(last[1], gs[1]) = gs[1]
    BY <2>5, SpeltPlain DEF Prefixed
  <2> QED
    BY <2>2, <2>3, <2>4, <2>5, <2>6 DEF n
<1>13. /\ \A i \in 1 .. 5 : g[i] \in Seq(Byte) /\ Len(g[i]) = five[i]
       /\ Spelled(five, g) = Join(Join(Join(Join(g[1], g[2]), g[3]), g[4]), g[5])
  <2> HIDE DEF five, r1
  <2>1. \A i \in 1 .. 5 : Spelt(five[i], g[i]) = g[i]
    BY <1>6, SpeltPlain DEF Prefixed
  <2>2. \A i \in 1 .. 5 : g[i] \in Seq(Byte) /\ Len(g[i]) = five[i]
    BY <1>6, <1>7, <1>8, FieldsTaken
  <2>3. Spelled(five, g)
          = Join(Join(Join(Join(Spelt(five[1], g[1]), Spelt(five[2], g[2])),
                 Spelt(five[3], g[3])), Spelt(five[4], g[4])), Spelt(five[5], g[5]))
    BY <1>7, SpelledFive
  <2>4. /\ Spelt(five[1], g[1]) = g[1] /\ Spelt(five[2], g[2]) = g[2]
        /\ Spelt(five[3], g[3]) = g[3] /\ Spelt(five[4], g[4]) = g[4]
        /\ Spelt(five[5], g[5]) = g[5]
    BY ONLY <2>1
  <2> QED
    BY ONLY <2>2, <2>3, <2>4, Zenon
<1>14. /\ g[1] \in Seq(Byte) /\ Len(g[1]) = 1 /\ g[2] \in Seq(Byte) /\ Len(g[2]) = 2
       /\ g[3] \in Seq(Byte) /\ Len(g[3]) = 2 /\ g[4] \in Seq(Byte) /\ Len(g[4]) = 2
       /\ g[5] \in Seq(Byte) /\ Len(g[5]) = 1
  BY ONLY <1>13 DEF five
<1> DEFINE a1 == g[1]
           a2 == g[2]
           a3 == g[3]
           a4 == g[4]
           a5 == g[5]
           s == Spelled(five, g)
           left == r1.rest
           over == r2.rest
           t == OptionalText(text)
<1>15. /\ m.action = Member(KeyActions, a1) /\ m.key = Num(a2) /\ m.modifiers = Num(a3)
       /\ m.consumed = Num(a4) /\ m.composing = Bool(a5) /\ m.text = text
       /\ m.codepoint = IF Num(d) = MaxU32 THEN <<>> ELSE <<Num(d)>>
  BY ONLY <1>4, <1>11
<1>16. /\ p = Join(s, left) /\ left = Join(t, over) /\ over = Join(d, <<>>)
       /\ s = Join(Join(Join(Join(a1, a2), a3), a4), a5)
       /\ left \in Seq(Byte) /\ t \in Seq(Byte)
  <2>1. /\ p = Join(s, left) /\ left = Join(t, over)
        /\ s = Join(Join(Join(Join(a1, a2), a3), a4), a5)
        /\ left \in Seq(Byte) /\ t \in Seq(Byte)
    BY <1>7, <1>9, <1>13
  <2>2. over = Join(d, <<>>)
    <3> HIDE DEF r, r2, d
    <3> QED
      BY ONLY <1>3, <1>10, <1>12, Zenon DEF over
  <2> QED
    BY <2>1, <2>2
<1>17. /\ a1 \in Seq(Byte) /\ Len(a1) = 1 /\ a2 \in Seq(Byte) /\ Len(a2) = 2
       /\ a3 \in Seq(Byte) /\ Len(a3) = 2 /\ a4 \in Seq(Byte) /\ Len(a4) = 2
       /\ a5 \in Seq(Byte) /\ Len(a5) = 1 /\ d \in Seq(Byte) /\ Len(d) = U32Bytes
  BY <1>12, <1>14
<1>18. OptionalText(m.text) = t
  BY <1>15
<1> HIDE DEF a1, a2, a3, a4, a5, s, left, over, t, d, r, r1, r2
<1>19. /\ Tag(KeyActions, m.action) = a1 /\ Put16(m.key) = a2 /\ Put16(m.modifiers) = a3
       /\ Put16(m.consumed) = a4 /\ PutBool(m.composing) = a5
  <2>1. Distinct(KeyActions) /\ Len(KeyActions) \in Nat
    BY Tables
  <2>2. Member(KeyActions, a1) # Bad
    BY <1>3, <1>15
  <2>3. Tag(KeyActions, m.action) = a1
    BY ONLY <1>15, <1>17, <2>1, <2>2, TagSpelled
  <2>4. PutBool(m.composing) = a5
    BY <1>3, <1>15, SpellBool
  <2>5. Put16(m.key) = a2 /\ Put16(m.modifiers) = a3 /\ Put16(m.consumed) = a4
    BY <1>15, <1>17, Spell16
  <2> QED
    BY <2>3, <2>4, <2>5
<1>20. Put32(IF m.codepoint = <<>> THEN MaxU32 ELSE m.codepoint[1]) = d
  <2>1. Put32(Num(d)) = d
    BY <1>17, Spell32
  <2>2. (IF m.codepoint = <<>> THEN MaxU32 ELSE m.codepoint[1]) = Num(d)
    BY <1>15
  <2> QED
    BY <2>1, <2>2
<1>21. PutKey(m) = Join(Join(s, t), d)
  <2>1. PutKey(m)
          = Join(Join(Join(Join(Join(Join(Tag(KeyActions, m.action), Put16(m.key)),
                 Put16(m.modifiers)), Put16(m.consumed)), PutBool(m.composing)),
                 OptionalText(m.text)),
                 Put32(IF m.codepoint = <<>> THEN MaxU32 ELSE m.codepoint[1]))
    BY ONLY <1>3, Zenon DEF PutKey, Join, OptionalText
  <2> QED
    BY ONLY <1>16, <1>18, <1>19, <1>20, <2>1, Zenon
<1>22. s \in Seq(Byte)
  <2>1. Join(a1, a2) \in Seq(Byte)
    BY <1>17, JoinBytes
  <2>2. Join(Join(a1, a2), a3) \in Seq(Byte)
    BY <1>17, <2>1, JoinBytes
  <2>3. Join(Join(Join(a1, a2), a3), a4) \in Seq(Byte)
    BY <1>17, <2>2, JoinBytes
  <2> QED
    BY <1>16, <1>17, <2>3, JoinBytes
<1>23. Join(Join(s, t), d) = p
  <2>1. Join(d, <<>>) = d
    BY <1>17, ConcatEmptySeq DEF Join
  <2>2. left = Join(t, d)
    BY ONLY <1>16, <2>1, Zenon
  <2>3. Join(s, Join(t, d)) = Join(Join(s, t), d)
    BY <1>16, <1>17, <1>22, JoinGroups
  <2> QED
    BY ONLY <1>16, <2>2, <2>3, Zenon
<1> QED
  BY ONLY <1>2, <1>4, <1>21, <1>23, Zenon

\* What a client's message of that length is made of.
LEMMA ClientParts ==
  ASSUME NEW bytes \in Seq(Byte), Len(bytes) >= HeaderBytes, DecodeClient(bytes) # Bad
  PROVE  LET kind == ClientKinds[bytes[7]]
             p == SubSeq(bytes, HeaderBytes + 1, Len(bytes))
             m == DecodeClient(bytes)
         IN  /\ kind \in {"Hello", "Key", "Mouse", "Focus", "Paste", "Resize", "Selection",
                          "PreviewVertical", "ObserveMetadata", "ScrollVertical", "ReturnToLive"}
             /\ p \in Seq(Byte)
             /\ Len(p) \in ClientLimits(kind)[1] .. ClientLimits(kind)[2]
             /\ Framed(kind, ClientKinds, 1, p, ClientLimits(kind)) = bytes
             /\ m = CASE kind \in {"Hello", "ObserveMetadata", "ReturnToLive"} -> [type |-> kind]
                      [] kind = "Key" -> TakeKey(p)
                      [] kind = "Mouse" -> TakeMouse(p)
                      [] kind = "Focus" ->
                           With(Member(FocusEvents, p),
                                LAMBDA event : [type |-> kind, event |-> event])
                      [] kind = "Paste" -> [type |-> kind, data |-> p]
                      [] kind = "Resize" -> TakeResize(p)
                      [] kind = "Selection" -> TakeSelection(p)
                      [] kind = "PreviewVertical" -> TakePreviewRequest(p)
                      [] kind = "ScrollVertical" -> TakeScrollRequest(p)
<1> DEFINE length == ClientMessageLen(bytes)
           tag == bytes[7]
           kind == ClientKinds[tag]
           p == SubSeq(bytes, HeaderBytes + 1, Len(bytes))
           m == DecodeClient(bytes)
           Made(q) == CASE kind \in {"Hello", "ObserveMetadata", "ReturnToLive"} -> [type |-> kind]
                        [] kind = "Key" -> TakeKey(q)
                        [] kind = "Mouse" -> TakeMouse(q)
                        [] kind = "Focus" ->
                             With(Member(FocusEvents, q),
                                  LAMBDA event : [type |-> kind, event |-> event])
                        [] kind = "Paste" -> [type |-> kind, data |-> q]
                        [] kind = "Resize" -> TakeResize(q)
                        [] kind = "Selection" -> TakeSelection(q)
                        [] kind = "PreviewVertical" -> TakePreviewRequest(q)
                        [] kind = "ScrollVertical" -> TakeScrollRequest(q)
<1>1. m = IF Payload(bytes, length) = Bad THEN Bad ELSE Made(Payload(bytes, length))
  BY Zenon DEF DecodeClient, With
<1>2. length # Bad /\ length = Len(bytes) /\ Payload(bytes, length) = p
  <2>1. Payload(bytes, length) # Bad
    <3> HIDE DEF Made, length
    <3> QED
      BY <1>1
  <2> QED
    BY <2>1 DEF Payload, Checked
<1>3. m = Made(p)
  <2>1. m # Bad
    OBVIOUS
  <2> HIDE DEF Made, p, m, length
  <2> QED
    BY <1>1, <1>2, <2>1
<1>4. length = MessageLen(bytes, ClientKinds, 1, ClientTable)
  BY DEF ClientMessageLen, ClientTable
<1> DEFINE k == KindOf(ClientKinds, 1, tag)
<1>5. /\ k # Bad /\ tag - 1 \in 0 .. 11 - 1
      /\ k = ClientKinds[tag - 1 + 1]
      /\ p \in Seq(Byte)
      /\ Len(p) \in ClientTable[k][1] .. ClientTable[k][2]
      /\ Framed(k, ClientKinds, 1, p, ClientTable[k]) = bytes
  <2> DEFINE last == 11
             first == 1
  <2>1. /\ last \in Nat /\ Len(ClientKinds) = last /\ Distinct(ClientKinds) /\ first \in Nat
        /\ LimitsAre(ClientKinds, last, ClientTable)
        /\ MessageLen(bytes, ClientKinds, first, ClientTable) = Len(bytes)
        /\ MessageLen(bytes, ClientKinds, first, ClientTable) # Bad
    BY <1>2, <1>4, Tables, ClientTableType
  <2> HIDE DEF last, first, k, p, length
  <2>2. LET j == KindOf(ClientKinds, first, bytes[7])
            q == SubSeq(bytes, HeaderBytes + 1, Len(bytes))
        IN  /\ j # Bad /\ bytes[7] - first \in 0 .. last - 1
            /\ j = ClientKinds[bytes[7] - first + 1]
            /\ q \in Seq(Byte)
            /\ Len(q) \in ClientTable[j][1] .. ClientTable[j][2]
            /\ Framed(j, ClientKinds, first, q, ClientTable[j]) = bytes
    <3>1. bytes \in Seq(Byte) /\ Len(bytes) >= HeaderBytes
      OBVIOUS
    <3> DEFINE kinds == ClientKinds
               limits == ClientTable
    <3>2. /\ last \in Nat /\ Len(kinds) = last /\ Distinct(kinds) /\ first \in Nat
          /\ LimitsAre(kinds, last, limits)
          /\ MessageLen(bytes, kinds, first, limits) = Len(bytes)
          /\ MessageLen(bytes, kinds, first, limits) # Bad
      BY <2>1
    <3> HIDE DEF kinds, limits
    <3>3. HeaderSays(bytes, kinds, first, last, limits)
      BY ONLY <3>1, <3>2, HeaderSpells
    <3> QED
      BY ONLY <3>3, Zenon DEF kinds, limits, HeaderSays
  <2> QED
    BY ONLY <2>2, Zenon DEF last, first, k, p, tag
<1>6. tag \in Nat
  <2>1. HeaderBytes \in Nat /\ HeaderBytes >= 10 /\ Len(bytes) \in Nat
    BY WireAssumption DEF HeaderBytes
  <2> QED
    BY <2>1, BytesAreNats
<1> HIDE DEF tag
<1>7. tag \in 1 .. 11 /\ tag - 1 + 1 = tag
  BY ONLY <1>5, <1>6
<1>8. k = kind /\ ClientTable[kind] = ClientLimits(kind)
  <2>1. ClientTable[ClientKinds[tag]] = ClientLimits(ClientKinds[tag])
    BY <1>7, ClientTableType
  <2> QED
    BY ONLY <1>5, <1>7, <2>1, Zenon
<1>9. kind \in {"Hello", "Key", "Mouse", "Focus", "Paste", "Resize", "Selection",
                "PreviewVertical", "ObserveMetadata", "ScrollVertical", "ReturnToLive"}
  BY <1>7, ClientKindsAre
<1> HIDE DEF k, kind, p, m
<1>10. /\ Len(p) \in ClientLimits(kind)[1] .. ClientLimits(kind)[2]
       /\ Framed(kind, ClientKinds, 1, p, ClientLimits(kind)) = bytes
  BY ONLY <1>5, <1>8, Zenon
<1> QED
  BY ONLY <1>3, <1>5, <1>9, <1>10, Zenon DEF kind, tag, p, m, Made

(***************************************************************************)
(* A message is decoded (decode_client_message) only from the bytes that   *)
(* encoding it yields: the two sides agree on the tags, the lengths, the   *)
(* limits and what is valid, as far as a message is admitted at all.       *)
(***************************************************************************)
THEOREM ClientSpelled ==
  ASSUME NEW bytes \in Seq(Byte), Len(bytes) >= HeaderBytes, DecodeClient(bytes) # Bad
  PROVE  /\ EncodeClient(DecodeClient(bytes)) = bytes
         /\ DecodeClient(bytes).type = ClientKinds[bytes[7]]
         /\ ClientKinds[bytes[7]] \in
              {"Hello", "Key", "Mouse", "Focus", "Paste", "Resize", "Selection",
               "PreviewVertical", "ObserveMetadata", "ScrollVertical", "ReturnToLive"}
<1> DEFINE kind == ClientKinds[bytes[7]]
           p == SubSeq(bytes, HeaderBytes + 1, Len(bytes))
           m == DecodeClient(bytes)
           Focus(event) == [type |-> kind, event |-> event]
           low == ClientLimits(kind)[1]
           high == ClientLimits(kind)[2]
           plain == {"Hello", "ObserveMetadata", "ReturnToLive"}
<1>1. /\ kind \in {"Hello", "Key", "Mouse", "Focus", "Paste", "Resize", "Selection",
                   "PreviewVertical", "ObserveMetadata", "ScrollVertical", "ReturnToLive"}
      /\ p \in Seq(Byte) /\ Len(p) \in low .. high
      /\ Framed(kind, ClientKinds, 1, p, ClientLimits(kind)) = bytes
      /\ m = CASE kind \in plain -> [type |-> kind]
               [] kind = "Key" -> TakeKey(p)
               [] kind = "Mouse" -> TakeMouse(p)
               [] kind = "Focus" ->
                    With(Member(FocusEvents, p), LAMBDA event : [type |-> kind, event |-> event])
               [] kind = "Paste" -> [type |-> kind, data |-> p]
               [] kind = "Resize" -> TakeResize(p)
               [] kind = "Selection" -> TakeSelection(p)
               [] kind = "PreviewVertical" -> TakePreviewRequest(p)
               [] kind = "ScrollVertical" -> TakeScrollRequest(p)
  BY ClientParts, Zenon
<1>2. m # Bad
  OBVIOUS
<1>13. p \in Seq(Byte) /\ Len(p) \in low .. high
  BY <1>1, Zenon
<1> HIDE DEF kind, p, m
<1>14. Len(p) \in Nat /\ p \in Seq(Byte)
  BY ONLY <1>13
<1>3. SUFFICES m.type = kind /\ ClientPayload(m) = p
  <2>1. EncodeClient(m) = Framed(m.type, ClientKinds, 1, ClientPayload(m), ClientLimits(m.type))
    BY DEF EncodeClient
  <2> QED
    BY <1>1, <2>1, Zenon DEF m, kind
<1>4. CASE kind \in plain
  <2>1. m = [type |-> kind]
    BY <1>1, <1>4
  <2>2. m.type = kind
    BY ONLY <2>1
  <2>3. Len(p) = 0
    <3>1. ClientLimits(kind) = <<0, 0>>
      BY <1>4 DEF ClientLimits
    <3>2. low = 0 /\ high = 0
      BY ONLY <3>1
    <3> DEFINE size == Len(p)
    <3>3. size \in Nat /\ size \in low .. high
      BY ONLY <1>13, <1>14, Zenon
    <3> HIDE DEF low, high, size
    <3> QED
      BY ONLY <3>2, <3>3 DEF size
  <2>4. p = <<>>
    BY ONLY <1>14, <2>3
  <2>5. ClientPayload(m) = <<>>
    BY <1>4, <2>2 DEF ClientPayload
  <2> QED
    BY <2>2, <2>4, <2>5
<1>5. CASE kind = "Key"
  <2>1. m = TakeKey(p)
    BY <1>1, <1>5
  <2>2. m.type = kind /\ PutKey(m) = p
    BY <1>1, <1>2, <1>5, <2>1, KeySpelled
  <2> QED
    BY <1>5, <2>2 DEF ClientPayload
<1>6. CASE kind = "Mouse"
  <2>1. m = TakeMouse(p)
    BY <1>1, <1>6
  <2>2. m.type = kind /\ PutMouse(m) = p
    BY <1>1, <1>2, <1>6, <2>1, MouseSpelled
  <2> QED
    BY <1>6, <2>2 DEF ClientPayload
<1>7. CASE kind = "Focus"
  <2> DEFINE event == Member(FocusEvents, p)
  <2>1. m = With(event, Focus)
    <3>1. With(event, Focus) = With(event, LAMBDA e : [type |-> kind, event |-> e])
      BY DEF With
    <3> HIDE DEF Focus
    <3> QED
      BY <1>1, <1>7, <3>1
  <2>2. event # Bad /\ m = [type |-> kind, event |-> event]
    <3> HIDE DEF event
    <3> QED
      BY <1>2, <2>1 DEF With
  <2> HIDE DEF event
  <2>3. m.type = kind /\ m.event = event
    BY ONLY <2>2
  <2>4. Len(p) = 1
    <3>1. ClientLimits(kind) = <<1, 1>>
      BY <1>7 DEF ClientLimits
    <3>2. low = 1 /\ high = 1
      BY ONLY <3>1
    <3> DEFINE size == Len(p)
    <3>3. size \in Nat /\ size \in low .. high
      BY ONLY <1>13, <1>14, Zenon
    <3> HIDE DEF low, high, size
    <3> QED
      BY ONLY <3>2, <3>3 DEF size
  <2>5. Distinct(FocusEvents) /\ Len(FocusEvents) \in Nat
    BY Tables
  <2>6. Tag(FocusEvents, event) = p
    BY ONLY <1>1, <2>2, <2>4, <2>5, TagSpelled DEF event
  <2> QED
    BY <1>7, <2>3, <2>6 DEF ClientPayload
<1>8. CASE kind = "Paste"
  <2>1. m = [type |-> kind, data |-> p]
    BY <1>1, <1>8
  <2>2. m.type = kind /\ m.data = p
    BY ONLY <2>1
  <2>3. Len(p) <= MaxPasteBytes
    <3>1. ClientLimits(kind) = <<0, MaxPasteBytes>>
      BY <1>8 DEF ClientLimits
    <3>2. low = 0 /\ high = MaxPasteBytes /\ MaxPasteBytes \in Nat
      BY <3>1, SessionAssumption
    <3> DEFINE size == Len(p)
    <3>3. size \in Nat /\ size \in low .. high
      BY ONLY <1>13, <1>14, Zenon
    <3> HIDE DEF low, high, size
    <3> QED
      BY ONLY <3>2, <3>3 DEF size
  <2> QED
    BY <1>8, <2>2, <2>3 DEF ClientPayload, Checked
<1>9. CASE kind = "Resize"
  <2>1. m = TakeResize(p)
    BY <1>1, <1>9
  <2>2. m.type = kind /\ PutResize(m) = p
    BY <1>1, <1>2, <1>9, <2>1, ResizeSpelled
  <2> QED
    BY <1>9, <2>2 DEF ClientPayload
<1>10. CASE kind = "Selection"
  <2>1. m = TakeSelection(p)
    BY <1>1, <1>10
  <2>2. Len(p) >= 1
    <3>1. ClientLimits(kind) = <<1, 3 + 2 * U64Bytes + 2 * U32Bytes>>
      BY <1>10 DEF ClientLimits
    <3>2. low = 1 /\ high \in Nat
      BY <3>1, WireAssumption
    <3> DEFINE size == Len(p)
    <3>3. size \in Nat /\ size \in low .. high
      BY ONLY <1>13, <1>14, Zenon
    <3> HIDE DEF low, high, size
    <3> QED
      BY ONLY <3>2, <3>3 DEF size
  <2>3. m.type = kind /\ PutSelection(m) = p
    BY <1>1, <1>2, <1>10, <2>1, <2>2, SelectionSpelled
  <2> QED
    BY <1>10, <2>3 DEF ClientPayload
<1>11. CASE kind = "PreviewVertical"
  <2>1. m = TakePreviewRequest(p)
    BY <1>1, <1>11
  <2>2. m.type = kind /\ Put64(m.revision) \o Tag(Directions, m.direction) = p
    BY <1>1, <1>2, <1>11, <2>1, PreviewRequestSpelled
  <2> QED
    BY <1>11, <2>2 DEF ClientPayload
<1>12. CASE kind = "ScrollVertical"
  <2>1. m = TakeScrollRequest(p)
    BY <1>1, <1>12
  <2>2. m.type = kind /\ ValidScrollRows(m.rows) /\ Put64(m.revision) \o PutI16(m.rows) = p
    BY <1>1, <1>2, <1>12, <2>1, ScrollRequestSpelled
  <2> QED
    BY <1>12, <2>2 DEF ClientPayload, Checked
<1> QED
  BY <1>1, <1>4, <1>5, <1>6, <1>7, <1>8, <1>9, <1>10, <1>11, <1>12

\* What is taken as metadata was put as it,
LEMMA MetadataSpelled ==
  ASSUME NEW p \in Seq(Byte), TakeMetadata(p) # Bad
  PROVE  LET m == TakeMetadata(p)
         IN  m.type = "Metadata" /\ Put64(m.revision) \o PutBytes(m.title) \o PutBytes(m.cwd) = p
<1> DEFINE fields == <<U64Bytes, Prefixed, Prefixed>>
           g == Fields(p, fields)
           m == [type |-> "Metadata", revision |-> Num(g[1]), title |-> g[2], cwd |-> g[3]]
<1>1. g # Bad /\ TakeMetadata(p) = m
  BY DEF TakeMetadata, With, Checked
<1>2. AreFields(fields, 3) /\ 3 \in Nat /\ 3 # 0
  BY WireAssumption DEF AreFields, IsField, Prefixed
<1>3. Taken(fields, g, 3) /\ p = Spelled(fields, g)
  <2> HIDE DEF fields
  <2> QED
    BY <1>1, <1>2, FieldsAll
<1>4. m.type = "Metadata" /\ m.revision = Num(g[1]) /\ m.title = g[2] /\ m.cwd = g[3]
  OBVIOUS
<1> HIDE DEF m, g
<1>5. p = Join(Join(Spelt(fields[1], g[1]), Spelt(fields[2], g[2])), Spelt(fields[3], g[3]))
  BY <1>3, SpelledThree
<1>6. /\ Spelt(fields[1], g[1]) = g[1] /\ Spelt(fields[2], g[2]) = PutBytes(g[2])
      /\ Spelt(fields[3], g[3]) = PutBytes(g[3])
  BY WireAssumption DEF Spelt, Prefixed
<1>7. g[1] \in Seq(Byte) /\ Len(g[1]) = U64Bytes
  <2> DEFINE n == 3
  <2>1. n \in Nat /\ Taken(fields, g, n)
    BY <1>3
  <2>2. 1 \in 1 .. n /\ fields[1] = U64Bytes /\ fields[1] \in Nat \ {0}
    BY WireAssumption
  <2> HIDE DEF n, fields
  <2>3. \A i \in 1 .. n : g[i] \in Seq(Byte)
    BY <2>1, FieldsTaken
  <2>4. \A i \in 1 .. n : fields[i] \in Nat \ {0} => Len(g[i]) = fields[i]
    BY <2>1, FieldsTaken
  <2> QED
    BY <2>2, <2>3, <2>4
<1>8. Put64(m.revision) = g[1]
  BY <1>4, <1>7, Spell64
<1>9. Put64(m.revision) \o PutBytes(m.title) \o PutBytes(m.cwd) = p
  BY ONLY <1>4, <1>5, <1>6, <1>8, Zenon DEF Join
<1> QED
  BY <1>1, <1>4, <1>9

\* a failure,
LEMMA FailureSpelled ==
  ASSUME NEW p \in Seq(Byte), TakeFailure(p) # Bad
  PROVE  LET m == TakeFailure(p)
         IN  /\ m.type = "Failure" /\ Tag(FailureCodes, m.code) \o PutBytes(m.detail) = p
             /\ Len(m.detail) <= MaxFailureBytes
<1> DEFINE fields == <<1, Prefixed>>
           g == Fields(p, fields)
           t == g[1]
           code == Member(FailureCodes, t)
           m == [type |-> "Failure", code |-> code, detail |-> g[2]]
<1>1. g # Bad /\ code # Bad /\ TakeFailure(p) = m /\ Len(g[2]) <= MaxFailureBytes
  BY DEF TakeFailure, With, Checked
<1>2. AreFields(fields, 2) /\ 2 \in Nat /\ 2 # 0
  BY DEF AreFields, IsField, Prefixed
<1>3. Taken(fields, g, 2) /\ p = Spelled(fields, g)
  <2> HIDE DEF fields
  <2> QED
    BY <1>1, <1>2, FieldsAll
<1>4. m.type = "Failure" /\ m.code = code /\ m.detail = g[2]
  OBVIOUS
<1> HIDE DEF m, g
<1>5. p = Join(Spelt(fields[1], t), Spelt(fields[2], g[2]))
  BY <1>3, SpelledTwo
<1>6. Spelt(fields[1], t) = t /\ Spelt(fields[2], g[2]) = PutBytes(g[2])
  BY DEF Spelt, Prefixed
<1>7. t \in Seq(Byte) /\ Len(t) = 1
  <2> DEFINE n == 2
  <2>1. n \in Nat /\ Taken(fields, g, n)
    BY <1>3
  <2>2. 1 \in 1 .. n /\ fields[1] = 1 /\ fields[1] \in Nat \ {0}
    OBVIOUS
  <2> HIDE DEF n, fields
  <2>3. \A i \in 1 .. n : g[i] \in Seq(Byte)
    BY <2>1, FieldsTaken
  <2>4. \A i \in 1 .. n : fields[i] \in Nat \ {0} => Len(g[i]) = fields[i]
    BY <2>1, FieldsTaken
  <2> QED
    BY <2>2, <2>3, <2>4
<1> HIDE DEF t
<1>8. Tag(FailureCodes, code) = t
  <2>1. Distinct(FailureCodes) /\ Len(FailureCodes) \in Nat
    BY Tables
  <2> QED
    BY ONLY <1>1, <1>7, <2>1, TagSpelled DEF code
<1> HIDE DEF code
<1>9. Tag(FailureCodes, m.code) \o PutBytes(m.detail) = p
  BY ONLY <1>4, <1>5, <1>6, <1>8, Zenon DEF Join
<1> QED
  BY <1>1, <1>4, <1>9

\* or a text to be copied.
LEMMA CopiedSpelled ==
  ASSUME NEW kind, NEW p \in Seq(Byte), TakeCopied(kind, p) # Bad
  PROVE  LET m == TakeCopied(kind, p)
         IN  /\ m.type = kind /\ Tag(Locations, m.location) \o m.text = p
             /\ Len(p) = 1 + Len(m.text) /\ m.text \in Seq(Byte)
             /\ kind = "ClipboardWrite" => ValidClipboard(m.text)
<1> DEFINE fields == <<1, Remains>>
           g == Fields(p, fields)
           t == g[1]
           x == g[2]
           location == Member(Locations, t)
           m == [type |-> kind, location |-> location, text |-> x]
<1>1. /\ g # Bad /\ location # Bad /\ TakeCopied(kind, p) = m
      /\ kind = "ClipboardWrite" => ValidClipboard(x)
  BY DEF TakeCopied, With, Checked
<1>2. AreFields(fields, 2) /\ 2 \in Nat /\ 2 # 0
  BY DEF AreFields, IsField, Remains
<1>3. Taken(fields, g, 2) /\ p = Spelled(fields, g)
  <2> HIDE DEF fields
  <2> QED
    BY <1>1, <1>2, FieldsAll
<1>4. m.type = kind /\ m.location = location /\ m.text = x
  OBVIOUS
<1> HIDE DEF m, g
<1>5. p = Join(Spelt(fields[1], t), Spelt(fields[2], x))
  BY <1>3, SpelledTwo
<1>6. Spelt(fields[1], t) = t /\ Spelt(fields[2], x) = x
  BY DEF Spelt, Prefixed, Remains
<1>7. t \in Seq(Byte) /\ Len(t) = 1 /\ x \in Seq(Byte)
  <2> DEFINE n == 2
  <2>1. n \in Nat /\ Taken(fields, g, n)
    BY <1>3
  <2>2. 1 \in 1 .. n /\ 2 \in 1 .. n /\ fields[1] = 1 /\ fields[1] \in Nat \ {0}
    OBVIOUS
  <2> HIDE DEF n, fields
  <2>3. \A i \in 1 .. n : g[i] \in Seq(Byte)
    BY <2>1, FieldsTaken
  <2>4. \A i \in 1 .. n : fields[i] \in Nat \ {0} => Len(g[i]) = fields[i]
    BY <2>1, FieldsTaken
  <2> QED
    BY <2>2, <2>3, <2>4
<1> HIDE DEF t, x
<1>8. Tag(Locations, location) = t
  <2>1. Distinct(Locations) /\ Len(Locations) \in Nat
    BY Tables
  <2> QED
    BY ONLY <1>1, <1>7, <2>1, TagSpelled DEF location
<1> HIDE DEF location
<1>9. p = Join(t, x)
  BY ONLY <1>5, <1>6, Zenon
<1>10. Tag(Locations, m.location) \o m.text = p
  BY ONLY <1>4, <1>8, <1>9, Zenon DEF Join
<1>11. Len(p) = 1 + Len(x)
  BY <1>7, <1>9, JoinBytes
<1> QED
  BY <1>1, <1>4, <1>7, <1>10, <1>11

\* Four fields, the last of which is all that remains.
LEMMA PlainFour ==
  ASSUME NEW p \in Seq(Byte), NEW fields, AreFields(fields, 4), fields[4] = Remains,
         Read(Reader(p), fields) # Bad, \A i \in 1 .. 3 : fields[i] \in Nat \ {0}
  PROVE  LET g == Read(Reader(p), fields).got
         IN  /\ p = Join(Join(Join(g[1], g[2]), g[3]), g[4])
             /\ \A i \in 1 .. 3 : g[i] \in Seq(Byte) /\ Len(g[i]) = fields[i]
             /\ g[4] \in Seq(Byte)
<1> DEFINE g == Read(Reader(p), fields).got
<1>1. Taken(fields, g, 4) /\ p = Spelled(fields, g)
  <2> DEFINE n == 4
  <2>1. n \in Nat /\ n # 0 /\ AreFields(fields, n) /\ fields[n] = Remains
    OBVIOUS
  <2> HIDE DEF n
  <2>2. Taken(fields, g, n) /\ p = Spelled(fields, g)
    BY <2>1, ReadsAll
  <2> HIDE DEF g
  <2> QED
    BY <2>2 DEF n
<1> HIDE DEF g
<1>2. /\ \A i \in 1 .. 3 : Spelt(fields[i], g[i]) = g[i]
      /\ Spelt(fields[4], g[4]) = g[4]
  BY SpeltPlain DEF Prefixed, Remains
<1>3. /\ \A i \in 1 .. 4 : g[i] \in Seq(Byte)
      /\ \A i \in 1 .. 4 : fields[i] \in Nat \ {0} => Len(g[i]) = fields[i]
  <2> DEFINE n == 4
  <2>1. n \in Nat /\ Taken(fields, g, n)
    BY <1>1
  <2> HIDE DEF n
  <2>2. /\ \A i \in 1 .. n : g[i] \in Seq(Byte)
        /\ \A i \in 1 .. n : fields[i] \in Nat \ {0} => Len(g[i]) = fields[i]
    BY <2>1, FieldsTaken
  <2> QED
    BY <2>2 DEF n
<1>4. p = Join(Join(Join(Spelt(fields[1], g[1]), Spelt(fields[2], g[2])),
                 Spelt(fields[3], g[3])), Spelt(fields[4], g[4]))
  BY <1>1, SpelledFour
<1>5. /\ Spelt(fields[1], g[1]) = g[1] /\ Spelt(fields[2], g[2]) = g[2]
      /\ Spelt(fields[3], g[3]) = g[3] /\ Spelt(fields[4], g[4]) = g[4]
  BY ONLY <1>2
<1>6. p = Join(Join(Join(g[1], g[2]), g[3]), g[4])
  BY ONLY <1>4, <1>5, Zenon
<1>7. \A i \in 1 .. 3 : i \in 1 .. 4
  OBVIOUS
<1>8. g[4] \in Seq(Byte)
  BY ONLY <1>3
<1>9. \A i \in 1 .. 3 : g[i] \in Seq(Byte) /\ Len(g[i]) = fields[i]
  BY <1>3, <1>7
<1> QED
  BY <1>6, <1>8, <1>9 DEF g

\* What is taken as a window was put as it.
LEMMA WindowSpelled ==
  ASSUME NEW bytes \in Seq(Byte), TakeWindow(bytes) # Bad
  PROVE  TakeWindow(bytes).kind = "Viewport" /\ PutWindow(TakeWindow(bytes)) = bytes
<1> DEFINE fields == <<2, 1, 2, Remains>>
           r == Read(Reader(bytes), fields)
           a == r.got[1]
           b == r.got[2]
           d == r.got[3]
           e == r.got[4]
           rows == DecodeRows(e, Num(a), Num(d))
           w == [kind |-> "Viewport", cols |-> Num(a), edge |-> Bool(b), rows |-> rows]
           valid == Sound(<<w.edge, w.rows>>) /\ (w.rows = <<>> => w.edge)
<1>1. TakeWindow(bytes)
        = IF r = Bad THEN Bad
          ELSE IF Num(a) = 0 \/ ~CellsWithin(Num(a), Num(d)) THEN Bad
          ELSE IF w = Bad THEN Bad ELSE IF valid THEN w ELSE Bad
  BY Zenon DEF TakeWindow, With, Checked
<1>2. /\ r # Bad /\ Num(a) # 0 /\ CellsWithin(Num(a), Num(d))
      /\ TakeWindow(bytes) = w /\ valid
  <2> HIDE DEF r, w, valid
  <2> QED
    BY <1>1
<1>3. AreFields(fields, 4) /\ fields[4] = Remains /\ \A i \in 1 .. 3 : fields[i] \in Nat \ {0}
  BY DEF AreFields, IsField, Remains
<1>4. /\ bytes = Join(Join(Join(a, b), d), e)
      /\ \A i \in 1 .. 3 : r.got[i] \in Seq(Byte) /\ Len(r.got[i]) = fields[i]
      /\ e \in Seq(Byte)
  <2> HIDE DEF fields
  <2> QED
    BY <1>2, <1>3, PlainFour
<1>5. w.kind = "Viewport" /\ w.cols = Num(a) /\ w.edge = Bool(b) /\ w.rows = rows
  OBVIOUS
<1> HIDE DEF w
<1>6. /\ w.edge # Bad /\ w.rows # Bad /\ (w.rows = <<>> => w.edge)
  <2> DEFINE parts == <<w.edge, w.rows>>
  <2>1. Len(parts) = 2 /\ parts[1] = w.edge /\ parts[2] = w.rows
    OBVIOUS
  <2>2. Sound(parts) /\ (w.rows = <<>> => w.edge)
    BY <1>2
  <2> HIDE DEF parts
  <2> QED
    BY ONLY <2>1, <2>2 DEF Sound
<1>7. /\ a \in Seq(Byte) /\ Len(a) = 2 /\ b \in Seq(Byte) /\ Len(b) = 1
      /\ d \in Seq(Byte) /\ Len(d) = 2
  BY ONLY <1>4 DEF fields
<1>8. bytes = Join(Join(Join(a, b), d), e) /\ e \in Seq(Byte)
  BY <1>4
<1> HIDE DEF r, a, b, d, e
<1> DEFINE cols == Num(a)
           count == Num(d)
<1>9. cols \in Nat /\ count \in Nat /\ count < 65536
  BY <1>7, NumIsNat, Num16
<1>10. rows = RowsOf(Reader(e), cols, count) /\ rows # Bad /\ Len(e) <= MaxFrameBytes
  BY <1>5, <1>6 DEF DecodeRows
<1>11. /\ PutRows(rows) = e /\ Len(rows) = count /\ IsSeq(rows) /\ RowsSound(rows, cols)
       /\ SizeOfRows(0, rows) <= MaxFrameBytes
  <2> DEFINE back == Reader(e)
             z == 0
  <2>1. back.rest = e /\ back.rest \in Seq(Byte) /\ z \in Nat
    BY <1>8 DEF Reader
  <2>2. RowsOf(back, cols, count) = rows /\ RowsOf(back, cols, count) # Bad
    BY <1>10
  <2>3. Len(e) \in Nat /\ z + Len(e) = Len(e)
    BY <1>8
  <2> HIDE DEF back, z, cols, count, rows
  <2>4. /\ PutRows(rows) = back.rest /\ Len(rows) = count /\ IsSeq(rows) /\ RowsSound(rows, cols)
        /\ SizeOfRows(z, rows) = z + Len(back.rest)
    <3>1. /\ cols \in Nat /\ count \in Nat /\ z \in Nat /\ back.rest \in Seq(Byte)
          /\ RowsOf(back, cols, count) # Bad
      BY <1>9, <2>1, <2>2
    <3>2. LET all == RowsOf(back, cols, count)
          IN  /\ PutRows(all) = back.rest
              /\ Len(all) = count /\ IsSeq(all) /\ RowsSound(all, cols)
              /\ SizeOfRows(z, all) = z + Len(back.rest)
      BY ONLY <3>1, RowsSpelled
    <3> QED
      BY ONLY <2>2, <3>2, Zenon
  <2>5. SizeOfRows(z, rows) <= MaxFrameBytes
    BY <1>10, <2>1, <2>3, <2>4
  <2> QED
    BY <2>1, <2>4, <2>5 DEF z
<1> HIDE DEF rows, cols, count
<1>12. EncodeRows(rows, cols) = e
  <2>1. CellsWithin(cols, Len(rows))
    BY <1>2, <1>11 DEF cols, count
  <2>2. \A row \in ToSet(rows) : ValidRow(row, cols)
    <3>1. \A i \in 1 .. Len(rows) : ValidRow(rows[i], cols)
      BY <1>11 DEF RowsSound, RowSound
    <3> SUFFICES ASSUME NEW row \in ToSet(rows)
                 PROVE  ValidRow(row, cols)
      OBVIOUS
    <3>2. PICK i \in DOMAIN rows : row = rows[i]
      BY DEF ToSet
    <3>3. DOMAIN rows = 1 .. Len(rows)
      BY <1>11 DEF IsSeq
    <3> QED
      BY <3>1, <3>2, <3>3
  <2> QED
    BY <1>11, <2>1, <2>2 DEF EncodeRows
<1>13. e # Bad
  BY <1>8, BadAssumption
<1>14. Put16(w.cols) = a /\ PutBool(w.edge) = b /\ Put16(Len(w.rows)) = d
  <2>1. Put16(Num(a)) = a /\ Put16(Num(d)) = d
    BY <1>7, Spell16
  <2>2. PutBool(Bool(b)) = b
    BY <1>5, <1>6, SpellBool
  <2>3. Len(w.rows) = Num(d)
    BY <1>5, <1>11 DEF count
  <2> QED
    BY <1>5, <2>1, <2>2, <2>3
<1>15. w.cols # 0 /\ Len(w.rows) <= MaxU16
  <2>1. Len(w.rows) = count /\ MaxU16 = 65535
    BY <1>5, <1>11 DEF MaxU16
  <2>2. Len(w.rows) <= MaxU16
    BY ONLY <1>9, <2>1
  <2> QED
    BY <1>2, <1>5, <2>2
<1>16. PutWindow(w) = bytes
  <2> DEFINE all == Put16(w.cols) \o PutBool(w.edge) \o Put16(Len(w.rows)) \o e
  <2>1. EncodeRows(w.rows, w.cols) = e
    BY <1>5, <1>12 DEF cols
  <2>2. PutWindow(w)
          = IF e = Bad THEN Bad
            ELSE IF w.cols # 0 /\ (w.rows = <<>> => w.edge) /\ Len(w.rows) <= MaxU16
                 THEN all ELSE Bad
    <3>1. w.kind = "Viewport"
      BY DEF w
    <3> QED
      BY ONLY <2>1, <3>1, Zenon DEF PutWindow, With, Checked
  <2>3. all = Join(Join(Join(a, b), d), e)
    BY ONLY <1>14, Zenon DEF Join
  <2> HIDE DEF all
  <2> QED
    BY ONLY <1>6, <1>8, <1>13, <1>15, <2>2, <2>3
<1> QED
  BY <1>2, <1>5, <1>16

\* What is taken as a preview was put as it.
LEMMA PreviewSpelled ==
  ASSUME NEW p \in Seq(Byte), TakePreview(p) # Bad
  PROVE  TakePreview(p).type = "VerticalPreview" /\ PutPreview(TakePreview(p)) = p
<1> DEFINE fields == <<U64Bytes, 1, 1, Remains>>
           r == Read(Reader(p), fields)
           a == r.got[1]
           b == r.got[2]
           d == r.got[3]
           e == r.got[4]
           outcome == CASE d = <<0>> -> Checked([kind |-> "TerminalRouted"], e = <<>>)
                        [] d = <<1>> -> TakeWindow(e)
                        [] OTHER -> Bad
           m == [type |-> "VerticalPreview", revision |-> Num(a),
                 direction |-> Member(Directions, b), outcome |-> outcome]
           valid == Sound(<<m.direction, m.outcome>>)
<1>1. TakePreview(p) = IF r = Bad THEN Bad ELSE IF m = Bad THEN Bad ELSE IF valid THEN m ELSE Bad
  BY Zenon DEF TakePreview, With, Checked
<1>2. r # Bad /\ TakePreview(p) = m /\ valid
  <2> HIDE DEF r, m, valid
  <2> QED
    BY <1>1
<1>3. AreFields(fields, 4) /\ fields[4] = Remains /\ \A i \in 1 .. 3 : fields[i] \in Nat \ {0}
  BY WireAssumption DEF AreFields, IsField, Remains
<1>4. /\ p = Join(Join(Join(a, b), d), e)
      /\ \A i \in 1 .. 3 : r.got[i] \in Seq(Byte) /\ Len(r.got[i]) = fields[i]
      /\ e \in Seq(Byte)
  <2> HIDE DEF fields
  <2> QED
    BY <1>2, <1>3, PlainFour
<1>5. /\ m.type = "VerticalPreview" /\ m.revision = Num(a)
      /\ m.direction = Member(Directions, b) /\ m.outcome = outcome
  OBVIOUS
<1> HIDE DEF m
<1>6. m.direction # Bad /\ m.outcome # Bad
  <2> DEFINE parts == <<m.direction, m.outcome>>
  <2>1. Len(parts) = 2 /\ parts[1] = m.direction /\ parts[2] = m.outcome
    OBVIOUS
  <2>2. Sound(parts)
    BY <1>2
  <2> HIDE DEF parts
  <2> QED
    BY ONLY <2>1, <2>2 DEF Sound
<1>7. /\ a \in Seq(Byte) /\ Len(a) = U64Bytes /\ b \in Seq(Byte) /\ Len(b) = 1
      /\ d \in Seq(Byte) /\ Len(d) = 1
  BY ONLY <1>4 DEF fields
<1>8. p = Join(Join(Join(a, b), d), e) /\ e \in Seq(Byte)
  BY <1>4
<1> HIDE DEF r, a, b, d, e
<1>9. Put64(m.revision) = a
  BY <1>5, <1>7, Spell64
<1>10. Tag(Directions, m.direction) = b
  <2>1. Distinct(Directions) /\ Len(Directions) \in Nat
    BY Tables
  <2>2. Member(Directions, b) # Bad
    BY <1>5, <1>6
  <2>3. Tag(Directions, Member(Directions, b)) = b
    BY ONLY <1>7, <2>1, <2>2, TagSpelled
  <2> QED
    BY <1>5, <2>3
<1> DEFINE window == IF m.outcome.kind = "TerminalRouted" THEN <<>> ELSE PutWindow(m.outcome)
<1>11. PutBool(m.outcome.kind # "TerminalRouted") = d /\ window = e
  <2>1. CASE d = <<0>>
    <3>1. outcome = Checked([kind |-> "TerminalRouted"], e = <<>>)
      BY <2>1
    <3>2. m.outcome = [kind |-> "TerminalRouted"] /\ e = <<>>
      <4> HIDE DEF outcome
      <4> QED
        BY <1>5, <1>6, <3>1 DEF Checked
    <3>3. m.outcome.kind = "TerminalRouted"
      BY <3>2
    <3>4. PutBool(FALSE) = <<0>>
      BY DEF PutBool
    <3> HIDE DEF outcome
    <3> QED
      BY ONLY <2>1, <3>2, <3>3, <3>4
  <2>2. CASE d = <<1>>
    <3>1. outcome = TakeWindow(e)
      <4>1. <<1>> # <<0>>
        OBVIOUS
      <4> QED
        BY <2>2, <4>1
    <3>2. TakeWindow(e) # Bad /\ m.outcome = TakeWindow(e)
      <4> HIDE DEF outcome
      <4> QED
        BY <1>5, <1>6, <3>1
    <3>3. m.outcome.kind = "Viewport" /\ PutWindow(m.outcome) = e
      BY <1>8, <3>2, WindowSpelled
    <3>4. PutBool(TRUE) = <<1>>
      BY DEF PutBool
    <3> HIDE DEF outcome
    <3> QED
      BY ONLY <2>2, <3>3, <3>4
  <2>3. CASE d # <<0>> /\ d # <<1>>
    <3>1. outcome = Bad
      BY <2>3
    <3> HIDE DEF outcome
    <3> QED
      BY <1>5, <1>6, <3>1
  <2> QED
    BY <2>1, <2>2, <2>3
<1>12. e # Bad
  BY <1>8, BadAssumption
<1> HIDE DEF outcome, window
<1>13. PutPreview(m) = p
  <2> DEFINE all == Put64(m.revision) \o Tag(Directions, m.direction)
                      \o PutBool(m.outcome.kind # "TerminalRouted") \o window
  <2>1. PutPreview(m) = IF window = Bad THEN Bad ELSE all
    BY Zenon DEF PutPreview, With, window
  <2>2. all = Join(Join(Join(a, b), d), e)
    BY ONLY <1>9, <1>10, <1>11, Zenon DEF Join
  <2> HIDE DEF all
  <2> QED
    BY ONLY <1>8, <1>11, <1>12, <2>1, <2>2
<1> QED
  BY <1>2, <1>5, <1>13

\* What is taken as a scroll outcome was put as it, and so was its frame.
LEMMA ScrollSpelled ==
  ASSUME NEW p \in Seq(Byte), TakeScroll(p) # Bad
  PROVE  LET m == TakeScroll(p)
         IN  /\ m.type = "ScrollViewport" /\ PutScroll(m) = p
             /\ ValidFrame(m.frame) /\ m.frame.revision \in Nat
<1> DEFINE fields == <<2, 2, U32Bytes, Remains>>
           r == Read(Reader(p), fields)
           a == r.got[1]
           b == r.got[2]
           d == r.got[3]
           e == r.got[4]
           size == Num(d)
           parts == <<size, Remains>>
           s == IF size \in 1 .. MaxFrameBytes THEN Read(Reader(e), parts) ELSE Bad
           x == s.got[1]
           y == s.got[2]
           m == [type |-> "ScrollViewport", requested |-> I16(a), applied |-> I16(b),
                 frame |-> DecodeFrame(x), next |-> TakeWindow(y)]
           valid == ValidApplied(m.requested, m.applied) /\ Sound(<<m.frame, m.next>>)
<1>1. TakeScroll(p)
        = IF r = Bad THEN Bad ELSE IF s = Bad THEN Bad
          ELSE IF m = Bad THEN Bad ELSE IF valid THEN m ELSE Bad
  BY Zenon DEF TakeScroll, With, Checked
<1>2. r # Bad /\ s # Bad /\ TakeScroll(p) = m /\ valid
  <2> HIDE DEF r, s, m, valid
  <2> QED
    BY <1>1
<1>3. AreFields(fields, 4) /\ fields[4] = Remains /\ \A i \in 1 .. 3 : fields[i] \in Nat \ {0}
  BY WireAssumption DEF AreFields, IsField, Remains
<1>4. /\ p = Join(Join(Join(a, b), d), e)
      /\ \A i \in 1 .. 3 : r.got[i] \in Seq(Byte) /\ Len(r.got[i]) = fields[i]
      /\ e \in Seq(Byte)
  <2> HIDE DEF fields
  <2> QED
    BY <1>2, <1>3, PlainFour
<1>5. /\ m.type = "ScrollViewport" /\ m.requested = I16(a) /\ m.applied = I16(b)
      /\ m.frame = DecodeFrame(x) /\ m.next = TakeWindow(y)
  OBVIOUS
<1> HIDE DEF m
<1>6. m.frame # Bad /\ m.next # Bad /\ ValidApplied(m.requested, m.applied)
  <2> DEFINE both == <<m.frame, m.next>>
  <2>1. Len(both) = 2 /\ both[1] = m.frame /\ both[2] = m.next
    OBVIOUS
  <2>2. Sound(both) /\ ValidApplied(m.requested, m.applied)
    BY <1>2
  <2> HIDE DEF both
  <2> QED
    BY ONLY <2>1, <2>2 DEF Sound
<1>7. /\ a \in Seq(Byte) /\ Len(a) = 2 /\ b \in Seq(Byte) /\ Len(b) = 2
      /\ d \in Seq(Byte) /\ Len(d) = U32Bytes
  BY ONLY <1>4 DEF fields
<1>8. p = Join(Join(Join(a, b), d), e) /\ e \in Seq(Byte)
  BY <1>4
<1> HIDE DEF r, a, b, d, e
<1>9. PutI16(m.requested) = a /\ PutI16(m.applied) = b
  BY <1>5, <1>7, Spell16Signed
<1>10. Put32(size) = d
  BY <1>7, Spell32
<1> HIDE DEF size
<1>11. size \in 1 .. MaxFrameBytes /\ s = Read(Reader(e), parts) /\ Read(Reader(e), parts) # Bad
  <2> HIDE DEF parts
  <2> QED
    BY <1>2
<1>12. size \in Nat \ {0}
  BY <1>11
<1>13. AreFields(parts, 2) /\ parts[2] = Remains /\ parts[1] = size
  BY <1>12 DEF AreFields, IsField, Remains
<1> DEFINE g == Read(Reader(e), parts).got
<1>14. /\ Taken(parts, g, 2) /\ e = Spelled(parts, g)
       /\ \A i \in 1 .. 2 : g[i] \in Seq(Byte)
       /\ \A i \in 1 .. 2 : parts[i] \in Nat \ {0} => Len(g[i]) = parts[i]
  <2> DEFINE n == 2
  <2>1. n \in Nat /\ n # 0 /\ AreFields(parts, n) /\ parts[n] = Remains
    BY <1>13
  <2> HIDE DEF n, parts
  <2>2. Taken(parts, g, n) /\ e = Spelled(parts, g)
    BY <1>8, <1>11, <2>1, ReadsAll
  <2> HIDE DEF g
  <2>3. /\ \A i \in 1 .. n : g[i] \in Seq(Byte)
        /\ \A i \in 1 .. n : parts[i] \in Nat \ {0} => Len(g[i]) = parts[i]
    BY <2>1, <2>2, FieldsTaken
  <2> QED
    BY <2>2, <2>3 DEF n
<1>15. x = g[1] /\ y = g[2]
  BY <1>11
<1> HIDE DEF g, s, parts, x, y
<1>16. x \in Seq(Byte) /\ y \in Seq(Byte) /\ Len(x) = size
  BY <1>12, <1>13, <1>14, <1>15
<1>17. e = Join(x, y)
  <2>1. e = Join(Spelt(parts[1], g[1]), Spelt(parts[2], g[2]))
    BY <1>14, SpelledTwo
  <2>2. Spelt(parts[1], g[1]) = g[1] /\ Spelt(parts[2], g[2]) = g[2]
    BY <1>12, <1>13 DEF Spelt, Prefixed, Remains
  <2> QED
    BY ONLY <1>15, <2>1, <2>2
<1>18. /\ EncodeFrame(m.frame) = x /\ ValidFrame(m.frame) /\ m.frame.revision \in Nat
       /\ PutWindow(m.next) = y
  BY <1>5, <1>6, <1>16, FrameValid, WindowSpelled
<1>19. x # Bad /\ y # Bad
  BY <1>16, BadAssumption
<1>20. PutBytes(x) = Join(d, x)
  BY <1>10, <1>16 DEF PutBytes, Join
<1>21. p = Join(Join(Join(a, b), Join(d, x)), y)
  <2> DEFINE front == Join(a, b)
  <2>1. front \in Seq(Byte)
    BY <1>7, JoinBytes
  <2> HIDE DEF front
  <2> DEFINE fd == Join(front, d)
  <2>2. fd \in Seq(Byte) /\ Join(front, Join(d, x)) = Join(fd, x)
    BY <1>7, <1>16, <2>1, JoinBytes, JoinGroups
  <2> HIDE DEF fd
  <2>3. Join(fd, Join(x, y)) = Join(Join(fd, x), y)
    BY <1>16, <2>2, JoinGroups
  <2> QED
    BY ONLY <1>8, <1>17, <2>2, <2>3 DEF front, fd
<1>22. PutScroll(m) = p
  <2> DEFINE all == PutI16(m.requested) \o PutI16(m.applied) \o PutBytes(x) \o y
  <2>1. PutScroll(m) = IF x = Bad THEN Bad ELSE IF y = Bad THEN Bad
                       ELSE IF ValidApplied(m.requested, m.applied) THEN all ELSE Bad
    BY ONLY <1>18, Zenon DEF PutScroll, With, Checked
  <2>2. all = Join(Join(Join(a, b), Join(d, x)), y)
    BY ONLY <1>9, <1>20, Zenon DEF Join
  <2> HIDE DEF all
  <2> QED
    BY ONLY <1>6, <1>19, <1>21, <2>1, <2>2
<1> QED
  BY <1>2, <1>5, <1>18, <1>22

\* A payload that is one frame was put as it.
LEMMA PictureSpelled ==
  ASSUME NEW kind, NEW p \in Seq(Byte), kind = "Frame" \/ kind \in WheelViewports,
         TakeFrame(kind, p) # Bad
  PROVE  LET m == TakeFrame(kind, p)
         IN  /\ m.type \in {"Frame", "WheelViewport"} /\ ServerKind(m) = kind
             /\ EncodeFrame(m.frame) = p
             /\ ValidFrame(m.frame) /\ m.frame.revision \in Nat
<1> DEFINE frame == DecodeFrame(p)
           m == TakeFrame(kind, p)
<1>1. frame # Bad
      /\ m = IF kind = "Frame" THEN [type |-> kind, frame |-> frame]
             ELSE [type |-> "WheelViewport", applied |-> WheelApplied(kind), frame |-> frame]
  BY DEF TakeFrame, With
<1>2. EncodeFrame(frame) = p /\ ValidFrame(frame) /\ frame.revision \in Nat
  BY <1>1, FrameValid
<1> HIDE DEF frame, m
<1>3. CASE kind = "Frame"
  <2>1. m = [type |-> kind, frame |-> frame]
    BY <1>1, <1>3
  <2>2. m.type = "Frame" /\ m.frame = frame
    BY ONLY <1>3, <2>1
  <2> QED
    BY <1>2, <1>3, <2>2 DEF ServerKind, m
<1>4. CASE kind \in WheelViewports
  <2> DEFINE applied == WheelApplied(kind)
  <2>1. kind # "Frame"
    BY <1>4 DEF WheelViewports
  <2>2. m = [type |-> "WheelViewport", applied |-> applied, frame |-> frame]
    BY <1>1, <2>1
  <2>3. \/ kind = "WheelViewportUp" /\ applied = -1
        \/ kind = "WheelViewportStill" /\ applied = 0
        \/ kind = "WheelViewportDown" /\ applied = 1
    BY <1>4 DEF WheelApplied, WheelViewports
  <2> HIDE DEF applied
  <2>4. m.type = "WheelViewport" /\ m.frame = frame /\ m.applied = applied
    BY ONLY <2>2
  <2>5. ServerKind(m) = kind
    BY ONLY <2>3, <2>4 DEF ServerKind
  <2> QED
    BY <1>2, <2>4, <2>5 DEF m
<1> QED
  BY <1>3, <1>4

\* What a server's payload is taken as, by the kind that its header names.
ServerMade(kind, p) ==
  CASE kind \in Empties -> [type |-> kind]
    [] kind = "Frame" \/ kind \in WheelViewports -> TakeFrame(kind, p)
    [] kind = "Metadata" -> TakeMetadata(p)
    [] kind = "SelectionFinished" -> [type |-> kind, revision |-> Num(p)]
    [] kind = "Failure" -> TakeFailure(p)
    [] kind = "Exited" -> [type |-> kind, code |-> Num(p)]
    [] kind \in {"CopiedText", "ClipboardWrite"} -> TakeCopied(kind, p)
    [] kind = "VerticalPreview" -> TakePreview(p)
    [] kind = "ScrollTerminalOwned" ->
         Checked([type |-> kind, requested |-> I16(p)], ValidScrollRows(I16(p)))
    [] kind = "ScrollViewport" -> TakeScroll(p)

\* A server's message is of that kind, and its payload is within the limits of the kind.
ServerSays(bytes, kind, p) ==
  /\ kind # Bad
  /\ \/ kind \in Empties \/ kind = "Frame" \/ kind \in WheelViewports
     \/ kind \in {"Metadata", "SelectionFinished", "Failure", "Exited", "CopiedText",
                  "ClipboardWrite", "VerticalPreview", "ScrollTerminalOwned", "ScrollViewport"}
  /\ p \in Seq(Byte)
  /\ Len(p) \in ServerLimits(kind)[1] .. ServerLimits(kind)[2]
  /\ Framed(kind, ServerKinds, 129, p, ServerLimits(kind)) = bytes
  /\ DecodeServer(bytes) = ServerMade(kind, p)

\* What a server's message of that length is made of.
LEMMA ServerParts ==
  ASSUME NEW bytes \in Seq(Byte), Len(bytes) >= HeaderBytes, DecodeServer(bytes) # Bad
  PROVE  \E kind, p : ServerSays(bytes, kind, p)
<1> DEFINE length == ServerMessageLen(bytes)
           tag == bytes[7]
           kind == ServerKinds[tag - 128]
           p == SubSeq(bytes, HeaderBytes + 1, Len(bytes))
           m == DecodeServer(bytes)
<1>1. m = IF Payload(bytes, length) = Bad THEN Bad ELSE ServerMade(kind, Payload(bytes, length))
  BY Zenon DEF DecodeServer, ServerMade, With
<1>2. length # Bad /\ length = Len(bytes) /\ Payload(bytes, length) = p
  <2>1. Payload(bytes, length) # Bad
    <3> HIDE DEF length
    <3> QED
      BY <1>1
  <2> QED
    BY <2>1 DEF Payload, Checked
<1>3. m = ServerMade(kind, p)
  <2>1. m # Bad
    OBVIOUS
  <2> HIDE DEF p, m, length, kind
  <2> QED
    BY <1>1, <1>2, <2>1
<1>4. length = MessageLen(bytes, ServerKinds, 129, ServerTable)
  BY DEF ServerMessageLen, ServerTable
<1> DEFINE k == KindOf(ServerKinds, 129, tag)
<1>5. /\ k # Bad /\ tag - 129 \in 0 .. 19 - 1
      /\ k = ServerKinds[tag - 129 + 1] /\ k # ""
      /\ p \in Seq(Byte)
      /\ Len(p) \in ServerTable[k][1] .. ServerTable[k][2]
      /\ Framed(k, ServerKinds, 129, p, ServerTable[k]) = bytes
  <2> DEFINE last == 19
             first == 129
             kinds == ServerKinds
             limits == ServerTable
  <2>1. bytes \in Seq(Byte) /\ Len(bytes) >= HeaderBytes
    OBVIOUS
  <2>2. /\ last \in Nat /\ Len(kinds) = last /\ Distinct(kinds) /\ first \in Nat
        /\ LimitsAre(kinds, last, limits)
        /\ MessageLen(bytes, kinds, first, limits) = Len(bytes)
        /\ MessageLen(bytes, kinds, first, limits) # Bad
    BY <1>2, <1>4, Tables, ServerTableType
  <2> HIDE DEF last, first, k, p, length, kinds, limits
  <2>3. HeaderSays(bytes, kinds, first, last, limits)
    BY ONLY <2>1, <2>2, HeaderSpells
  <2> QED
    BY ONLY <2>3, Zenon DEF kinds, limits, last, first, k, p, tag, HeaderSays
<1>6. tag \in Nat
  <2>1. HeaderBytes \in Nat /\ HeaderBytes >= 10 /\ Len(bytes) \in Nat
    BY WireAssumption DEF HeaderBytes
  <2> QED
    BY <2>1, BytesAreNats
<1> HIDE DEF tag
<1> DEFINE i == tag - 128
<1>7. i \in 1 .. 19 /\ tag - 129 + 1 = i
  <2>1. tag - 129 \in 0 .. 19 - 1
    BY ONLY <1>5, Zenon
  <2> QED
    BY ONLY <1>6, <2>1
<1> HIDE DEF i
<1>8. k = kind /\ kind = ServerKinds[i] /\ kind # "" /\ ServerTable[kind] = ServerLimits(kind)
  <2>1. ServerTable[ServerKinds[i]] = ServerLimits(ServerKinds[i])
    BY <1>7, ServerTableType
  <2> QED
    BY ONLY <1>5, <1>7, <2>1, Zenon DEF i
<1> HIDE DEF k, kind, p, m
<1>9. \/ kind \in Empties \/ kind = "Frame" \/ kind \in WheelViewports
      \/ kind \in {"Metadata", "SelectionFinished", "Failure", "Exited", "CopiedText",
                   "ClipboardWrite", "VerticalPreview", "ScrollTerminalOwned", "ScrollViewport"}
  <2>1. \/ i = 1 \/ i = 2 \/ i = 3 \/ i = 4 \/ i = 5 \/ i = 6 \/ i = 7 \/ i = 8 \/ i = 9
        \/ i = 10 \/ i = 11 \/ i = 12 \/ i = 13 \/ i = 14 \/ i = 15 \/ i = 16 \/ i = 17
        \/ i = 18 \/ i = 19
    BY ONLY <1>7
  <2>2. kind = ServerKinds[i] /\ kind # ""
    BY ONLY <1>8, Zenon
  <2>3. kind \in {"Attached", "Busy", "Frame", "Accepted", "Failure", "Exited", "CopiedText",
                  "ClipboardWrite", "WheelTerminalRouted", "WheelViewportUp",
                  "WheelViewportStill", "WheelViewportDown", "VerticalPreview",
                  "ObservingMetadata", "Metadata", "ScrollTerminalOwned", "ScrollViewport",
                  "SelectionFinished"}
    BY ONLY <2>1, <2>2, ServerKindsAre, ZenonT(60)
  <2> QED
    BY ONLY <2>3, SMTT(60) DEF Empties, WheelViewports
<1>10. /\ Len(p) \in ServerLimits(kind)[1] .. ServerLimits(kind)[2]
       /\ Framed(kind, ServerKinds, 129, p, ServerLimits(kind)) = bytes /\ kind # Bad
  BY ONLY <1>5, <1>8, Zenon
<1>11. ServerSays(bytes, kind, p)
  BY ONLY <1>3, <1>5, <1>9, <1>10, Zenon DEF ServerSays, m
<1> QED
  BY ONLY <1>11, Zenon

\* A payload of one length.
LEMMA LengthIs ==
  ASSUME NEW p \in Seq(Byte), NEW limits, NEW n \in Nat, limits = <<n, n>>,
         Len(p) \in limits[1] .. limits[2]
  PROVE  Len(p) = n
<1> DEFINE size == Len(p)
           low == limits[1]
           high == limits[2]
<1>1. low = n /\ high = n /\ size \in Nat /\ size \in low .. high
  OBVIOUS
<1> HIDE DEF low, high, size
<1> QED
  BY ONLY <1>1 DEF size

\* A payload of some length.
LEMMA LengthWithin ==
  ASSUME NEW p \in Seq(Byte), NEW limits, NEW low \in Nat, NEW high \in Nat,
         limits = <<low, high>>, Len(p) \in limits[1] .. limits[2]
  PROVE  low <= Len(p) /\ Len(p) <= high
<1> DEFINE size == Len(p)
           a == limits[1]
           b == limits[2]
<1>1. a = low /\ b = high /\ size \in Nat /\ size \in a .. b
  OBVIOUS
<1> HIDE DEF a, b, size
<1> QED
  BY ONLY <1>1, low \in Nat, high \in Nat DEF size

(***************************************************************************)
(* So is a message of the owner (decode_server_message), and the frame it  *)
(* may carry is a valid one.                                                   *)
(***************************************************************************)
THEOREM ServerSpelled ==
  ASSUME NEW bytes \in Seq(Byte), Len(bytes) >= HeaderBytes, DecodeServer(bytes) # Bad
  PROVE  LET m == DecodeServer(bytes)
         IN  /\ EncodeServer(m) = bytes
             /\ m.type \in {"Frame", "WheelViewport", "ScrollViewport"} =>
                  ValidFrame(m.frame) /\ m.frame.revision \in Nat
<1> DEFINE m == DecodeServer(bytes)
           pictures == {"Frame", "WheelViewport", "ScrollViewport"}
           drawn == m.type \in pictures => ValidFrame(m.frame) /\ m.frame.revision \in Nat
<1>0. m # Bad
  OBVIOUS
<1>1. PICK kind, p : ServerSays(bytes, kind, p)
  BY ServerParts
<1>2. /\ p \in Seq(Byte) /\ kind # Bad
      /\ Len(p) \in ServerLimits(kind)[1] .. ServerLimits(kind)[2]
      /\ m = ServerMade(kind, p)
  BY <1>1, Zenon DEF ServerSays
<1> HIDE DEF m
<1>3. SUFFICES ServerKind(m) = kind /\ ServerPayload(m) = p /\ drawn
  <2>1. Framed(kind, ServerKinds, 129, p, ServerLimits(kind)) = bytes
    BY <1>1, Zenon DEF ServerSays
  <2>2. EncodeServer(m) = Framed(kind, ServerKinds, 129, p, ServerLimits(kind))
    BY ONLY <1>2, <1>3, Zenon DEF EncodeServer
  <2> QED
    BY ONLY <1>3, <2>1, <2>2, Zenon DEF drawn, pictures, m
<1> DEFINE same == m.type = kind /\ kind # "WheelViewport" /\ kind \notin pictures
<1>4. ASSUME same
      PROVE  ServerKind(m) = kind /\ drawn
  BY <1>4 DEF ServerKind
<1>5. CASE kind \in Empties
  <2>1. m = [type |-> kind]
    BY <1>2, <1>5 DEF ServerMade, Empties, WheelViewports
  <2>2. same
    BY ONLY <1>5, <2>1 DEF Empties
  <2>3. Len(p) = 0
    <3> DEFINE n == 0
               limits == ServerLimits(kind)
    <3>1. limits = <<n, n>> /\ n \in Nat
      BY <1>5 DEF ServerLimits, Empties, WheelViewports
    <3>2. p \in Seq(Byte) /\ Len(p) \in limits[1] .. limits[2]
      BY <1>2
    <3> HIDE DEF n, limits
    <3>3. Len(p) = n
      BY ONLY <3>1, <3>2, LengthIs
    <3> QED
      BY <3>3 DEF n
  <2>4. p = <<>>
    BY ONLY <1>2, <2>3
  <2>5. ServerPayload(m) = <<>>
    BY <1>5, <2>2 DEF ServerPayload, Empties
  <2> QED
    BY <1>4, <2>2, <2>4, <2>5
<1>6. CASE kind = "Frame" \/ kind \in WheelViewports
  <2>1. m = TakeFrame(kind, p)
    BY <1>2, <1>6 DEF ServerMade, Empties, WheelViewports
  <2>2. /\ m.type \in {"Frame", "WheelViewport"} /\ ServerKind(m) = kind
        /\ EncodeFrame(m.frame) = p
        /\ ValidFrame(m.frame) /\ m.frame.revision \in Nat
    BY <1>0, <1>2, <1>6, <2>1, PictureSpelled
  <2>3. ServerPayload(m) = EncodeFrame(m.frame)
    BY <2>2 DEF ServerPayload, Empties
  <2> QED
    BY <2>2, <2>3
<1>7. CASE kind = "Metadata"
  <2>1. m = TakeMetadata(p)
    BY <1>2, <1>7 DEF ServerMade, Empties, WheelViewports
  <2>2. m.type = kind /\ Put64(m.revision) \o PutBytes(m.title) \o PutBytes(m.cwd) = p
    BY <1>0, <1>2, <1>7, <2>1, MetadataSpelled
  <2>3. ServerPayload(m) = Put64(m.revision) \o PutBytes(m.title) \o PutBytes(m.cwd)
    BY <1>7, <2>2 DEF ServerPayload, Empties
  <2> QED
    BY <1>4, <1>7, <2>2, <2>3
<1>8. CASE kind = "SelectionFinished"
  <2>1. m = [type |-> kind, revision |-> Num(p)]
    BY <1>2, <1>8 DEF ServerMade, Empties, WheelViewports
  <2>2. m.type = kind /\ m.revision = Num(p)
    BY ONLY <2>1
  <2>3. Len(p) = U64Bytes
    <3> DEFINE limits == ServerLimits(kind)
    <3>1. limits = <<U64Bytes, U64Bytes>> /\ U64Bytes \in Nat
      BY <1>8, WireAssumption DEF ServerLimits, WheelViewports
    <3>2. p \in Seq(Byte) /\ Len(p) \in limits[1] .. limits[2]
      BY <1>2
    <3> HIDE DEF limits
    <3> QED
      BY ONLY <3>1, <3>2, LengthIs
  <2>4. Put64(m.revision) = p
    BY <1>2, <2>2, <2>3, Spell64
  <2>5. ServerPayload(m) = Put64(m.revision)
    BY <1>8, <2>2 DEF ServerPayload, Empties
  <2> QED
    BY <1>4, <1>8, <2>2, <2>4, <2>5
<1>9. CASE kind = "Failure"
  <2>1. m = TakeFailure(p)
    BY <1>2, <1>9 DEF ServerMade, Empties, WheelViewports
  <2>2. /\ m.type = kind /\ Tag(FailureCodes, m.code) \o PutBytes(m.detail) = p
        /\ Len(m.detail) <= MaxFailureBytes
    BY <1>0, <1>2, <1>9, <2>1, FailureSpelled
  <2>3. ServerPayload(m) = Checked(Tag(FailureCodes, m.code) \o PutBytes(m.detail),
                                   Len(m.detail) <= MaxFailureBytes)
    BY <1>9, <2>2 DEF ServerPayload, Empties
  <2> QED
    BY <1>4, <1>9, <2>2, <2>3 DEF Checked
<1>10. CASE kind = "Exited"
  <2>1. m = [type |-> kind, code |-> Num(p)]
    BY <1>2, <1>10 DEF ServerMade, Empties, WheelViewports
  <2>2. m.type = kind /\ m.code = Num(p)
    BY ONLY <2>1
  <2>3. Len(p) = U32Bytes
    <3> DEFINE limits == ServerLimits(kind)
    <3>1. limits = <<U32Bytes, U32Bytes>> /\ U32Bytes \in Nat
      BY <1>10, WireAssumption DEF ServerLimits, WheelViewports
    <3>2. p \in Seq(Byte) /\ Len(p) \in limits[1] .. limits[2]
      BY <1>2
    <3> HIDE DEF limits
    <3> QED
      BY ONLY <3>1, <3>2, LengthIs
  <2>4. Put32(m.code) = p
    BY <1>2, <2>2, <2>3, Spell32
  <2>5. ServerPayload(m) = Put32(m.code)
    BY <1>10, <2>2 DEF ServerPayload, Empties
  <2> QED
    BY <1>4, <1>10, <2>2, <2>4, <2>5
<1>11. CASE kind \in {"CopiedText", "ClipboardWrite"}
  <2>1. m = TakeCopied(kind, p)
    BY <1>2, <1>11 DEF ServerMade, Empties, WheelViewports
  <2>2. /\ m.type = kind /\ Tag(Locations, m.location) \o m.text = p
        /\ Len(p) = 1 + Len(m.text) /\ m.text \in Seq(Byte)
        /\ kind = "ClipboardWrite" => ValidClipboard(m.text)
    <3> DEFINE copied == TakeCopied(kind, p)
    <3>1. p \in Seq(Byte)
      BY <1>2
    <3>2. copied # Bad
      BY <1>0, <2>1, Zenon
    <3>3. /\ copied.type = kind /\ Tag(Locations, copied.location) \o copied.text = p
          /\ Len(p) = 1 + Len(copied.text) /\ copied.text \in Seq(Byte)
          /\ kind = "ClipboardWrite" => ValidClipboard(copied.text)
      BY ONLY <3>1, <3>2, CopiedSpelled
    <3> HIDE DEF copied
    <3>4. m = copied
      BY <2>1, Zenon DEF copied
    <3> QED
      BY <3>3, <3>4, Zenon
  <2>3. CASE kind = "CopiedText"
    <3> DEFINE limits == ServerLimits(kind)
               low == 1
               high == 1 + MaxCopyBytes
    <3>1. limits = <<low, high>> /\ low \in Nat /\ high \in Nat /\ MaxCopyBytes \in Nat
      BY <2>3, SessionAssumption DEF ServerLimits, WheelViewports
    <3>2. p \in Seq(Byte) /\ Len(p) \in limits[1] .. limits[2]
      BY <1>2
    <3> HIDE DEF limits, low, high
    <3>3. Len(p) <= high
      BY ONLY <3>1, <3>2, LengthWithin
    <3>4. Len(m.text) \in Nat
      BY <2>2
    <3>5. Len(m.text) <= MaxCopyBytes
      BY ONLY <2>2, <3>1, <3>3, <3>4 DEF high
    <3>6. ServerPayload(m) = Checked(Tag(Locations, m.location) \o m.text,
                                     Len(m.text) <= MaxCopyBytes)
      BY <2>2, <2>3 DEF ServerPayload, Empties
    <3> QED
      BY <1>4, <2>2, <2>3, <3>5, <3>6 DEF Checked
  <2>4. CASE kind = "ClipboardWrite"
    <3>1. ServerPayload(m) = Checked(Tag(Locations, m.location) \o m.text, ValidClipboard(m.text))
      BY <2>2, <2>4 DEF ServerPayload, Empties
    <3> QED
      BY <1>4, <2>2, <2>4, <3>1 DEF Checked
  <2> QED
    BY <1>11, <2>3, <2>4
<1>12. CASE kind = "VerticalPreview"
  <2>1. m = TakePreview(p)
    BY <1>2, <1>12 DEF ServerMade, Empties, WheelViewports
  <2>2. m.type = kind /\ PutPreview(m) = p
    BY <1>0, <1>2, <1>12, <2>1, PreviewSpelled
  <2>3. ServerPayload(m) = PutPreview(m)
    BY <1>12, <2>2 DEF ServerPayload, Empties
  <2> QED
    BY <1>4, <1>12, <2>2, <2>3
<1>13. CASE kind = "ScrollTerminalOwned"
  <2> DEFINE rows == I16(p)
  <2>1. m = Checked([type |-> kind, requested |-> rows], ValidScrollRows(rows))
    BY <1>2, <1>13 DEF ServerMade, Empties, WheelViewports
  <2> HIDE DEF rows
  <2>2. m = [type |-> kind, requested |-> rows] /\ ValidScrollRows(rows)
    BY <1>0, <2>1 DEF Checked
  <2>3. m.type = kind /\ m.requested = rows
    BY ONLY <2>2
  <2>4. Len(p) = 2
    <3> DEFINE limits == ServerLimits(kind)
               n == 2
    <3>1. limits = <<n, n>> /\ n \in Nat
      BY <1>13 DEF ServerLimits, WheelViewports
    <3>2. p \in Seq(Byte) /\ Len(p) \in limits[1] .. limits[2]
      BY <1>2
    <3> HIDE DEF limits, n
    <3>3. Len(p) = n
      BY ONLY <3>1, <3>2, LengthIs
    <3> QED
      BY <3>3 DEF n
  <2>5. PutI16(m.requested) = p
    BY <1>2, <2>3, <2>4, Spell16Signed DEF rows
  <2>6. ServerPayload(m) = Checked(PutI16(m.requested), ValidScrollRows(m.requested))
    BY <1>13, <2>3 DEF ServerPayload, Empties
  <2> QED
    BY <1>4, <1>13, <2>2, <2>3, <2>5, <2>6 DEF Checked
<1>14. CASE kind = "ScrollViewport"
  <2>1. m = TakeScroll(p)
    BY <1>2, <1>14 DEF ServerMade, Empties, WheelViewports
  <2>2. m.type = kind /\ PutScroll(m) = p /\ ValidFrame(m.frame) /\ m.frame.revision \in Nat
    BY <1>0, <1>2, <1>14, <2>1, ScrollSpelled
  <2>3. ServerPayload(m) = PutScroll(m)
    BY <1>14, <2>2 DEF ServerPayload, Empties
  <2>4. ServerKind(m) = kind
    BY <1>14, <2>2 DEF ServerKind
  <2> QED
    BY <2>2, <2>3, <2>4
<1>15. \/ kind \in Empties \/ kind = "Frame" \/ kind \in WheelViewports
       \/ kind \in {"Metadata", "SelectionFinished", "Failure", "Exited", "CopiedText",
                    "ClipboardWrite", "VerticalPreview", "ScrollTerminalOwned", "ScrollViewport"}
  BY <1>1, Zenon DEF ServerSays
<1> QED
  BY <1>5, <1>6, <1>7, <1>8, <1>9, <1>10, <1>11, <1>12, <1>13, <1>14, <1>15
=============================================================================
