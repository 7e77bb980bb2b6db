------------------------- MODULE SessionStreamProofs -------------------------
(***************************************************************************)
(* What is written to a connection and what becomes of it, for all         *)
(* messages and limits.                                                    *)
(*                                                                         *)
(* First the other direction of CodecProofs: what is encoded is taken back *)
(* as it was.  A reader of the join of some fields takes just them, and    *)
(* every number, flag, colour and text comes back from its own spelling.   *)
(*                                                                         *)
(* Then the connection, whose bytes arrive in any pieces: what is refused  *)
(* stays refused, whatever is complete is served before the owner waits, a *)
(* client shows the newest of its frames, and what is taken, encoded       *)
(* again, with what is left is what was written.  The loops of the code    *)
(* are recursive functions of the number of their rounds.  That such a     *)
(* function is what its recursion says, and what it keeps, is proved by    *)
(* induction over the set of rounds for which it holds (RoundsInduct).     *)
(***************************************************************************)
EXTENDS SessionStream, CodecProofs

-----------------------------------------------------------------------------
(***************************************************************************)
(* The other way: what is encoded is decoded as it was.                    *)
(***************************************************************************)
\* A number that so many bytes can hold is the number of its bytes.
LEMMA NumberKept ==
  ASSUME NEW w \in Nat, NEW v \in Nat, v <= Num([i \in 1..w |-> 255])
  PROVE  Num(LE(v, w)) = v
<1> DEFINE full == [i \in 1..w |-> 255]
           bytes == LE(v, w)
           limit == Numbers(full)
           number == Numbers(bytes)
           shift == Shifts(v, w)
           T == {i \in 0..w : shift[i] \in Nat /\ limit[w - i] \in Nat /\ shift[i] <= limit[w - i]}
           U == {i \in 0..w : number[i] = shift[w - i]}
<1>1. Len(full) = w /\ Len(bytes) = w
  BY DEF LE
<1>2. limit[0] = 0 /\ \A i \in 1..w : limit[i] = 255 + 256 * limit[i - 1]
  <2>1. limit[0] = 0 /\ \A i \in 1..w : limit[i] = full[w - i + 1] + 256 * limit[i - 1]
    BY <1>1, NumbersRecur
  <2>2. \A i \in 1..w : full[w - i + 1] = 255
    OBVIOUS
  <2> HIDE DEF limit, full
  <2>3. ASSUME NEW i \in 1..w
        PROVE  limit[i] = 255 + 256 * limit[i - 1]
    <3>1. limit[i] = full[w - i + 1] + 256 * limit[i - 1] /\ full[w - i + 1] = 255
      BY ONLY <2>1, <2>2, i \in 1..w, Zenon
    <3> QED
      BY ONLY <3>1
  <2> QED
    BY ONLY <2>1, <2>3, Zenon
<1>3. number[0] = 0 /\ \A i \in 1..w : number[i] = bytes[w - i + 1] + 256 * number[i - 1]
  BY <1>1, NumbersRecur
<1>4. shift[0] = v /\ \A i \in 1..w : shift[i] = shift[i - 1] \div 256
  BY ShiftsRecur
<1>5. \A i \in 1..w : bytes[i] = shift[i - 1] % 256
  BY DEF LE
<1>6. v <= limit[w]
  BY <1>1 DEF Num
<1>7. Num(bytes) = number[w]
  BY <1>1 DEF Num
<1> HIDE DEF limit, number, shift, bytes, full
<1>8. \A i \in 0..w : limit[i] \in Nat
  <2> DEFINE L == {i \in 0..w : limit[i] \in Nat}
  <2>1. 0 \in L
    BY <1>2
  <2>2. ASSUME NEW i \in 0..w - 1, i \in L
        PROVE  i + 1 \in L
    <3>1. i + 1 \in 1..w /\ i + 1 \in 0..w /\ i + 1 - 1 = i
      OBVIOUS
    <3>2. limit[i + 1] = 255 + 256 * limit[i] /\ limit[i] \in Nat
      BY <1>2, <2>2, <3>1
    <3>3. limit[i + 1] \in Nat
      BY ONLY <3>2
    <3> QED
      BY <3>1, <3>3
  <2>3. L \in SUBSET (0..w)
    OBVIOUS
  <2> HIDE DEF L
  <2>4. L = 0..w
    BY <2>1, <2>2, <2>3, RoundsInduct
  <2> QED
    BY <2>4 DEF L
<1>9. T = 0..w
  <2>1. 0 \in T
    BY <1>4, <1>6, <1>8
  <2>2. ASSUME NEW i \in 0..w - 1, i \in T
        PROVE  i + 1 \in T
    <3> DEFINE a == shift[i]
               b == limit[w - i - 1]
    <3>1. i + 1 \in 1..w /\ i + 1 \in 0..w /\ i + 1 - 1 = i /\ w - i \in 1..w /\ w - i - 1 \in 0..w
          /\ w - (i + 1) = w - i - 1
      OBVIOUS
    <3>2. shift[i + 1] = a \div 256 /\ a \in Nat /\ a <= limit[w - i]
      BY <1>4, <2>2, <3>1
    <3>3. limit[w - i] = 255 + 256 * b /\ b \in Nat
      BY <1>2, <1>8, <3>1
    <3> HIDE DEF a, b
    <3>4. a \div 256 \in Nat /\ a \div 256 <= b
      BY ONLY <3>2, <3>3
    <3>5. shift[i + 1] \in Nat /\ limit[w - (i + 1)] \in Nat /\ shift[i + 1] <= limit[w - (i + 1)]
      BY <3>1, <3>2, <3>3, <3>4 DEF b
    <3> QED
      BY <3>1, <3>5
  <2>3. T \in SUBSET (0..w)
    OBVIOUS
  <2> HIDE DEF T
  <2> QED
    BY <2>1, <2>2, <2>3, RoundsInduct
<1>10. \A i \in 0..w : shift[i] \in Nat
  BY <1>9
<1>11. shift[w] = 0
  <2>1. w \in T
    BY <1>9
  <2>2. shift[w] \in Nat /\ shift[w] <= limit[w - w]
    BY <2>1
  <2>3. w - w = 0
    OBVIOUS
  <2> QED
    BY <1>2, <2>2, <2>3
<1>12. U = 0..w
  <2>1. 0 \in U
    BY <1>3, <1>11
  <2>2. ASSUME NEW i \in 0..w - 1, i \in U
        PROVE  i + 1 \in U
    <3> DEFINE a == shift[w - (i + 1)]
    <3>1. i + 1 \in 1..w /\ i + 1 \in 0..w /\ i + 1 - 1 = i /\ w - i \in 1..w
          /\ w - (i + 1) \in 0..w /\ w - i - 1 = w - (i + 1) /\ w - (i + 1) + 1 = w - i
      OBVIOUS
    <3>2. number[i + 1] = bytes[w - i] + 256 * number[i] /\ number[i] = shift[w - i]
      BY <1>3, <2>2, <3>1
    <3>3. bytes[w - i] = a % 256 /\ shift[w - i] = a \div 256
      BY <1>4, <1>5, <3>1
    <3>4. a \in Nat
      BY <1>10, <3>1
    <3> HIDE DEF a
    <3>5. (a % 256) + 256 * (a \div 256) = a
      BY ONLY <3>4
    <3>6. number[i + 1] = a
      BY <3>2, <3>3, <3>5
    <3> QED
      BY <3>1, <3>6 DEF a
  <2>3. U \in SUBSET (0..w)
    OBVIOUS
  <2> HIDE DEF U
  <2> QED
    BY <2>1, <2>2, <2>3, RoundsInduct
<1>13. number[w] = shift[0]
  <2>1. w \in U /\ w - w = 0
    BY <1>12
  <2> QED
    BY <2>1
<1> QED
  BY <1>4, <1>7, <1>13 DEF bytes

\* The number of the last bytes is counted one by one.
NumbersAre(bytes, n) ==
  /\ Numbers(bytes)[0] = 0
  /\ \A i \in 1 .. n : Numbers(bytes)[i] = bytes[n - i + 1] + 256 * Numbers(bytes)[i - 1]

\* NumbersRecur for all bytes.
LEMMA NumbersCounted == \A bytes : \A n \in Nat : n = Len(bytes) => NumbersAre(bytes, n)
BY NumbersRecur DEF NumbersAre

\* What the widest number of a type is.
LEMMA Widest16 == Num([i \in 1..2 |-> 255]) = 65535
<1> DEFINE full == [i \in 1..2 |-> 255]
           number == Numbers(full)
<1>1. Len(full) = 2
  OBVIOUS
<1>2. number[0] = 0 /\ \A i \in 1..2 : number[i] = full[2 - i + 1] + 256 * number[i - 1]
  <2>1. 2 \in Nat /\ 2 = Len(full)
    BY <1>1
  <2> HIDE DEF full
  <2>2. NumbersAre(full, 2)
    BY ONLY <2>1, NumbersCounted, Zenon
  <2> QED
    BY ONLY <2>2 DEF NumbersAre
<1>3. Num(full) = number[2] /\ full[1] = 255 /\ full[2] = 255
  BY <1>1 DEF Num
<1> HIDE DEF number, full
<1>4. number[1] = full[2] + 256 * number[0] /\ number[2] = full[1] + 256 * number[1]
  BY <1>2
<1> QED
  BY <1>2, <1>3, <1>4 DEF full

\* The numbers of the integer types are kept.
LEMMA Kept16 == \A v \in Nat : v <= 65535 => Num(Put16(v)) = v
<1> SUFFICES ASSUME NEW v \in Nat, v <= 65535
             PROVE  Num(Put16(v)) = v
  OBVIOUS
<1> DEFINE w == 2
<1>1. w \in Nat /\ Num([i \in 1..w |-> 255]) = 65535
  BY Widest16
<1>2. Put16(v) = LE(v, w)
  BY DEF Put16
<1> HIDE DEF w
<1>3. v <= Num([i \in 1..w |-> 255])
  BY <1>1
<1>4. Num(LE(v, w)) = v
  BY <1>1, <1>3, NumberKept
<1> QED
  BY <1>2, <1>4

\* So are those of a u32, which are natural numbers.
LEMMA Kept32 == \A v \in U32 : v \in Nat /\ v <= MaxU32 /\ Num(Put32(v)) = v
<1>1. U32Bytes \in Nat
  BY WireAssumption
<1>2. MaxU32 \in Nat
  <2>1. [i \in 1..U32Bytes |-> 255] \in Seq(Byte)
    BY <1>1 DEF Byte
  <2> QED
    BY <2>1, NumIsNat DEF MaxU32
<1> QED
  BY <1>1, <1>2, NumberKept DEF Put32, MaxU32, U32

\* So are those of a u64.
LEMMA Kept64 == \A v \in U64 : v \in Nat /\ Num(Put64(v)) = v
<1>1. U64Bytes \in Nat
  BY WireAssumption
<1>2. MaxU64 \in Nat
  <2>1. [i \in 1..U64Bytes |-> 255] \in Seq(Byte)
    BY <1>1 DEF Byte
  <2> QED
    BY <2>1, NumIsNat DEF MaxU64
<1> QED
  BY <1>1, <1>2, NumberKept DEF Put64, MaxU64, U64

\* So is a signed one.
LEMMA KeptSigned ==
  ASSUME NEW v \in Int, -32768 <= v, v <= 32767
  PROVE  I16(PutI16(v)) = v
<1> DEFINE n == v % 65536
<1>1. n \in Nat /\ n <= 65535 /\ v = (IF n < 32768 THEN n ELSE n - 65536)
  OBVIOUS
<1> HIDE DEF n
<1>2. Num(Put16(n)) = n
  BY <1>1, Kept16
<1> QED
  BY <1>1, <1>2 DEF I16, PutI16, n

\* Halving again and again.
LEMMA Halves ==
  ASSUME NEW n \in Nat
  PROVE  /\ n \div 2 = (n \div 1) \div 2
         /\ n \div 4 = (n \div 2) \div 2
         /\ n \div 8 = (n \div 4) \div 2
         /\ n \div 16 = (n \div 8) \div 2
         /\ n \div 32 = (n \div 16) \div 2
         /\ n \div 64 = (n \div 32) \div 2
         /\ n \div 128 = (n \div 64) \div 2
         /\ n \div 256 = (n \div 128) \div 2
         /\ n \div 512 = (n \div 256) \div 2
         /\ n \div 1024 = (n \div 512) \div 2
         /\ n \div 2048 = (n \div 1024) \div 2
         /\ n \div 4096 = (n \div 2048) \div 2
         /\ n \div 8192 = (n \div 4096) \div 2
         /\ n \div 16384 = (n \div 8192) \div 2
         /\ n \div 32768 = (n \div 16384) \div 2
         /\ n \div 65536 = (n \div 32768) \div 2
OBVIOUS

\* The half of a number with one more bit is the number.
LEMMA Half == \A x \in Nat, b \in {0, 1} :
                b + 2 * x \in Nat /\ (b + 2 * x) \div 2 = x /\ (b + 2 * x) % 2 = b
OBVIOUS

\* The bits of the flags of some bits are those.
LEMMA FlagBits ==
  ASSUME NEW bits
  PROVE  /\ Flags(bits) \in Nat
         /\ \A k \in 0..15 : Bit(Flags(bits), k) <=> k \in bits
         /\ (\A k \in 3..15 : k \notin bits) => Flags(bits) < 8
         /\ (\A k \in 10..15 : k \notin bits) => Flags(bits) < 1024
<1> DEFINE number == HighFlags(bits)
           B(k) == IF k \in bits THEN 1 ELSE 0
           n == number[16]
<1>0. Flags(bits) = n
  BY DEF Flags
<1>1. number[0] = 0 /\ \A i \in 1..16 : number[i] = B(16 - i) + 2 * number[i - 1]
  BY HighFlagsRecur
<1> HIDE DEF number
<1>2. \A k \in 0..15 : B(k) \in {0, 1} /\ (B(k) = 1 <=> k \in bits)
  OBVIOUS
<1> HIDE DEF B
<1>3. \A k \in 0..15 : number[16 - k] = B(k) + 2 * number[15 - k]
  <2> SUFFICES ASSUME NEW k \in 0..15
               PROVE  number[16 - k] = B(k) + 2 * number[15 - k]
    OBVIOUS
  <2>1. 16 - k \in 1..16 /\ 16 - (16 - k) = k /\ 16 - k - 1 = 15 - k
    OBVIOUS
  <2>2. number[16 - k] = B(16 - (16 - k)) + 2 * number[16 - k - 1]
    BY ONLY <1>1, <2>1, Zenon
  <2> QED
    BY ONLY <2>1, <2>2, Zenon

<1>4. /\ number[16] = B(0) + 2 * number[15]
      /\ number[15] = B(1) + 2 * number[14]
      /\ number[14] = B(2) + 2 * number[13]
      /\ number[13] = B(3) + 2 * number[12]
      /\ number[12] = B(4) + 2 * number[11]
      /\ number[11] = B(5) + 2 * number[10]
      /\ number[10] = B(6) + 2 * number[9]
      /\ number[9] = B(7) + 2 * number[8]
      /\ number[8] = B(8) + 2 * number[7]
      /\ number[7] = B(9) + 2 * number[6]
      /\ number[6] = B(10) + 2 * number[5]
      /\ number[5] = B(11) + 2 * number[4]
      /\ number[4] = B(12) + 2 * number[3]
      /\ number[3] = B(13) + 2 * number[2]
      /\ number[2] = B(14) + 2 * number[1]
      /\ number[1] = B(15) + 2 * number[0]
  BY <1>3

<1>5. \A i \in 0..16 : number[i] \in Nat
  <2> DEFINE m == 16
             T == {i \in 0..m : number[i] \in Nat}
  <2>1. 0 \in T
    BY <1>1
  <2>2. ASSUME NEW i \in 0..m - 1, i \in T
        PROVE  i + 1 \in T
    <3>1. i + 1 \in 1..16 /\ i + 1 \in 0..16 /\ i + 1 - 1 = i /\ 16 - (i + 1) \in 0..15
      OBVIOUS
    <3>2. number[i + 1] = B(16 - (i + 1)) + 2 * number[i]
      BY <1>1, <3>1
    <3>3. B(16 - (i + 1)) \in {0, 1} /\ number[i] \in Nat
      BY <1>2, <2>2, <3>1
    <3>4. B(16 - (i + 1)) + 2 * number[i] \in Nat
      BY <3>3, Half
    <3> QED
      BY <3>1, <3>2, <3>4
  <2>3. T \in SUBSET (0..m) /\ m \in Nat
    OBVIOUS
  <2> HIDE DEF T, m
  <2>4. T = 0..m
    BY <2>1, <2>2, <2>3, RoundsInduct
  <2> QED
    BY <2>4 DEF T, m
<1>6. n \in Nat
  BY <1>5
<1>7. n \div 1 = number[16]
  BY <1>6

<1> HIDE DEF n
<1>8. n \div 2 = number[15] /\ (Bit(n, 0) <=> 0 \in bits)
  <2> DEFINE x == number[16]
             y == number[15]
             b == B(0)
  <2>1. x = b + 2 * y /\ b \in {0, 1} /\ y \in Nat /\ n \div 1 = x
        /\ (b = 1 <=> 0 \in bits)
    BY <1>2, <1>4, <1>5, <1>7
  <2>2. n \div 2 = x \div 2
    <3>1. n \div 2 = (n \div 1) \div 2
      BY ONLY <1>6, Halves
    <3> QED
      BY ONLY <2>1, <3>1
  <2>3. Bit(n, 0) <=> x % 2 = 1
    BY <2>1 DEF Bit
  <2> HIDE DEF x, y, b
  <2>4. x \div 2 = y /\ x % 2 = b
    BY <2>1, Half
  <2> QED
    BY <2>1, <2>2, <2>3, <2>4 DEF y
<1>9. n \div 4 = number[14] /\ (Bit(n, 1) <=> 1 \in bits)
  <2> DEFINE x == number[15]
             y == number[14]
             b == B(1)
  <2>1. x = b + 2 * y /\ b \in {0, 1} /\ y \in Nat /\ n \div 2 = x
        /\ (b = 1 <=> 1 \in bits)
    BY <1>2, <1>4, <1>5, <1>8
  <2>2. n \div 4 = x \div 2
    <3>1. n \div 4 = (n \div 2) \div 2
      BY ONLY <1>6, Halves
    <3> QED
      BY ONLY <2>1, <3>1
  <2>3. Bit(n, 1) <=> x % 2 = 1
    BY <2>1 DEF Bit
  <2> HIDE DEF x, y, b
  <2>4. x \div 2 = y /\ x % 2 = b
    BY <2>1, Half
  <2> QED
    BY <2>1, <2>2, <2>3, <2>4 DEF y
<1>10. n \div 8 = number[13] /\ (Bit(n, 2) <=> 2 \in bits)
  <2> DEFINE x == number[14]
             y == number[13]
             b == B(2)
  <2>1. x = b + 2 * y /\ b \in {0, 1} /\ y \in Nat /\ n \div 4 = x
        /\ (b = 1 <=> 2 \in bits)
    BY <1>2, <1>4, <1>5, <1>9
  <2>2. n \div 8 = x \div 2
    <3>1. n \div 8 = (n \div 4) \div 2
      BY ONLY <1>6, Halves
    <3> QED
      BY ONLY <2>1, <3>1
  <2>3. Bit(n, 2) <=> x % 2 = 1
    BY <2>1 DEF Bit
  <2> HIDE DEF x, y, b
  <2>4. x \div 2 = y /\ x % 2 = b
    BY <2>1, Half
  <2> QED
    BY <2>1, <2>2, <2>3, <2>4 DEF y
<1>11. n \div 16 = number[12] /\ (Bit(n, 3) <=> 3 \in bits)
  <2> DEFINE x == number[13]
             y == number[12]
             b == B(3)
  <2>1. x = b + 2 * y /\ b \in {0, 1} /\ y \in Nat /\ n \div 8 = x
        /\ (b = 1 <=> 3 \in bits)
    BY <1>2, <1>4, <1>5, <1>10
  <2>2. n \div 16 = x \div 2
    <3>1. n \div 16 = (n \div 8) \div 2
      BY ONLY <1>6, Halves
    <3> QED
      BY ONLY <2>1, <3>1
  <2>3. Bit(n, 3) <=> x % 2 = 1
    BY <2>1 DEF Bit
  <2> HIDE DEF x, y, b
  <2>4. x \div 2 = y /\ x % 2 = b
    BY <2>1, Half
  <2> QED
    BY <2>1, <2>2, <2>3, <2>4 DEF y
<1>12. n \div 32 = number[11] /\ (Bit(n, 4) <=> 4 \in bits)
  <2> DEFINE x == number[12]
             y == number[11]
             b == B(4)
  <2>1. x = b + 2 * y /\ b \in {0, 1} /\ y \in Nat /\ n \div 16 = x
        /\ (b = 1 <=> 4 \in bits)
    BY <1>2, <1>4, <1>5, <1>11
  <2>2. n \div 32 = x \div 2
    <3>1. n \div 32 = (n \div 16) \div 2
      BY ONLY <1>6, Halves
    <3> QED
      BY ONLY <2>1, <3>1
  <2>3. Bit(n, 4) <=> x % 2 = 1
    BY <2>1 DEF Bit
  <2> HIDE DEF x, y, b
  <2>4. x \div 2 = y /\ x % 2 = b
    BY <2>1, Half
  <2> QED
    BY <2>1, <2>2, <2>3, <2>4 DEF y
<1>13. n \div 64 = number[10] /\ (Bit(n, 5) <=> 5 \in bits)
  <2> DEFINE x == number[11]
             y == number[10]
             b == B(5)
  <2>1. x = b + 2 * y /\ b \in {0, 1} /\ y \in Nat /\ n \div 32 = x
        /\ (b = 1 <=> 5 \in bits)
    BY <1>2, <1>4, <1>5, <1>12
  <2>2. n \div 64 = x \div 2
    <3>1. n \div 64 = (n \div 32) \div 2
      BY ONLY <1>6, Halves
    <3> QED
      BY ONLY <2>1, <3>1
  <2>3. Bit(n, 5) <=> x % 2 = 1
    BY <2>1 DEF Bit
  <2> HIDE DEF x, y, b
  <2>4. x \div 2 = y /\ x % 2 = b
    BY <2>1, Half
  <2> QED
    BY <2>1, <2>2, <2>3, <2>4 DEF y
<1>14. n \div 128 = number[9] /\ (Bit(n, 6) <=> 6 \in bits)
  <2> DEFINE x == number[10]
             y == number[9]
             b == B(6)
  <2>1. x = b + 2 * y /\ b \in {0, 1} /\ y \in Nat /\ n \div 64 = x
        /\ (b = 1 <=> 6 \in bits)
    BY <1>2, <1>4, <1>5, <1>13
  <2>2. n \div 128 = x \div 2
    <3>1. n \div 128 = (n \div 64) \div 2
      BY ONLY <1>6, Halves
    <3> QED
      BY ONLY <2>1, <3>1
  <2>3. Bit(n, 6) <=> x % 2 = 1
    BY <2>1 DEF Bit
  <2> HIDE DEF x, y, b
  <2>4. x \div 2 = y /\ x % 2 = b
    BY <2>1, Half
  <2> QED
    BY <2>1, <2>2, <2>3, <2>4 DEF y
<1>15. n \div 256 = number[8] /\ (Bit(n, 7) <=> 7 \in bits)
  <2> DEFINE x == number[9]
             y == number[8]
             b == B(7)
  <2>1. x = b + 2 * y /\ b \in {0, 1} /\ y \in Nat /\ n \div 128 = x
        /\ (b = 1 <=> 7 \in bits)
    BY <1>2, <1>4, <1>5, <1>14
  <2>2. n \div 256 = x \div 2
    <3>1. n \div 256 = (n \div 128) \div 2
      BY ONLY <1>6, Halves
    <3> QED
      BY ONLY <2>1, <3>1
  <2>3. Bit(n, 7) <=> x % 2 = 1
    BY <2>1 DEF Bit
  <2> HIDE DEF x, y, b
  <2>4. x \div 2 = y /\ x % 2 = b
    BY <2>1, Half
  <2> QED
    BY <2>1, <2>2, <2>3, <2>4 DEF y
<1>16. n \div 512 = number[7] /\ (Bit(n, 8) <=> 8 \in bits)
  <2> DEFINE x == number[8]
             y == number[7]
             b == B(8)
  <2>1. x = b + 2 * y /\ b \in {0, 1} /\ y \in Nat /\ n \div 256 = x
        /\ (b = 1 <=> 8 \in bits)
    BY <1>2, <1>4, <1>5, <1>15
  <2>2. n \div 512 = x \div 2
    <3>1. n \div 512 = (n \div 256) \div 2
      BY ONLY <1>6, Halves
    <3> QED
      BY ONLY <2>1, <3>1
  <2>3. Bit(n, 8) <=> x % 2 = 1
    BY <2>1 DEF Bit
  <2> HIDE DEF x, y, b
  <2>4. x \div 2 = y /\ x % 2 = b
    BY <2>1, Half
  <2> QED
    BY <2>1, <2>2, <2>3, <2>4 DEF y
<1>17. n \div 1024 = number[6] /\ (Bit(n, 9) <=> 9 \in bits)
  <2> DEFINE x == number[7]
             y == number[6]
             b == B(9)
  <2>1. x = b + 2 * y /\ b \in {0, 1} /\ y \in Nat /\ n \div 512 = x
        /\ (b = 1 <=> 9 \in bits)
    BY <1>2, <1>4, <1>5, <1>16
  <2>2. n \div 1024 = x \div 2
    <3>1. n \div 1024 = (n \div 512) \div 2
      BY ONLY <1>6, Halves
    <3> QED
      BY ONLY <2>1, <3>1
  <2>3. Bit(n, 9) <=> x % 2 = 1
    BY <2>1 DEF Bit
  <2> HIDE DEF x, y, b
  <2>4. x \div 2 = y /\ x % 2 = b
    BY <2>1, Half
  <2> QED
    BY <2>1, <2>2, <2>3, <2>4 DEF y
<1>18. n \div 2048 = number[5] /\ (Bit(n, 10) <=> 10 \in bits)
  <2> DEFINE x == number[6]
             y == number[5]
             b == B(10)
  <2>1. x = b + 2 * y /\ b \in {0, 1} /\ y \in Nat /\ n \div 1024 = x
        /\ (b = 1 <=> 10 \in bits)
    BY <1>2, <1>4, <1>5, <1>17
  <2>2. n \div 2048 = x \div 2
    <3>1. n \div 2048 = (n \div 1024) \div 2
      BY ONLY <1>6, Halves
    <3> QED
      BY ONLY <2>1, <3>1
  <2>3. Bit(n, 10) <=> x % 2 = 1
    BY <2>1 DEF Bit
  <2> HIDE DEF x, y, b
  <2>4. x \div 2 = y /\ x % 2 = b
    BY <2>1, Half
  <2> QED
    BY <2>1, <2>2, <2>3, <2>4 DEF y
<1>19. n \div 4096 = number[4] /\ (Bit(n, 11) <=> 11 \in bits)
  <2> DEFINE x == number[5]
             y == number[4]
             b == B(11)
  <2>1. x = b + 2 * y /\ b \in {0, 1} /\ y \in Nat /\ n \div 2048 = x
        /\ (b = 1 <=> 11 \in bits)
    BY <1>2, <1>4, <1>5, <1>18
  <2>2. n \div 4096 = x \div 2
    <3>1. n \div 4096 = (n \div 2048) \div 2
      BY ONLY <1>6, Halves
    <3> QED
      BY ONLY <2>1, <3>1
  <2>3. Bit(n, 11) <=> x % 2 = 1
    BY <2>1 DEF Bit
  <2> HIDE DEF x, y, b
  <2>4. x \div 2 = y /\ x % 2 = b
    BY <2>1, Half
  <2> QED
    BY <2>1, <2>2, <2>3, <2>4 DEF y
<1>20. n \div 8192 = number[3] /\ (Bit(n, 12) <=> 12 \in bits)
  <2> DEFINE x == number[4]
             y == number[3]
             b == B(12)
  <2>1. x = b + 2 * y /\ b \in {0, 1} /\ y \in Nat /\ n \div 4096 = x
        /\ (b = 1 <=> 12 \in bits)
    BY <1>2, <1>4, <1>5, <1>19
  <2>2. n \div 8192 = x \div 2
    <3>1. n \div 8192 = (n \div 4096) \div 2
      BY ONLY <1>6, Halves
    <3> QED
      BY ONLY <2>1, <3>1
  <2>3. Bit(n, 12) <=> x % 2 = 1
    BY <2>1 DEF Bit
  <2> HIDE DEF x, y, b
  <2>4. x \div 2 = y /\ x % 2 = b
    BY <2>1, Half
  <2> QED
    BY <2>1, <2>2, <2>3, <2>4 DEF y
<1>21. n \div 16384 = number[2] /\ (Bit(n, 13) <=> 13 \in bits)
  <2> DEFINE x == number[3]
             y == number[2]
             b == B(13)
  <2>1. x = b + 2 * y /\ b \in {0, 1} /\ y \in Nat /\ n \div 8192 = x
        /\ (b = 1 <=> 13 \in bits)
    BY <1>2, <1>4, <1>5, <1>20
  <2>2. n \div 16384 = x \div 2
    <3>1. n \div 16384 = (n \div 8192) \div 2
      BY ONLY <1>6, Halves
    <3> QED
      BY ONLY <2>1, <3>1
  <2>3. Bit(n, 13) <=> x % 2 = 1
    BY <2>1 DEF Bit
  <2> HIDE DEF x, y, b
  <2>4. x \div 2 = y /\ x % 2 = b
    BY <2>1, Half
  <2> QED
    BY <2>1, <2>2, <2>3, <2>4 DEF y
<1>22. n \div 32768 = number[1] /\ (Bit(n, 14) <=> 14 \in bits)
  <2> DEFINE x == number[2]
             y == number[1]
             b == B(14)
  <2>1. x = b + 2 * y /\ b \in {0, 1} /\ y \in Nat /\ n \div 16384 = x
        /\ (b = 1 <=> 14 \in bits)
    BY <1>2, <1>4, <1>5, <1>21
  <2>2. n \div 32768 = x \div 2
    <3>1. n \div 32768 = (n \div 16384) \div 2
      BY ONLY <1>6, Halves
    <3> QED
      BY ONLY <2>1, <3>1
  <2>3. Bit(n, 14) <=> x % 2 = 1
    BY <2>1 DEF Bit
  <2> HIDE DEF x, y, b
  <2>4. x \div 2 = y /\ x % 2 = b
    BY <2>1, Half
  <2> QED
    BY <2>1, <2>2, <2>3, <2>4 DEF y
<1>23. n \div 65536 = number[0] /\ (Bit(n, 15) <=> 15 \in bits)
  <2> DEFINE x == number[1]
             y == number[0]
             b == B(15)
  <2>1. x = b + 2 * y /\ b \in {0, 1} /\ y \in Nat /\ n \div 32768 = x
        /\ (b = 1 <=> 15 \in bits)
    BY <1>2, <1>4, <1>5, <1>22
  <2>2. n \div 65536 = x \div 2
    <3>1. n \div 65536 = (n \div 32768) \div 2
      BY ONLY <1>6, Halves
    <3> QED
      BY ONLY <2>1, <3>1
  <2>3. Bit(n, 15) <=> x % 2 = 1
    BY <2>1 DEF Bit
  <2> HIDE DEF x, y, b
  <2>4. x \div 2 = y /\ x % 2 = b
    BY <2>1, Half
  <2> QED
    BY <2>1, <2>2, <2>3, <2>4 DEF y
<1>24. \A k \in 0..15 : Bit(n, k) <=> k \in bits
  <2>1. \A k \in 0..15 : \/ k = 0 \/ k = 1 \/ k = 2 \/ k = 3 \/ k = 4 \/ k = 5 \/ k = 6 \/ k = 7
                         \/ k = 8 \/ k = 9 \/ k = 10 \/ k = 11 \/ k = 12 \/ k = 13 \/ k = 14
                         \/ k = 15
    OBVIOUS
  <2>2. /\ (Bit(n, 0) <=> 0 \in bits) /\ (Bit(n, 1) <=> 1 \in bits)
        /\ (Bit(n, 2) <=> 2 \in bits) /\ (Bit(n, 3) <=> 3 \in bits)
        /\ (Bit(n, 4) <=> 4 \in bits) /\ (Bit(n, 5) <=> 5 \in bits)
        /\ (Bit(n, 6) <=> 6 \in bits) /\ (Bit(n, 7) <=> 7 \in bits)
        /\ (Bit(n, 8) <=> 8 \in bits) /\ (Bit(n, 9) <=> 9 \in bits)
        /\ (Bit(n, 10) <=> 10 \in bits) /\ (Bit(n, 11) <=> 11 \in bits)
        /\ (Bit(n, 12) <=> 12 \in bits) /\ (Bit(n, 13) <=> 13 \in bits)
        /\ (Bit(n, 14) <=> 14 \in bits) /\ (Bit(n, 15) <=> 15 \in bits)
    BY ONLY <1>8, <1>9, <1>10, <1>11, <1>12, <1>13, <1>14, <1>15, <1>16, <1>17, <1>18, <1>19,
       <1>20, <1>21, <1>22, <1>23, SMT
  <2> DEFINE Is(k) == Bit(n, k) <=> k \in bits
  <2>3. /\ Is(0) /\ Is(1) /\ Is(2) /\ Is(3) /\ Is(4) /\ Is(5) /\ Is(6) /\ Is(7)
        /\ Is(8) /\ Is(9) /\ Is(10) /\ Is(11) /\ Is(12) /\ Is(13) /\ Is(14) /\ Is(15)
    BY ONLY <2>2, SMT
  <2> HIDE DEF Is
  <2>4. \A k \in 0..15 : Is(k)
    BY ONLY <2>1, <2>3, SMT
  <2> QED
    BY ONLY <2>4, Zenon DEF Is
<1>25. ASSUME \A k \in 10..15 : k \notin bits
       PROVE  number[6] = 0
  <2>1. /\ 10 \notin bits /\ 11 \notin bits /\ 12 \notin bits
        /\ 13 \notin bits /\ 14 \notin bits /\ 15 \notin bits
    BY <1>25
  <2>2. B(10) = 0 /\ B(11) = 0 /\ B(12) = 0 /\ B(13) = 0 /\ B(14) = 0 /\ B(15) = 0
    BY <1>2, <2>1
  <2>3. number[1] = 0 /\ number[2] = 0 /\ number[3] = 0
    BY ONLY <1>1, <1>4, <2>2
  <2> QED
    BY ONLY <1>4, <2>2, <2>3
<1>26. ASSUME \A k \in 3..15 : k \notin bits
       PROVE  number[13] = 0
  <2>1. /\ 3 \notin bits /\ 4 \notin bits /\ 5 \notin bits /\ 6 \notin bits /\ 7 \notin bits
        /\ 8 \notin bits /\ 9 \notin bits
    BY <1>26
  <2>2. /\ B(3) = 0 /\ B(4) = 0 /\ B(5) = 0 /\ B(6) = 0 /\ B(7) = 0 /\ B(8) = 0 /\ B(9) = 0
    BY <1>2, <2>1
  <2>3. \A k \in 10..15 : k \in 3..15
    OBVIOUS
  <2>4. number[6] = 0
    BY <1>25, <1>26, <2>3
  <2> QED
    BY ONLY <1>4, <2>2, <2>4
<1>27. number[6] = 0 => n < 1024
  BY ONLY <1>6, <1>17
<1>28. number[13] = 0 => n < 8
  BY ONLY <1>6, <1>10
<1>29. (\A k \in 3..15 : k \notin bits) => n < 8
  BY ONLY <1>26, <1>28
<1>30. (\A k \in 10..15 : k \notin bits) => n < 1024
  BY ONLY <1>25, <1>27
<1>31. (\A k \in 3..15 : k \notin bits) => Flags(bits) < 8
  BY ONLY <1>0, <1>29
<1>32. (\A k \in 10..15 : k \notin bits) => Flags(bits) < 1024
  BY ONLY <1>0, <1>30
<1>33. Flags(bits) \in Nat /\ \A k \in 0..15 : Bit(Flags(bits), k) <=> k \in bits
  BY ONLY <1>0, <1>6, <1>24, Zenon
<1> QED
  BY ONLY <1>31, <1>32, <1>33, SMT

\* The flags of a row and of a style are kept.
LEMMA RowFlagsKept ==
  ASSUME NEW bits, bits \subseteq 0..RowFlagBits - 1
  PROVE  Flags(bits) \in Nat /\ Flags(bits) < 2^RowFlagBits /\ Bits(Flags(bits), RowFlagBits) = bits
<1>1. bits \subseteq 0..2 /\ RowFlagBits = 3 /\ 2^RowFlagBits = 8
  BY DEF RowFlagBits
<1>2. \A k \in 3..15 : k \notin bits
  BY <1>1
<1>3. Flags(bits) \in Nat /\ Flags(bits) < 8 /\ \A k \in 0..15 : Bit(Flags(bits), k) <=> k \in bits
  BY ONLY <1>2, FlagBits
<1>4. Bits(Flags(bits), 3) = {k \in 0..2 : Bit(Flags(bits), k)}
  BY DEF Bits
<1>5. \A k \in 0..2 : k \in 0..15
  OBVIOUS
<1>6. {k \in 0..2 : Bit(Flags(bits), k)} = bits
  BY <1>1, <1>3, <1>5, Zenon
<1> QED
  BY <1>1, <1>3, <1>4, <1>6

\* The flags of a style, as its attributes, are kept.
LEMMA StyleFlagsKept ==
  ASSUME NEW bits, bits \subseteq 0..StyleFlagBits - 1
  PROVE  /\ Flags(bits) \in Nat /\ Flags(bits) < 2^StyleFlagBits
         /\ Flags(bits) <= 65535
         /\ Bits(Flags(bits), StyleFlagBits) = bits
<1>1. bits \subseteq 0..9 /\ StyleFlagBits = 10 /\ 2^StyleFlagBits = 1024
  BY DEF StyleFlagBits
<1>2. \A k \in 10..15 : k \notin bits
  BY <1>1
<1>3. Flags(bits) \in Nat /\ Flags(bits) < 1024 /\ \A k \in 0..15 : Bit(Flags(bits), k) <=> k \in bits
  BY ONLY <1>2, FlagBits
<1>4. Bits(Flags(bits), 10) = {k \in 0..9 : Bit(Flags(bits), k)}
  BY DEF Bits
<1>5. \A k \in 0..9 : k \in 0..15
  OBVIOUS
<1>6. {k \in 0..9 : Bit(Flags(bits), k)} = bits
  <2>1. bits \subseteq 0..9
    BY <1>1
  <2> QED
    BY ONLY <1>3, <1>5, <2>1, Zenon
<1>7. Flags(bits) <= 65535
  BY <1>3
<1> QED
  BY <1>1, <1>3, <1>4, <1>6, <1>7

\* What is left in front of a tail when the pieces are taken one by one.
Unwinding(t, pieces, n, tail) ==
  /\ t[n] = tail
  /\ \A i \in 0 .. n : t[i] \in Seq(Byte)
  /\ \A i \in 1 .. n : t[i - 1] = Join(pieces[i], t[i])

\* What follows a sequence is determined by the whole.
LEMMA JoinCancels ==
  ASSUME NEW a \in Seq(Byte), NEW b \in Seq(Byte), NEW d \in Seq(Byte), Join(a, b) = Join(a, d)
  PROVE  b = d
<1>1. a \o b = a \o d
  BY DEF Join
<1>2. \A S : \A s, t, v \in Seq(S) : s \o t = s \o v => t = v
  BY ConcatSimplifications, Zenon
<1>3. \A s, t, v \in Seq(Byte) : s \o t = s \o v => t = v
  BY <1>2, Zenon
<1> QED
  BY <1>1, <1>3, Zenon

\* The pieces of a flattened sequence come off its front one by one.
LEMMA Unwinds ==
  ASSUME NEW pieces \in Seq(Seq(Byte)), NEW n \in Nat, n = Len(pieces), NEW tail \in Seq(Byte)
  PROVE  \E t : Unwinding(t, pieces, n, tail) /\ t[0] = Join(FlattenSeq(pieces), tail)
<1>1. PICK h : Flattening(h, pieces, Byte)
  BY FlattenJoins
<1> DEFINE all == Join(h[n], tail)
           Left(i, x) == x \in Seq(Byte) /\ Join(h[i], x) = all
           T == {k \in 0 .. n : \E x : Left(n - k, x)}
           t == [i \in 0 .. n |-> CHOOSE x : Left(i, x)]
<1>2. /\ h[0] = <<>> /\ \A i \in 1 .. n : h[i] = Join(h[i - 1], pieces[i])
      /\ h[n] = FlattenSeq(pieces)
      /\ \A i \in 0 .. n : h[i] \in Seq(Byte)
  BY <1>1 DEF Flattening, Joining
<1>3. \A i \in 1 .. n : pieces[i] \in Seq(Byte)
  BY FieldBytes
<1>4. all \in Seq(Byte)
  <2>1. h[n] \in Seq(Byte)
    BY <1>2
  <2> QED
    BY <2>1, JoinBytes, Zenon
<1>5. \A i \in 1 .. n : i \in 0 .. n /\ i - 1 \in 0 .. n
  OBVIOUS
<1>6. \A i \in 1 .. n, x \in Seq(Byte) : Join(h[i], x) = Join(h[i - 1], Join(pieces[i], x))
  <2> SUFFICES ASSUME NEW i \in 1 .. n, NEW x \in Seq(Byte)
               PROVE  Join(h[i], x) = Join(h[i - 1], Join(pieces[i], x))
    OBVIOUS
  <2>1. h[i] = Join(h[i - 1], pieces[i])
    BY <1>2
  <2>2. h[i - 1] \in Seq(Byte) /\ pieces[i] \in Seq(Byte)
    BY <1>2, <1>3, <1>5
  <2>3. Join(h[i - 1], Join(pieces[i], x)) = Join(Join(h[i - 1], pieces[i]), x)
    BY <2>2, JoinGroups, Zenon
  <2> QED
    BY <2>1, <2>3, Zenon
<1>7. 0 \in T
  <2>1. Left(n, tail) /\ n - 0 = n
    OBVIOUS
  <2> HIDE DEF Left
  <2> QED
    BY <2>1
<1>8. ASSUME NEW k \in 0 .. n - 1, k \in T
      PROVE  k + 1 \in T
  <2> DEFINE i == n - k
  <2>1. i \in 1 .. n /\ n - (k + 1) = i - 1 /\ k + 1 \in 0 .. n
    OBVIOUS
  <2>2. PICK x : Left(i, x)
    BY <1>8
  <2> HIDE DEF i, all
  <2>3. Join(h[i], x) = Join(h[i - 1], Join(pieces[i], x)) /\ Join(pieces[i], x) \in Seq(Byte)
    BY <1>3, <1>6, <2>1, <2>2, JoinBytes
  <2>4. Left(i - 1, Join(pieces[i], x))
    BY <2>2, <2>3, Zenon
  <2> HIDE DEF Left
  <2> QED
    BY <2>1, <2>4, Zenon
<1>9. T = 0 .. n
  <2> HIDE DEF T
  <2>1. T \in SUBSET (0 .. n)
    BY DEF T
  <2>2. \A k \in 0 .. n - 1 : k \in T => k + 1 \in T
    BY <1>8
  <2> QED
    BY ONLY <1>7, <2>1, <2>2, n \in Nat, RoundsInduct
<1>10. \A i \in 0 .. n : \E x : Left(i, x)
  <2> SUFFICES ASSUME NEW i \in 0 .. n
               PROVE  \E x : Left(i, x)
    OBVIOUS
  <2>1. n - i \in 0 .. n /\ n - (n - i) = i
    OBVIOUS
  <2> HIDE DEF Left
  <2>2. \E x : Left(n - (n - i), x)
    BY ONLY <1>9, <2>1
  <2> QED
    BY <2>1, <2>2, Zenon
<1>11. \A i \in 0 .. n : Left(i, t[i])
  <2> SUFFICES ASSUME NEW i \in 0 .. n
               PROVE  Left(i, t[i])
    OBVIOUS
  <2>1. t[i] = CHOOSE x : Left(i, x)
    OBVIOUS
  <2> HIDE DEF t, Left
  <2> QED
    BY <1>10, <2>1, Zenon
<1> HIDE DEF t
<1>12. t[n] = tail
  <2>1. t[n] \in Seq(Byte) /\ Join(h[n], t[n]) = Join(h[n], tail) /\ h[n] \in Seq(Byte)
    BY <1>2, <1>11
  <2> QED
    BY <2>1, JoinCancels
<1>13. \A i \in 1 .. n : t[i - 1] = Join(pieces[i], t[i])
  <2> SUFFICES ASSUME NEW i \in 1 .. n
               PROVE  t[i - 1] = Join(pieces[i], t[i])
    OBVIOUS
  <2>1. t[i - 1] \in Seq(Byte) /\ t[i] \in Seq(Byte) /\ h[i - 1] \in Seq(Byte)
    BY <1>2, <1>5, <1>11
  <2>2. Join(h[i - 1], t[i - 1]) = Join(h[i], t[i])
    BY <1>5, <1>11
  <2>3. Join(h[i], t[i]) = Join(h[i - 1], Join(pieces[i], t[i]))
    BY <1>6, <2>1
  <2>4. Join(pieces[i], t[i]) \in Seq(Byte)
    BY <1>3, <2>1, JoinBytes
  <2> QED
    BY ONLY <2>1, <2>2, <2>3, <2>4, JoinCancels
<1>14. t[0] = Join(FlattenSeq(pieces), tail)
  <2>1. t[0] \in Seq(Byte) /\ Join(h[0], t[0]) = all
    BY <1>11
  <2>2. Join(<<>>, t[0]) = t[0]
    BY <2>1 DEF Join
  <2> QED
    BY <1>2, <2>1, <2>2
<1>15. \A i \in 0 .. n : t[i] \in Seq(Byte)
  BY <1>11
<1> QED
  BY <1>12, <1>13, <1>14, <1>15, Zenon DEF Unwinding

\* A field f may have the bytes g, in front of a tail.
Suits(f, g, tail) ==
  /\ g \in Seq(Byte)
  /\ f \in Nat \ {0} => Len(g) = f
  /\ f = Prefixed => Utf8(g) /\ Len(g) \in U32
  /\ f = Remains => tail = <<>>

\* The first and the last bytes of two joined sequences.
LEMMA JoinParts ==
  \A a, b \in Seq(Byte) :
    /\ SubSeq(Join(a, b), 1, Len(a)) = a
    /\ SubSeq(Join(a, b), Len(a) + 1, Len(Join(a, b))) = b
    /\ Len(Join(a, b)) = Len(a) + Len(b)
<1> SUFFICES ASSUME NEW a \in Seq(Byte), NEW b \in Seq(Byte), NEW n \in Nat, n = Len(a)
             PROVE  /\ SubSeq(Join(a, b), 1, n) = a
                    /\ SubSeq(Join(a, b), n + 1, Len(Join(a, b))) = b
                    /\ Len(Join(a, b)) = n + Len(b)
  <2>1. \A a \in Seq(Byte) : Len(a) \in Nat
    OBVIOUS
  <2> QED
    BY <2>1, Zenon
<1>1. SubSeq(a \o b, 1, Len(a)) = a
  BY SubSeqOfConcat1, SubSeqFull
<1> DEFINE s == Join(a, b)
<1>2. s \in Seq(Byte) /\ Len(s) = n + Len(b) /\ n \in 0 .. Len(s)
  BY JoinBytes
<1>3. SubSeq(s, 1, n) = a
  BY <1>1 DEF Join
<1> HIDE DEF s
<1>4. /\ SubSeq(s, n + 1, Len(s)) \in Seq(Byte)
      /\ s = SubSeq(s, 1, n) \o SubSeq(s, n + 1, Len(s))
  BY <1>2, Split
<1>5. Join(a, b) = Join(a, SubSeq(s, n + 1, Len(s)))
  BY <1>3, <1>4 DEF s, Join
<1>6. SubSeq(s, n + 1, Len(s)) = b
  BY <1>4, <1>5, JoinCancels
<1> QED
  BY <1>2, <1>3, <1>6 DEF s

\* A reader that has taken a part more is a reader.
LEMMA MoreTaken ==
  ASSUME NEW S, NEW r \in Readers(S), NEW g \in S, NEW tail \in Seq(Byte)
  PROVE  /\ [rest |-> tail, got |-> Append(r.got, g)] \in Readers(S)
         /\ r = [rest |-> r.rest, got |-> r.got] /\ r.rest \in Seq(Byte) /\ r.got \in Seq(S)
BY DEF Readers

\* Bytes are parts, and an error is neither a reader nor a part.
LEMMA PartsAre ==
  /\ \A g \in Seq(Byte) : g \in Parts /\ g # Bad
  /\ \A r \in Readers(Parts) : r # Bad
BY ErrorAssumption, BadAssumption DEF Parts

\* TakeBytes takes the bytes in front of the tail.
LEMMA BytesBack ==
  ASSUME NEW r, NEW g \in Seq(Byte), NEW tail \in Seq(Byte), r.rest = Join(g, tail),
         NEW n \in Nat, n = Len(g)
  PROVE  TakeBytes(r, n) = [rest |-> tail, got |-> Append(r.got, g)]
<1>1. /\ SubSeq(r.rest, 1, n) = g /\ SubSeq(r.rest, n + 1, Len(r.rest)) = tail
      /\ Len(r.rest) = n + Len(tail)
  <2>1. /\ SubSeq(Join(g, tail), 1, n) = g
        /\ SubSeq(Join(g, tail), n + 1, Len(Join(g, tail))) = tail
        /\ Len(Join(g, tail)) = n + Len(tail)
    BY JoinParts, Zenon
  <2> QED
    BY <2>1, Zenon
<1>2. Len(tail) \in Nat
  OBVIOUS
<1>3. ~(n > Len(r.rest))
  BY <1>1, <1>2
<1> QED
  BY <1>1, <1>3, Zenon DEF TakeBytes

\* TakeText takes the text in front of the tail.
LEMMA TextBack ==
  ASSUME NEW r \in Readers(Parts), NEW g \in Seq(Byte), NEW tail \in Seq(Byte),
         r.rest = Join(PutBytes(g), tail), Utf8(g), Len(g) \in U32
  PROVE  TakeText(r) = [rest |-> tail, got |-> Append(r.got, g)]
<1> DEFINE p == Put32(Len(g))
           body == [r EXCEPT !.rest = SubSeq(@, U32Bytes + 1, Len(@))]
<1>0. U32Bytes \in Nat
  BY WireAssumption
<1>1. p \in Seq(Byte) /\ Len(p) = U32Bytes /\ Num(p) = Len(g) /\ Len(g) \in Nat
  BY <1>0, NumberBytes, Kept32 DEF Put32
<1>2. r.rest = Join(p, Join(g, tail)) /\ Join(g, tail) \in Seq(Byte)
  <2>1. PutBytes(g) = Join(p, g)
    BY DEF PutBytes, Join
  <2> HIDE DEF p
  <2>2. Join(p, Join(g, tail)) = Join(Join(p, g), tail)
    BY <1>1, JoinGroups, Zenon
  <2> QED
    BY <2>1, <2>2, JoinBytes, Zenon
<1> HIDE DEF p
<1>3. /\ SubSeq(r.rest, 1, U32Bytes) = p
      /\ SubSeq(r.rest, U32Bytes + 1, Len(r.rest)) = Join(g, tail)
      /\ Len(r.rest) = U32Bytes + Len(Join(g, tail))
  <2> DEFINE x == Join(g, tail)
  <2> HIDE DEF x
  <2>1. x \in Seq(Byte)
    BY <1>2 DEF x
  <2>2. /\ SubSeq(Join(p, x), 1, U32Bytes) = p
        /\ SubSeq(Join(p, x), U32Bytes + 1, Len(Join(p, x))) = x
        /\ Len(Join(p, x)) = U32Bytes + Len(x)
    <3>1. U32Bytes = Len(p) /\ p \in Seq(Byte)
      BY <1>1
    <3> QED
      BY <2>1, <3>1, JoinParts, Zenon
  <2> QED
    BY <1>2, <2>2, Zenon DEF x
<1>4. ~(Len(r.rest) < U32Bytes)
  <2>1. Len(Join(g, tail)) \in Nat
    BY <1>2
  <2> QED
    BY <1>0, <1>3, <2>1
<1>5. body.rest = Join(g, tail) /\ body.got = r.got
  <2>1. body = [rest |-> SubSeq(r.rest, U32Bytes + 1, Len(r.rest)), got |-> r.got]
    <3>1. r = [rest |-> r.rest, got |-> r.got]
      BY DEF Readers
    <3> DEFINE y == SubSeq(r.rest, U32Bytes + 1, Len(r.rest))
    <3>2. body = [r EXCEPT !.rest = y]
      OBVIOUS
    <3> HIDE DEF y, body
    <3>3. body = [rest |-> y, got |-> r.got]
      BY <3>1, <3>2
    <3> QED
      BY <3>3 DEF y
  <2> HIDE DEF body
  <2> QED
    BY <1>3, <2>1
<1>6. TakeBytes(body, Len(g)) = [rest |-> tail, got |-> Append(r.got, g)]
  <2> HIDE DEF body
  <2> QED
    BY <1>1, <1>5, BytesBack
<1> DEFINE after == [rest |-> tail, got |-> Append(r.got, g)]
<1>7. after # Bad
  <2>1. g \in Parts
    BY PartsAre
  <2>2. after \in Readers(Parts)
    BY <2>1, MoreTaken
  <2> QED
    BY <2>2, PartsAre
<1>8. Last(after.got) = g
  <2>1. r.got \in Seq(Parts) /\ g \in Parts
    BY PartsAre DEF Readers
  <2> HIDE DEF body
  <2>2. Len(Append(r.got, g)) = Len(r.got) + 1 /\ Append(r.got, g)[Len(r.got) + 1] = g
    BY <2>1
  <2> QED
    BY <2>2 DEF Last
<1>9. TakeText(r) = IF after = Bad THEN Bad ELSE IF Utf8(Last(after.got)) THEN after ELSE Bad
  <2> HIDE DEF after
  <2>1. TakeBytes(body, Num(SubSeq(r.rest, 1, U32Bytes))) = after
    BY <1>1, <1>3, <1>6 DEF after
  <2> QED
    BY <1>4, <2>1, Zenon DEF TakeText
<1> HIDE DEF body
<1> QED
  BY <1>7, <1>8, <1>9

\* Take takes the field in front of the tail, whatever its width.
LEMMA TakeBack ==
  ASSUME NEW r \in Readers(Parts), NEW f, IsField(f), NEW g, NEW tail \in Seq(Byte),
         Suits(f, g, tail), r.rest = Join(Spelt(f, g), tail)
  PROVE  Take(r, f) = [rest |-> tail, got |-> Append(r.got, g)]
<1>1. r # Bad /\ g \in Seq(Byte)
  BY PartsAre DEF Suits
<1>2. CASE f = Prefixed
  <2>1. Take(r, f) = TakeText(r)
    BY <1>1, <1>2 DEF Take, Prefixed, Remains
  <2>2. r.rest = Join(PutBytes(g), tail)
    BY <1>2 DEF Spelt
  <2> QED
    BY <1>1, <1>2, <2>1, <2>2, TextBack DEF Suits
<1>3. CASE f = Remains
  <2>1. Spelt(f, g) = g /\ tail = <<>>
    BY <1>3 DEF Spelt, Suits, Prefixed, Remains
  <2>2. Len(r.rest) = Len(g)
    <3>1. Join(g, <<>>) = g
      BY <1>1 DEF Join
    <3> QED
      BY <2>1, <3>1
  <2>3. Take(r, f) = TakeBytes(r, Len(g))
    BY <1>1, <1>3, <2>2 DEF Take, Prefixed, Remains
  <2>4. Len(g) \in Nat
    BY <1>1
  <2> QED
    BY <1>1, <2>1, <2>3, <2>4, BytesBack
<1>4. CASE f \in Nat \ {0}
  <2>1. Spelt(f, g) = g /\ Len(g) = f
    BY <1>4 DEF Spelt, Suits, Prefixed
  <2>2. Take(r, f) = TakeBytes(r, f)
    BY <1>1, <1>4 DEF Take, Prefixed, Remains
  <2> QED
    BY <1>1, <1>4, <2>1, <2>2, BytesBack
<1> QED
  BY <1>2, <1>3, <1>4 DEF IsField, Prefixed

\* The fields may have the bytes gs, in front of a tail.
Suited(fields, gs, n, tail) ==
  /\ n = Len(fields) /\ gs \in Seq(Seq(Byte)) /\ Len(gs) = n
  /\ \A i \in 1 .. n : IsField(fields[i]) /\ Suits(fields[i], gs[i], tail)
  /\ \A i \in 1 .. n : fields[i] = Remains => i = n

\* A reader q has taken the n parts gs more than the k of got, and has the tail left.
Back(q, got, k, gs, n, tail) ==
  /\ q \in Readers(Parts) /\ q.rest = tail /\ Len(q.got) = k + n
  /\ Placed(q.got, 0, got, k) /\ Placed(q.got, k, gs, n)

\* Fields that suit are fields as they are taken.
LEMMA SuitedTaken ==
  ASSUME NEW fields, NEW gs, NEW n \in Nat, NEW tail, Suited(fields, gs, n, tail)
  PROVE  /\ AreFields(fields, n) /\ Taken(fields, gs, n)
         /\ Spelled(fields, gs) \in Seq(Byte)
         /\ \A i \in 1 .. n : Spelling(fields, gs)[i] = Spelt(fields[i], gs[i])
<1>1. AreFields(fields, n)
  BY DEF Suited, AreFields
<1>2. \A i \in 1 .. n : gs[i] \in Seq(Byte) /\ (fields[i] \in Nat \ {0} => Len(gs[i]) = fields[i])
  BY DEF Suited, Suits
<1>3. \A i \in 1 .. n : Spelt(fields[i], gs[i]) \in Seq(Byte)
  BY <1>2, TextBytes DEF Spelt
<1> DEFINE spelling == Spelling(fields, gs)
<1>4. spelling = [i \in 1 .. n |-> Spelt(fields[i], gs[i])]
  BY DEF Spelling, Suited
<1>5. spelling \in [1 .. n -> Seq(Byte)]
  BY <1>3, <1>4
<1> HIDE DEF spelling
<1>6. spelling \in Seq(Seq(Byte))
  BY <1>5
<1>7. FlattenSeq(spelling) \in Seq(Byte)
  BY <1>6, <<>> \in Seq(Byte), FlattenAppend
<1> QED
  BY <1>1, <1>2, <1>4, <1>6, <1>7 DEF Taken, Suited, Spelled, spelling

\* One part more.
LEMMA BackMore ==
  ASSUME NEW q, NEW got, NEW k \in Nat, NEW gs, NEW i \in Nat, NEW x,
         Back(q, got, k, gs, i, x), gs[i + 1] \in Seq(Byte), NEW tail \in Seq(Byte)
  PROVE  Back([rest |-> tail, got |-> Append(q.got, gs[i + 1])], got, k, gs, i + 1, tail)
<1> DEFINE g == gs[i + 1]
           v == [rest |-> tail, got |-> Append(q.got, g)]
<1>1. g \in Parts /\ q \in Readers(Parts)
  BY PartsAre DEF Back
<1>2. v \in Readers(Parts) /\ q.got \in Seq(Parts)
  BY <1>1, MoreTaken
<1>3. /\ Len(v.got) = Len(q.got) + 1 /\ v.got[Len(q.got) + 1] = g
      /\ \A j \in 1 .. Len(q.got) : v.got[j] = q.got[j]
  <2>1. v.got = Append(q.got, g)
    OBVIOUS
  <2> HIDE DEF g, v
  <2> QED
    BY <1>1, <1>2, <2>1, AppendProperties
<1>4. Len(q.got) = k + i /\ Placed(q.got, 0, got, k) /\ Placed(q.got, k, gs, i)
  BY DEF Back
<1> DEFINE new == v.got
           old == q.got
<1> HIDE DEF new, old, v
<1>5. Len(new) = k + i + 1 /\ new[k + i + 1] = g /\ \A j \in 1 .. k + i : new[j] = old[j]
  BY <1>3, <1>4 DEF new, old
<1> HIDE DEF g
<1>6. Placed(new, 0, got, k)
  <2> SUFFICES ASSUME NEW j \in 1 .. k
               PROVE  new[0 + j] = got[j]
    BY DEF Placed
  <2>1. j \in 1 .. k + i /\ 0 + j = j
    OBVIOUS
  <2>2. old[0 + j] = got[j]
    BY <1>4 DEF Placed, old
  <2> QED
    BY <1>5, <2>1, <2>2
<1>7. Placed(new, k, gs, i + 1)
  <2> SUFFICES ASSUME NEW j \in 1 .. i + 1
               PROVE  new[k + j] = gs[j]
    BY DEF Placed
  <2>1. CASE j = i + 1
    <3>1. k + j = k + i + 1
      BY <2>1
    <3> QED
      BY <1>5, <2>1, <3>1 DEF g
  <2>2. CASE j \in 1 .. i
    <3>1. k + j \in 1 .. k + i
      BY <2>2
    <3>2. old[k + j] = gs[j]
      BY <1>4, <2>2 DEF Placed, old
    <3> QED
      BY <1>5, <3>1, <3>2
  <2> QED
    BY <2>1, <2>2
<1>8. v.rest = tail
  BY DEF v
<1>9. Len(v.got) = k + (i + 1)
  BY <1>5 DEF new
<1> QED
  BY <1>2, <1>6, <1>7, <1>8, <1>9, Zenon DEF Back, new, v, g

\* Fields are read back from their spelling.
LEMMA ReadBack ==
  ASSUME NEW r \in Readers(Parts), NEW k \in Nat, Len(r.got) = k, NEW fields, NEW n \in Nat,
         NEW gs, NEW tail \in Seq(Byte), Suited(fields, gs, n, tail),
         r.rest = Join(Spelled(fields, gs), tail)
  PROVE  Back(Read(r, fields), r.got, k, gs, n, tail)
<1> DEFINE reading == Readings(r, fields)
           pieces == Spelling(fields, gs)
<1>1. /\ reading[0] = r
      /\ \A i \in 1 .. n : reading[i] = Take(reading[i - 1], fields[i])
  <2>1. n = Len(fields)
    BY DEF Suited
  <2> QED
    BY <2>1, ReadingsRecur
<1>2. /\ pieces \in Seq(Seq(Byte)) /\ Len(pieces) = n
      /\ \A i \in 1 .. n : pieces[i] = Spelt(fields[i], gs[i])
  <2>1. Len(pieces) = n
    BY DEF Spelling, Suited
  <2>2. Taken(fields, gs, n) /\ \A i \in 1 .. n : Spelling(fields, gs)[i] = Spelt(fields[i], gs[i])
    BY SuitedTaken
  <2> QED
    BY <2>1, <2>2, Zenon DEF Taken
<1> HIDE DEF pieces, reading
<1>3. PICK t : Unwinding(t, pieces, n, tail) /\ t[0] = Join(FlattenSeq(pieces), tail)
  BY <1>2, Unwinds
<1>4. t[0] = r.rest
  BY <1>3 DEF Spelled, pieces
<1> DEFINE T == {i \in 0 .. n : Back(reading[i], r.got, k, gs, i, t[i])}
<1>5. 0 \in T
  <2>1. Placed(r.got, 0, r.got, k)
    BY DEF Placed
  <2>2. Placed(r.got, k, gs, 0)
    BY DEF Placed
  <2>3. Len(r.got) = k + 0
    OBVIOUS
  <2>4. Back(r, r.got, k, gs, 0, t[0])
    BY <1>4, <2>1, <2>2, <2>3, Zenon DEF Back
  <2> QED
    BY <1>1, <2>4
<1>6. ASSUME NEW i \in 0 .. n - 1, i \in T
      PROVE  i + 1 \in T
  <2> DEFINE f == fields[i + 1]
             g == gs[i + 1]
             q == reading[i]
             x == t[i + 1]
  <2>1. i \in Nat /\ i + 1 \in 1 .. n /\ i + 1 \in 0 .. n /\ i + 1 - 1 = i
    OBVIOUS
  <2>2. reading[i + 1] = Take(q, f)
    BY <1>1, <2>1
  <2>3. Back(q, r.got, k, gs, i, t[i])
    BY <1>6
  <2>4. x \in Seq(Byte) /\ t[i] = Join(Spelt(f, g), x)
    BY <1>2, <1>3, <2>1 DEF Unwinding
  <2>5. f = Remains => x = <<>>
    <3> SUFFICES ASSUME f = Remains
                 PROVE  x = <<>>
      OBVIOUS
    <3>1. i + 1 = n
      BY <2>1 DEF Suited
    <3>2. t[n] = tail
      BY <1>3 DEF Unwinding
    <3>3. tail = <<>>
      BY <2>1 DEF Suited, Suits
    <3> QED
      BY <3>1, <3>2, <3>3
  <2>6. IsField(f) /\ Suits(f, g, x) /\ g \in Seq(Byte)
    <3>1. IsField(f) /\ Suits(f, g, tail)
      BY <2>1 DEF Suited
    <3> HIDE DEF f, g, x
    <3> QED
      BY <2>5, <3>1 DEF Suits
  <2>7. q \in Readers(Parts) /\ q.rest = t[i]
    BY <2>3 DEF Back
  <2>8. Take(q, f) = [rest |-> x, got |-> Append(q.got, g)]
    <3> HIDE DEF f, g, x, q
    <3>1. q.rest = Join(Spelt(f, g), x)
      BY <2>4, <2>7
    <3> QED
      BY <2>4, <2>6, <2>7, <3>1, TakeBack
  <2>9. Back([rest |-> x, got |-> Append(q.got, g)], r.got, k, gs, i + 1, x)
    <3> HIDE DEF q, x
    <3> QED
      BY <2>1, <2>3, <2>4, <2>6, BackMore
  <2> QED
    BY <2>1, <2>2, <2>8, <2>9
<1>7. T = 0 .. n
  <2> HIDE DEF T
  <2>1. T \in SUBSET (0 .. n)
    BY DEF T
  <2>2. \A i \in 0 .. n - 1 : i \in T => i + 1 \in T
    BY <1>6
  <2> QED
    BY ONLY <1>5, <2>1, <2>2, n \in Nat, RoundsInduct
<1>8. Back(reading[n], r.got, k, gs, n, t[n])
  <2>1. n \in T
    BY <1>7
  <2> QED
    BY <2>1
<1>9. t[n] = tail /\ Read(r, fields) = reading[n]
  BY <1>3 DEF Unwinding, Read, Suited, reading
<1> QED
  BY <1>8, <1>9, Zenon

\* A fresh reader has nothing but the fields then.
LEMMA ReadFresh ==
  ASSUME NEW bytes \in Seq(Byte), NEW fields, NEW n \in Nat, NEW gs, NEW tail \in Seq(Byte),
         Suited(fields, gs, n, tail), bytes = Join(Spelled(fields, gs), tail)
  PROVE  /\ Read(Reader(bytes), fields) = [rest |-> tail, got |-> gs]
         /\ Read(Reader(bytes), fields) # Bad
<1> DEFINE r == Reader(bytes)
           q == Read(r, fields)
<1>1. r \in Readers(Parts) /\ Len(r.got) = 0 /\ r.rest = bytes
  BY DEF Reader, Readers
<1> HIDE DEF r
<1>2. Back(q, r.got, 0, gs, n, tail)
  BY <1>1, ReadBack
<1> HIDE DEF q
<1>3. /\ q \in Readers(Parts) /\ q.rest = tail /\ Len(q.got) = n /\ q.got \in Seq(Parts)
      /\ \A i \in 1 .. n : q.got[0 + i] = gs[i]
  BY <1>2 DEF Back, Placed, Readers
<1>4. q.got = gs
  <2>1. \A i \in 1 .. n : q.got[i] = gs[i]
    BY <1>3
  <2>2. gs \in Seq(Parts) /\ Len(gs) = n
    <3>1. gs \in Seq(Seq(Byte)) /\ Len(gs) = n
      BY DEF Suited
    <3>2. \A i \in 1 .. n : gs[i] \in Parts
      BY <3>1, FieldBytes, PartsAre
    <3>3. gs \in [1 .. n -> Parts]
      BY <3>1, <3>2
    <3> QED
      BY <3>1, <3>3
  <2> DEFINE got == q.got
  <2>3. got \in Seq(Parts) /\ Len(got) = n /\ \A i \in 1 .. n : got[i] = gs[i]
    BY <1>3, <2>1
  <2> HIDE DEF got
  <2>4. \A s, t \in Seq(Parts) : Len(s) = Len(t) /\ (\A i \in 1 .. Len(s) : s[i] = t[i]) => s = t
    BY SeqEqual, Zenon
  <2>5. got = gs
    BY <2>2, <2>3, <2>4
  <2> QED
    BY <2>5 DEF got
<1>5. q # Bad
  BY <1>3, PartsAre
<1>6. q = [rest |-> q.rest, got |-> q.got]
  BY <1>3 DEF Readers
<1> QED
  BY <1>3, <1>4, <1>5, <1>6, Zenon DEF q, r

\* and all of its fields when nothing follows.
LEMMA FieldsBack ==
  ASSUME NEW bytes \in Seq(Byte), NEW fields, NEW n \in Nat, NEW gs,
         Suited(fields, gs, n, <<>>), bytes = Spelled(fields, gs)
  PROVE  Fields(bytes, fields) = gs /\ Read(Reader(bytes), fields) = [rest |-> <<>>, got |-> gs]
<1>1. bytes = Join(Spelled(fields, gs), <<>>)
  BY DEF Join
<1>2. <<>> \in Seq(Byte)
  OBVIOUS
<1> DEFINE q == [rest |-> <<>>, got |-> gs]
<1>3. Read(Reader(bytes), fields) = q /\ q # Bad
  BY <1>1, <1>2, ReadFresh, Zenon
<1>4. q.got = gs /\ q.rest = <<>>
  OBVIOUS
<1> HIDE DEF q
<1>5. Fields(bytes, fields) = gs
  BY <1>3, <1>4 DEF Fields, With, Checked
<1> QED
  BY <1>3, <1>5 DEF q

\* Booleans are read back.
LEMMA BoolBack ==
  \A b \in BOOLEAN : /\ PutBool(b) \in Seq(Byte) /\ Len(PutBool(b)) = 1
                     /\ Bool(PutBool(b)) = b /\ b # Bad
<1> SUFFICES ASSUME NEW b \in BOOLEAN
             PROVE  /\ PutBool(b) \in Seq(Byte) /\ Len(PutBool(b)) = 1
                    /\ Bool(PutBool(b)) = b /\ b # Bad
  OBVIOUS
<1>1. b # Bad
  BY BadAssumption
<1>2. <<0>> \in Seq(Byte) /\ <<1>> \in Seq(Byte) /\ <<1>> # <<0>> /\ Len(<<0>>) = 1 /\ Len(<<1>>) = 1
  <2>1. 0 \in Byte /\ 1 \in Byte
    BY DEF Byte
  <2>2. <<1>>[1] # <<0>>[1]
    OBVIOUS
  <2> QED
    BY <2>1, <2>2
<1>3. CASE b = TRUE
  BY <1>1, <1>2, <1>3 DEF PutBool, Bool
<1>4. CASE b = FALSE
  BY <1>1, <1>2, <1>4 DEF PutBool, Bool
<1> QED
  BY <1>3, <1>4

\* One field is read back from the front of what is left.
LEMMA FieldBack ==
  ASSUME NEW r \in Readers(Parts), NEW f \in Nat \ {0}, NEW g \in Seq(Byte), Len(g) = f,
         NEW tail \in Seq(Byte), r.rest = Join(g, tail)
  PROVE  /\ Take(r, f) = [rest |-> tail, got |-> Append(r.got, g)]
         /\ Take(r, f) \in Readers(Parts) /\ Take(r, f) # Bad /\ Last(Append(r.got, g)) = g
<1>1. IsField(f) /\ Suits(f, g, tail) /\ Spelt(f, g) = g
  BY DEF IsField, Suits, Spelt, Prefixed, Remains
<1>2. Take(r, f) = [rest |-> tail, got |-> Append(r.got, g)]
  BY <1>1, TakeBack
<1>3. g \in Parts /\ r.got \in Seq(Parts)
  BY PartsAre, MoreTaken
<1>4. Take(r, f) \in Readers(Parts)
  BY <1>2, <1>3, MoreTaken
<1>5. Len(Append(r.got, g)) = Len(r.got) + 1 /\ Append(r.got, g)[Len(r.got) + 1] = g
  BY <1>3
<1>6. Last(Append(r.got, g)) = g
  BY <1>5 DEF Last
<1> QED
  BY <1>2, <1>4, <1>6, PartsAre

\* An optional value is read back with its flag.
LEMMA OptionBack ==
  ASSUME NEW r \in Readers(Parts), NEW fields, NEW n \in Nat, n # 0,
         NEW value, NEW tail \in Seq(Byte), value = <<>> \/ Suited(fields, value, n, tail),
         r.rest = Join(Present(fields, value), tail)
  PROVE  /\ ReadOptional(r, fields) = [rest |-> tail, got |-> Append(r.got, value)]
         /\ ReadOptional(r, fields) \in Readers(Parts) /\ value \in Parts
<1> DEFINE f == Take(r, 1)
           q == ReadOptional(r, fields)
           front == Reader(f.rest)
           s == Read(front, fields)
           there == value # <<>>
           g == PutBool(there)
           x == IF value = <<>> THEN tail ELSE Join(Spelled(fields, value), tail)
<1>1. r.got \in Seq(Parts) /\ r # Bad /\ IsSeq(r.got)
  BY PartsAre, MoreTaken DEF IsSeq
<1>2. there \in BOOLEAN /\ g \in Seq(Byte) /\ Len(g) = 1 /\ Bool(g) = there /\ there # Bad
  BY BoolBack
<1>3. value \in Parts
  BY <<>> \in Seq(Byte) DEF Suited, Parts
<1>4. x \in Seq(Byte) /\ r.rest = Join(g, x)
  <2>1. CASE value = <<>>
    <3>1. Present(fields, value) = Join(g, <<>>)
      BY <2>1 DEF Present
    <3>2. Join(g, <<>>) = g
      BY <1>2 DEF Join
    <3> QED
      BY <2>1, <3>1, <3>2
  <2>2. CASE value # <<>>
    <3> DEFINE w == Spelled(fields, value)
    <3>1. Present(fields, value) = Join(g, w)
      BY <2>2 DEF Present
    <3>2. w \in Seq(Byte)
      BY <2>2, SuitedTaken
    <3> HIDE DEF g, w
    <3>3. Join(Join(g, w), tail) = Join(g, Join(w, tail))
      BY <1>2, <3>2, JoinGroups, Zenon
    <3> QED
      BY <2>2, <3>1, <3>2, <3>3, JoinBytes, Zenon DEF w
  <2> QED
    BY <2>1, <2>2
<1>5. /\ f = [rest |-> x, got |-> Append(r.got, g)] /\ f # Bad /\ f \in Readers(Parts)
      /\ Last(Append(r.got, g)) = g
  <2>1. 1 \in Nat \ {0}
    OBVIOUS
  <2> HIDE DEF x, g, q, s, f
  <2>2. g \in Seq(Byte) /\ Len(g) = 1 /\ x \in Seq(Byte) /\ r.rest = Join(g, x)
    BY <1>2, <1>4
  <2>3. /\ Take(r, 1) = [rest |-> x, got |-> Append(r.got, g)]
        /\ Take(r, 1) \in Readers(Parts) /\ Take(r, 1) # Bad /\ Last(Append(r.got, g)) = g
    BY ONLY r \in Readers(Parts), <2>1, <2>2, FieldBack
  <2> QED
    BY <2>3 DEF f
<1> HIDE DEF x, g, there
<1>6. f.rest = x /\ f.got = Append(r.got, g) /\ Last(f.got) = g
  <2> HIDE DEF f
  <2> QED
    BY <1>5
<1>7. q = CASE Bool(g) = Bad -> Bad
            [] Bool(g) = FALSE -> [f EXCEPT !.got[Len(f.got)] = <<>>]
            [] Bool(g) = TRUE -> With(s, LAMBDA v :
                                   [rest |-> v.rest, got |-> Append(r.got, v.got)])
  BY <1>5, <1>6 DEF ReadOptional, With
<1> DEFINE result == [rest |-> tail, got |-> Append(r.got, value)]
<1>8. result \in Readers(Parts)
  BY <1>3, MoreTaken
<1>9. CASE value = <<>>
  <2>1. Bool(g) = FALSE
    BY <1>2, <1>9 DEF there
  <2>2. q = [f EXCEPT !.got[Len(f.got)] = <<>>]
    BY <1>2, <1>7, <2>1
  <2> DEFINE more == [f.got EXCEPT ![Len(f.got)] = <<>>]
  <2>3. more = Append(r.got, <<>>)
    BY <1>1, <1>6, AppendReplaced
  <2>4. f = [rest |-> f.rest, got |-> f.got] /\ f.rest = tail
    BY <1>5, <1>6, <1>9 DEF x
  <2>5. q = [f EXCEPT !.got = more]
    BY <2>2
  <2> HIDE DEF more, q, f
  <2>6. q = [rest |-> f.rest, got |-> more]
    BY ONLY <2>4, <2>5
  <2>7. q = result
    BY <1>9, <2>3, <2>4, <2>6
  <2> QED
    BY <1>3, <1>8, <2>7 DEF q
<1>10. CASE value # <<>>
  <2>1. Bool(g) = TRUE
    BY <1>2, <1>10 DEF there
  <2>2. q = With(s, LAMBDA v : [rest |-> v.rest, got |-> Append(r.got, v.got)])
    BY <1>2, <1>7, <2>1
  <2>3. x = Join(Spelled(fields, value), tail)
    BY <1>10 DEF x
  <2>4. s = [rest |-> tail, got |-> value] /\ s # Bad
    <3>1. Suited(fields, value, n, tail)
      BY <1>10
    <3> QED
      BY <1>4, <1>6, <2>3, <3>1, ReadFresh
  <2>5. s.rest = tail /\ s.got = value
    BY <2>4
  <2> HIDE DEF s
  <2>6. q = result
    BY <2>2, <2>4, <2>5 DEF With
  <2> QED
    BY <1>3, <1>8, <2>6
<1> QED
  BY <1>9, <1>10

\* The largest u32 is a u32.
LEMMA LargestU32 == MaxU32 \in U32 /\ MaxU32 \in Nat
<1> DEFINE s == [i \in 1 .. U32Bytes |-> 255]
<1>1. U32Bytes \in Nat
  BY WireAssumption
<1>2. s \in Seq(Byte)
  <2>1. 255 \in Byte
    BY DEF Byte
  <2>2. s \in [1 .. U32Bytes -> Byte]
    BY <2>1
  <2> HIDE DEF s
  <2> QED
    BY <1>1, <2>2
<1> HIDE DEF s
<1>3. Num(s) \in Nat
  BY <1>2, NumIsNat
<1>4. MaxU32 = Num(s)
  BY DEF MaxU32, s
<1> QED
  BY <1>3, <1>4 DEF U32

\* An optional text that is shorter than the largest u32 is read back.
LEMMA OptionalTextBack ==
  ASSUME NEW r \in Readers(Parts), NEW text \in Option(Utf8Text), NEW tail \in Seq(Byte),
         \A s \in ToSet(text) : Len(s) < MaxU32, r.rest = Join(OptionalText(text), tail)
  PROVE  /\ TakeOptionalText(r) = [rest |-> tail, got |-> Append(r.got, text)]
         /\ TakeOptionalText(r) \in Readers(Parts) /\ text \in Parts
<1> DEFINE q == TakeOptionalText(r)
           front == SubSeq(r.rest, 1, U32Bytes)
           back == SubSeq(r.rest, U32Bytes + 1, Len(r.rest))
           t == Take(r, Prefixed)
           None == Len(r.rest) >= U32Bytes /\ Num(front) = MaxU32
           result == [rest |-> tail, got |-> Append(r.got, text)]
<1>1. r # Bad /\ r.got \in Seq(Parts) /\ IsSeq(r.got)
  BY PartsAre, MoreTaken DEF IsSeq
<1>2. q = IF None THEN [rest |-> back, got |-> Append(r.got, <<>>)]
          ELSE With(t, LAMBDA v : [v EXCEPT !.got[Len(v.got)] = <<@>>])
  BY <1>1 DEF TakeOptionalText
<1>3. text = <<>> \/ \E s \in Utf8Text : text = <<s>> /\ s \in ToSet(text)
  <2>1. text \in Seq(Utf8Text) /\ Len(text) <= 1
    BY DEF Option
  <2>2. CASE Len(text) = 0
    BY <2>1, <2>2
  <2>3. CASE Len(text) = 1
    <3> DEFINE S == Utf8Text
    <3> HIDE DEF S
    <3>0. text \in Seq(S)
      BY <2>1 DEF S
    <3>1. text[1] \in S /\ text = <<text[1]>>
      BY ONLY <2>3, <3>0
    <3>4. text[1] \in Utf8Text
      BY <3>1 DEF S
    <3>2. text[1] \in ToSet(text)
      BY <2>1, <2>3 DEF ToSet
    <3> QED
      BY <3>1, <3>2, <3>4
  <2>4. Len(text) = 0 \/ Len(text) = 1
    <3> DEFINE n == Len(text)
    <3>1. n \in Nat /\ n <= 1
      BY <2>1
    <3> HIDE DEF n
    <3>2. n = 0 \/ n = 1
      BY ONLY <3>1
    <3> QED
      BY <3>2 DEF n
  <2> QED
    BY <2>2, <2>3, <2>4
<1>4. text \in Parts
  <2>1. \A s \in Utf8Text : s \in Seq(Byte)
    BY DEF Utf8Text
  <2>2. CASE text = <<>>
    BY <2>2 DEF Parts
  <2>3. CASE text # <<>>
    <3>1. PICK s \in Seq(Byte) : text = <<s>>
      BY <1>3, <2>1, <2>3
    <3>2. <<s>> \in Seq(Seq(Byte))
      OBVIOUS
    <3> QED
      BY <3>1, <3>2 DEF Parts
  <2> QED
    BY <2>2, <2>3
<1>5. result \in Readers(Parts)
  BY <1>4, MoreTaken
<1>6. ASSUME NEW p \in Seq(Byte), Len(p) = U32Bytes, NEW y \in Seq(Byte), r.rest = Join(p, y)
      PROVE  front = p /\ back = y /\ Len(r.rest) >= U32Bytes
  <2> HIDE DEF q, t, result
  <2>1. /\ SubSeq(Join(p, y), 1, Len(p)) = p /\ SubSeq(Join(p, y), Len(p) + 1, Len(Join(p, y))) = y
        /\ Len(Join(p, y)) = Len(p) + Len(y)
    BY JoinParts, Zenon
  <2>2. Len(y) \in Nat /\ U32Bytes \in Nat
    BY WireAssumption
  <2> QED
    BY ONLY <1>6, <2>1, <2>2
<1>7. CASE text = <<>>
  <2> DEFINE p == Put32(MaxU32)
  <2>1. OptionalText(text) = p
    BY <1>7 DEF OptionalText
  <2>2. p \in Seq(Byte) /\ Len(p) = U32Bytes /\ Num(p) = MaxU32
    <3>1. U32Bytes \in Nat
      BY WireAssumption
    <3> QED
      BY <3>1, LargestU32, Kept32, NumberBytes DEF Put32
  <2> HIDE DEF p
  <2>3. front = p /\ back = tail /\ Len(r.rest) >= U32Bytes
    BY <1>6, <2>1, <2>2
  <2>4. None
    BY <2>2, <2>3
  <2> HIDE DEF None, front, back
  <2>5. q = result
    BY <1>2, <1>7, <2>3, <2>4
  <2> QED
    BY <1>4, <1>5, <2>5
<1>8. CASE text # <<>>
  <2>1. PICK s \in Utf8Text : text = <<s>> /\ s \in ToSet(text)
    BY <1>3, <1>8
  <2>2. s \in Seq(Byte) /\ Utf8(s) /\ Len(s) < MaxU32 /\ Len(s) \in Nat
    BY <2>1 DEF Utf8Text
  <2>3. Len(s) \in U32
    BY <2>2, LargestU32 DEF U32
  <2>4. OptionalText(text) = PutBytes(s)
    BY <2>1 DEF OptionalText
  <2> DEFINE p == Put32(Len(s))
  <2>5. p \in Seq(Byte) /\ Len(p) = U32Bytes /\ Num(p) = Len(s)
    <3>1. U32Bytes \in Nat
      BY WireAssumption
    <3> QED
      BY <2>2, <2>3, <3>1, Kept32, NumberBytes DEF Put32
  <2>6. r.rest = Join(p, Join(s, tail)) /\ Join(s, tail) \in Seq(Byte)
    <3>1. PutBytes(s) = Join(p, s)
      BY DEF PutBytes, Join
    <3> HIDE DEF p
    <3>2. Join(p, Join(s, tail)) = Join(Join(p, s), tail)
      BY <2>2, <2>5, JoinGroups, Zenon
    <3> QED
      BY <2>2, <2>4, <3>1, <3>2, JoinBytes, Zenon
  <2> HIDE DEF p
  <2>7. front = p
    BY <1>6, <2>5, <2>6
  <2>8. ~None
    <3>1. Len(s) # MaxU32
      BY <2>2, LargestU32
    <3> QED
      BY <2>5, <2>7, <3>1
  <2>9. t = [rest |-> tail, got |-> Append(r.got, s)]
    <3>1. IsField(Prefixed) /\ Suits(Prefixed, s, tail) /\ Spelt(Prefixed, s) = PutBytes(s)
      BY <2>2, <2>3 DEF IsField, Suits, Spelt, Prefixed, Remains
    <3>2. r.rest = Join(Spelt(Prefixed, s), tail)
      BY <2>4, <3>1
    <3> QED
      BY <3>1, <3>2, TakeBack
  <2>10. t # Bad
    <3>1. s \in Parts
      BY <2>2, PartsAre
    <3> QED
      BY <2>9, <3>1, MoreTaken, PartsAre
  <2>11. q = [t EXCEPT !.got[Len(t.got)] = <<@>>]
    BY <1>2, <2>8, <2>10 DEF With
  <2>12. t.got = Append(r.got, s) /\ t.rest = tail /\ t = [rest |-> t.rest, got |-> t.got]
    BY <2>9
  <2> HIDE DEF t, q, None, front, back
  <2> DEFINE more == [t.got EXCEPT ![Len(t.got)] = text]
  <2>13. t.got[Len(t.got)] = s
    <3>1. Len(t.got) = Len(r.got) + 1 /\ t.got[Len(r.got) + 1] = s
      BY <1>1, <2>12, SeqGrows
    <3> QED
      BY ONLY <3>1
  <2>14. more = Append(r.got, text)
    <3> DEFINE u == Append(r.got, s)
    <3>1. [u EXCEPT ![Len(u)] = text] = Append(r.got, text)
      BY <1>1, AppendReplaced
    <3> QED
      BY <2>12, <3>1
  <2>15. q = [t EXCEPT !.got = more]
    BY <2>1, <2>11, <2>13
  <2> HIDE DEF more
  <2>16. q = [rest |-> t.rest, got |-> more]
    BY ONLY <2>12, <2>15
  <2>17. q = result
    BY <2>12, <2>14, <2>16
  <2> QED
    BY <1>4, <1>5, <2>17 DEF q
<1> QED
  BY <1>7, <1>8

\* The members of an enumeration are not errors.
Faultless(members) == Bad \notin ToSet(members)

\* A member is read back from its tag.
LEMMA TagBack ==
  ASSUME NEW members, NEW n \in Nat, Len(members) = n, n <= 256, Faultless(members),
         NEW m \in ToSet(members)
  PROVE  /\ Tag(members, m) \in Seq(Byte) /\ Len(Tag(members, m)) = 1
         /\ Member(members, Tag(members, m)) = m /\ m # Bad
<1> DEFINE i == CHOOSE j \in 1 .. Len(members) : members[j] = m
<1>1. i \in 1 .. n /\ members[i] = m
  BY DEF ToSet
<1> HIDE DEF i
<1>2. Tag(members, m) = <<i - 1>>
  BY DEF Tag, i
<1>3. i - 1 \in Byte /\ i - 1 < n /\ i - 1 + 1 = i
  BY <1>1 DEF Byte
<1>4. <<i - 1>> \in Seq(Byte) /\ Len(<<i - 1>>) = 1 /\ <<i - 1>>[1] = i - 1
  BY <1>3
<1>5. Member(members, <<i - 1>>) = members[i]
  BY <1>3, <1>4 DEF Member
<1>6. m # Bad
  BY DEF Faultless
<1> QED
  BY <1>1, <1>2, <1>4, <1>5, <1>6, Zenon

\* The enumerations have names only.
LEMMA NamesOfFrames ==
  /\ Faultless(Screens) /\ Faultless(CursorShapes) /\ Faultless(CellWidths) /\ Faultless(Underlines)
BY FrameErrorAssumption DEF Faultless

\* A colour is read back from its four bytes.
LEMMA ColourBack ==
  ASSUME NEW colour \in ColourType
  PROVE  /\ PutStyleColour(colour) \in Seq(Byte) /\ Len(PutStyleColour(colour)) = 4
         /\ StyleColour(PutStyleColour(colour)) = colour /\ colour # Bad
<1>0. colour # Bad
  BY FrameErrorAssumption
<1>1. 0 \in Byte /\ 1 \in Byte /\ 2 \in Byte
  BY DEF Byte
<1>2. CASE colour \in [kind : {"None"}]
  <2>1. colour = [kind |-> "None"]
    BY <1>2
  <2>2. PutStyleColour(colour) = <<0, 0, 0, 0>>
    BY <2>1 DEF PutStyleColour
  <2>3. <<0, 0, 0, 0>> \in Seq(Byte) /\ Len(<<0, 0, 0, 0>>) = 4
    BY <1>1
  <2>4. StyleColour(<<0, 0, 0, 0>>) = colour
    BY <2>1 DEF StyleColour
  <2> QED
    BY <1>0, <2>2, <2>3, <2>4
<1>3. CASE colour \in [kind : {"Palette"}, index : Byte]
  <2> DEFINE i == colour.index
             b == <<1, i, 0, 0>>
  <2>1. colour = [kind |-> "Palette", index |-> i] /\ colour.kind = "Palette" /\ i \in Byte
    BY <1>3
  <2> HIDE DEF i
  <2>2. PutStyleColour(colour) = b
    BY <2>1 DEF PutStyleColour, i
  <2>3. b \in Seq(Byte) /\ Len(b) = 4 /\ b[1] = 1 /\ b[2] = i /\ b[3] = 0 /\ b[4] = 0
    BY <1>1, <2>1
  <2>4. b # <<0, 0, 0, 0>>
    BY <2>3
  <2> HIDE DEF b
  <2>5. StyleColour(b) = [kind |-> "Palette", index |-> i]
    BY <2>3, <2>4 DEF StyleColour
  <2> QED
    BY <1>0, <2>1, <2>2, <2>3, <2>5
<1>4. CASE colour \in [kind : {"Rgb"}, rgb : RgbType]
  <2> DEFINE x == colour.rgb
             b == <<2>> \o x
  <2>1. colour = [kind |-> "Rgb", rgb |-> x] /\ colour.kind = "Rgb" /\ x \in RgbType
    BY <1>4
  <2> HIDE DEF x
  <2>2. x \in Seq(Byte) /\ Len(x) = 3
    BY <2>1 DEF RgbType
  <2>3. PutStyleColour(colour) = b
    BY <2>1 DEF PutStyleColour, x
  <2>4. <<2>> \in Seq(Byte) /\ Len(<<2>>) = 1 /\ <<2>>[1] = 2
    BY <1>1
  <2>5. b \in Seq(Byte) /\ Len(b) = 4 /\ b[1] = 2
    <3> DEFINE h == <<2>>
    <3> HIDE DEF h
    <3>1. h \in Seq(Byte) /\ Len(h) = 1 /\ h[1] = 2
      BY <2>4 DEF h
    <3>2. /\ h \o x \in Seq(Byte) /\ Len(h \o x) = Len(h) + Len(x)
          /\ \A i \in 1 .. Len(h) + Len(x) :
               (h \o x)[i] = IF i <= Len(h) THEN h[i] ELSE x[i - Len(h)]
      BY <2>2, <3>1, ConcatProperties
    <3>3. b = h \o x
      BY DEF h
    <3> HIDE DEF b
    <3> QED
      BY <2>2, <3>1, <3>2, <3>3
  <2>6. b # <<0, 0, 0, 0>>
    <3> HIDE DEF b
    <3> QED
      BY <2>5
  <2>7. Tail(b) = x
    <3>1. SubSeq(Join(<<2>>, x), Len(<<2>>) + 1, Len(Join(<<2>>, x))) = x
      BY <2>2, <2>4, JoinParts, Zenon
    <3>2. b = Join(<<2>>, x)
      BY DEF Join
    <3> HIDE DEF b
    <3>3. SubSeq(b, 2, Len(b)) = x
      BY <2>4, <3>1, <3>2
    <3>4. b # <<>>
      BY <2>5
    <3> QED
      BY <2>5, <3>3, <3>4, TailIsSubSeq
  <2> HIDE DEF b
  <2>8. StyleColour(b) = [kind |-> "Rgb", rgb |-> x]
    <3>1. ~(b[1] = 1) /\ ~(b = <<0, 0, 0, 0>>)
      BY <2>5, <2>6
    <3> QED
      BY ONLY <2>5, <2>7, <3>1 DEF StyleColour
  <2> QED
    BY <1>0, <2>1, <2>3, <2>5, <2>8
<1> QED
  BY <1>2, <1>3, <1>4 DEF ColourType

\* Tuples of bytes are sequences of them.
LEMMA Tuple8 ==
  ASSUME NEW a \in Seq(Byte), NEW b \in Seq(Byte), NEW d \in Seq(Byte), NEW e \in Seq(Byte),
         NEW u \in Seq(Byte), NEW v \in Seq(Byte), NEW x \in Seq(Byte), NEW y \in Seq(Byte)
  PROVE  LET g == <<a, b, d, e, u, v, x, y>>
         IN  /\ g \in Seq(Seq(Byte)) /\ Len(g) = 8
             /\ g[1] = a /\ g[2] = b /\ g[3] = d /\ g[4] = e
             /\ g[5] = u /\ g[6] = v /\ g[7] = x /\ g[8] = y
<1> DEFINE S == Seq(Byte)
<1>1. a \in S /\ b \in S /\ d \in S /\ e \in S /\ u \in S /\ v \in S /\ x \in S /\ y \in S
  OBVIOUS
<1> HIDE DEF S
<1>2. <<a, b, d, e, u, v, x, y>> \in Seq(S)
  BY ONLY <1>1
<1> QED
  BY <1>2 DEF S

\* A style is read back from its fields.
LEMMA StyleBack ==
  ASSUME NEW style \in StyleType
  PROVE  LET a == PutStyleColour(style.foreground)
             b == PutStyleColour(style.background)
             d == PutStyleColour(style.underlineColour)
             e == Put16(Flags(style.attributes))
             u == Tag(Underlines, style.underline)
         IN  /\ a \in Seq(Byte) /\ Len(a) = 4 /\ b \in Seq(Byte) /\ Len(b) = 4
             /\ d \in Seq(Byte) /\ Len(d) = 4 /\ e \in Seq(Byte) /\ Len(e) = 2
             /\ u \in Seq(Byte) /\ Len(u) = 1
             /\ Style(a, b, d, e, u) = style /\ style # Bad
<1> DEFINE a == PutStyleColour(style.foreground)
           b == PutStyleColour(style.background)
           d == PutStyleColour(style.underlineColour)
           n == Flags(style.attributes)
           e == Put16(n)
           u == Tag(Underlines, style.underline)
<1>1. /\ style.foreground \in ColourType /\ style.background \in ColourType
      /\ style.underlineColour \in ColourType
      /\ style.attributes \subseteq 0 .. StyleFlagBits - 1
      /\ style.underline \in ToSet(Underlines)
      /\ style = [foreground |-> style.foreground, background |-> style.background,
                  underlineColour |-> style.underlineColour,
                  attributes |-> style.attributes, underline |-> style.underline]
  BY DEF StyleType
<1>2. /\ a \in Seq(Byte) /\ Len(a) = 4 /\ StyleColour(a) = style.foreground /\ style.foreground # Bad
      /\ b \in Seq(Byte) /\ Len(b) = 4 /\ StyleColour(b) = style.background /\ style.background # Bad
      /\ d \in Seq(Byte) /\ Len(d) = 4 /\ StyleColour(d) = style.underlineColour
      /\ style.underlineColour # Bad
  BY <1>1, ColourBack
<1>3. /\ n \in Nat /\ n < 2^StyleFlagBits /\ n <= 65535
      /\ Bits(n, StyleFlagBits) = style.attributes
  BY <1>1, StyleFlagsKept
<1> HIDE DEF n
<1>4. e \in Seq(Byte) /\ Len(e) = 2 /\ Num(e) = n
  <2>1. Num(Put16(n)) = n
    BY <1>3, Kept16
  <2>2. 2 \in Nat
    OBVIOUS
  <2>3. LE(n, 2) \in Seq(Byte) /\ Len(LE(n, 2)) = 2
    <3>1. n \in Nat
      BY <1>3
    <3> QED
      BY ONLY <2>2, <3>1, NumberBytes
  <2> QED
    BY <2>1, <2>3 DEF Put16
<1>5. /\ u \in Seq(Byte) /\ Len(u) = 1 /\ Member(Underlines, u) = style.underline
      /\ style.underline # Bad
  <2>1. Len(Underlines) = 6 /\ 6 \in Nat /\ 6 <= 256
    BY CellTags
  <2> QED
    BY <1>1, <2>1, NamesOfFrames, TagBack
<1> DEFINE f == style.foreground
           g == style.background
           h == style.underlineColour
           k == style.underline
<1>6. Sound(<<f, g, h, k>>)
  <2> HIDE DEF f, g, h, k, a, b, d, e, u
  <2>1. f # Bad /\ g # Bad /\ h # Bad /\ k # Bad
    BY <1>2, <1>5 DEF f, g, h, k
  <2> QED
    BY <2>1 DEF Sound
<1>7. style # Bad
  BY FrameErrorAssumption
<1> HIDE DEF a, b, d, e, u
<1>8. Style(a, b, d, e, u) = style
  <2> DEFINE s == [foreground |-> StyleColour(a), background |-> StyleColour(b),
                   underlineColour |-> StyleColour(d),
                   attributes |-> Bits(Num(e), StyleFlagBits), underline |-> Member(Underlines, u)]
             parts == <<s.foreground, s.background, s.underlineColour, s.underline>>
  <2>1. s = style
    <3>1. /\ StyleColour(a) = style.foreground /\ StyleColour(b) = style.background
          /\ StyleColour(d) = style.underlineColour
          /\ Bits(Num(e), StyleFlagBits) = style.attributes
          /\ Member(Underlines, u) = style.underline
      BY <1>2, <1>3, <1>4, <1>5
    <3> QED
      BY ONLY <1>1, <3>1
  <2>2. Style(a, b, d, e, u)
          = With(s, LAMBDA x : Checked(x, /\ Num(e) < 2^StyleFlagBits
                                          /\ Sound(<<x.foreground, x.background,
                                                   x.underlineColour, x.underline>>)))
    BY DEF Style
  <2> HIDE DEF s
  <2>3. Num(e) < 2^StyleFlagBits
    BY <1>3, <1>4
  <2> DEFINE small == Num(e) < 2^StyleFlagBits
  <2> HIDE DEF small
  <2>4. Style(a, b, d, e, u)
          = With(style, LAMBDA x : Checked(x, small /\ Sound(<<x.foreground, x.background,
                                                         x.underlineColour, x.underline>>)))
    BY <2>1, <2>2, Zenon DEF small
  <2>5. small
    BY <2>3 DEF small
  <2>6. Sound(<<style.foreground, style.background, style.underlineColour, style.underline>>)
    BY <1>6
  <2> QED
    BY ONLY <1>7, <2>4, <2>5, <2>6, Zenon DEF With, Checked
<1> QED
  BY <1>2, <1>4, <1>5, <1>7, <1>8 DEF a, b, d, e, u, n

\* The fields of a cell.
CellBytes(cell) ==
  <<Tag(CellWidths, cell.width), PutStyleColour(cell.style.foreground),
    PutStyleColour(cell.style.background), PutStyleColour(cell.style.underlineColour),
    Put16(Flags(cell.style.attributes)), Tag(Underlines, cell.style.underline),
    cell.text, cell.link>>

\* The texts of a cell have lengths.
Writable(cell) == Len(cell.text) \in U32 /\ Len(cell.link) \in U32

\* A cell is read back from its fields.
LEMMA CellBack ==
  ASSUME NEW cell \in CellType, Writable(cell), NEW tail \in Seq(Byte)
  PROVE  Suited(CellFields, CellBytes(cell), 8, tail) /\ CellOf(CellBytes(cell)) = cell
<1> DEFINE w == Tag(CellWidths, cell.width)
           a == PutStyleColour(cell.style.foreground)
           b == PutStyleColour(cell.style.background)
           d == PutStyleColour(cell.style.underlineColour)
           e == Put16(Flags(cell.style.attributes))
           u == Tag(Underlines, cell.style.underline)
           g == CellBytes(cell)
<1>1. /\ cell.width \in ToSet(CellWidths) /\ cell.style \in StyleType
      /\ cell.text \in Utf8Text /\ cell.link \in Utf8Text
      /\ cell = [width |-> cell.width, style |-> cell.style, text |-> cell.text, link |-> cell.link]
  BY DEF CellType
<1>2. /\ cell.text \in Seq(Byte) /\ Utf8(cell.text) /\ cell.link \in Seq(Byte) /\ Utf8(cell.link)
  BY <1>1 DEF Utf8Text
<1>3. /\ w \in Seq(Byte) /\ Len(w) = 1 /\ Member(CellWidths, w) = cell.width /\ cell.width # Bad
  <2>1. Len(CellWidths) = 4 /\ 4 \in Nat /\ 4 <= 256
    BY CellTags
  <2> QED
    BY <1>1, <2>1, NamesOfFrames, TagBack
<1>4. /\ a \in Seq(Byte) /\ Len(a) = 4 /\ b \in Seq(Byte) /\ Len(b) = 4
      /\ d \in Seq(Byte) /\ Len(d) = 4 /\ e \in Seq(Byte) /\ Len(e) = 2
      /\ u \in Seq(Byte) /\ Len(u) = 1
      /\ Style(a, b, d, e, u) = cell.style /\ cell.style # Bad
  BY <1>1, StyleBack
<1> HIDE DEF w, a, b, d, e, u
<1>5. /\ g \in Seq(Seq(Byte)) /\ Len(g) = 8
      /\ g[1] = w /\ g[2] = a /\ g[3] = b /\ g[4] = d
      /\ g[5] = e /\ g[6] = u /\ g[7] = cell.text /\ g[8] = cell.link
  <2>1. g = <<w, a, b, d, e, u, cell.text, cell.link>>
    BY DEF CellBytes, w, a, b, d, e, u
  <2> DEFINE x == cell.text
             y == cell.link
  <2> HIDE DEF g, x, y
  <2>2. g = <<w, a, b, d, e, u, x, y>> /\ x \in Seq(Byte) /\ y \in Seq(Byte)
    BY <1>2, <2>1 DEF x, y
  <2>3. LET t == <<w, a, b, d, e, u, x, y>>
        IN  /\ t \in Seq(Seq(Byte)) /\ Len(t) = 8
            /\ t[1] = w /\ t[2] = a /\ t[3] = b /\ t[4] = d
            /\ t[5] = e /\ t[6] = u /\ t[7] = x /\ t[8] = y
    BY ONLY <1>3, <1>4, <2>2, Tuple8
  <2> QED
    BY <2>2, <2>3, Zenon DEF x, y
<1> HIDE DEF g
<1>6. Suited(CellFields, g, 8, tail)
  <2> SUFFICES ASSUME NEW i \in 1 .. 8
               PROVE  IsField(CellFields[i]) /\ Suits(CellFields[i], g[i], tail) /\ CellFields[i] # Remains
    BY <1>5, CellWidthsOf, Zenon DEF Suited
  <2>1. i = 1 \/ i = 2 \/ i = 3 \/ i = 4 \/ i = 5 \/ i = 6 \/ i = 7 \/ i = 8
    OBVIOUS
  <2>2. \A f \in {1, 2, 4} : \A s \in Seq(Byte) :
          Len(s) = f => IsField(f) /\ Suits(f, s, tail) /\ f # Remains
    BY DEF IsField, Suits, Prefixed, Remains
  <2>3. \A s \in Seq(Byte) :
          Utf8(s) /\ Len(s) \in U32 => IsField(0) /\ Suits(0, s, tail) /\ 0 # Remains
    BY DEF IsField, Suits, Prefixed, Remains
  <2>4. 1 \in {1, 2, 4} /\ 2 \in {1, 2, 4} /\ 4 \in {1, 2, 4}
    OBVIOUS
  <2>5. CASE i = 1
    BY <1>3, <1>5, <2>2, <2>4, <2>5, CellWidthsOf, Zenon
  <2>6. CASE i = 2
    BY <1>4, <1>5, <2>2, <2>4, <2>6, CellWidthsOf, Zenon
  <2>7. CASE i = 3
    BY <1>4, <1>5, <2>2, <2>4, <2>7, CellWidthsOf, Zenon
  <2>8. CASE i = 4
    BY <1>4, <1>5, <2>2, <2>4, <2>8, CellWidthsOf, Zenon
  <2>9. CASE i = 5
    BY <1>4, <1>5, <2>2, <2>4, <2>9, CellWidthsOf, Zenon
  <2>10. CASE i = 6
    BY <1>4, <1>5, <2>2, <2>4, <2>10, CellWidthsOf, Zenon
  <2>11. CASE i = 7
    BY <1>2, <1>5, <2>3, <2>11, CellWidthsOf, Zenon DEF Writable
  <2>12. CASE i = 8
    BY <1>2, <1>5, <2>3, <2>12, CellWidthsOf, Zenon DEF Writable
  <2> QED
    BY <2>1, <2>5, <2>6, <2>7, <2>8, <2>9, <2>10, <2>11, <2>12, Zenon
<1>7. Sound(<<cell.width, cell.style>>)
  <2> DEFINE x == cell.width
             y == cell.style
  <2>1. x # Bad /\ y # Bad
    BY <1>3, <1>4
  <2> HIDE DEF x, y
  <2>2. Sound(<<x, y>>)
    BY ONLY <2>1 DEF Sound
  <2> QED
    BY <2>2 DEF x, y
<1>8. cell # Bad
  BY FrameErrorAssumption
<1>9. CellOf(g) = cell
  BY <1>1, <1>3, <1>4, <1>5, <1>7, <1>8, Zenon DEF CellOf, With, Checked
<1> QED
  BY <1>6, <1>9 DEF g

\* The bytes of a cell are the spelling of its fields.
LEMMA CellPut ==
  ASSUME NEW cell \in CellType, Writable(cell)
  PROVE  /\ PutCell(cell) = Spelled(CellFields, CellBytes(cell))
         /\ PutCell(cell) \in Seq(Byte) /\ Len(PutCell(cell)) = SizeOfCell(cell)
<1> DEFINE g == CellBytes(cell)
<1>1. Suited(CellFields, g, 8, <<>>) /\ CellOf(g) = cell
  BY <<>> \in Seq(Byte), CellBack
<1>2. CellTaken(g)
  BY <1>1, SuitedTaken DEF CellTaken
<1>3. CellOf(g) # Bad
  BY <1>1, FrameErrorAssumption
<1> HIDE DEF g
<1>4. /\ PutCell(CellOf(g)) = Spelled(CellFields, g)
      /\ PutCell(CellOf(g)) \in Seq(Byte)
      /\ Len(PutCell(CellOf(g))) = SizeOfCell(CellOf(g))
  BY <1>2, <1>3, SpellCell
<1> QED
  BY <1>1, <1>4, Zenon DEF g

\* The values are taken one by one, and with each what is in front of the rest.
Taking(reading, t, values, n, S) ==
  /\ reading[0] = [rest |-> t[0], got |-> <<>>]
  /\ \A i \in 1 .. n : \A got \in Seq(S) :
       reading[i - 1] = [rest |-> t[i - 1], got |-> got] =>
         reading[i] = [rest |-> t[i], got |-> Append(got, values[i])]

\* What takes the values one by one ends with all of them.
LEMMA Repeats ==
  ASSUME NEW S, NEW values \in Seq(S), NEW n \in Nat, n = Len(values), NEW t, NEW reading,
         Taking(reading, t, values, n, S)
  PROVE  reading[n] = [rest |-> t[n], got |-> values]
<1> DEFINE first == [i \in 0 .. n |-> SubSeq(values, 1, i)]
           T == {i \in 0 .. n : reading[i] = [rest |-> t[i], got |-> first[i]]}
<1>1. \A i \in 0 .. n : first[i] \in Seq(S)
  <2> SUFFICES ASSUME NEW i \in 0 .. n
               PROVE  SubSeq(values, 1, i) \in Seq(S)
    OBVIOUS
  <2> QED
    BY Split
<1>2. \A i \in 0 .. n - 1 : first[i + 1] = Append(first[i], values[i + 1])
  <2> SUFFICES ASSUME NEW i \in 0 .. n - 1
               PROVE  SubSeq(values, 1, i + 1) = Append(SubSeq(values, 1, i), values[i + 1])
    <3>1. \A i \in 0 .. n - 1 : i \in 0 .. n /\ i + 1 \in 0 .. n
      OBVIOUS
    <3> QED
      BY <3>1
  <2> DEFINE s == SubSeq(values, 1, i)
             e == values[i + 1]
  <2>1. 1 \in 1 .. Len(values) /\ i + 1 \in 1 .. Len(values) /\ i + 1 - 1 = i
    OBVIOUS
  <2>2. SubSeq(values, 1, i + 1) = SubSeq(values, 1, i + 1 - 1) \o <<values[i + 1]>>
    BY <2>1, SubSeqRecursiveSecond
  <2>3. s \in Seq(S) /\ e \in S
    <3>1. i \in 0 .. n
      OBVIOUS
    <3>2. s \in Seq(S)
      BY <3>1, <1>1
    <3> QED
      BY <3>2
  <2> HIDE DEF s, e
  <2>4. Append(s, e) = s \o <<e>>
    BY ONLY <2>3, AppendIsConcat
  <2> QED
    BY <2>1, <2>2, <2>4 DEF s, e
<1>3. first[0] = <<>> /\ first[n] = values
  <2>1. SubSeq(values, 1, 0) = <<>>
    BY SubSeqEmpty
  <2>2. SubSeq(values, 1, n) = values
    BY SubSeqFull
  <2> QED
    BY <2>1, <2>2
<1> HIDE DEF first
<1>4. 0 \in T
  BY <1>3 DEF Taking
<1>5. ASSUME NEW i \in 0 .. n - 1, i \in T
      PROVE  i + 1 \in T
  <2>1. i + 1 \in 1 .. n /\ i + 1 - 1 = i /\ i \in 0 .. n /\ i + 1 \in 0 .. n
    OBVIOUS
  <2>2. reading[i] = [rest |-> t[i], got |-> first[i]] /\ first[i] \in Seq(S)
    BY <1>1, <1>5, <2>1
  <2> DEFINE j == i + 1
  <2>3. j \in 1 .. n /\ j - 1 = i
    BY <2>1
  <2> HIDE DEF j
  <2>4. reading[j] = [rest |-> t[j], got |-> Append(first[i], values[j])]
    <3>1. reading[j - 1] = [rest |-> t[j - 1], got |-> first[i]] =>
             reading[j] = [rest |-> t[j], got |-> Append(first[i], values[j])]
      BY <2>2, <2>3 DEF Taking
    <3> QED
      BY <2>2, <2>3, <3>1
  <2>5. reading[j] = [rest |-> t[j], got |-> first[j]]
    BY <1>2, <2>4 DEF j
  <2> QED
    BY <2>1, <2>5 DEF j
<1>6. T = 0 .. n
  <2> HIDE DEF T
  <2>1. T \in SUBSET (0 .. n)
    BY DEF T
  <2>2. \A i \in 0 .. n - 1 : i \in T => i + 1 \in T
    BY <1>5
  <2> QED
    BY ONLY <1>4, <2>1, <2>2, n \in Nat, RoundsInduct
<1>7. reading[n] = [rest |-> t[n], got |-> first[n]]
  <2>1. n \in T
    <3>1. n \in 0 .. n
      OBVIOUS
    <3> HIDE DEF T
    <3> QED
      BY <1>6, <3>1
  <2> QED
    BY <2>1
<1> QED
  BY <1>3, <1>7

\* A cell is taken back in front of the tail.
LEMMA TakeCellBack ==
  ASSUME NEW r \in Readers(CellType), NEW cell \in CellType, Writable(cell),
         NEW tail \in Seq(Byte), r.rest = Join(PutCell(cell), tail)
  PROVE  TakeCell(r) = [rest |-> tail, got |-> Append(r.got, cell)]
<1> DEFINE g == CellBytes(cell)
           q == Read(Reader(r.rest), CellFields)
<1>1. Suited(CellFields, g, 8, tail) /\ CellOf(g) = cell /\ PutCell(cell) = Spelled(CellFields, g)
  BY CellBack, CellPut
<1>2. r.rest \in Seq(Byte)
  BY MoreTaken
<1> HIDE DEF g
<1>3. q = [rest |-> tail, got |-> g] /\ q # Bad
  BY <1>1, <1>2, ReadFresh
<1>4. q.rest = tail /\ q.got = g
  <2> HIDE DEF q
  <2> QED
    BY <1>3
<1>5. r # Bad /\ cell # Bad
  BY FrameErrorAssumption
<1> HIDE DEF q
<1> QED
  BY <1>1, <1>3, <1>4, <1>5 DEF TakeCell, With, q

\* All cells of a row have lengths.
AllWritable(cells) == \A i \in 1 .. Len(cells) : Writable(cells[i])

\* The cells of a row are taken back.
LEMMA CellsBack ==
  ASSUME NEW cells \in Seq(CellType), AllWritable(cells), NEW n \in Nat, n = Len(cells),
         NEW tail \in Seq(Byte), NEW bytes, bytes = Join(FlattenSeq(PutCells(cells)), tail)
  PROVE  /\ CellReadings(Reader(bytes), n)[n] = [rest |-> tail, got |-> cells]
         /\ PutCells(cells) \in Seq(Seq(Byte)) /\ Counted(cells)
<1> DEFINE pieces == PutCells(cells)
           reading == CellReadings(Reader(bytes), n)
<1>1. \A i \in 1 .. n : cells[i] \in CellType /\ Writable(cells[i])
  BY DEF AllWritable
<1>2. \A i \in 1 .. n : PutCell(cells[i]) \in Seq(Byte) /\ Len(PutCell(cells[i])) = SizeOfCell(cells[i])
  BY <1>1, CellPut
<1>3. /\ pieces \in Seq(Seq(Byte)) /\ Len(pieces) = n
      /\ \A i \in 1 .. n : pieces[i] = PutCell(cells[i])
  <2>1. pieces = [i \in 1 .. n |-> PutCell(cells[i])]
    BY DEF PutCells
  <2>2. pieces \in [1 .. n -> Seq(Byte)]
    BY <1>2, <2>1
  <2> HIDE DEF pieces
  <2> QED
    BY <2>1, <2>2
<1>4. Counted(cells)
  BY <1>2 DEF Counted
<1>5. reading[0] = Reader(bytes) /\ \A i \in 1 .. n : reading[i] = TakeCell(reading[i - 1])
  BY CellReadingsRecur
<1> HIDE DEF pieces, reading
<1>6. PICK t : Unwinding(t, pieces, n, tail) /\ t[0] = Join(FlattenSeq(pieces), tail)
  BY <1>3, Unwinds
<1>7. reading[0] = [rest |-> t[0], got |-> <<>>]
  BY <1>5, <1>6 DEF Reader, pieces
<1>8. ASSUME NEW i \in 1 .. n, NEW got \in Seq(CellType),
             reading[i - 1] = [rest |-> t[i - 1], got |-> got]
      PROVE  reading[i] = [rest |-> t[i], got |-> Append(got, cells[i])]
  <2> DEFINE r == [rest |-> t[i - 1], got |-> got]
             cell == cells[i]
             x == t[i]
  <2>1. /\ t[i - 1] \in Seq(Byte) /\ x \in Seq(Byte)
        /\ t[i - 1] = Join(PutCell(cell), x)
    <3>1. i \in 0 .. n /\ i - 1 \in 0 .. n
      OBVIOUS
    <3> QED
      BY <1>3, <1>6, <3>1 DEF Unwinding
  <2>2. r \in Readers(CellType) /\ r.rest = t[i - 1] /\ r.got = got
    BY <2>1 DEF Readers
  <2>3. cell \in CellType /\ Writable(cell)
    BY <1>1
  <2>4. reading[i] = TakeCell(r)
    BY <1>5, <1>8
  <2> HIDE DEF r, cell, x
  <2>5. TakeCell(r) = [rest |-> x, got |-> Append(r.got, cell)]
    BY <2>1, <2>2, <2>3, TakeCellBack
  <2> QED
    BY <2>2, <2>4, <2>5 DEF cell, x
<1>9. reading[n] = [rest |-> t[n], got |-> cells]
  <2> DEFINE S == CellType
  <2> HIDE DEF S
  <2>1. cells \in Seq(S)
    BY DEF S
  <2>2. Taking(reading, t, cells, n, S)
    BY <1>7, <1>8 DEF S, Taking
  <2> QED
    BY ONLY <2>1, <2>2, n \in Nat, n = Len(cells), Repeats
<1>10. t[n] = tail
  BY <1>6 DEF Unwinding
<1> QED
  BY <1>3, <1>4, <1>9, <1>10 DEF pieces, reading

\* A row whose cells have lengths.
RowWritable(row, cols) == row \in RowType /\ AllWritable(row.cells) /\ ValidRow(row, cols)

\* A row is put as the byte of its flags and its cells, as many bytes as FrameSize counts.
LEMMA RowPut ==
  ASSUME NEW row, NEW cols \in Nat, RowWritable(row, cols)
  PROVE  /\ row.cells \in Seq(CellType) /\ Len(row.cells) = cols /\ PutCells(row.cells) \in Seq(Seq(Byte))
         /\ Flags(row.flags) \in Byte /\ FlattenSeq(PutCells(row.cells)) \in Seq(Byte)
         /\ PutRow(row) = Join(<<Flags(row.flags)>>, FlattenSeq(PutCells(row.cells)))
         /\ PutRow(row) \in Seq(Byte) /\ Len(PutRow(row)) = SizeOfRow(row)
         /\ RowOf(Flags(row.flags), row.cells) = row /\ row # Bad
<1> DEFINE n == Flags(row.flags)
           cells == row.cells
           bits == row.flags
<1>1. /\ bits \subseteq 0 .. RowFlagBits - 1 /\ cells \in Seq(CellType)
      /\ row = [flags |-> bits, cells |-> cells]
  BY DEF RowType, RowWritable
<1>2. Len(cells) = cols /\ ValidTopology(row) /\ AllWritable(cells)
  BY DEF ValidRow, RowWritable
<1>3. n \in Nat /\ n < 2^RowFlagBits /\ Bits(n, RowFlagBits) = bits
  BY <1>1, RowFlagsKept
<1> HIDE DEF n, cells, bits
<1>4. n \in Byte
  <2>1. 2^RowFlagBits = 8
    BY DEF RowFlagBits
  <2> QED
    BY <1>3, <2>1 DEF Byte
<1>5. PutCells(cells) \in Seq(Seq(Byte)) /\ Counted(cells)
  <2>1. <<>> \in Seq(Byte)
    OBVIOUS
  <2> QED
    BY <1>1, <1>2, <2>1, CellsBack
<1>6. FlattenSeq(PutCells(cells)) \in Seq(Byte)
  BY <1>5, <<>> \in Seq(Byte), FlattenAppend
<1>7. /\ PutRow(row) = Join(<<n>>, FlattenSeq(PutCells(cells)))
      /\ PutRow(row) \in Seq(Byte) /\ Len(PutRow(row)) = SizeOfRow(row)
  BY <1>2, <1>4, <1>5, RowBytes DEF n, cells
<1>8. row # Bad
  BY FrameErrorAssumption DEF RowWritable
<1>9. RowOf(n, cells) = row
  <2> DEFINE v == [flags |-> Bits(n, RowFlagBits), cells |-> cells]
             small == n < 2^RowFlagBits
  <2>1. v = row
    BY <1>1, <1>3
  <2>2. RowOf(n, cells) = With(v, LAMBDA x : Checked(x, small /\ ValidTopology(x)))
    BY DEF RowOf
  <2>3. small
    BY <1>3
  <2> HIDE DEF v, small
  <2>4. RowOf(n, cells) = With(row, LAMBDA x : Checked(x, small /\ ValidTopology(x)))
    BY <2>1, <2>2, Zenon
  <2> QED
    BY ONLY <1>2, <1>8, <2>3, <2>4, Zenon DEF With, Checked
<1> QED
  BY <1>1, <1>2, <1>4, <1>5, <1>6, <1>7, <1>8, <1>9, Zenon DEF n, cells

\* A row is taken back in front of the tail.
LEMMA TakeRowBack ==
  ASSUME NEW r \in Readers(RowType), NEW row, NEW cols \in Nat, RowWritable(row, cols),
         NEW tail \in Seq(Byte), r.rest = Join(PutRow(row), tail)
  PROVE  TakeRow(r, cols) = [rest |-> tail, got |-> Append(r.got, row)]
<1> DEFINE n == Flags(row.flags)
           cells == row.cells
           body == FlattenSeq(PutCells(cells))
           x == Join(body, tail)
           front == Reader(r.rest)
           f == Take(front, 1)
           q == CellReadings(Reader(f.rest), cols)[cols]
<1>1. /\ cells \in Seq(CellType) /\ Len(cells) = cols /\ n \in Byte /\ body \in Seq(Byte)
      /\ PutRow(row) = Join(<<n>>, body) /\ RowOf(n, cells) = row /\ row # Bad
  BY RowPut
<1>2. AllWritable(cells)
  BY DEF RowWritable
<1> HIDE DEF n, cells, body
<1>3. x \in Seq(Byte) /\ r.rest = Join(<<n>>, x) /\ <<n>> \in Seq(Byte) /\ Len(<<n>>) = 1
  <2>1. <<n>> \in Seq(Byte) /\ Len(<<n>>) = 1
    BY <1>1
  <2>2. Join(<<n>>, Join(body, tail)) = Join(Join(<<n>>, body), tail)
    BY <1>1, <2>1, JoinGroups, Zenon
  <2> QED
    BY <1>1, <2>1, <2>2, JoinBytes, Zenon
<1>4. front \in Readers(Parts) /\ front.rest = r.rest /\ front.got = <<>>
  BY MoreTaken DEF Reader, Readers
<1> HIDE DEF x, front
<1>5. f = [rest |-> x, got |-> Append(<<>>, <<n>>)] /\ f # Bad
  <2> DEFINE g == <<n>>
  <2>1. g \in Seq(Byte) /\ Len(g) = 1 /\ x \in Seq(Byte) /\ front.rest = Join(g, x) /\ 1 \in Nat \ {0}
    BY <1>3, <1>4
  <2> HIDE DEF g
  <2>2. Take(front, 1) = [rest |-> x, got |-> Append(front.got, g)] /\ Take(front, 1) # Bad
    BY ONLY <1>4, <2>1, FieldBack
  <2> QED
    BY <1>4, <2>2 DEF g
<1>6. f.rest = x /\ f.got[1][1] = n
  BY <1>5
<1> HIDE DEF f
<1>7. q = [rest |-> tail, got |-> cells]
  BY <1>1, <1>2, <1>6, CellsBack DEF body, x
<1>8. q # Bad
  <2>1. q \in Readers(CellType)
    BY <1>1, <1>7 DEF Readers
  <2> QED
    BY <2>1, FrameErrorAssumption
<1>9. r # Bad
  BY FrameErrorAssumption
<1>10. q.rest = tail /\ q.got = cells
  BY <1>7
<1>11. TakeRow(r, cols) = With(RowOf(f.got[1][1], q.got), LAMBDA v :
                            [rest |-> q.rest, got |-> Append(r.got, v)])
  BY <1>5, <1>8, <1>9, Zenon DEF TakeRow, With, front, f
<1> HIDE DEF q
<1>12. RowOf(f.got[1][1], q.got) = row
  BY <1>1, <1>6, <1>10
<1> QED
  BY <1>1, <1>10, <1>11, <1>12 DEF With

\* Rows whose cells have lengths.
RowsWritable(rows, cols) ==
  rows \in Seq(RowType) /\ \A i \in 1 .. Len(rows) : RowWritable(rows[i], cols)

\* Rows are put one after the other, as many bytes as FrameSize counts.
LEMMA RowsPut ==
  ASSUME NEW rows, NEW cols \in Nat, RowsWritable(rows, cols), NEW n \in Nat, n = Len(rows)
  PROVE  /\ RowPieces(rows) \in Seq(Seq(Byte)) /\ Len(RowPieces(rows)) = n
         /\ \A i \in 1 .. n : RowPieces(rows)[i] = PutRow(rows[i])
         /\ PutRows(rows) = FlattenSeq(RowPieces(rows)) /\ PutRows(rows) \in Seq(Byte)
         /\ \A start \in Nat : SizeOfRows(start, rows) = start + Len(PutRows(rows))
<1> DEFINE pieces == RowPieces(rows)
<1>1. \A i \in 1 .. n : PutRow(rows[i]) \in Seq(Byte) /\ Len(PutRow(rows[i])) = SizeOfRow(rows[i])
  BY RowPut DEF RowsWritable
<1>2. pieces = [i \in 1 .. n |-> PutRow(rows[i])]
  BY DEF RowPieces
<1>3. /\ pieces \in Seq(Seq(Byte)) /\ Len(pieces) = n
      /\ \A i \in 1 .. n : pieces[i] = PutRow(rows[i])
  <2>1. pieces \in [1 .. n -> Seq(Byte)]
    BY <1>1, <1>2
  <2> HIDE DEF pieces
  <2> QED
    BY <1>2, <2>1
<1>4. PutRows(rows) = FlattenSeq(pieces)
  BY DEF PutRows, RowPieces
<1>5. FlattenSeq(pieces) \in Seq(Byte)
  BY <1>3, <<>> \in Seq(Byte), FlattenAppend
<1>6. RowsSound(rows, cols)
  BY <1>1 DEF RowsSound, RowSound, RowsWritable, RowWritable
<1>7. ASSUME NEW start \in Nat
      PROVE  SizeOfRows(start, rows) = start + Len(PutRows(rows))
  BY <1>3, <1>4, <1>6, RowsCounted
<1> QED
  BY <1>3, <1>4, <1>5, <1>7

\* The rows of a frame are taken back.
LEMMA RowsBack ==
  ASSUME NEW rows, NEW cols \in Nat, RowsWritable(rows, cols), NEW n \in Nat, n = Len(rows),
         NEW r, r.rest = PutRows(rows)
  PROVE  RowsOf(r, cols, n) = rows /\ rows # Bad
<1> DEFINE pieces == RowPieces(rows)
           bytes == PutRows(rows)
           reading == RowReadings(Reader(bytes), cols, n)
           S == RowType
<1>1. /\ pieces \in Seq(Seq(Byte)) /\ Len(pieces) = n
      /\ \A i \in 1 .. n : pieces[i] = PutRow(rows[i])
      /\ bytes = FlattenSeq(pieces) /\ bytes \in Seq(Byte)
  BY RowsPut
<1>2. reading[0] = Reader(bytes) /\ \A i \in 1 .. n : reading[i] = TakeRow(reading[i - 1], cols)
  BY RowReadingsRecur
<1>3. rows \in Seq(S) /\ \A i \in 1 .. n : RowWritable(rows[i], cols)
  BY DEF RowsWritable
<1> HIDE DEF pieces, bytes, reading, S
<1>4. PICK t : Unwinding(t, pieces, n, <<>>) /\ t[0] = Join(FlattenSeq(pieces), <<>>)
  BY <1>1, <<>> \in Seq(Byte), Unwinds
<1>5. reading[0] = [rest |-> t[0], got |-> <<>>]
  <2>1. Join(bytes, <<>>) = bytes
    BY <1>1 DEF Join
  <2> QED
    BY <1>1, <1>2, <1>4, <2>1 DEF Reader
<1>6. ASSUME NEW i \in 1 .. n, NEW got \in Seq(S),
             reading[i - 1] = [rest |-> t[i - 1], got |-> got]
      PROVE  reading[i] = [rest |-> t[i], got |-> Append(got, rows[i])]
  <2> DEFINE q == [rest |-> t[i - 1], got |-> got]
             row == rows[i]
             x == t[i]
  <2>1. /\ t[i - 1] \in Seq(Byte) /\ x \in Seq(Byte)
        /\ t[i - 1] = Join(PutRow(row), x)
    <3>1. i \in 0 .. n /\ i - 1 \in 0 .. n
      OBVIOUS
    <3> QED
      BY <1>1, <1>4, <3>1 DEF Unwinding
  <2>2. q \in Readers(RowType) /\ q.rest = t[i - 1] /\ q.got = got
    BY <2>1 DEF Readers, S
  <2>3. RowWritable(row, cols)
    BY <1>3
  <2>4. reading[i] = TakeRow(q, cols)
    BY <1>2, <1>6
  <2> HIDE DEF q, row, x
  <2>5. TakeRow(q, cols) = [rest |-> x, got |-> Append(q.got, row)]
    BY <2>1, <2>2, <2>3, TakeRowBack
  <2> QED
    BY <2>2, <2>4, <2>5 DEF row, x
<1>7. reading[n] = [rest |-> t[n], got |-> rows]
  <2>1. Taking(reading, t, rows, n, S)
    BY <1>5, <1>6 DEF Taking
  <2> QED
    BY ONLY <1>3, <2>1, n \in Nat, n = Len(rows), Repeats
<1> DEFINE q == reading[n]
<1>8. q.rest = <<>> /\ q.got = rows /\ q = [rest |-> <<>>, got |-> rows]
  BY <1>4, <1>7 DEF Unwinding
<1>9. q # Bad
  <2>1. q \in Readers(RowType)
    <3>1. <<>> \in Seq(Byte)
      OBVIOUS
    <3> HIDE DEF q
    <3> QED
      BY <1>3, <1>8, <3>1 DEF Readers, S
  <2> QED
    BY <2>1, FrameErrorAssumption
<1>10. rows # Bad
  BY FrameErrorAssumption DEF RowsWritable
<1>11. RowsOf(r, cols, n) = With(q, LAMBDA v : Checked(v.got, v.rest = <<>>))
  BY DEF RowsOf, q, bytes, reading
<1> HIDE DEF q
<1> QED
  BY <1>8, <1>9, <1>10, <1>11 DEF With, Checked

\* The fields may have the bytes gs, whatever follows.
SuitedAlways(fields, gs, n) == \A tail \in Seq(Byte) : Suited(fields, gs, n, tail)

\* An optional value may be one of such fields.
SuitedOption(fields, value, n) == value = <<>> \/ SuitedAlways(fields, value, n)

\* Such a value is one as it is taken.
LEMMA OptionSuited ==
  ASSUME NEW fields, NEW value, NEW n \in Nat, SuitedOption(fields, value, n)
  PROVE  OptionTaken(fields, value, n) /\ Present(fields, value) \in Seq(Byte)
<1>1. <<>> \in Seq(Byte)
  OBVIOUS
<1>2. PutBool(value # <<>>) \in Seq(Byte)
  BY BoolBack
<1>3. CASE value = <<>>
  <2>1. Present(fields, value) = Join(PutBool(value # <<>>), <<>>)
    BY <1>3 DEF Present
  <2> QED
    BY <1>1, <1>2, <1>3, <2>1, JoinBytes DEF OptionTaken
<1>4. CASE value # <<>>
  <2>1. Suited(fields, value, n, <<>>)
    BY <1>1, <1>4 DEF SuitedOption, SuitedAlways
  <2>2. Taken(fields, value, n) /\ Spelled(fields, value) \in Seq(Byte)
    BY <2>1, SuitedTaken
  <2>3. Present(fields, value) = Join(PutBool(value # <<>>), Spelled(fields, value))
    BY <1>4 DEF Present
  <2> QED
    BY <1>2, <2>2, <2>3, JoinBytes DEF OptionTaken
<1> QED
  BY <1>3, <1>4

\* A reader of parts with an element more.
LEMMA OptionPlacesBack ==
  ASSUME NEW r \in Readers(Parts), NEW k \in Nat, Len(r.got) = k, NEW fields, NEW n \in Nat, n # 0,
         NEW value, NEW tail \in Seq(Byte), SuitedOption(fields, value, n),
         r.rest = Join(Present(fields, value), tail)
  PROVE  LET q == ReadOptional(r, fields)
         IN  /\ q \in Readers(Parts) /\ q.rest = tail /\ Len(q.got) = k + 1
             /\ q.got[k + 1] = value /\ Placed(q.got, 0, r.got, k)
<1> DEFINE q == ReadOptional(r, fields)
<1>1. value = <<>> \/ Suited(fields, value, n, tail)
  BY DEF SuitedOption, SuitedAlways
<1>2. /\ q = [rest |-> tail, got |-> Append(r.got, value)]
      /\ q \in Readers(Parts)
  BY <1>1, OptionBack
<1>3. IsSeq(r.got)
  BY MoreTaken DEF Readers, IsSeq
<1>4. q.rest = tail /\ q.got = Append(r.got, value)
  BY <1>2
<1> HIDE DEF q
<1>5. /\ Len(q.got) = k + 1 /\ q.got[k + 1] = value /\ \A i \in 1 .. k : q.got[i] = r.got[i]
  BY <1>3, <1>4, SeqGrows
<1>6. Placed(q.got, 0, r.got, k)
  <2>1. \A i \in 1 .. k : 0 + i = i
    OBVIOUS
  <2> QED
    BY <1>5, <2>1 DEF Placed
<1> QED
  BY <1>2, <1>4, <1>5, <1>6 DEF q

\* The same of fields.
LEMMA FieldPlacesBack ==
  ASSUME NEW r \in Readers(Parts), NEW k \in Nat, Len(r.got) = k, NEW fields, NEW n \in Nat,
         NEW gs, NEW tail \in Seq(Byte), SuitedAlways(fields, gs, n),
         r.rest = Join(Spelled(fields, gs), tail)
  PROVE  LET q == Read(r, fields)
         IN  /\ q \in Readers(Parts) /\ q.rest = tail /\ Len(q.got) = k + n
             /\ Placed(q.got, k, gs, n) /\ Placed(q.got, 0, r.got, k)
<1>1. Suited(fields, gs, n, tail)
  BY DEF SuitedAlways
<1>2. Back(Read(r, fields), r.got, k, gs, n, tail)
  BY <1>1, ReadBack
<1> QED
  BY <1>2, Zenon DEF Back

\* The pieces of the head of a frame, with a tail behind them.
HeadSuited(bytes, g, colour, p, position, s, tail) ==
  /\ SuitedAlways(HeadFields, g, 12) /\ SuitedOption(<<3>>, colour, 1)
  /\ SuitedAlways(PaletteFields, p, PaletteLen + 4) /\ SuitedOption(PositionFields, position, 3)
  /\ SuitedAlways(ScrollFields, s, 2) /\ tail \in Seq(Byte)
  /\ bytes = Join(Spelled(HeadFields, g),
               Join(Present(<<3>>, colour),
                 Join(Spelled(PaletteFields, p),
                   Join(Present(PositionFields, position),
                     Join(Spelled(ScrollFields, s), tail)))))

\* What is left behind each of the first four.
HeadTails(bytes, g, colour, p, position, s, tail, x1, x2, x3, x4) ==
  /\ x1 \in Seq(Byte) /\ x2 \in Seq(Byte) /\ x3 \in Seq(Byte) /\ x4 \in Seq(Byte)
  /\ bytes = Join(Spelled(HeadFields, g), x1)
  /\ x1 = Join(Present(<<3>>, colour), x2)
  /\ x2 = Join(Spelled(PaletteFields, p), x3)
  /\ x3 = Join(Present(PositionFields, position), x4)
  /\ x4 = Join(Spelled(ScrollFields, s), tail)

\* They are bytes, each of them.
LEMMA HeadSuitedType ==
  ASSUME NEW bytes, NEW g, NEW colour, NEW p, NEW position, NEW s, NEW tail,
         HeadSuited(bytes, g, colour, p, position, s, tail)
  PROVE  /\ Taken(HeadFields, g, 12) /\ OptionTaken(<< 3 >>, colour, 1)
         /\ Taken(PaletteFields, p, PaletteLen + 4) /\ OptionTaken(PositionFields, position, 3)
         /\ Taken(ScrollFields, s, 2)
         /\ Present(<< 3 >>, colour) \in Seq(Byte) /\ Present(PositionFields, position) \in Seq(Byte)
         /\ \E x1, x2, x3, x4 : HeadTails(bytes, g, colour, p, position, s, tail, x1, x2, x3, x4)
         /\ bytes \in Seq(Byte)
<1>1. <<>> \in Seq(Byte) /\ 12 \in Nat /\ 1 \in Nat /\ 3 \in Nat /\ 2 \in Nat /\ PaletteLen + 4 \in Nat
  BY PaletteFieldsAre
<1>2. /\ SuitedAlways(HeadFields, g, 12) /\ SuitedOption(<<3>>, colour, 1)
      /\ SuitedAlways(PaletteFields, p, PaletteLen + 4)
      /\ SuitedOption(PositionFields, position, 3)
      /\ SuitedAlways(ScrollFields, s, 2) /\ tail \in Seq(Byte)
  BY DEF HeadSuited
<1>3. /\ Suited(HeadFields, g, 12, <<>>) /\ Suited(PaletteFields, p, PaletteLen + 4, <<>>)
      /\ Suited(ScrollFields, s, 2, <<>>)
  BY <1>1, <1>2 DEF SuitedAlways
<1>4. Taken(HeadFields, g, 12) /\ Spelled(HeadFields, g) \in Seq(Byte)
  BY <1>1, <1>3, SuitedTaken
<1>5. Taken(PaletteFields, p, PaletteLen + 4) /\ Spelled(PaletteFields, p) \in Seq(Byte)
  BY <1>1, <1>3, SuitedTaken
<1>6. Taken(ScrollFields, s, 2) /\ Spelled(ScrollFields, s) \in Seq(Byte)
  BY <1>1, <1>3, SuitedTaken
<1>7. OptionTaken(<<3>>, colour, 1) /\ Present(<<3>>, colour) \in Seq(Byte)
  BY <1>1, <1>2, OptionSuited
<1>8. OptionTaken(PositionFields, position, 3) /\ Present(PositionFields, position) \in Seq(Byte)
  BY <1>1, <1>2, OptionSuited
<1> DEFINE x4 == Join(Spelled(ScrollFields, s), tail)
           x3 == Join(Present(PositionFields, position), x4)
           x2 == Join(Spelled(PaletteFields, p), x3)
           x1 == Join(Present(<<3>>, colour), x2)
<1>9. x4 \in Seq(Byte)
  BY <1>2, <1>6, JoinBytes
<1> HIDE DEF x4
<1>10. x3 \in Seq(Byte)
  BY <1>8, <1>9, JoinBytes
<1> HIDE DEF x3
<1>11. x2 \in Seq(Byte)
  BY <1>5, <1>10, JoinBytes
<1> HIDE DEF x2
<1>12. x1 \in Seq(Byte)
  BY <1>7, <1>11, JoinBytes
<1> HIDE DEF x1
<1>13. bytes = Join(Spelled(HeadFields, g), x1)
  BY Zenon DEF HeadSuited, x1, x2, x3, x4
<1>14. bytes \in Seq(Byte)
  BY <1>4, <1>12, <1>13, JoinBytes
<1>15. /\ x1 = Join(Present(<<3>>, colour), x2)
       /\ x2 = Join(Spelled(PaletteFields, p), x3)
       /\ x3 = Join(Present(PositionFields, position), x4)
       /\ x4 = Join(Spelled(ScrollFields, s), tail)
  BY DEF x1, x2, x3, x4
<1>16. HeadTails(bytes, g, colour, p, position, s, tail, x1, x2, x3, x4)
  BY <1>9, <1>10, <1>11, <1>12, <1>13, <1>15, Zenon DEF HeadTails
<1> QED
  BY <1>4, <1>5, <1>6, <1>7, <1>8, <1>14, <1>16, Zenon

\* The head of a frame is read back from them.
LEMMA HeadBack ==
  ASSUME NEW bytes, NEW g, NEW colour, NEW p, NEW position, NEW s, NEW tail,
         HeadSuited(bytes, g, colour, p, position, s, tail)
  PROVE  /\ HeadIs(bytes, ReadHead(bytes), g, colour, p, position, s)
         /\ ReadHead(bytes).rest = tail /\ ReadHead(bytes) # Bad /\ bytes \in Seq(Byte)
<1> DEFINE r0 == Reader(bytes)
           r1 == Read(r0, HeadFields)
           r2 == ReadOptional(r1, <<3>>)
           r3 == Read(r2, PaletteFields)
           r4 == ReadOptional(r3, PositionFields)
           r5 == Read(r4, ScrollFields)
           n == PaletteLen
<1>0. n \in Nat /\ ReadHead(bytes) = r5
  BY PaletteFieldsAre DEF ReadHead, PaletteFields, PositionFields, ScrollFields
<1>1. /\ SuitedAlways(HeadFields, g, 12) /\ SuitedOption(<<3>>, colour, 1)
      /\ SuitedAlways(PaletteFields, p, n + 4)
      /\ SuitedOption(PositionFields, position, 3)
      /\ SuitedAlways(ScrollFields, s, 2) /\ tail \in Seq(Byte)
  BY DEF HeadSuited
<1>2. /\ Taken(HeadFields, g, 12) /\ OptionTaken(<<3>>, colour, 1)
      /\ Taken(PaletteFields, p, n + 4) /\ OptionTaken(PositionFields, position, 3)
      /\ Taken(ScrollFields, s, 2)
      /\ Present(<<3>>, colour) \in Seq(Byte) /\ Present(PositionFields, position) \in Seq(Byte)
      /\ bytes \in Seq(Byte)
  BY HeadSuitedType
<1>3. PICK x1, x2, x3, x4 : HeadTails(bytes, g, colour, p, position, s, tail, x1, x2, x3, x4)
  BY HeadSuitedType
<1>31. /\ x1 \in Seq(Byte) /\ x2 \in Seq(Byte) /\ x3 \in Seq(Byte) /\ x4 \in Seq(Byte)
       /\ bytes = Join(Spelled(HeadFields, g), x1)
       /\ x1 = Join(Present(<<3>>, colour), x2)
       /\ x2 = Join(Spelled(PaletteFields, p), x3)
       /\ x3 = Join(Present(PositionFields, position), x4)
       /\ x4 = Join(Spelled(ScrollFields, s), tail)
  BY <1>3, Zenon DEF HeadTails
<1>4. r0 \in Readers(Parts) /\ Len(r0.got) = 0 /\ r0.rest = bytes
  BY <1>2 DEF Reader, Readers
<1> HIDE DEF r0, n
<1> DEFINE z == 0
<1>5. r1 \in Readers(Parts) /\ r1.rest = x1 /\ Len(r1.got) = 12 /\ Placed(r1.got, 0, g, 12)
  <2>1. z \in Nat /\ 12 \in Nat /\ Len(r0.got) = z /\ z + 12 = 12
    BY <1>4
  <2> HIDE DEF z
  <2>2. /\ r1 \in Readers(Parts) /\ r1.rest = x1 /\ Len(r1.got) = z + 12
        /\ Placed(r1.got, z, g, 12)
    BY <1>1, <1>31, <1>4, <2>1, FieldPlacesBack
  <2> HIDE DEF r1
  <2> QED
    BY <2>1, <2>2 DEF z
<1> HIDE DEF r1
<1>6. /\ r2 \in Readers(Parts) /\ r2.rest = x2 /\ Len(r2.got) = 13
      /\ r2.got[13] = colour /\ Placed(r2.got, 0, r1.got, 12)
  <2> DEFINE fields == <<3>>
             one == 1
             m == 12
  <2>1. /\ one \in Nat /\ m \in Nat /\ m + 1 = 13 /\ one # 0 /\ Len(r1.got) = m
        /\ r1 \in Readers(Parts) /\ x2 \in Seq(Byte)
    BY <1>5, <1>31
  <2>2. SuitedOption(fields, colour, one) /\ r1.rest = Join(Present(fields, colour), x2)
    BY <1>1, <1>31, <1>5
  <2>3. r2 = ReadOptional(r1, fields)
    OBVIOUS
  <2> HIDE DEF m, fields, one, r2
  <2>4. LET q == ReadOptional(r1, fields)
        IN  /\ q \in Readers(Parts) /\ q.rest = x2 /\ Len(q.got) = m + 1
            /\ q.got[m + 1] = colour /\ Placed(q.got, 0, r1.got, m)
    BY ONLY <2>1, <2>2, OptionPlacesBack
  <2> QED
    BY <2>1, <2>3, <2>4 DEF m
<1> HIDE DEF r2
<1>7. /\ r3 \in Readers(Parts) /\ r3.rest = x3 /\ Len(r3.got) = 13 + (n + 4)
      /\ Placed(r3.got, 13, p, n + 4) /\ Placed(r3.got, 0, r2.got, 13)
  <2> DEFINE m == 13
             w == n + 4
             fields == PaletteFields
  <2>1. m \in Nat /\ w \in Nat
    BY <1>0
  <2>2. /\ SuitedAlways(fields, p, w) /\ r2.rest = Join(Spelled(fields, p), x3)
        /\ x3 \in Seq(Byte) /\ r2 \in Readers(Parts) /\ Len(r2.got) = m
    BY <1>1, <1>31, <1>6
  <2> HIDE DEF m, w, fields
  <2>3. LET q == Read(r2, fields)
        IN  /\ q \in Readers(Parts) /\ q.rest = x3 /\ Len(q.got) = m + w
            /\ Placed(q.got, m, p, w) /\ Placed(q.got, 0, r2.got, m)
    BY ONLY <2>1, <2>2, FieldPlacesBack
  <2> QED
    BY <2>3 DEF m, w, fields
<1> HIDE DEF r3
<1> DEFINE k == 13 + (n + 4)
<1>8. k \in Nat /\ k + 1 \in Nat /\ k + 1 = 13 + n + 5
  BY <1>0
<1>9. /\ r4 \in Readers(Parts) /\ r4.rest = x4 /\ Len(r4.got) = k + 1
      /\ r4.got[k + 1] = position /\ Placed(r4.got, 0, r3.got, k)
  <2>1. 3 \in Nat /\ 3 # 0
    OBVIOUS
  <2> HIDE DEF k
  <2>2. Len(r3.got) = k
    BY <1>7 DEF k
  <2> QED
    BY <1>1, <1>31, <1>7, <1>8, <2>1, <2>2, OptionPlacesBack
<1> HIDE DEF r4
<1>10. /\ r5 \in Readers(Parts) /\ r5.rest = tail /\ Len(r5.got) = k + 1 + 2
       /\ Placed(r5.got, k + 1, s, 2) /\ Placed(r5.got, 0, r4.got, k + 1)
  <2>1. 2 \in Nat
    OBVIOUS
  <2> HIDE DEF k
  <2> QED
    BY <1>1, <1>31, <1>8, <1>9, <2>1, FieldPlacesBack
<1> HIDE DEF r5
<1>11. Placed(r3.got, 0, g, 12) /\ r3.got[13] = colour
  <2>1. 0 \in Nat /\ 12 \in Nat /\ 0 + 12 <= 12 /\ 13 \in Nat /\ 0 + 12 <= 13 /\ 13 \in 1 .. 13
    OBVIOUS
  <2>2. Placed(r2.got, 0, g, 12)
    BY <1>5, <1>6, <2>1, StaysPlaced
  <2>3. Placed(r3.got, 0, r2.got, 13) /\ r2.got[13] = colour
    BY <1>6, <1>7
  <2>4. Placed(r3.got, 0, g, 12)
    BY ONLY <2>1, <2>2, <2>3, StaysPlaced
  <2>5. r3.got[13] = r2.got[13]
    <3> DEFINE m == 13
    <3>1. m \in Nat /\ m \in 1 .. m /\ Placed(r3.got, 0, r2.got, m)
      BY <2>3
    <3> HIDE DEF m
    <3>2. r3.got[m] = r2.got[m]
      BY ONLY <3>1, OnePlace
    <3> QED
      BY <3>2 DEF m
  <2> QED
    BY <2>3, <2>4, <2>5
<1>12. Placed(r4.got, 0, g, 12) /\ r4.got[13] = colour /\ Placed(r4.got, 13, p, n + 4)
  <2>1. /\ 0 \in Nat /\ 12 \in Nat /\ 0 + 12 <= k /\ 13 \in 1 .. k
        /\ 13 \in Nat /\ n + 4 \in Nat /\ 13 + (n + 4) <= k
    BY <1>0
  <2> HIDE DEF k
  <2> DEFINE i == 12
             j == 13
             w == n + 4
  <2>2. /\ i \in Nat /\ j \in Nat /\ w \in Nat /\ k \in Nat /\ 0 \in Nat
        /\ 0 + i <= k /\ j \in 1 .. k /\ j + w <= k
    BY <1>8, <2>1
  <2>3. /\ Placed(r4.got, 0, r3.got, k) /\ Placed(r3.got, 0, g, i)
        /\ r3.got[j] = colour /\ Placed(r3.got, j, p, w)
    BY <1>7, <1>9, <1>11
  <2> HIDE DEF i, j, w
  <2>4. Placed(r4.got, 0, g, i)
    BY ONLY <2>2, <2>3, StaysPlaced
  <2>5. r4.got[j] = r3.got[j]
    BY ONLY <2>2, <2>3, OnePlace
  <2>6. Placed(r4.got, j, p, w)
    BY ONLY <2>2, <2>3, StaysPlaced
  <2> QED
    BY <2>3, <2>4, <2>5, <2>6 DEF i, j, w
<1>13. /\ Placed(r5.got, 0, g, 12) /\ r5.got[13] = colour /\ Placed(r5.got, 13, p, n + 4)
       /\ r5.got[k + 1] = position
  <2>1. /\ 0 \in Nat /\ 12 \in Nat /\ 0 + 12 <= k + 1 /\ 13 \in 1 .. k + 1
        /\ 13 \in Nat /\ n + 4 \in Nat /\ 13 + (n + 4) <= k + 1 /\ k + 1 \in 1 .. k + 1
    BY <1>0
  <2> HIDE DEF k
  <2> DEFINE i == 12
             j == 13
             w == n + 4
  <2>2. /\ i \in Nat /\ j \in Nat /\ w \in Nat /\ (k + 1) \in Nat /\ 0 \in Nat
        /\ 0 + i <= (k + 1) /\ j \in 1 .. (k + 1) /\ j + w <= (k + 1)
    BY <1>8, <2>1
  <2>3. /\ Placed(r5.got, 0, r4.got, (k + 1)) /\ Placed(r4.got, 0, g, i)
        /\ r4.got[j] = colour /\ Placed(r4.got, j, p, w)
    BY <1>9, <1>10, <1>12
  <2> HIDE DEF i, j, w
  <2>4. Placed(r5.got, 0, g, i)
    BY ONLY <2>2, <2>3, StaysPlaced
  <2>5. r5.got[j] = r4.got[j]
    BY ONLY <2>2, <2>3, OnePlace
  <2>6. Placed(r5.got, j, p, w)
    BY ONLY <2>2, <2>3, StaysPlaced
  <2> DEFINE l == k + 1
  <2>7. l \in Nat /\ l \in 1 .. l /\ Placed(r5.got, 0, r4.got, l)
    BY <1>8, <1>10, <2>1
  <2> HIDE DEF l
  <2>8. r5.got[l] = r4.got[l]
    BY ONLY <2>7, OnePlace
  <2>9. r5.got[k + 1] = position
    BY <1>9, <2>8 DEF l
  <2> QED
    BY <2>3, <2>4, <2>5, <2>6, <2>9 DEF i, j, w
<1>14. bytes = Join(Spelled(HeadFields, g),
                 Join(Present(<<3>>, colour),
                   Join(Spelled(PaletteFields, p),
                     Join(Present(PositionFields, position),
                       Join(Spelled(ScrollFields, s), r5.rest)))))
  BY <1>31, <1>10, Zenon
<1>15. Len(r5.got) = PaletteLen + 20
  <2>1. k + 1 + 2 = n + 20
    BY <1>0
  <2> QED
    BY <1>10, <2>1 DEF n
<1>16. IsReader(r5)
  BY <1>10 DEF Readers, IsReader, IsSeq
<1>17. r5 # Bad
  BY <1>10, PartsAre
<1>18. HeadIs(bytes, r5, g, colour, p, position, s)
  <2> HIDE DEF k
  <2> QED
    BY <1>2, <1>8, <1>10, <1>13, <1>14, <1>15, <1>16, Zenon DEF HeadIs, n
<1> QED
  BY <1>0, <1>2, <1>10, <1>17, <1>18, Zenon

\* A field of some bytes suits, and so does a text.
LEMMA Suitable ==
  /\ \A f \in Nat \ {0} : \A s, tail \in Seq(Byte) :
       Len(s) = f => IsField(f) /\ Suits(f, s, tail) /\ f # Remains
  /\ \A s, tail \in Seq(Byte) :
       Utf8(s) /\ Len(s) \in U32 => IsField(0) /\ Suits(0, s, tail) /\ 0 # Remains
BY DEF IsField, Suits, Prefixed, Remains

\* Fields of fixed widths suit whatever follows.
LEMMA FixedSuited ==
  ASSUME NEW fields, NEW n \in Nat, n = Len(fields), NEW gs \in Seq(Seq(Byte)), Len(gs) = n,
         \A i \in 1 .. n : fields[i] \in Nat \ {0} /\ Len(gs[i]) = fields[i]
  PROVE  SuitedAlways(fields, gs, n)
<1> SUFFICES ASSUME NEW tail \in Seq(Byte)
             PROVE  Suited(fields, gs, n, tail)
  BY DEF SuitedAlways
<1>1. \A i \in 1 .. n : gs[i] \in Seq(Byte)
  BY FieldBytes
<1>2. \A i \in 1 .. n : IsField(fields[i]) /\ Suits(fields[i], gs[i], tail) /\ fields[i] # Remains
  BY <1>1, Suitable
<1> QED
  BY <1>2 DEF Suited

\* Twelve pieces are a sequence of them.
LEMMA Tuple12 ==
  ASSUME NEW a \in Seq(Byte), NEW b \in Seq(Byte), NEW d \in Seq(Byte), NEW e \in Seq(Byte),
         NEW u \in Seq(Byte), NEW v \in Seq(Byte), NEW x \in Seq(Byte), NEW y \in Seq(Byte),
         NEW k \in Seq(Byte), NEW l \in Seq(Byte), NEW m \in Seq(Byte), NEW n \in Seq(Byte)
  PROVE  LET g == <<a, b, d, e, u, v, x, y, k, l, m, n>>
         IN  /\ g \in Seq(Seq(Byte)) /\ Len(g) = 12
             /\ g[1] = a /\ g[2] = b /\ g[3] = d /\ g[4] = e
             /\ g[5] = u /\ g[6] = v /\ g[7] = x /\ g[8] = y
             /\ g[9] = k /\ g[10] = l /\ g[11] = m /\ g[12] = n
<1> DEFINE S == Seq(Byte)
<1>1. /\ a \in S /\ b \in S /\ d \in S /\ e \in S /\ u \in S /\ v \in S /\ x \in S /\ y \in S
      /\ k \in S /\ l \in S /\ m \in S /\ n \in S
  OBVIOUS
<1> HIDE DEF S
<1>2. <<a, b, d, e, u, v, x, y, k, l, m, n>> \in Seq(S)
  BY <1>1
<1> QED
  BY <1>2 DEF S

\* The first fields of a frame.
HeadOf(f) ==
  <<FrameMagic, Put16(FrameVersion), Put64(f.revision), Put16(f.cols), Put16(f.count),
    Tag(Screens, f.screen), f.title, f.cwd, PutBool(f.hyperlinks), PutBool(f.kitty),
    f.background, f.foreground>>

\* The texts of a frame that are not of a cell have lengths.
TitleWritable(f) == Len(f.title) \in U32 /\ Len(f.cwd) \in U32

\* The fields of a frame, each of its type.
LEMMA FrameFieldTypes ==
  ASSUME NEW f \in FrameType
  PROVE  /\ f.revision \in U64 /\ f.cols \in U16 /\ f.count \in U16 /\ f.screen \in ToSet(Screens)
         /\ f.title \in Utf8Text /\ f.cwd \in Utf8Text
         /\ f.hyperlinks \in BOOLEAN /\ f.kitty \in BOOLEAN
         /\ f.background \in RgbType /\ f.foreground \in RgbType /\ f.colour \in Option(RgbType)
         /\ f.palette \in Seq(RgbType) /\ Len(f.palette) = PaletteLen
         /\ f.visible \in BOOLEAN /\ f.blinking \in BOOLEAN /\ f.password \in BOOLEAN
         /\ f.shape \in ToSet(CursorShapes) /\ f.viewport \in Option(CursorType)
         /\ f.fromLive \in U64 /\ f.history \in U64 /\ f.lines \in Seq(RowType)
BY DEF FrameType

\* The numbers of the types are as wide as the fields they are put in.
LEMMA NumbersPut ==
  /\ \A v \in U16 : v \in Nat /\ Put16(v) \in Seq(Byte) /\ Len(Put16(v)) = 2 /\ Num(Put16(v)) = v
  /\ \A v \in U64 : v \in Nat /\ Put64(v) \in Seq(Byte) /\ Len(Put64(v)) = U64Bytes
                    /\ Num(Put64(v)) = v
<1>1. ASSUME NEW v \in U16
      PROVE  v \in Nat /\ Put16(v) \in Seq(Byte) /\ Len(Put16(v)) = 2 /\ Num(Put16(v)) = v
  <2>1. v \in Nat /\ v <= 65535 /\ 2 \in Nat
    BY DEF U16, MaxU16
  <2>2. LE(v, 2) \in Seq(Byte) /\ Len(LE(v, 2)) = 2
    <3> DEFINE w == 2
    <3>1. v \in Nat /\ w \in Nat
      BY <2>1
    <3> HIDE DEF w
    <3>2. LE(v, w) \in Seq(Byte) /\ Len(LE(v, w)) = w
      BY ONLY <3>1, NumberBytes
    <3> QED
      BY <3>2 DEF w
  <2>3. Put16(v) = LE(v, 2)
    BY DEF Put16
  <2>4. Num(Put16(v)) = v
    BY ONLY <2>1, Kept16
  <2> QED
    BY ONLY <2>1, <2>2, <2>3, <2>4
<1>2. ASSUME NEW v \in U64
      PROVE  v \in Nat /\ Put64(v) \in Seq(Byte) /\ Len(Put64(v)) = U64Bytes /\ Num(Put64(v)) = v
  <2>1. v \in Nat /\ U64Bytes \in Nat
    BY Kept64, WireAssumption
  <2> QED
    BY <2>1, Kept64, NumberBytes DEF Put64
<1> QED
  BY <1>1, <1>2

\* The first fields of a frame suit.
LEMMA HeadOfSuited ==
  ASSUME NEW f \in FrameType, TitleWritable(f)
  PROVE  LET g == HeadOf(f)
         IN  /\ SuitedAlways(HeadFields, g, 12)
             /\ g[1] = FrameMagic /\ Num(g[2]) = FrameVersion /\ Num(g[3]) = f.revision
             /\ Num(g[4]) = f.cols /\ Num(g[5]) = f.count /\ Member(Screens, g[6]) = f.screen
             /\ g[7] = f.title /\ g[8] = f.cwd /\ Bool(g[9]) = f.hyperlinks
             /\ Bool(g[10]) = f.kitty /\ g[11] = f.background /\ g[12] = f.foreground
             /\ f.screen # Bad /\ f.hyperlinks # Bad /\ f.kitty # Bad
<1> DEFINE a == FrameMagic
           b == Put16(FrameVersion)
           d == Put64(f.revision)
           e == Put16(f.cols)
           u == Put16(f.count)
           v == Tag(Screens, f.screen)
           x == f.title
           y == f.cwd
           k == PutBool(f.hyperlinks)
           l == PutBool(f.kitty)
           m == f.background
           n == f.foreground
           g == HeadOf(f)
<1>1. a \in Seq(Byte) /\ Len(a) = 4
  BY DEF FrameMagic, Byte
<1>2. FrameVersion \in U16
  BY DEF FrameVersion, U16, MaxU16
<1>3. b \in Seq(Byte) /\ Len(b) = 2 /\ Num(b) = FrameVersion
  BY <1>2, NumbersPut
<1>4. d \in Seq(Byte) /\ Len(d) = U64Bytes /\ Num(d) = f.revision
  BY FrameFieldTypes, NumbersPut
<1>5. /\ e \in Seq(Byte) /\ Len(e) = 2 /\ Num(e) = f.cols
      /\ u \in Seq(Byte) /\ Len(u) = 2 /\ Num(u) = f.count
  BY FrameFieldTypes, NumbersPut
<1>6. v \in Seq(Byte) /\ Len(v) = 1 /\ Member(Screens, v) = f.screen /\ f.screen # Bad
  <2>1. Len(Screens) = 2 /\ 2 \in Nat /\ 2 <= 256
    BY FrameTags
  <2> QED
    BY <2>1, FrameFieldTypes, NamesOfFrames, TagBack
<1>7. x \in Seq(Byte) /\ Utf8(x) /\ Len(x) \in U32 /\ y \in Seq(Byte) /\ Utf8(y) /\ Len(y) \in U32
  BY FrameFieldTypes DEF Utf8Text, TitleWritable
<1>8. /\ k \in Seq(Byte) /\ Len(k) = 1 /\ Bool(k) = f.hyperlinks /\ f.hyperlinks # Bad
      /\ l \in Seq(Byte) /\ Len(l) = 1 /\ Bool(l) = f.kitty /\ f.kitty # Bad
  BY FrameFieldTypes, BoolBack
<1>9. m \in Seq(Byte) /\ Len(m) = 3 /\ n \in Seq(Byte) /\ Len(n) = 3
  BY FrameFieldTypes DEF RgbType
<1>10. g = <<a, b, d, e, u, v, x, y, k, l, m, n>>
  BY DEF HeadOf
<1> HIDE DEF a, b, d, e, u, v, x, y, k, l, m, n, g
<1>11. /\ g \in Seq(Seq(Byte)) /\ Len(g) = 12
       /\ g[1] = a /\ g[2] = b /\ g[3] = d /\ g[4] = e
       /\ g[5] = u /\ g[6] = v /\ g[7] = x /\ g[8] = y
       /\ g[9] = k /\ g[10] = l /\ g[11] = m /\ g[12] = n
  <2>1. LET t == <<a, b, d, e, u, v, x, y, k, l, m, n>>
        IN  /\ t \in Seq(Seq(Byte)) /\ Len(t) = 12
            /\ t[1] = a /\ t[2] = b /\ t[3] = d /\ t[4] = e
            /\ t[5] = u /\ t[6] = v /\ t[7] = x /\ t[8] = y
            /\ t[9] = k /\ t[10] = l /\ t[11] = m /\ t[12] = n
    BY ONLY <1>1, <1>3, <1>4, <1>5, <1>6, <1>7, <1>8, <1>9, Tuple12
  <2> QED
    BY <1>10, <2>1, Zenon
<1>12. ASSUME NEW tail \in Seq(Byte)
       PROVE  Suited(HeadFields, g, 12, tail)
  <2> SUFFICES ASSUME NEW i \in 1 .. 12
               PROVE  IsField(HeadFields[i]) /\ Suits(HeadFields[i], g[i], tail)
                      /\ HeadFields[i] # Remains
    <3>1. Len(HeadFields) = 12
      BY DEF HeadFields
    <3> QED
      BY <1>11, <3>1, Zenon DEF Suited
  <2>1. i = 1 \/ i = 2 \/ i = 3 \/ i = 4 \/ i = 5 \/ i = 6 \/ i = 7 \/ i = 8 \/ i = 9
          \/ i = 10 \/ i = 11 \/ i = 12
    OBVIOUS
  <2>2. /\ 4 \in Nat \ {0} /\ 2 \in Nat \ {0} /\ U64Bytes \in Nat \ {0} /\ 1 \in Nat \ {0}
        /\ 3 \in Nat \ {0}
    BY WireAssumption
  <2>3. CASE i = 1
    BY <1>1, <1>11, <2>2, <2>3, Suitable, HeadWidths, Zenon
  <2>4. CASE i = 2
    BY <1>3, <1>11, <2>2, <2>4, Suitable, HeadWidths, Zenon
  <2>5. CASE i = 3
    BY <1>4, <1>11, <2>2, <2>5, Suitable, HeadWidths, Zenon
  <2>6. CASE i = 4
    BY <1>5, <1>11, <2>2, <2>6, Suitable, HeadWidths, Zenon
  <2>7. CASE i = 5
    BY <1>5, <1>11, <2>2, <2>7, Suitable, HeadWidths, Zenon
  <2>8. CASE i = 6
    BY <1>6, <1>11, <2>2, <2>8, Suitable, HeadWidths, Zenon
  <2>9. CASE i = 7
    BY <1>7, <1>11, <2>9, Suitable, HeadWidths, Zenon
  <2>10. CASE i = 8
    BY <1>7, <1>11, <2>10, Suitable, HeadWidths, Zenon
  <2>11. CASE i = 9
    BY <1>8, <1>11, <2>2, <2>11, Suitable, HeadWidths, Zenon
  <2>12. CASE i = 10
    BY <1>8, <1>11, <2>2, <2>12, Suitable, HeadWidths, Zenon
  <2>13. CASE i = 11
    BY <1>9, <1>11, <2>2, <2>13, Suitable, HeadWidths, Zenon
  <2>14. CASE i = 12
    BY <1>9, <1>11, <2>2, <2>14, Suitable, HeadWidths, Zenon
  <2> QED
    BY <2>1, <2>3, <2>4, <2>5, <2>6, <2>7, <2>8, <2>9, <2>10, <2>11, <2>12, <2>13, <2>14, Zenon
<1>13. SuitedAlways(HeadFields, g, 12)
  BY <1>12 DEF SuitedAlways
<1> QED
  BY <1>3, <1>4, <1>5, <1>6, <1>8, <1>11, <1>13, Zenon DEF a, x, y, m, n, g

\* An optional value of a type is none or one of it.
LEMMA OptionIs ==
  ASSUME NEW S, NEW v \in Option(S)
  PROVE  v = <<>> \/ (v = <<v[1]>> /\ v[1] \in S /\ v # <<>> /\ v \in Seq(S) /\ Len(v) = 1)
<1> DEFINE n == Len(v)
<1>1. v \in Seq(S) /\ n <= 1 /\ n \in Nat
  BY DEF Option
<1>2. CASE n = 0
  BY <1>1, <1>2
<1>3. CASE n = 1
  BY <1>1, <1>3
<1>4. n = 0 \/ n = 1
  <2> HIDE DEF n
  <2> QED
    BY <1>1
<1> QED
  BY <1>2, <1>3, <1>4

\* The colour of a cursor suits.
LEMMA ColourSuited ==
  ASSUME NEW colour \in Option(RgbType)
  PROVE  SuitedOption(<< 3 >>, colour, 1)
<1>1. CASE colour = <<>>
  BY <1>1 DEF SuitedOption
<1>2. CASE colour # <<>>
  <2>1. colour \in Seq(RgbType) /\ Len(colour) = 1 /\ colour[1] \in RgbType
    BY <1>2, OptionIs
  <2>2. colour \in Seq(Seq(Byte)) /\ Len(colour[1]) = 3
    <3> DEFINE R == RgbType
    <3>1. R \subseteq Seq(Byte)
      BY DEF RgbType
    <3>2. Len(colour[1]) = 3
      BY <2>1 DEF RgbType
    <3> HIDE DEF R
    <3>3. colour \in Seq(R)
      BY <2>1 DEF R
    <3> QED
      BY <3>1, <3>2, <3>3
  <2> DEFINE fields == <<3>>
             n == 1
  <2>3. n \in Nat /\ n = Len(fields) /\ \A i \in 1 .. n : fields[i] \in Nat \ {0} /\ i = 1 /\ fields[i] = 3
    OBVIOUS
  <2> HIDE DEF fields, n
  <2>4. \A i \in 1 .. n : fields[i] \in Nat \ {0} /\ Len(colour[i]) = fields[i]
    BY <2>2, <2>3
  <2>5. Len(colour) = n
    BY <2>1 DEF n
  <2>6. SuitedAlways(fields, colour, n)
    BY ONLY <2>2, <2>3, <2>4, <2>5, FixedSuited
  <2> QED
    BY <2>6 DEF SuitedOption, fields, n
<1> QED
  BY <1>1, <1>2

\* The palette and four fields of the cursor.
CursorFour(f) ==
  <<PutBool(f.visible), PutBool(f.blinking), PutBool(f.password), Tag(CursorShapes, f.shape)>>
PaletteOf(f) == f.palette \o CursorFour(f)

\* They suit.
LEMMA PaletteSuited ==
  ASSUME NEW f \in FrameType
  PROVE  LET p == PaletteOf(f)
         IN  /\ SuitedAlways(PaletteFields, p, PaletteLen + 4)
             /\ Agree(p, f.palette, PaletteLen)
             /\ Bool(p[PaletteLen + 1]) = f.visible /\ Bool(p[PaletteLen + 2]) = f.blinking
             /\ Bool(p[PaletteLen + 3]) = f.password
             /\ Member(CursorShapes, p[PaletteLen + 4]) = f.shape
             /\ f.visible # Bad /\ f.blinking # Bad /\ f.password # Bad /\ f.shape # Bad
             /\ f.palette \in Seq(Seq(Byte)) /\ Len(f.palette) = PaletteLen
<1> DEFINE n == PaletteLen
           palette == f.palette
           four == CursorFour(f)
           a == PutBool(f.visible)
           b == PutBool(f.blinking)
           d == PutBool(f.password)
           e == Tag(CursorShapes, f.shape)
           p == PaletteOf(f)
           S == Seq(Byte)
<1>1. n \in Nat
  BY PaletteFieldsAre
<1>2. /\ a \in S /\ Len(a) = 1 /\ Bool(a) = f.visible /\ f.visible # Bad
      /\ b \in S /\ Len(b) = 1 /\ Bool(b) = f.blinking /\ f.blinking # Bad
      /\ d \in S /\ Len(d) = 1 /\ Bool(d) = f.password /\ f.password # Bad
  BY FrameFieldTypes, BoolBack
<1>3. e \in S /\ Len(e) = 1 /\ Member(CursorShapes, e) = f.shape /\ f.shape # Bad
  <2>1. Len(CursorShapes) = 4 /\ 4 \in Nat /\ 4 <= 256
    BY FrameTags
  <2> QED
    BY <2>1, FrameFieldTypes, NamesOfFrames, TagBack
<1>4. palette \in Seq(S) /\ Len(palette) = n /\ \A i \in 1 .. n : Len(palette[i]) = 3
  <2> DEFINE R == RgbType
  <2>1. R \subseteq S /\ \A x \in R : Len(x) = 3
    BY DEF RgbType
  <2>2. palette \in Seq(R) /\ Len(palette) = n
    BY FrameFieldTypes
  <2> HIDE DEF R, S, palette, n
  <2>3. \A i \in 1 .. n : palette[i] \in R
    BY ONLY <2>2
  <2>4. palette \in Seq(S)
    BY ONLY <2>1, <2>2
  <2> QED
    BY ONLY <2>1, <2>2, <2>3, <2>4
<1>5. four = <<a, b, d, e>> /\ p = palette \o four
  BY DEF CursorFour, PaletteOf
<1> HIDE DEF a, b, d, e, n, palette, four, p, S
<1>6. /\ four \in Seq(S) /\ Len(four) = 4
      /\ four[1] = a /\ four[2] = b /\ four[3] = d /\ four[4] = e
  BY <1>2, <1>3, <1>5
<1>7. p \in Seq(S)
  BY <1>4, <1>5, <1>6
<1>8. /\ Len(p) = Len(palette) + Len(four)
      /\ \A i \in 1 .. Len(palette) + Len(four) :
           p[i] = IF i <= Len(palette) THEN palette[i] ELSE four[i - Len(palette)]
  BY <1>4, <1>5, <1>6, ConcatProperties
<1>9. Len(p) = n + 4 /\ \A i \in 1 .. n : p[i] = palette[i]
  BY <1>1, <1>4, <1>6, <1>8
<1>10. p[n + 1] = a /\ p[n + 2] = b /\ p[n + 3] = d /\ p[n + 4] = e
  <2>1. \A j \in 1 .. 4 : p[n + j] = four[j]
    <3> SUFFICES ASSUME NEW j \in 1 .. 4
                 PROVE  p[n + j] = four[j]
      OBVIOUS
    <3>1. n + j \in 1 .. n + 4 /\ ~(n + j <= n) /\ (n + j) - n = j
      BY <1>1
    <3> QED
      BY ONLY <1>4, <1>6, <1>8, <3>1
  <2> QED
    BY <1>6, <2>1
<1>11. \A i \in 1 .. n + 4 : PaletteFields[i] \in Nat \ {0} /\ Len(p[i]) = PaletteFields[i]
  <2> SUFFICES ASSUME NEW i \in 1 .. n + 4
               PROVE  PaletteFields[i] \in Nat \ {0} /\ Len(p[i]) = PaletteFields[i]
    OBVIOUS
  <2> DEFINE w == PaletteFields
             m == n + 4
  <2>1. /\ Len(w) = m /\ \A j \in 1 .. n : w[j] = 3
        /\ \A j \in n + 1 .. m : w[j] = 1
    BY PaletteFieldsAre DEF n
  <2> HIDE DEF w
  <2>2. CASE i \in 1 .. n
    <3>1. w[i] = 3 /\ Len(p[i]) = 3
      BY <1>4, <1>9, <2>1, <2>2
    <3> QED
      BY ONLY <3>1 DEF w
  <2>3. CASE i \in n + 1 .. m
    <3>1. i = n + 1 \/ i = n + 2 \/ i = n + 3 \/ i = n + 4
      BY <1>1, <2>3
    <3>2. Len(p[i]) = 1
      BY <1>2, <1>3, <1>10, <3>1
    <3> QED
      BY ONLY <2>1, <2>3, <3>2 DEF w
  <2>4. i \in 1 .. n \/ i \in n + 1 .. m
    BY <1>1
  <2> QED
    BY <2>2, <2>3, <2>4 DEF w
<1>12. SuitedAlways(PaletteFields, p, n + 4)
  <2> DEFINE m == n + 4
             w == PaletteFields
  <2>1. m \in Nat /\ m = Len(w) /\ p \in Seq(Seq(Byte)) /\ Len(p) = m
    BY <1>1, <1>7, <1>9, PaletteFieldsAre DEF n, S
  <2>2. \A i \in 1 .. m : w[i] \in Nat \ {0} /\ Len(p[i]) = w[i]
    BY <1>11
  <2> HIDE DEF m, w
  <2>3. SuitedAlways(w, p, m)
    BY ONLY <2>1, <2>2, FixedSuited
  <2> QED
    BY <2>3 DEF m, w
<1>13. Agree(p, palette, n)
  BY <1>9 DEF Agree
<1> QED
  BY <1>2, <1>3, <1>4, <1>10, <1>12, <1>13, Zenon DEF n, palette, p, S

\* The fields of the position of a cursor, if it has one.
PositionOf(viewport) ==
  IF viewport = <<>> THEN <<>>
  ELSE <<Put16(viewport[1].x), Put16(viewport[1].y), PutBool(viewport[1].tail)>>

\* They suit.
LEMMA PositionSuited ==
  ASSUME NEW viewport \in Option(CursorType)
  PROVE  LET position == PositionOf(viewport)
         IN  /\ SuitedOption(PositionFields, position, 3)
             /\ viewport = (IF position = <<>> THEN <<>> ELSE <<CursorAt(position)>>)
             /\ \A at \in ToSet(viewport) : at.tail # Bad
<1> DEFINE position == PositionOf(viewport)
<1>1. CASE viewport = <<>>
  <2>1. position = <<>> /\ ToSet(viewport) = {}
    BY <1>1 DEF PositionOf, ToSet
  <2> QED
    BY <1>1, <2>1 DEF SuitedOption
<1>2. CASE viewport # <<>>
  <2> DEFINE at == viewport[1]
             x == Put16(at.x)
             y == Put16(at.y)
             t == PutBool(at.tail)
             fields == PositionFields
  <2>1. viewport = <<at>> /\ at \in CursorType
    BY <1>2, OptionIs
  <2>2. at.x \in U16 /\ at.y \in U16 /\ at.tail \in BOOLEAN
        /\ at = [x |-> at.x, y |-> at.y, tail |-> at.tail]
    BY <2>1 DEF CursorType
  <2> HIDE DEF at
  <2>3. /\ x \in Seq(Byte) /\ Len(x) = 2 /\ Num(x) = at.x
        /\ y \in Seq(Byte) /\ Len(y) = 2 /\ Num(y) = at.y
        /\ t \in Seq(Byte) /\ Len(t) = 1 /\ Bool(t) = at.tail /\ at.tail # Bad
    BY <2>2, NumbersPut, BoolBack
  <2>4. position = <<x, y, t>>
    BY <1>2 DEF PositionOf, at
  <2> HIDE DEF x, y, t, position
  <2>5. /\ position \in Seq(Seq(Byte)) /\ Len(position) = 3
        /\ position[1] = x /\ position[2] = y /\ position[3] = t
    BY <2>3, <2>4
  <2>6. CursorAt(position) = at
    BY <2>2, <2>3, <2>5 DEF CursorAt
  <2>7. position # <<>>
    BY <2>5
  <2>8. fields[1] = 2 /\ fields[2] = 2 /\ fields[3] = 1 /\ Len(fields) = 3
    BY DEF PositionFields
  <2> HIDE DEF fields
  <2>9. \A i \in 1 .. 3 : fields[i] \in Nat \ {0} /\ Len(position[i]) = fields[i]
    <3> SUFFICES ASSUME NEW i \in 1 .. 3
                 PROVE  fields[i] \in Nat \ {0} /\ Len(position[i]) = fields[i]
      OBVIOUS
    <3>1. Len(position[1]) = 2 /\ Len(position[2]) = 2 /\ Len(position[3]) = 1
      BY <2>3, <2>5
    <3>2. i = 1 \/ i = 2 \/ i = 3
      OBVIOUS
    <3>3. 1 \in Nat \ {0} /\ 2 \in Nat \ {0}
      OBVIOUS
    <3> QED
      BY ONLY <2>8, <3>1, <3>2, <3>3, Zenon
  <2>10. SuitedAlways(fields, position, 3)
    <3> DEFINE m == 3
    <3>1. m \in Nat /\ m = Len(fields) /\ Len(position) = m /\ position \in Seq(Seq(Byte))
          /\ \A i \in 1 .. m : fields[i] \in Nat \ {0} /\ Len(position[i]) = fields[i]
      BY <2>5, <2>8, <2>9
    <3> HIDE DEF m
    <3>2. SuitedAlways(fields, position, m)
      BY ONLY <3>1, FixedSuited
    <3> QED
      BY <3>2 DEF m
  <2>11. ToSet(viewport) = {at}
    BY <2>1 DEF ToSet
  <2> QED
    BY <2>1, <2>3, <2>6, <2>7, <2>10, <2>11, Zenon DEF SuitedOption, position, fields
<1> QED
  BY <1>1, <1>2

\* The scroll position of a frame.
ScrollOf(f) == <<Put64(f.fromLive), Put64(f.history)>>

\* Its fields suit.
LEMMA ScrollSuited ==
  ASSUME NEW f \in FrameType
  PROVE  LET s == ScrollOf(f)
         IN  /\ SuitedAlways(ScrollFields, s, 2)
             /\ Num(s[1]) = f.fromLive /\ Num(s[2]) = f.history
<1> DEFINE s == ScrollOf(f)
           x == Put64(f.fromLive)
           y == Put64(f.history)
           m == 2
           fields == ScrollFields
<1>1. /\ x \in Seq(Byte) /\ Len(x) = U64Bytes /\ Num(x) = f.fromLive
      /\ y \in Seq(Byte) /\ Len(y) = U64Bytes /\ Num(y) = f.history
  BY FrameFieldTypes, NumbersPut
<1>2. s = <<x, y>>
  BY DEF ScrollOf
<1> HIDE DEF x, y, s
<1>3. s \in Seq(Seq(Byte)) /\ Len(s) = m /\ s[1] = x /\ s[2] = y
  BY <1>1, <1>2
<1>4. m \in Nat /\ m = Len(fields) /\ fields[1] = U64Bytes /\ fields[2] = U64Bytes
  BY DEF ScrollFields
<1>5. \A i \in 1 .. m : fields[i] \in Nat \ {0} /\ Len(s[i]) = fields[i]
  BY <1>1, <1>3, <1>4, WireAssumption
<1> HIDE DEF m, fields
<1>6. SuitedAlways(fields, s, m)
  BY ONLY <1>3, <1>4, <1>5, FixedSuited
<1> QED
  BY <1>1, <1>3, <1>6 DEF s, m, fields

\* The frame f with other lines.
Lined(f, lines) ==
  [revision |-> f.revision, cols |-> f.cols, count |-> f.count, screen |-> f.screen,
   title |-> f.title, cwd |-> f.cwd, hyperlinks |-> f.hyperlinks, kitty |-> f.kitty,
   background |-> f.background, foreground |-> f.foreground, colour |-> f.colour,
   palette |-> f.palette, visible |-> f.visible, blinking |-> f.blinking,
   password |-> f.password, shape |-> f.shape, viewport |-> f.viewport,
   fromLive |-> f.fromLive, history |-> f.history, lines |-> lines]

\* A frame is one with its own lines, and with no lines it is one too.
LEMMA LinedIs ==
  ASSUME NEW f \in FrameType
  PROVE  f = Lined(f, f.lines) /\ Lined(f, <<>>) \in FrameType
         /\ Lined(f, <<>>) # Bad /\ f # Bad
<1>1. f = Lined(f, f.lines)
  BY DEF FrameType, Lined
<1>2. Lined(f, <<>>) \in FrameType
  <2> DEFINE R == RowType
             Q == {p \in Seq(RgbType) : Len(p) = PaletteLen}
             O == Option(RgbType)
             P == Option(CursorType)
  <2>1. f \in FrameType
    OBVIOUS
  <2>2. FrameType = [revision : U64, cols : U16, count : U16, screen : ToSet(Screens),
   title : Utf8Text, cwd : Utf8Text, hyperlinks : BOOLEAN, kitty : BOOLEAN,
   background : RgbType, foreground : RgbType, colour : O,
   palette : Q,
   visible : BOOLEAN, blinking : BOOLEAN, password : BOOLEAN, shape : ToSet(CursorShapes),
   viewport : P, fromLive : U64, history : U64, lines : Seq(R)]
    BY DEF FrameType
  <2>3. <<>> \in Seq(R)
    OBVIOUS
  <2> HIDE DEF R, Q, O, P
  <2> QED
    BY <2>1, <2>2, <2>3 DEF Lined
<1>3. Lined(f, <<>>) # Bad /\ f # Bad
  BY <1>2, FrameErrorAssumption
<1> QED
  BY <1>1, <1>2, <1>3

\* A frame of a head has the fields of f when they are made of the same pieces.
LEMMA HeadedSo ==
  ASSUME NEW f \in FrameType, NEW got, NEW e, FrameOf(got) = e,
         e.revision = f.revision, e.cols = f.cols, e.count = f.count, e.screen = f.screen,
         e.title = f.title, e.cwd = f.cwd, e.hyperlinks = f.hyperlinks, e.kitty = f.kitty,
         e.background = f.background, e.foreground = f.foreground, e.colour = f.colour,
         e.palette = f.palette, e.visible = f.visible, e.blinking = f.blinking,
         e.password = f.password, e.shape = f.shape, e.viewport = f.viewport,
         e.fromLive = f.fromLive, e.history = f.history
  PROVE  /\ e = Lined(f, <<>>) /\ \A lines : [e EXCEPT !.lines = lines] = Lined(f, lines)
<1>1. e = Lined(e, <<>>)
  <2>1. FrameOf(got) = Lined(FrameOf(got), <<>>)
    BY DEF FrameOf, Lined
  <2> QED
    BY <2>1, Zenon
<1>2. Lined(e, <<>>) = Lined(f, <<>>)
  BY Zenon DEF Lined
<1>3. e = Lined(f, <<>>)
  BY <1>1, <1>2
<1>4. ASSUME NEW lines
      PROVE  [Lined(f, <<>>) EXCEPT !.lines = lines] = Lined(f, lines)
  BY DEF Lined
<1> QED
  BY <1>3, <1>4

\* Two palettes that agree with the same pieces are one.
LEMMA PalettesAgree ==
  ASSUME NEW p, NEW n \in Nat, NEW s \in Seq(Seq(Byte)), Len(s) = n, Agree(p, s, n),
         NEW t \in Seq(Seq(Byte)), Len(t) = n, Agree(p, t, n)
  PROVE  s = t
<1>1. \A i \in 1 .. n : s[i] = t[i]
  BY DEF Agree
<1> DEFINE S == Seq(Byte)
<1> HIDE DEF S
<1>2. s \in Seq(S) /\ t \in Seq(S)
  BY DEF S
<1>3. \A a, b \in Seq(S) : Len(a) = Len(b) /\ (\A i \in 1 .. Len(a) : a[i] = b[i]) => a = b
  BY SeqEqual, Zenon
<1> QED
  BY <1>1, <1>2, <1>3

\* The bytes of a frame.
FrameBytes(f) ==
  Join(Spelled(HeadFields, HeadOf(f)),
    Join(Present(<<3>>, f.colour),
      Join(Spelled(PaletteFields, PaletteOf(f)),
        Join(Present(PositionFields, PositionOf(f.viewport)),
          Join(Spelled(ScrollFields, ScrollOf(f)), PutRows(f.lines))))))

\* A frame is read from its bytes.
LEMMA FrameBack ==
  ASSUME NEW f \in FrameType, TitleWritable(f), RowsWritable(f.lines, f.cols), ValidFrame(f)
  PROVE  /\ FrameBytes(f) \in Seq(Byte)
         /\ FrameRead(FrameBytes(f), f, ReadHead(FrameBytes(f)))
         /\ FrameOf(ReadHead(FrameBytes(f)).got) # Bad
<1> DEFINE g == HeadOf(f)
           p == PaletteOf(f)
           position == PositionOf(f.viewport)
           s == ScrollOf(f)
           tail == PutRows(f.lines)
           bytes == FrameBytes(f)
           head == ReadHead(bytes)
           e == FrameOf(head.got)
<1>1. /\ SuitedAlways(HeadFields, g, 12)
      /\ g[1] = FrameMagic /\ Num(g[2]) = FrameVersion /\ Num(g[3]) = f.revision
      /\ Num(g[4]) = f.cols /\ Num(g[5]) = f.count /\ Member(Screens, g[6]) = f.screen
      /\ g[7] = f.title /\ g[8] = f.cwd /\ Bool(g[9]) = f.hyperlinks
      /\ Bool(g[10]) = f.kitty /\ g[11] = f.background /\ g[12] = f.foreground
      /\ f.screen # Bad /\ f.hyperlinks # Bad /\ f.kitty # Bad
  BY HeadOfSuited
<1>2. /\ SuitedAlways(PaletteFields, p, PaletteLen + 4)
      /\ Agree(p, f.palette, PaletteLen)
      /\ Bool(p[PaletteLen + 1]) = f.visible /\ Bool(p[PaletteLen + 2]) = f.blinking
      /\ Bool(p[PaletteLen + 3]) = f.password
      /\ Member(CursorShapes, p[PaletteLen + 4]) = f.shape
      /\ f.visible # Bad /\ f.blinking # Bad /\ f.password # Bad /\ f.shape # Bad
      /\ f.palette \in Seq(Seq(Byte)) /\ Len(f.palette) = PaletteLen
  BY PaletteSuited
<1>3. /\ SuitedOption(PositionFields, position, 3)
      /\ f.viewport = (IF position = <<>> THEN <<>> ELSE <<CursorAt(position)>>)
      /\ \A at \in ToSet(f.viewport) : at.tail # Bad
  BY FrameFieldTypes, PositionSuited
<1>4. /\ SuitedAlways(ScrollFields, s, 2)
      /\ Num(s[1]) = f.fromLive /\ Num(s[2]) = f.history
  BY ScrollSuited
<1>5. SuitedOption(<<3>>, f.colour, 1)
  BY FrameFieldTypes, ColourSuited
<1>6. f.cols \in Nat /\ f.count \in Nat /\ Len(f.lines) = f.count
  BY FrameFieldTypes, NumbersPut DEF ValidFrame
<1>7. tail \in Seq(Byte)
  BY <1>6, RowsPut
<1> HIDE DEF g, p, position, s, tail
<1>8. HeadSuited(bytes, g, f.colour, p, position, s, tail)
  <2>1. bytes = Join(Spelled(HeadFields, g),
                  Join(Present(<<3>>, f.colour),
                    Join(Spelled(PaletteFields, p),
                      Join(Present(PositionFields, position),
                        Join(Spelled(ScrollFields, s), tail)))))
    BY Zenon DEF FrameBytes, g, p, position, s, tail
  <2> HIDE DEF bytes
  <2> QED
    BY <1>1, <1>2, <1>3, <1>4, <1>5, <1>7, <2>1, Zenon DEF HeadSuited
<1> HIDE DEF bytes
<1>9. /\ HeadIs(bytes, head, g, f.colour, p, position, s)
      /\ head.rest = tail /\ head # Bad /\ bytes \in Seq(Byte)
  BY <1>8, HeadBack
<1> HIDE DEF head
<1>10. FrameIs(e, g, f.colour, p, position, s)
  BY <1>9, FrameTaken
<1>11. /\ e = Lined(f, <<>>) /\ \A lines : [e EXCEPT !.lines = lines] = Lined(f, lines)
  <2>1. e.palette = f.palette
    <3>1. /\ e.palette \in Seq(Seq(Byte)) /\ Len(e.palette) = PaletteLen
          /\ Agree(p, e.palette, PaletteLen)
      BY <1>10 DEF FrameIs
    <3>2. PaletteLen \in Nat
      BY PaletteFieldsAre
    <3> HIDE DEF e
    <3> QED
      BY <1>2, <3>1, <3>2, PalettesAgree
  <2>2. /\ e.revision = f.revision /\ e.cols = f.cols /\ e.count = f.count /\ e.screen = f.screen
        /\ e.title = f.title /\ e.cwd = f.cwd /\ e.hyperlinks = f.hyperlinks /\ e.kitty = f.kitty
        /\ e.background = f.background /\ e.foreground = f.foreground /\ e.colour = f.colour
        /\ e.visible = f.visible /\ e.blinking = f.blinking
        /\ e.password = f.password /\ e.shape = f.shape /\ e.viewport = f.viewport
        /\ e.fromLive = f.fromLive /\ e.history = f.history
    <3> HIDE DEF e
    <3> QED
      BY ONLY <1>1, <1>2, <1>3, <1>4, <1>10, Zenon DEF FrameIs
  <2>3. FrameOf(head.got) = e
    OBVIOUS
  <2> DEFINE got == head.got
  <2> HIDE DEF e, got
  <2>4. FrameOf(got) = e
    BY <2>3 DEF got
  <2> QED
    BY ONLY f \in FrameType, <2>1, <2>2, <2>4, HeadedSo
<1>12. e # Bad
  BY <1>11, LinedIs
<1>13. /\ e.screen = f.screen /\ e.hyperlinks = f.hyperlinks /\ e.kitty = f.kitty
       /\ e.visible = f.visible /\ e.blinking = f.blinking /\ e.password = f.password
       /\ e.shape = f.shape /\ e.viewport = f.viewport /\ e.cols = f.cols /\ e.count = f.count
       /\ e.fromLive = f.fromLive /\ e.history = f.history
  <2> HIDE DEF e
  <2> QED
    BY <1>11 DEF Lined
<1> HIDE DEF e
<1>14. ValidHead(head.got, e)
  <2>1. head.got[1] = FrameMagic /\ Num(head.got[2]) = FrameVersion
    <3>1. Placed(head.got, 0, g, 12)
      BY <1>9 DEF HeadIs
    <3>2. head.got[1] = g[1] /\ head.got[2] = g[2]
      BY <3>1 DEF Placed
    <3> QED
      BY <1>1, <3>2, Zenon
  <2>2. Sound(<<e.screen, e.hyperlinks, e.kitty, e.visible, e.blinking, e.password, e.shape>>)
    <3> DEFINE q1 == e.screen
               q2 == e.hyperlinks
               q3 == e.kitty
               q4 == e.visible
               q5 == e.blinking
               q6 == e.password
               q7 == e.shape
    <3>1. q1 # Bad /\ q2 # Bad /\ q3 # Bad /\ q4 # Bad /\ q5 # Bad /\ q6 # Bad /\ q7 # Bad
      BY <1>1, <1>2, <1>13, Zenon
    <3> HIDE DEF q1, q2, q3, q4, q5, q6, q7
    <3>2. Sound(<<q1, q2, q3, q4, q5, q6, q7>>)
      BY ONLY <3>1 DEF Sound
    <3> QED
      BY <3>2 DEF q1, q2, q3, q4, q5, q6, q7
  <2>3. /\ ValidDimensions(f.cols, f.count) /\ ValidCapabilities(f) /\ ValidCursor(f)
        /\ ValidScrollPosition(f)
    BY DEF ValidFrame
  <2>4. /\ ValidDimensions(e.cols, e.count) /\ ValidCapabilities(e) /\ ValidCursor(e)
        /\ ValidScrollPosition(e)
    BY ONLY <1>13, <2>3, Zenon DEF ValidCapabilities, ValidCursor, ValidScrollPosition
  <2>5. \A at \in ToSet(e.viewport) : at.tail # Bad
    BY <1>3, <1>13, Zenon
  <2> QED
    BY <2>1, <2>2, <2>4, <2>5, Zenon DEF ValidHead
<1>15. RowsOf(head, e.cols, e.count) = f.lines /\ f.lines # Bad
  <2>1. RowsOf(head, f.cols, f.count) = f.lines /\ f.lines # Bad
    BY <1>6, <1>9, RowsBack DEF tail
  <2> QED
    BY <1>13, <2>1
<1>16. [e EXCEPT !.lines = f.lines] = f
  BY <1>11, LinedIs
<1>17. FrameRead(bytes, f, head)
  <2> DEFINE rows == RowsOf(head, e.cols, e.count)
  <2>1. f = [e EXCEPT !.lines = rows]
    BY <1>15, <1>16
  <2>2. head = ReadHead(bytes)
    BY DEF head
  <2>3. e = FrameOf(head.got)
    BY DEF e
  <2> QED
    BY <1>9, <1>14, <1>15, <2>1, <2>2, <2>3, Zenon DEF FrameRead
<1> QED
  BY <1>9, <1>12, <1>17, Zenon DEF head, e, bytes

\* The sums of natural numbers, from a first one.
Summing(sum, add, n) ==
  sum[0] \in Nat /\ \A i \in 1 .. n : add[i] \in Nat /\ sum[i] = sum[i - 1] + add[i]

\* No number is more than the sum.
LEMMA SumBounds ==
  ASSUME NEW n \in Nat, NEW sum, NEW add, Summing(sum, add, n)
  PROVE  sum[n] \in Nat /\ sum[0] <= sum[n] /\ \A i \in 1 .. n : add[i] <= sum[n]
<1> DEFINE T == {i \in 0 .. n : sum[i] \in Nat /\ sum[0] <= sum[i]
                                 /\ \A j \in 1 .. i : add[j] <= sum[i]}
<1>1. 0 \in T
  BY DEF Summing
<1>2. ASSUME NEW i \in 0 .. n - 1, i \in T
      PROVE  i + 1 \in T
  <2> DEFINE x == sum[i]
             y == add[i + 1]
             z == sum[i + 1]
  <2>1. i + 1 \in 1 .. n /\ i + 1 - 1 = i /\ i + 1 \in 0 .. n
    OBVIOUS
  <2>2. x \in Nat /\ y \in Nat /\ z = x + y /\ sum[0] <= x /\ sum[0] \in Nat
        /\ \A j \in 1 .. i : add[j] <= x
    BY <1>2, <2>1 DEF Summing
  <2> HIDE DEF x, y, z
  <2>3. z \in Nat /\ x <= z /\ y <= z
    BY <2>2
  <2>4. sum[0] <= z
    BY <2>2, <2>3
  <2>5. \A j \in 1 .. i + 1 : add[j] <= z
    <3> SUFFICES ASSUME NEW j \in 1 .. i + 1
                 PROVE  add[j] <= z
      OBVIOUS
    <3>1. CASE j = i + 1
      BY <2>3, <3>1 DEF y
    <3>2. CASE j \in 1 .. i
      <4> DEFINE a == add[j]
      <4>1. a \in Nat /\ a <= x
        BY <2>1, <2>2, <3>2 DEF Summing
      <4> HIDE DEF a
      <4>2. a <= z
        BY <2>2, <2>3, <4>1
      <4> QED
        BY <4>2 DEF a
    <3> QED
      BY <3>1, <3>2
  <2> QED
    BY <2>1, <2>3, <2>4, <2>5 DEF z
<1>3. T \in SUBSET (0 .. n)
  OBVIOUS
<1> HIDE DEF T
<1>4. T = 0 .. n
  BY <1>1, <1>2, <1>3, RoundsInduct
<1>5. n \in T
  BY <1>4
<1> QED
  BY <1>5 DEF T

\* The size of a cell is more than that of each of its texts.
LEMMA CellSize ==
  ASSUME NEW cell \in CellType
  PROVE  /\ SizeOfCell(cell) \in Nat /\ Len(cell.text) \in Nat /\ Len(cell.link) \in Nat
         /\ Len(cell.text) <= SizeOfCell(cell) /\ Len(cell.link) <= SizeOfCell(cell)
<1> DEFINE x == Len(cell.text)
           y == Len(cell.link)
<1>1. cell.text \in Seq(Byte) /\ cell.link \in Seq(Byte)
  BY DEF CellType, Utf8Text
<1>2. x \in Nat /\ y \in Nat /\ U32Bytes \in Nat
  BY <1>1, WireAssumption
<1> DEFINE c == SizeOfCell(cell)
<1>3. c = 16 + (U32Bytes + x) + (U32Bytes + y)
  BY DEF SizeOfCell, CellFixedBytes
<1> HIDE DEF x, y, c
<1>4. c \in Nat /\ x <= c /\ y <= c
  BY ONLY <1>2, <1>3
<1> QED
  BY <1>2, <1>4 DEF x, y, c

\* The size of a row is no less than that of each of its cells.
LEMMA RowSize ==
  ASSUME NEW row \in RowType
  PROVE  /\ SizeOfRow(row) \in Nat
         /\ \A i \in 1 .. Len(row.cells) : SizeOfCell(row.cells[i]) <= SizeOfRow(row)
<1> DEFINE cells == row.cells
           n == Len(cells)
           sum == CellSizes(cells)
           add == [i \in 1 .. n |-> SizeOfCell(cells[i])]
<1>1. cells \in Seq(CellType) /\ n \in Nat
  BY DEF RowType
<1>2. \A i \in 1 .. n : cells[i] \in CellType
  BY <1>1
<1>3. \A i \in 1 .. n : add[i] = SizeOfCell(cells[i]) /\ add[i] \in Nat
  BY <1>2, CellSize
<1>4. sum[0] = RowFixedBytes /\ \A i \in 1 .. n : sum[i] = sum[i - 1] + SizeOfCell(cells[i])
  BY <1>1, CellSizesRecur
<1>5. SizeOfRow(row) = sum[n]
  BY DEF SizeOfRow
<1> HIDE DEF sum, add
<1>6. Summing(sum, add, n)
  BY <1>3, <1>4 DEF Summing, RowFixedBytes
<1> HIDE DEF n
<1>7. sum[n] \in Nat /\ \A i \in 1 .. n : add[i] <= sum[n]
  BY <1>1, <1>6, SumBounds
<1> QED
  BY <1>3, <1>5, <1>7 DEF n

\* The size of rows is no less than that of each, and than the size they start with.
LEMMA RowsSize ==
  ASSUME NEW start \in Nat, NEW rows \in Seq(RowType)
  PROVE  /\ SizeOfRows(start, rows) \in Nat /\ start <= SizeOfRows(start, rows)
         /\ \A i \in 1 .. Len(rows) : SizeOfRow(rows[i]) <= SizeOfRows(start, rows)
<1> DEFINE n == Len(rows)
           sum == RowSizes(start, rows)
           add == [i \in 1 .. n |-> SizeOfRow(rows[i])]
<1>1. n \in Nat /\ \A i \in 1 .. n : rows[i] \in RowType
  OBVIOUS
<1>2. \A i \in 1 .. n : add[i] = SizeOfRow(rows[i]) /\ add[i] \in Nat
  BY <1>1, RowSize
<1>3. sum[0] = start /\ \A i \in 1 .. n : sum[i] = sum[i - 1] + SizeOfRow(rows[i])
  BY <1>1, RowSizesRecur
<1>4. SizeOfRows(start, rows) = sum[n]
  BY DEF SizeOfRows
<1> HIDE DEF sum, add
<1>5. Summing(sum, add, n)
  BY <1>2, <1>3 DEF Summing
<1> HIDE DEF n
<1>6. sum[n] \in Nat /\ sum[0] <= sum[n] /\ \A i \in 1 .. n : add[i] <= sum[n]
  BY <1>1, <1>5, SumBounds
<1> QED
  BY <1>2, <1>3, <1>4, <1>6 DEF n

\* Numbers up to the largest u32 are u32.
LEMMA UpToU32 == \A v \in Nat : v <= MaxU32 => v \in U32
BY LargestU32 DEF U32

\* The texts of rows that fit in a frame have lengths.
LEMMA RowsFit ==
  ASSUME NEW start \in Nat, NEW rows \in Seq(RowType), NEW cols \in Nat,
         SizeOfRows(start, rows) <= MaxFrameBytes, \A row \in ToSet(rows) : ValidRow(row, cols)
  PROVE  RowsWritable(rows, cols)
<1> DEFINE size == SizeOfRows(start, rows)
<1>1. size \in Nat /\ \A i \in 1 .. Len(rows) : SizeOfRow(rows[i]) <= size
  BY RowsSize
<1>2. size <= MaxFrameBytes /\ MaxFrameBytes \in Nat
  BY FrameAssumption
<1> HIDE DEF size
<1>3. size <= MaxU32 /\ MaxU32 \in Nat
  BY <1>1, <1>2, FrameLimitAssumption, LargestU32
<1> SUFFICES ASSUME NEW i \in 1 .. Len(rows)
             PROVE  RowWritable(rows[i], cols)
  BY DEF RowsWritable
<1> DEFINE row == rows[i]
<1>4. row \in RowType /\ row \in ToSet(rows)
  BY DEF ToSet
<1>5. ValidRow(row, cols) /\ SizeOfRow(row) <= size
  BY <1>1, <1>4
<1> HIDE DEF row
<1> DEFINE cells == row.cells
<1>6. cells \in Seq(CellType)
  BY <1>4 DEF RowType
<1>7. SizeOfRow(row) \in Nat /\ \A j \in 1 .. Len(cells) : SizeOfCell(cells[j]) <= SizeOfRow(row)
  BY <1>4, RowSize
<1> HIDE DEF cells
<1>8. ASSUME NEW j \in 1 .. Len(cells)
      PROVE  Writable(cells[j])
  <2> DEFINE cell == cells[j]
             x == Len(cell.text)
             y == Len(cell.link)
             c == SizeOfCell(cell)
             r == SizeOfRow(row)
  <2>1. cell \in CellType
    BY <1>6
  <2> HIDE DEF cell
  <2>2. c \in Nat /\ x \in Nat /\ y \in Nat /\ x <= c /\ y <= c
    BY <2>1, CellSize
  <2>3. c <= r /\ r \in Nat /\ r <= size
    BY <1>5, <1>7 DEF cell
  <2> HIDE DEF x, y, c, r
  <2>4. x <= MaxU32 /\ y <= MaxU32
    BY ONLY <1>1, <1>3, <2>2, <2>3
  <2>5. x \in U32 /\ y \in U32
    BY <2>2, <2>4, UpToU32
  <2> QED
    BY <2>5 DEF Writable, x, y, cell
<1>9. AllWritable(cells)
  BY <1>8 DEF AllWritable
<1> QED
  BY <1>4, <1>5, <1>9 DEF RowWritable, row, cells

\* The texts of a valid frame have lengths.
LEMMA FrameFits ==
  ASSUME NEW f \in FrameType, ValidFrame(f)
  PROVE  TitleWritable(f) /\ RowsWritable(f.lines, f.cols)
<1> DEFINE t == Len(f.title)
           w == Len(f.cwd)
           start == SizeStart(f.title, f.cwd, f.colour # <<>>, f.viewport # <<>>)
           rows == f.lines
           size == SizeOfRows(start, rows)
<1>1. t \in Nat /\ w \in Nat /\ f.cols \in Nat /\ rows \in Seq(RowType)
  BY FrameFieldTypes, NumbersPut DEF Utf8Text
<1>2. start \in Nat /\ t <= start /\ w <= start
  <2> DEFINE col == f.colour # <<>>
             pos == f.viewport # <<>>
             title == f.title
             cwd == f.cwd
             n == 19 + U64Bytes + (U32Bytes + t) + (U32Bytes + w) + 1 + (IF col THEN 3 ELSE 0)
                    + 3 * PaletteLen + 4 + 1 + (IF pos THEN 5 ELSE 0) + U64Bytes + U64Bytes
  <2>1. col \in BOOLEAN /\ pos \in BOOLEAN /\ Len(title) = t /\ Len(cwd) = w
    OBVIOUS
  <2>2. PaletteLen \in Nat /\ U64Bytes \in Nat /\ U32Bytes \in Nat
    BY PaletteFieldsAre, WireAssumption
  <2>3. start = SizeStart(title, cwd, col, pos)
    OBVIOUS
  <2> HIDE DEF col, pos, title, cwd, t, w, start
  <2>4. n \in Nat /\ t <= n /\ w <= n
    BY ONLY <1>1, <2>1, <2>2
  <2>5. n = 19 + U64Bytes + (U32Bytes + t) + (U32Bytes + w) + 1 + (IF col THEN 3 ELSE 0)
               + 3 * PaletteLen + 4 + 1 + (IF pos THEN 5 ELSE 0) + U64Bytes + U64Bytes
    OBVIOUS
  <2> HIDE DEF n
  <2>6. SizeStart(title, cwd, col, pos) = n
    BY ONLY <1>1, <2>1, <2>4, <2>5, HeadSize
  <2> QED
    BY <2>3, <2>4, <2>6
<1>3. size <= MaxFrameBytes /\ MaxFrameBytes \in Nat /\ MaxFrameBytes <= MaxU32 /\ MaxU32 \in Nat
  BY FrameAssumption, FrameLimitAssumption, LargestU32 DEF ValidFrame, FrameSize
<1>4. \A row \in ToSet(rows) : ValidRow(row, f.cols)
  BY DEF ValidFrame
<1> HIDE DEF start, rows, t, w
<1>5. size \in Nat /\ start <= size
  BY <1>1, <1>2, RowsSize
<1>6. RowsWritable(rows, f.cols)
  BY <1>1, <1>2, <1>3, <1>4, RowsFit
<1> HIDE DEF size
<1>7. t <= MaxU32 /\ w <= MaxU32
  BY ONLY <1>1, <1>2, <1>3, <1>5
<1>8. t \in U32 /\ w \in U32
  BY <1>1, <1>7, UpToU32
<1> QED
  BY <1>6, <1>8 DEF TitleWritable, t, w, rows

(***************************************************************************)
(* A valid frame is taken back as it was by whoever reads what it was      *)
(* encoded to, and FrameSize is how much that is (encode_frame,            *)
(* decode_frame, FrameSize).                                               *)
(***************************************************************************)
THEOREM FrameReturns ==
  ASSUME NEW f \in FrameType, ValidFrame(f)
  PROVE  /\ EncodeFrame(f) \in Seq(Byte) /\ Len(EncodeFrame(f)) = FrameSize(f)
         /\ DecodeFrame(EncodeFrame(f)) = f
<1> DEFINE bytes == FrameBytes(f)
           head == ReadHead(bytes)
           e == FrameOf(head.got)
           rows == RowsOf(head, e.cols, e.count)
           found == IF ValidHead(head.got, e) THEN rows ELSE Bad
<1>1. TitleWritable(f) /\ RowsWritable(f.lines, f.cols)
  BY FrameFits
<1>2. bytes \in Seq(Byte) /\ FrameRead(bytes, f, head) /\ e # Bad
  BY <1>1, FrameBack
<1> HIDE DEF bytes
<1>3. FrameSize(f) = Len(bytes) /\ EncodeFrame(f) = bytes
  <2> HIDE DEF head
  <2> QED
    BY ONLY <1>2, ValidFrame(f), FrameWhole
<1>4. FrameSize(f) <= MaxFrameBytes
  BY DEF ValidFrame
<1>5. ~(Len(bytes) > MaxFrameBytes)
  <2> DEFINE n == Len(bytes)
  <2>1. n \in Nat /\ MaxFrameBytes \in Nat /\ n <= MaxFrameBytes
    BY <1>2, <1>3, <1>4, FrameAssumption
  <2> HIDE DEF n
  <2>2. ~(n > MaxFrameBytes)
    BY ONLY <2>1
  <2> QED
    BY <2>2 DEF n
<1>6. DecodeFrame(bytes)
        = IF Len(bytes) > MaxFrameBytes THEN Bad
          ELSE IF head = Bad THEN Bad
          ELSE IF e = Bad THEN Bad
          ELSE IF found = Bad THEN Bad ELSE [e EXCEPT !.lines = found]
  BY Zenon DEF DecodeFrame, With
<1>7. /\ head # Bad /\ ValidHead(head.got, e) /\ rows # Bad /\ f = [e EXCEPT !.lines = rows]
  BY <1>2 DEF FrameRead
<1> HIDE DEF head, e, rows
<1>8. DecodeFrame(bytes) = f
  BY <1>2, <1>5, <1>6, <1>7
<1> QED
  BY <1>2, <1>3, <1>8

(***************************************************************************)
(* Rows that are encoded are taken back as they were                       *)
(* (encode_canonical_rows, decode_canonical_rows).                         *)
(***************************************************************************)
THEOREM RowsReturn ==
  ASSUME NEW rows \in Seq(RowType), NEW cols \in Nat, EncodeRows(rows, cols) # Bad
  PROVE  /\ EncodeRows(rows, cols) \in Seq(Byte)
         /\ Len(EncodeRows(rows, cols)) = SizeOfRows(0, rows)
         /\ DecodeRows(EncodeRows(rows, cols), cols, Len(rows)) = rows
<1> DEFINE n == Len(rows)
           bytes == PutRows(rows)
           start == 0
<1>1. /\ CellsWithin(cols, n) /\ \A row \in ToSet(rows) : ValidRow(row, cols)
      /\ SizeOfRows(0, rows) <= MaxFrameBytes /\ EncodeRows(rows, cols) = bytes
  BY DEF EncodeRows
<1>2. n \in Nat /\ n = Len(rows) /\ start \in Nat
  OBVIOUS
<1>3. SizeOfRows(start, rows) <= MaxFrameBytes
  BY <1>1
<1> HIDE DEF n, bytes, start
<1>4. RowsWritable(rows, cols)
  BY <1>1, <1>2, <1>3, RowsFit
<1>5. bytes \in Seq(Byte) /\ SizeOfRows(start, rows) = start + Len(bytes)
  BY <1>2, <1>4, RowsPut DEF bytes
<1>6. Len(bytes) \in Nat
  BY <1>5
<1>7. SizeOfRows(0, rows) = Len(bytes)
  <2> DEFINE m == Len(bytes)
  <2>1. m \in Nat /\ SizeOfRows(0, rows) = 0 + m
    BY <1>5, <1>6 DEF start
  <2> HIDE DEF m
  <2>2. SizeOfRows(0, rows) = m
    BY ONLY <2>1
  <2> QED
    BY <2>2 DEF m
<1>8. RowsOf(Reader(bytes), cols, n) = rows
  <2> DEFINE r == Reader(bytes)
  <2>1. r.rest = PutRows(rows)
    BY DEF Reader, bytes
  <2> HIDE DEF r
  <2>2. RowsOf(r, cols, n) = rows
    BY <1>2, <1>4, <2>1, RowsBack
  <2> QED
    BY <2>2 DEF r
<1>9. DecodeRows(bytes, cols, n) = rows
  BY <1>1, <1>7, <1>8 DEF DecodeRows
<1> QED
  BY <1>1, <1>5, <1>7, <1>9 DEF n
-----------------------------------------------------------------------------
(***************************************************************************)
(* Induction and recursion.                                                *)
(***************************************************************************)
\* Rounds is what its recursion says,
LEMMA RoundsRecur ==
  ASSUME NEW s, NEW n \in Nat, n = MaxRounds(s)
  PROVE  /\ Rounds(s)[0] = {s}
         /\ \A i \in 1 .. n : Rounds(s)[i] = Round(Rounds(s)[i - 1])
<1> DEFINE Start == {s}
           Step(v, i) == Round(v)
           Is(f, k) == f = [i \in 0 .. k |-> IF i = 0 THEN Start ELSE Step(f[i - 1], i)]
           T == {k \in 0 .. n : \E f : Is(f, k)}
           f == Rounds(s)
<1>1. f = CHOOSE g : Is(g, n)
  BY DEF Rounds
<1> HIDE DEF Start, Step, f
<1>2. 0 \in T
  <2>1. Is([i \in 0 .. 0 |-> Start], 0)
    OBVIOUS
  <2> HIDE DEF Is
  <2> QED
    BY <2>1
<1>3. ASSUME NEW k \in 0 .. n - 1, k \in T
      PROVE  k + 1 \in T
  <2>1. PICK h : Is(h, k)
    BY <1>3
  <2> DEFINE g == [i \in 0 .. k + 1 |-> IF i = k + 1 THEN Step(h[k], i) ELSE h[i]]
  <2>2. \A i \in 0 .. k + 1 : g[i] = IF i = 0 THEN Start ELSE Step(g[i - 1], i)
    BY <2>1
  <2>3. Is(g, k + 1)
    BY <2>2
  <2> HIDE DEF g, Is
  <2> QED
    BY <2>3
<1>4. n \in T
  <2>1. T \in SUBSET (0 .. n)
    OBVIOUS
  <2> HIDE DEF T
  <2>2. T = 0 .. n
    BY <1>2, <1>3, <2>1, RoundsInduct
  <2> QED
    BY <2>2
<1>5. Is(f, n)
  BY <1>1, <1>4
<1>6. f[0] = Start /\ \A i \in 1 .. n : f[i] = Step(f[i - 1], i)
  BY <1>5
<1> QED
  BY <1>6 DEF f, Start, Step

\* and ClientRounds.
LEMMA ClientRoundsRecur ==
  ASSUME NEW s, NEW n \in Nat, n = MaxSent + 1
  PROVE  /\ ClientRounds(s)[0] = s
         /\ \A i \in 1 .. n : ClientRounds(s)[i] = ClientRound(ClientRounds(s)[i - 1])
<1> DEFINE Start == s
           Step(v, i) == ClientRound(v)
           Is(f, k) == f = [i \in 0 .. k |-> IF i = 0 THEN Start ELSE Step(f[i - 1], i)]
           T == {k \in 0 .. n : \E f : Is(f, k)}
           f == ClientRounds(s)
<1>1. f = CHOOSE g : Is(g, n)
  BY DEF ClientRounds
<1> HIDE DEF Start, Step, f
<1>2. 0 \in T
  <2>1. Is([i \in 0 .. 0 |-> Start], 0)
    OBVIOUS
  <2> HIDE DEF Is
  <2> QED
    BY <2>1
<1>3. ASSUME NEW k \in 0 .. n - 1, k \in T
      PROVE  k + 1 \in T
  <2>1. PICK h : Is(h, k)
    BY <1>3
  <2> DEFINE g == [i \in 0 .. k + 1 |-> IF i = k + 1 THEN Step(h[k], i) ELSE h[i]]
  <2>2. \A i \in 0 .. k + 1 : g[i] = IF i = 0 THEN Start ELSE Step(g[i - 1], i)
    BY <2>1
  <2>3. Is(g, k + 1)
    BY <2>2
  <2> HIDE DEF g, Is
  <2> QED
    BY <2>3
<1>4. n \in T
  <2>1. T \in SUBSET (0 .. n)
    OBVIOUS
  <2> HIDE DEF T
  <2>2. T = 0 .. n
    BY <1>2, <1>3, <2>1, RoundsInduct
  <2> QED
    BY <2>2
<1>5. Is(f, n)
  BY <1>1, <1>4
<1>6. f[0] = Start /\ \A i \in 1 .. n : f[i] = Step(f[i - 1], i)
  BY <1>5
<1> QED
  BY <1>6 DEF f, Start, Step


-----------------------------------------------------------------------------
(***************************************************************************)
(* The length that a header announces.                                     *)
(***************************************************************************)
\* No message of the input is complete.
NoMore(input) ==
  LET length == ClientMessageLen(input)
  IN  length = Incomplete \/ (length # Bad /\ Len(input) < length)

\* Nothing is shorter than a header, and no kind has limits below zero.
LEMMA HeaderIsPositive == HeaderBytes \in Nat \ {0} /\ HeaderBytes >= 10
BY WireAssumption DEF HeaderBytes

\* A length that is announced is that of a header at least,
LEMMA LengthAnnounced ==
  ASSUME NEW input \in Seq(Byte), NEW kinds, NEW first, NEW limits,
         MessageLen(input, kinds, first, limits) # Bad,
         MessageLen(input, kinds, first, limits) # Incomplete
  PROVE  /\ MessageLen(input, kinds, first, limits) \in Nat
         /\ MessageLen(input, kinds, first, limits) >= HeaderBytes
<1> DEFINE kind == KindOf(kinds, first, input[7])
           bytes == SubSeq(input, 9, HeaderBytes)
           payload == Num(bytes)
<1>1. MessageLen(input, kinds, first, limits) =
        IF Len(input) < HeaderBytes THEN Incomplete
        ELSE IF /\ SubSeq(input, 1, 4) = SessionMagic
                /\ Num(SubSeq(input, 5, 6)) = SessionVersion
                /\ input[8] = 0
                /\ kind # Bad
             THEN Checked(HeaderBytes + payload, Within(payload, limits[kind]))
             ELSE Bad
  BY DEF MessageLen
<1>2. /\ ~(Len(input) < HeaderBytes)
      /\ MessageLen(input, kinds, first, limits) = HeaderBytes + payload
  <2> HIDE DEF kind, payload
  <2> QED
    BY <1>1 DEF Checked
<1>3. bytes \in Seq(Byte)
  BY <1>2, HeaderIsPositive
<1> HIDE DEF bytes
<1>4. payload \in Nat
  BY <1>3, NumIsNat
<1> HIDE DEF payload
<1> QED
  BY <1>2, <1>4, HeaderIsPositive

\* to the owner
LEMMA ClientLength ==
  ASSUME NEW input \in Seq(Byte),
         ClientMessageLen(input) # Bad, ClientMessageLen(input) # Incomplete
  PROVE  ClientMessageLen(input) \in Nat /\ ClientMessageLen(input) >= HeaderBytes
BY LengthAnnounced DEF ClientMessageLen

\* and to a client.
LEMMA ServerLength ==
  ASSUME NEW input \in Seq(Byte),
         ServerMessageLen(input) # Bad, ServerMessageLen(input) # Incomplete
  PROVE  ServerMessageLen(input) \in Nat /\ ServerMessageLen(input) >= HeaderBytes
BY LengthAnnounced DEF ServerMessageLen

\* Of no bytes nothing is known.
LEMMA NoLength == ClientMessageLen(<<>>) = Incomplete /\ ~UnsupportedVersion(<<>>)
<1>1. Len(<<>>) < HeaderBytes
  BY HeaderIsPositive
<1> QED
  BY <1>1, HeaderIsPositive DEF ClientMessageLen, MessageLen, UnsupportedVersion

-----------------------------------------------------------------------------
(***************************************************************************)
(* What the decoders yield.                                                *)
(***************************************************************************)
\* A message of a client carries no frame.
LEMMA ClientHasNoFrame ==
  ASSUME NEW bytes \in Seq(Byte), Len(bytes) >= HeaderBytes, DecodeClient(bytes) # Bad
  PROVE  FramesIn(DecodeClient(bytes)) = <<>>
<1> DEFINE m == DecodeClient(bytes)
<1>1. m.type \in {"Hello", "Key", "Mouse", "Focus", "Paste", "Resize", "Selection",
                  "PreviewVertical", "ObserveMetadata", "ScrollVertical", "ReturnToLive"}
  BY ClientSpelled
<1> HIDE DEF m
<1> QED
  BY <1>1 DEF FramesIn, m

\* A frame that FrameReducer.push refuses for nothing but its revision.
Presentable(frame) ==
  /\ frame.revision \in Nat
  /\ ValidCapabilities(frame)
  /\ ValidScrollPosition(frame)
  /\ \A row \in ToSet(frame.lines) : ValidTopology(row)

\* The messages of the server that carry a frame carry a presentable one.
LEMMA ServerFrame ==
  ASSUME NEW bytes \in Seq(Byte), Len(bytes) >= HeaderBytes, DecodeServer(bytes) # Bad,
         FramesIn(DecodeServer(bytes)) # <<>>
  PROVE  Presentable(DecodeServer(bytes).frame)
<1> DEFINE m == DecodeServer(bytes)
<1>1. m.type \in {"Frame", "WheelViewport", "ScrollViewport"}
        => ValidFrame(m.frame) /\ m.frame.revision \in Nat
  BY ServerSpelled, Zenon
<1>2. m.type \in {"Frame", "WheelViewport", "ScrollViewport"}
  BY DEF FramesIn
<1> HIDE DEF m
<1>3. ValidFrame(m.frame) /\ m.frame.revision \in Nat
  BY <1>1, <1>2
<1>4. Presentable(m.frame)
  BY <1>3 DEF Presentable, ValidFrame, ValidRow
<1> QED
  BY <1>4 DEF m

-----------------------------------------------------------------------------
(***************************************************************************)
(* The states of a connection in a step, and what a round makes of them.   *)
(***************************************************************************)
\* ShowsNewest of the messages t and the frame current, and what an induction needs of them.
Newest(t, current) ==
  LET withFrame == {i \in 1 .. Len(t) : FramesIn(t[i]) # <<>>}
      Revision(i) == t[i].frame.revision
      IsNewest(i) == \A j \in withFrame : /\ Revision(j) <= Revision(i)
                                          /\ j < i => Revision(j) < Revision(i)
  IN  /\ IsSeq(t)
      /\ \A i \in withFrame : Revision(i) \in Nat
      /\ IF withFrame = {} THEN current = <<>>
         ELSE \E i \in withFrame : IsNewest(i) /\ current = <<t[i].frame>>

\* A closing connection has forgotten its input.
IsConn(c) ==
  /\ c = [role |-> c.role, closing |-> c.closing, input |-> c.input]
  /\ c.closing \in BOOLEAN
  /\ c.input \in Seq(Byte)
  /\ c.closing => c.input = <<>>

IsState(s) ==
  /\ s = [conn |-> s.conn, taken |-> s.taken, served |-> s.served, shown |-> s.shown,
          more |-> s.more]
  /\ IsConn(s.conn)
  /\ s.served \in Nat
  /\ s.more \in BOOLEAN
  /\ Newest(s.taken, s.shown)

\* A message without a frame changes nothing of what is shown.
LEMMA NewestPlain ==
  ASSUME NEW t, NEW current, Newest(t, current), NEW m, FramesIn(m) = <<>>
  PROVE  Newest(Append(t, m), current)
<1> DEFINE u == Append(t, m)
           n == Len(t)
           W(x) == {i \in 1 .. Len(x) : FramesIn(x[i]) # <<>>}
<1>1. PICK X : t \in Seq(X)
  BY DEF Newest, IsSeq
<1>2. t \in Seq(X \union {m})
  BY <1>1
<1>3. u \in Seq(X \union {m})
  BY <1>2
<1>4. n \in Nat
  BY <1>1
<1>5. Len(u) = n + 1 /\ u[n + 1] = m /\ \A i \in 1 .. n : u[i] = t[i]
  BY <1>2
<1>6. IsSeq(u)
  BY <1>3 DEF IsSeq
<1>7. W(u) = W(t)
  BY <1>4, <1>5
<1> HIDE DEF u, n
<1>8. \A i \in W(t) : u[i] = t[i]
  BY <1>5 DEF n
<1> QED
  BY <1>6, <1>7, <1>8 DEF Newest, u

\* The first of the highest revision is what a reducer shows.
LEMMA NewestFrame ==
  ASSUME NEW t, NEW current, Newest(t, current), NEW m, FramesIn(m) # <<>>,
         m.frame.revision \in Nat, ValidCapabilities(m.frame), ValidScrollPosition(m.frame),
         \A row \in ToSet(m.frame.lines) : ValidTopology(row)
  PROVE  Newest(Append(t, m), Showing(current, m))
<1> DEFINE u == Append(t, m)
           n == Len(t)
           W(x) == {i \in 1 .. Len(x) : FramesIn(x[i]) # <<>>}
           R(i) == u[i].frame.revision
           after == Showing(current, m)
<1>1. PICK X : t \in Seq(X)
  BY DEF Newest, IsSeq
<1>2. t \in Seq(X \union {m})
  BY <1>1
<1>3. u \in Seq(X \union {m})
  BY <1>2
<1>4. n \in Nat
  BY <1>1
<1>5. Len(u) = n + 1 /\ u[n + 1] = m /\ \A i \in 1 .. n : u[i] = t[i]
  BY <1>2
<1>6. IsSeq(u)
  BY <1>3 DEF IsSeq
<1>7. W(u) = W(t) \union {n + 1}
  BY <1>4, <1>5
<1>8. \A i \in W(t) : i \in 1 .. n /\ u[i] = t[i]
  BY <1>5
<1>9. \A i \in W(u) : R(i) \in Nat
  BY <1>5, <1>7, <1>8 DEF Newest
<1>10. after = IF \A shown_ \in ToSet(current) : m.frame.revision > shown_.revision
              THEN <<m.frame>> ELSE current
  BY DEF Showing, Admits
<1>11. \E i \in W(u) : /\ \A j \in W(u) : R(j) <= R(i) /\ (j < i => R(j) < R(i))
                      /\ after = <<u[i].frame>>
  <2>1. CASE W(t) = {}
    <3>1. current = <<>>
      BY <2>1 DEF Newest
    <3>2. ToSet(current) = {}
      BY <3>1 DEF ToSet
    <3>3. after = <<u[n + 1].frame>>
      BY <1>5, <1>10, <3>2
    <3> HIDE DEF u, n, after, W
    <3>4. W(u) = {n + 1} /\ R(n + 1) \in Nat
      BY <1>7, <1>9, <2>1
    <3> QED
      BY <1>4, <3>3, <3>4
  <2>2. CASE W(t) # {}
    <3>1. PICK i \in W(t) : /\ \A j \in W(t) : /\ t[j].frame.revision <= t[i].frame.revision
                                               /\ j < i => t[j].frame.revision < t[i].frame.revision
                            /\ current = <<t[i].frame>>
      BY <2>2 DEF Newest
    <3>2. ToSet(current) = {t[i].frame}
      BY <3>1 DEF ToSet
    <3> HIDE DEF u, n, after, W
    <3>3. R(i) = t[i].frame.revision /\ \A j \in W(t) : R(j) <= R(i) /\ (j < i => R(j) < R(i))
      BY <1>8, <3>1
    <3>4. i \in W(u) /\ n + 1 \in W(u) /\ i < n + 1 /\ R(n + 1) = m.frame.revision
      BY <1>4, <1>5, <1>7, <1>8
    <3>5. CASE m.frame.revision > R(i)
      <4>1. after = <<u[n + 1].frame>>
        BY <1>5, <1>10, <3>2, <3>3, <3>5
      <4>2. \A j \in W(u) : R(j) <= R(n + 1) /\ (j < n + 1 => R(j) < R(n + 1))
        BY <1>4, <1>7, <1>9, <3>3, <3>4, <3>5
      <4> QED
        BY <3>4, <4>1, <4>2
    <3>6. CASE ~(m.frame.revision > R(i))
      <4>1. after = <<u[i].frame>>
        BY <1>8, <1>10, <3>1, <3>2, <3>3, <3>6
      <4>2. \A j \in W(u) : R(j) <= R(i) /\ (j < i => R(j) < R(i))
        BY <1>4, <1>7, <1>8, <1>9, <3>3, <3>4, <3>6
      <4> QED
        BY <3>4, <4>1, <4>2
    <3> QED
      BY <3>5, <3>6
  <2> QED
    BY <2>1, <2>2
<1>12. W(u) # {}
  BY <1>7
<1> HIDE DEF u, n, after
<1> QED
  BY <1>6, <1>9, <1>11, <1>12 DEF Newest, u, after


\* A state that is given by its parts.
LEMMA StateParts ==
  ASSUME NEW r, NEW c \in BOOLEAN, NEW i \in Seq(Byte), c => i = <<>>,
         NEW t, NEW current, Newest(t, current), NEW n \in Nat, NEW m \in BOOLEAN,
         NEW s, s = [conn |-> [role |-> r, closing |-> c, input |-> i],
                     taken |-> t, served |-> n, shown |-> current, more |-> m]
  PROVE  /\ IsState(s)
         /\ s.conn = [role |-> r, closing |-> c, input |-> i]
         /\ s.conn.role = r /\ s.conn.closing = c /\ s.conn.input = i
         /\ s.taken = t /\ s.served = n /\ s.shown = current /\ s.more = m
BY DEF IsState, IsConn

\* What closing, losing and leaving a connection make of its state, and taking a message.
LEMMA StateForms ==
  ASSUME NEW s, IsState(s)
  PROVE  /\ LET t == CloseWhenFlushed(s)
            IN  /\ IsState(t)
                /\ t.conn.role = s.conn.role /\ t.conn.closing /\ t.conn.input = <<>>
                /\ t.taken = s.taken /\ t.served = s.served /\ t.shown = s.shown /\ ~t.more
         /\ LET t == [s EXCEPT !.conn.role = "gone", !.more = FALSE]
            IN  /\ IsState(t)
                /\ t.conn.role = "gone"
                /\ t.conn.closing = s.conn.closing /\ t.conn.input = s.conn.input
                /\ t.taken = s.taken /\ t.served = s.served /\ t.shown = s.shown /\ ~t.more
         /\ LET t == [s EXCEPT !.more = FALSE]
            IN  /\ IsState(t)
                /\ t.conn.role = s.conn.role
                /\ t.conn.closing = s.conn.closing /\ t.conn.input = s.conn.input
                /\ t.taken = s.taken /\ t.served = s.served /\ t.shown = s.shown /\ ~t.more
         /\ LET t == [s EXCEPT !.served = @ + 1]
            IN  /\ IsState(t)
                /\ t.conn = s.conn
                /\ t.taken = s.taken /\ t.shown = s.shown /\ t.more = s.more
<1> DEFINE c == s.conn
           role == c.role
           closing == c.closing
           input == c.input
           taken_ == s.taken
           served_ == s.served
           shown_ == s.shown
           more == s.more
<1>1. s = [conn |-> [role |-> role, closing |-> closing, input |-> input],
           taken |-> taken_, served |-> served_, shown |-> shown_, more |-> more]
  BY DEF IsState, IsConn
<1> DEFINE yes == TRUE
           no == FALSE
           Record(r, cl, i, t, v, m) ==
             [conn |-> [role |-> r, closing |-> cl, input |-> i],
              taken |-> t, served |-> v, shown |-> shown_, more |-> m]
<1> HIDE DEF role, closing, input, taken_, served_, shown_, more, yes, no
<1>2. /\ closing \in BOOLEAN /\ input \in Seq(Byte) /\ (closing => input = <<>>)
      /\ served_ \in Nat /\ more \in BOOLEAN /\ Newest(taken_, shown_)
      /\ yes \in BOOLEAN /\ no \in BOOLEAN /\ <<>> \in Seq(Byte) /\ yes /\ ~no
  BY DEF IsState, IsConn, closing, input, taken_, served_, shown_, more, yes, no
<1>3. LET t == CloseWhenFlushed(s)
      IN  /\ IsState(t)
          /\ t.conn.role = role /\ t.conn.closing /\ t.conn.input = <<>>
          /\ t.taken = taken_ /\ t.served = served_ /\ t.shown = shown_ /\ ~t.more
  <2> DEFINE s1 == [s EXCEPT !.conn.closing = yes]
             s2 == [s1 EXCEPT !.conn.input = <<>>]
             s3 == [s2 EXCEPT !.more = no]
  <2>1. s1 = Record(role, yes, input, taken_, served_, more)
    BY <1>1
  <2>2. s3 = CloseWhenFlushed(s)
    <3>1. s3 = [s EXCEPT !.conn.closing = yes, !.conn.input = <<>>, !.more = no]
      OBVIOUS
    <3> HIDE DEF s3
    <3> QED
      BY ONLY <3>1, Zenon DEF CloseWhenFlushed, yes, no
  <2> HIDE DEF s1
  <2>3. s2 = Record(role, yes, <<>>, taken_, served_, more)
    BY <2>1
  <2> HIDE DEF s2
  <2>4. s3 = Record(role, yes, <<>>, taken_, served_, no)
    BY <2>3
  <2> HIDE DEF s3
  <2> DEFINE d == [role |-> role, closing |-> yes, input |-> <<>>]
  <2>5. IsConn(d) /\ d.role = role /\ d.closing = yes /\ d.input = <<>>
    BY <1>2 DEF IsConn
  <2> HIDE DEF d
  <2>6. /\ s3 = [conn |-> d, taken |-> taken_, served |-> served_, shown |-> shown_, more |-> no]
        /\ s3.conn = d /\ s3.taken = taken_ /\ s3.served = served_ /\ s3.shown = shown_
        /\ s3.more = no
    BY <2>4 DEF d
  <2>7. IsState(s3)
    BY <1>2, <2>5, <2>6 DEF IsState
  <2>8. s3.conn.closing /\ ~s3.more
    BY <1>2, <2>5, <2>6
  <2> QED
    BY <2>2, <2>5, <2>6, <2>7, <2>8, Zenon
<1>4. LET t == [s EXCEPT !.conn.role = "gone", !.more = FALSE]
      IN  /\ IsState(t)
          /\ t.conn.role = "gone" /\ t.conn.closing = closing /\ t.conn.input = input
          /\ t.taken = taken_ /\ t.served = served_ /\ t.shown = shown_ /\ ~t.more
  <2> DEFINE s1 == [s EXCEPT !.conn.role = "gone"]
             s2 == [s1 EXCEPT !.more = no]
  <2>1. s1 = Record("gone", closing, input, taken_, served_, more)
    BY <1>1
  <2>2. s2 = [s EXCEPT !.conn.role = "gone", !.more = FALSE]
    <3>1. s2 = [s EXCEPT !.conn.role = "gone", !.more = no]
      OBVIOUS
    <3> HIDE DEF s2
    <3> QED
      BY ONLY <3>1, Zenon DEF no
  <2> HIDE DEF s1
  <2>3. s2 = Record("gone", closing, input, taken_, served_, no)
    BY <2>1
  <2> HIDE DEF s2
  <2>4. /\ IsState(s2)
        /\ s2.conn.role = "gone" /\ s2.conn.closing = closing /\ s2.conn.input = input
        /\ s2.taken = taken_ /\ s2.served = served_ /\ s2.shown = shown_ /\ s2.more = no
    BY <1>2, <2>3, SMTT(30) DEF IsState, IsConn
  <2>5. ~s2.more
    BY <1>2, <2>4
  <2> QED
    BY <2>2, <2>4, <2>5, Zenon
<1>5. LET t == [s EXCEPT !.more = FALSE]
      IN  /\ IsState(t)
          /\ t.conn.role = role /\ t.conn.closing = closing /\ t.conn.input = input
          /\ t.taken = taken_ /\ t.served = served_ /\ t.shown = shown_ /\ ~t.more
  <2> DEFINE s1 == [s EXCEPT !.more = no]
  <2>1. s1 = Record(role, closing, input, taken_, served_, no)
    BY <1>1
  <2>2. s1 = [s EXCEPT !.more = FALSE]
    BY ONLY Zenon DEF no
  <2> HIDE DEF s1
  <2>3. /\ IsState(s1)
        /\ s1.conn.role = role /\ s1.conn.closing = closing /\ s1.conn.input = input
        /\ s1.taken = taken_ /\ s1.served = served_ /\ s1.shown = shown_ /\ s1.more = no
    BY <1>2, <2>1, StateParts
  <2>4. ~s1.more
    BY <1>2, <2>3
  <2> QED
    BY <2>2, <2>3, <2>4, Zenon
<1>6. s.conn = [role |-> role, closing |-> closing, input |-> input]
  BY <1>1
<1>7. LET t == [s EXCEPT !.served = @ + 1]
      IN  /\ IsState(t)
          /\ t.conn = s.conn
          /\ t.taken = taken_ /\ t.shown = shown_ /\ t.more = more
  <2> DEFINE s1 == [s EXCEPT !.served = @ + 1]
  <2>1. s1 = Record(role, closing, input, taken_, served_ + 1, more)
    BY <1>1
  <2>2. served_ + 1 \in Nat
    BY <1>2
  <2> HIDE DEF s1
  <2>3. IsState(s1) /\ s1.conn = [role |-> role, closing |-> closing, input |-> input]
        /\ s1.taken = taken_ /\ s1.shown = shown_ /\ s1.more = more
    BY <1>2, <2>1, <2>2, SMTT(30) DEF IsState, IsConn
  <2> QED
    BY <1>6, <2>3 DEF s1
<1> QED
  BY ONLY <1>3, <1>4, <1>5, <1>7, Zenon
  DEF role, closing, input, taken_, served_, shown_, more

\* Taking a message out, which the reader of a client may show.
TakenOut(s, left, all) == [s EXCEPT !.conn.input = left, !.taken = all]
ShownOut(s, left, all, current) ==
  [s EXCEPT !.conn.input = left, !.taken = all, !.shown = current]

\* What is left of s in t.
Follows(s, t, left) ==
  /\ IsState(t)
  /\ t.conn.role = s.conn.role /\ t.conn.closing = s.conn.closing /\ t.conn.input = left
  /\ t.served = s.served /\ t.more = s.more

\* Both keep the rest of the state.
LEMMA TakenForm ==
  ASSUME NEW s, NEW left, NEW all, NEW current,
         IsState(s), ~s.conn.closing, left \in Seq(Byte), Newest(all, current)
  PROVE  /\ current = s.shown
              => Follows(s, TakenOut(s, left, all), left) /\ TakenOut(s, left, all).taken = all
         /\ Follows(s, ShownOut(s, left, all, current), left)
         /\ ShownOut(s, left, all, current).taken = all
<1> DEFINE c == s.conn
           role == c.role
           closing == c.closing
           input == c.input
           served_ == s.served
           shown_ == s.shown
           more == s.more
           Record(i, t, v) ==
             [conn |-> [role |-> role, closing |-> closing, input |-> i],
              taken |-> t, served |-> served_, shown |-> v, more |-> more]
           s1 == [s EXCEPT !.conn.input = left]
           s2 == [s1 EXCEPT !.taken = all]
           s3 == [s2 EXCEPT !.shown = current]
<1>1. s = Record(input, s.taken, shown_)
  BY DEF IsState, IsConn
<1> HIDE DEF role, closing, input, served_, shown_, more
<1>2. /\ closing \in BOOLEAN /\ ~closing
      /\ served_ \in Nat /\ more \in BOOLEAN
  BY DEF IsState, IsConn, closing, served_, more
<1>3. /\ s2 = TakenOut(s, left, all)
      /\ s3 = ShownOut(s, left, all, current)
  BY DEF TakenOut, ShownOut
<1>4. s1 = Record(left, s.taken, shown_)
  BY <1>1
<1> HIDE DEF s1
<1>5. s2 = Record(left, all, shown_)
  BY <1>4
<1> HIDE DEF s2
<1>6. s3 = Record(left, all, current)
  BY <1>5
<1> HIDE DEF s3
<1>7. /\ IsState(s3)
      /\ s3.conn.role = role /\ s3.conn.closing = closing /\ s3.conn.input = left
      /\ s3.taken = all /\ s3.served = served_ /\ s3.more = more
  BY <1>2, <1>6, StateParts
<1>8. current = shown_
        => /\ IsState(s2)
           /\ s2.conn.role = role /\ s2.conn.closing = closing /\ s2.conn.input = left
           /\ s2.taken = all /\ s2.served = served_ /\ s2.more = more
  BY <1>2, <1>5, StateParts
<1>9. /\ Follows(s, s3, left) /\ s3.taken = all
      /\ current = s.shown => Follows(s, s2, left) /\ s2.taken = all
  BY ONLY <1>7, <1>8, Zenon DEF Follows, role, closing, served_, shown_, more
<1> QED
  BY ONLY <1>3, <1>9

\* The first message of the input is taken out of it.
Took(s, rest, bytes, left) ==
  /\ bytes \in Seq(Byte) /\ Len(bytes) >= HeaderBytes /\ DecodeClient(bytes) # Bad
  /\ left \in Seq(Byte) /\ s.conn.input = Join(bytes, left)
  /\ ~s.conn.closing
  /\ Follows(s, rest, left) /\ rest.taken = Append(s.taken, DecodeClient(bytes))

\* Bytes are what is cut from them and what is left.
LEMMA CutBytes ==
  \A s \in Seq(Byte) : \A n \in 0 .. Len(s) :
    LET cut == SubSeq(s, 1, n)
        left == SubSeq(s, n + 1, Len(s))
    IN  cut \in Seq(Byte) /\ Len(cut) = n /\ left \in Seq(Byte) /\ s = Join(cut, left)
<1>1. SUFFICES ASSUME NEW s \in Seq(Byte), NEW n \in 0 .. Len(s)
               PROVE  /\ SubSeq(s, 1, n) \in Seq(Byte) /\ Len(SubSeq(s, 1, n)) = n
                      /\ SubSeq(s, n + 1, Len(s)) \in Seq(Byte)
                      /\ s = SubSeq(s, 1, n) \o SubSeq(s, n + 1, Len(s))
  BY Zenon DEF Join
<1> QED
  BY Split, Zenon

\* A message of that length is taken out.
LEMMA TookFirst ==
  ASSUME NEW s, IsState(s), NEW input, input = s.conn.input,
         NEW length \in Nat, length = ClientMessageLen(input),
         length >= HeaderBytes, length <= Len(input),
         NEW bytes, bytes = SubSeq(input, 1, length), DecodeClient(bytes) # Bad,
         NEW left, left = SubSeq(input, length + 1, Len(input))
  PROVE  Took(s, TakenOut(s, left, Append(s.taken, DecodeClient(bytes))), bytes, left)
<1> DEFINE message == DecodeClient(bytes)
           all == Append(s.taken, message)
           rest == TakenOut(s, left, all)
<1>1. /\ input \in Seq(Byte) /\ Len(input) \in Nat /\ Newest(s.taken, s.shown)
      /\ s.conn.closing => input = <<>>
  BY DEF IsState, IsConn
<1>2. length \in 0 .. Len(input)
  BY <1>1
<1>3. /\ bytes \in Seq(Byte) /\ Len(bytes) = length /\ left \in Seq(Byte)
      /\ input = Join(bytes, left)
  BY ONLY <1>1, <1>2, CutBytes, bytes = SubSeq(input, 1, length),
          left = SubSeq(input, length + 1, Len(input))
<1>4. ~s.conn.closing
  BY <1>1, HeaderIsPositive
<1>5. FramesIn(message) = <<>>
  BY <1>3, ClientHasNoFrame
<1> HIDE DEF message
<1>6. Newest(all, s.shown)
  BY <1>1, <1>5, NewestPlain
<1> HIDE DEF all
<1>7. Follows(s, TakenOut(s, left, all), left) /\ TakenOut(s, left, all).taken = all
  <2> DEFINE current == s.shown
  <2> HIDE DEF current
  <2>1. Newest(all, current) /\ current = s.shown
    BY <1>6 DEF current
  <2> QED
    BY ONLY IsState(s), <1>3, <1>4, <2>1, TakenForm
<1>8. Took(s, rest, bytes, left)
  BY <1>3, <1>4, <1>7, Zenon DEF Took, all, message
<1> QED
  BY <1>8 DEF all, message

\* What next_incoming leaves: a rejection, the same with no message complete, or what is left
\* when a message is taken out, which may be rejected too.
LEMMA IncomingForms ==
  ASSUME NEW s, IsState(s), NEW t \in NextIncoming(s)
  PROVE  \/ t \in Rejections(s)
         \/ t = [s EXCEPT !.more = FALSE] /\ NoMore(s.conn.input)
         \/ \E rest, bytes, left : /\ Took(s, rest, bytes, left)
                                   /\ t \in {rest} \union Rejections(rest)
<1> DEFINE input == s.conn.input
           length == ClientMessageLen(input)
           bytes == SubSeq(input, 1, length)
           left == SubSeq(input, length + 1, Len(input))
           message == DecodeClient(bytes)
           all == Append(s.taken, message)
           rest == TakenOut(s, left, all)
           gone == [s EXCEPT !.conn.role = "gone", !.more = FALSE]
           idle == [s EXCEPT !.more = FALSE]
           next == NextIncoming(s)
<1>1. input \in Seq(Byte) /\ Len(input) \in Nat
  BY DEF IsState, IsConn
<1>2. next = CASE UnsupportedVersion(input) -> {gone}
               [] length = Bad /\ ~UnsupportedVersion(input) -> Rejections(s)
               [] length = Incomplete -> {idle}
               [] OTHER ->
                    IF s.conn.role = "metadata" THEN Rejections(s)
                    ELSE IF Len(input) < length THEN {idle}
                    ELSE Decoded(s, message, length)
  BY DEF NextIncoming
<1>3. gone \in Rejections(s)
  BY DEF Rejections
<1>4. Decoded(s, message, length)
        = IF message = Bad THEN Rejections(s)
          ELSE IF (message.type \in {"Hello", "ObserveMetadata"}) # (s.conn.role = "pending")
          THEN Rejections(rest) ELSE {rest}
  BY DEF Decoded, TakenOut
<1>5. t \in next
  OBVIOUS
<1>6. length # Bad /\ length # Incomplete => length \in Nat /\ length >= HeaderBytes
  BY <1>1, ClientLength
<1> HIDE DEF input, length, message, next, gone, idle, rest
<1>7. \/ next = {gone}
      \/ next = Rejections(s)
      \/ next = {idle} /\ (length = Incomplete \/ (length # Bad /\ Len(input) < length))
      \/ /\ next = Decoded(s, message, length)
         /\ length # Bad /\ length # Incomplete /\ ~(Len(input) < length)
  <2> DEFINE U == UnsupportedVersion(input)
             B == length = Bad
             I == length = Incomplete
             M == s.conn.role = "metadata"
             S == Len(input) < length
             R == Rejections(s)
             D == Decoded(s, message, length)
  <2>1. next = CASE U -> {gone}
                 [] B /\ ~U -> R
                 [] I -> {idle}
                 [] OTHER -> IF M THEN R ELSE IF S THEN {idle} ELSE D
    BY <1>2
  <2> HIDE DEF U, B, I, M, S, R, D
  <2>2. \/ next = {gone}
        \/ next = R
        \/ next = {idle} /\ (I \/ (~B /\ S))
        \/ next = D /\ ~B /\ ~I /\ ~S
    BY ONLY <2>1
  <2> QED
    BY ONLY <2>2 DEF B, I, S, R, D
<1>8. CASE next = {gone} \/ next = Rejections(s)
  BY <1>3, <1>5, <1>8
<1>9. CASE next = {idle} /\ (length = Incomplete \/ (length # Bad /\ Len(input) < length))
  BY <1>5, <1>9, Zenon DEF idle, NoMore, length, input
<1>10. CASE /\ next = Decoded(s, message, length)
            /\ length # Bad /\ length # Incomplete /\ ~(Len(input) < length)
  <2>1. CASE message = Bad
    BY <1>4, <1>5, <1>10, <2>1
  <2>2. CASE message # Bad
    <3>1. length \in Nat /\ length >= HeaderBytes /\ length <= Len(input)
      BY <1>1, <1>6, <1>10
    <3> HIDE DEF bytes, left
    <3>2. /\ IsState(s) /\ input = s.conn.input /\ length = ClientMessageLen(input)
          /\ bytes = SubSeq(input, 1, length) /\ DecodeClient(bytes) # Bad
          /\ left = SubSeq(input, length + 1, Len(input))
      BY <2>2, Zenon DEF input, length, bytes, left, message
    <3>3. Took(s, TakenOut(s, left, Append(s.taken, DecodeClient(bytes))), bytes, left)
      BY ONLY <3>1, <3>2, TookFirst
    <3>4. Took(s, rest, bytes, left)
      BY <3>3, Zenon DEF rest, message
    <3>5. t \in {rest} \union Rejections(rest)
      BY <1>4, <1>5, <1>10, <2>2
    <3> QED
      BY ONLY <3>4, <3>5, Zenon
  <2> QED
    BY <2>1, <2>2
<1> QED
  BY <1>7, <1>8, <1>9, <1>10

\* A round is one message at most; a round that ends the loop leaves no complete message.
LEMMA IncomingState ==
  ASSUME NEW s, IsState(s), s.more, NEW t \in NextIncoming(s)
  PROVE  /\ IsState(t)
         /\ t.served = s.served
         /\ t.conn.role \in {s.conn.role, "gone"}
         /\ s.conn.closing => t.taken = s.taken /\ t.conn.closing /\ ~t.more
         /\ t.more => /\ t.conn.role = s.conn.role /\ ~t.conn.closing
                      /\ Len(t.conn.input) + HeaderBytes <= Len(s.conn.input)
         /\ ~t.more => t.conn.role = "gone" \/ t.conn.closing \/ NoMore(t.conn.input)
<1> DEFINE input == s.conn.input
           Good == /\ IsState(t)
                   /\ t.served = s.served
                   /\ t.conn.role \in {s.conn.role, "gone"}
                   /\ s.conn.closing => t.taken = s.taken /\ t.conn.closing /\ ~t.more
                   /\ t.more => /\ t.conn.role = s.conn.role /\ ~t.conn.closing
                                /\ Len(t.conn.input) + HeaderBytes <= Len(s.conn.input)
                   /\ ~t.more => t.conn.role = "gone" \/ t.conn.closing \/ NoMore(t.conn.input)
<1>1. CASE t \in Rejections(s)
  <2>1. CASE t = [s EXCEPT !.conn.role = "gone", !.more = FALSE]
    <3>1. /\ IsState(t) /\ t.conn.role = "gone" /\ t.conn.closing = s.conn.closing
          /\ t.taken = s.taken /\ t.served = s.served /\ ~t.more
      BY ONLY IsState(s), <2>1, StateForms
    <3> QED
      BY <3>1
  <2>2. CASE t = CloseWhenFlushed(s)
    <3>1. /\ IsState(t) /\ t.conn.role = s.conn.role /\ t.conn.closing
          /\ t.taken = s.taken /\ t.served = s.served /\ ~t.more
      BY ONLY IsState(s), <2>2, StateForms
    <3> QED
      BY <3>1
  <2> QED
    BY <1>1, <2>1, <2>2 DEF Rejections
<1>2. CASE t = [s EXCEPT !.more = FALSE] /\ NoMore(input)
  <2>1. /\ IsState(t) /\ t.conn.role = s.conn.role /\ t.conn.closing = s.conn.closing
        /\ t.conn.input = s.conn.input
        /\ t.taken = s.taken /\ t.served = s.served /\ ~t.more
    BY ONLY IsState(s), <1>2, StateForms
  <2>2. s.conn.closing \in BOOLEAN
    BY DEF IsState, IsConn
  <2> QED
    BY <1>2, <2>1, <2>2
<1>3. ASSUME NEW rest, NEW bytes, NEW left,
             Took(s, rest, bytes, left), t \in {rest} \union Rejections(rest)
      PROVE  Good
  <2>1. /\ IsState(rest) /\ rest.served = s.served /\ rest.conn.role = s.conn.role
        /\ rest.conn.closing = s.conn.closing /\ rest.conn.input = left /\ rest.more = s.more
        /\ ~s.conn.closing
    BY <1>3 DEF Took, Follows
  <2>2. Len(left) + HeaderBytes <= Len(input)
    <3>1. /\ bytes \in Seq(Byte) /\ left \in Seq(Byte) /\ Len(bytes) >= HeaderBytes
          /\ input = Join(bytes, left)
      BY <1>3 DEF Took
    <3>2. Len(input) = Len(bytes) + Len(left)
      BY <3>1, JoinBytes
    <3>3. Len(bytes) \in Nat /\ Len(left) \in Nat
      BY <3>1
    <3> HIDE DEF input
    <3> QED
      BY ONLY <3>1, <3>2, <3>3, HeaderIsPositive
  <2> HIDE DEF input
  <2>3. CASE t = rest
    BY <2>1, <2>2, <2>3 DEF input
  <2>4. CASE t = CloseWhenFlushed(rest)
    <3>1. /\ IsState(t) /\ t.conn.closing /\ t.conn.role = rest.conn.role
          /\ t.served = rest.served /\ ~t.more
      BY ONLY <2>1, <2>4, StateForms
    <3> QED
      BY <2>1, <3>1
  <2>5. CASE t = [rest EXCEPT !.conn.role = "gone", !.more = FALSE]
    <3>1. /\ IsState(t) /\ t.conn.role = "gone" /\ t.served = rest.served /\ ~t.more
      BY ONLY <2>1, <2>5, StateForms
    <3> QED
      BY <2>1, <3>1
  <2> QED
    BY <1>3, <2>3, <2>4, <2>5 DEF Rejections
<1> HIDE DEF Good
<1>4. \/ t \in Rejections(s)
      \/ t = [s EXCEPT !.more = FALSE] /\ NoMore(input)
      \/ \E rest, bytes, left : /\ Took(s, rest, bytes, left)
                                /\ t \in {rest} \union Rejections(rest)
  BY IncomingForms
<1>5. Good
  BY ONLY <1>1, <1>2, <1>3, <1>4, Zenon DEF Good
<1> QED
  BY <1>5 DEF Good


\* A number of headers that is more than the bytes hold.
LEMMA MoreThanHolds ==
  ASSUME NEW size \in Nat
  PROVE  /\ (size \div HeaderBytes) + 1 \in Nat
         /\ size < ((size \div HeaderBytes) + 1) * HeaderBytes
<1> DEFINE H == HeaderBytes
<1>1. H \in Nat /\ H > 0
  BY HeaderIsPositive
<1> HIDE DEF H
<1>2. /\ size \div H \in Int /\ size % H \in 0 .. H - 1
      /\ size = H * (size \div H) + (size % H)
  BY <1>1
<1> DEFINE q == size \div H
           r == size % H
<1> HIDE DEF q, r
<1>3. q \in Int /\ r \in Int /\ r >= 0 /\ r < H /\ size = H * q + r
  BY <1>1, <1>2 DEF q, r
<1>4. (q + 1) * H = H * q + H
  BY <1>1, <1>3
<1>5. q >= 0
  <2>1. SUFFICES ASSUME q <= -1
                 PROVE  FALSE
    BY <1>3
  <2>2. H * q <= H * (-1)
    BY <1>1, <1>3, <2>1
  <2> QED
    BY <1>1, <1>3, <2>2
<1>6. H * q \in Int
  BY <1>1, <1>3
<1> QED
  BY <1>1, <1>3, <1>4, <1>5, <1>6 DEF q, H

\* The loop of read_client ends with the input in which no message is complete.
LEMMA ServedState ==
  ASSUME NEW s, IsState(s), s.more, NEW t \in Served(s)
  PROVE  /\ IsState(t)
         /\ t.conn.role \in {s.conn.role, "gone"}
         /\ t.conn.role = "gone" \/ t.conn.closing \/ NoMore(t.conn.input)
<1> DEFINE H == HeaderBytes
           size == Len(s.conn.input)
           n == MaxRounds(s)
           after == Rounds(s)
           Good(i, u) ==
             /\ IsState(u)
             /\ u.conn.role \in {s.conn.role, "gone"}
             /\ u.more => Len(u.conn.input) + i * H <= size
             /\ ~u.more => u.conn.role = "gone" \/ u.conn.closing \/ NoMore(u.conn.input)
           T == {i \in 0 .. n : \A u \in after[i] : Good(i, u)}
<1>1. size \in Nat /\ H \in Nat
  BY HeaderIsPositive DEF IsState, IsConn
<1>2. n \in Nat /\ size < n * H
  BY <1>1, MoreThanHolds DEF MaxRounds
<1>3. after[0] = {s} /\ \A i \in 1 .. n : after[i] = Round(after[i - 1])
  BY <1>2, RoundsRecur
<1>4. Served(s) = after[n]
  BY DEF Served
<1> HIDE DEF after, H, n
<1>5. 0 \in T
  <2>1. size + 0 * H <= size
    <3> DEFINE z == 0 * H
    <3>1. z = 0
      BY <1>1
    <3> HIDE DEF z, size
    <3>2. size + z <= size
      BY ONLY <1>1, <3>1
    <3> QED
      BY ONLY <3>2, Zenon DEF z
  <2>2. Good(0, s)
    BY ONLY IsState(s), s.more, <2>1, Zenon
  <2> HIDE DEF Good
  <2> QED
    BY <1>2, <1>3, <2>2
<1>6. ASSUME NEW i \in 0 .. n - 1, i \in T
      PROVE  i + 1 \in T
  <2>1. i \in Nat /\ i + 1 \in 1 .. n /\ i + 1 \in 0 .. n /\ i + 1 - 1 = i
    BY <1>2
  <2>2. after[i + 1] = Round(after[i])
    BY <1>3, <2>1
  <2>3. (i + 1) * H = i * H + H /\ i * H \in Int
    BY <1>1, <2>1
  <2>4. \A v \in after[i] : Good(i, v)
    BY <1>6
  <2>5. SUFFICES ASSUME NEW u \in Round(after[i])
                 PROVE  Good(i + 1, u)
    <3> HIDE DEF Good
    <3> QED
      BY <2>1, <2>2, <2>5
  <2>6. PICK v \in after[i] :
          u \in IF v.more THEN {IF w.more THEN [w EXCEPT !.served = @ + 1] ELSE w :
                                  w \in NextIncoming(v)}
                ELSE {v}
    <3> HIDE DEF Good
    <3> QED
      BY ONLY <2>5, Zenon DEF Round
  <2>7. Good(i, v)
    BY <2>4
  <2>8. CASE ~v.more
    <3>1. u = v
      BY ONLY <2>6, <2>8
    <3> QED
      BY ONLY <2>7, <2>8, <3>1
  <2>9. CASE v.more
    <3>1. PICK w \in NextIncoming(v) : u = IF w.more THEN [w EXCEPT !.served = @ + 1] ELSE w
      BY ONLY <2>6, <2>9
    <3>2. /\ IsState(w) /\ w.conn.role \in {v.conn.role, "gone"}
          /\ w.more => Len(w.conn.input) + H <= Len(v.conn.input)
          /\ ~w.more => w.conn.role = "gone" \/ w.conn.closing \/ NoMore(w.conn.input)
      BY <2>7, <2>9, IncomingState DEF H
    <3>3. Len(w.conn.input) \in Nat /\ Len(v.conn.input) \in Nat
      BY <2>7, <3>2 DEF IsState, IsConn
    <3>4. Good(i + 1, w)
      <4>1. w.more => Len(w.conn.input) + (i + 1) * H <= size
        <5> DEFINE a == i * H
                   b == (i + 1) * H
                   x == Len(w.conn.input)
                   y == Len(v.conn.input)
        <5>1. a \in Int /\ b = a + H
          BY <2>3
        <5>2. y + a <= size
          BY ONLY <2>7, <2>9, Zenon
        <5>3. w.more => x + H <= y
          BY ONLY <3>2, Zenon
        <5>4. x \in Nat /\ y \in Nat
          BY ONLY <3>3, Zenon
        <5> HIDE DEF a, b, x, y, size
        <5>5. x + H <= y => x + b <= size
          BY ONLY <1>1, <5>1, <5>2, <5>4
        <5> QED
          BY ONLY <5>3, <5>5, Zenon DEF b, x
      <4> QED
        BY ONLY <2>7, <3>2, <4>1
    <3>5. w.more => LET x == [w EXCEPT !.served = @ + 1]
                    IN  IsState(x) /\ x.conn = w.conn /\ x.more = w.more
      BY ONLY <3>2, StateForms, Zenon
    <3>6. CASE w.more
      <4>1. IsState(u) /\ u.conn = w.conn /\ u.more = w.more
        BY ONLY <3>1, <3>5, <3>6
      <4> QED
        BY ONLY <3>4, <3>6, <4>1
    <3>7. CASE ~w.more
      <4>1. u = w
        BY ONLY <3>1, <3>7
      <4> QED
        BY ONLY <3>4, <4>1
    <3> QED
      BY <3>6, <3>7
  <2> QED
    BY <2>8, <2>9
<1>7. T = 0 .. n
  <2>1. T \in SUBSET (0 .. n)
    OBVIOUS
  <2> HIDE DEF T
  <2> QED
    BY <1>2, <1>5, <1>6, <2>1, RoundsInduct
<1>8. Good(n, t)
  <2> HIDE DEF Good
  <2> QED
    BY <1>2, <1>4, <1>7
<1>9. ~t.more
  <2>1. Len(t.conn.input) \in Nat
    BY <1>8 DEF IsState, IsConn
  <2> DEFINE a == n * H
  <2>2. a \in Int /\ size < a
    BY <1>1, <1>2
  <2>3. t.more => Len(t.conn.input) + a <= size
    BY ONLY <1>8, Zenon
  <2> HIDE DEF size, a
  <2> QED
    BY <1>1, <2>1, <2>2, <2>3
<1> QED
  BY <1>8, <1>9


-----------------------------------------------------------------------------
(***************************************************************************)
(* The steps of a connection.                                              *)
(***************************************************************************)
\* Bytes read and a role named leave the rest of a state.
ReadIn(s, left) == [s EXCEPT !.conn.input = left]
Named(s, role) == [s EXCEPT !.conn.role = role]

\* What is read becomes the end of the input.
LEMMA ReadForm ==
  ASSUME NEW s, NEW left, IsState(s), ~s.conn.closing, left \in Seq(Byte)
  PROVE  LET t == ReadIn(s, left)
         IN  Follows(s, t, left) /\ t.taken = s.taken /\ t.shown = s.shown
<1> DEFINE role == s.conn.role
           closing == s.conn.closing
           input == s.conn.input
           taken_ == s.taken
           served_ == s.served
           shown_ == s.shown
           more == s.more
           t == ReadIn(s, left)
           Record(i) ==
             [conn |-> [role |-> role, closing |-> closing, input |-> i],
              taken |-> taken_, served |-> served_, shown |-> shown_, more |-> more]
<1>1. s = Record(input)
  BY DEF IsState, IsConn
<1>2. /\ closing \in BOOLEAN /\ ~closing /\ Newest(taken_, shown_)
      /\ served_ \in Nat /\ more \in BOOLEAN
  BY DEF IsState, IsConn
<1> HIDE DEF role, closing, input, taken_, served_, shown_, more
<1>3. t = Record(left)
  BY <1>1 DEF ReadIn
<1> HIDE DEF t
<1>4. /\ IsState(t)
      /\ t.conn.role = role /\ t.conn.closing = closing /\ t.conn.input = left
      /\ t.taken = taken_ /\ t.served = served_ /\ t.shown = shown_ /\ t.more = more
  BY <1>2, <1>3, StateParts
<1> QED
  BY ONLY <1>4, Zenon DEF Follows, role, closing, taken_, served_, shown_, more, t

\* A role that is named is all that changes.
LEMMA NamedForm ==
  ASSUME NEW s, NEW name, IsState(s)
  PROVE  LET t == Named(s, name)
         IN  /\ IsState(t)
             /\ t.conn.role = name /\ t.conn.closing = s.conn.closing
             /\ t.conn.input = s.conn.input
             /\ t.taken = s.taken /\ t.served = s.served /\ t.shown = s.shown
<1> DEFINE role == s.conn.role
           closing == s.conn.closing
           input == s.conn.input
           taken_ == s.taken
           served_ == s.served
           shown_ == s.shown
           more == s.more
           t == Named(s, name)
           Record(r) ==
             [conn |-> [role |-> r, closing |-> closing, input |-> input],
              taken |-> taken_, served |-> served_, shown |-> shown_, more |-> more]
<1>1. s = Record(role)
  BY DEF IsState, IsConn
<1>2. /\ closing \in BOOLEAN /\ input \in Seq(Byte) /\ (closing => input = <<>>)
      /\ Newest(taken_, shown_) /\ served_ \in Nat /\ more \in BOOLEAN
  BY DEF IsState, IsConn
<1> HIDE DEF role, closing, input, taken_, served_, shown_, more
<1>3. t = Record(name)
  BY <1>1 DEF Named
<1> HIDE DEF t
<1>4. /\ IsState(t)
      /\ t.conn.role = name /\ t.conn.closing = closing /\ t.conn.input = input
      /\ t.taken = taken_ /\ t.served = served_ /\ t.shown = shown_ /\ t.more = more
  BY <1>2, <1>3, StateParts
<1> QED
  BY ONLY <1>4, Zenon DEF closing, input, taken_, served_, shown_, t

\* A round of a client's reader.
LEMMA ClientRoundState ==
  ASSUME NEW s, IsState(s), ~s.conn.closing, s.conn.role \in {"client", "gone"}
  PROVE  LET t == ClientRound(s)
         IN  IsState(t) /\ ~t.conn.closing /\ t.conn.role \in {"client", "gone"}
<1> DEFINE input == s.conn.input
           length == ServerMessageLen(input)
           bytes == SubSeq(input, 1, length)
           message == DecodeServer(bytes)
           gone == [s EXCEPT !.conn.role = "gone", !.more = FALSE]
           idle == [s EXCEPT !.more = FALSE]
           left == SubSeq(input, length + 1, Len(input))
           all == Append(s.taken, message)
           current == Showing(s.shown, message)
           rest == ShownOut(s, left, all, current)
           t == ClientRound(s)
           Good(x) == IsState(x) /\ ~x.conn.closing /\ x.conn.role \in {"client", "gone"}
<1>1. Good(gone) /\ Good(idle)
  BY StateForms, ZenonT(30)
<1>2. input \in Seq(Byte) /\ Len(input) \in Nat /\ Newest(s.taken, s.shown)
  BY DEF IsState, IsConn
<1>3. t = IF ~s.more THEN s
          ELSE IF length = Bad THEN gone
          ELSE IF length = Incomplete \/ Len(input) < length THEN idle
          ELSE IF message = Bad THEN gone
          ELSE rest
  BY DEF ClientRound, Shown, Lost, ShownOut
<1>4. ASSUME length # Bad, length # Incomplete, ~(Len(input) < length), message # Bad
      PROVE  Good(rest)
  <2>1. length \in Nat /\ length >= HeaderBytes /\ length <= Len(input)
    <3>1. length \in Nat /\ length >= HeaderBytes
      BY ONLY <1>2, <1>4, ServerLength
    <3> HIDE DEF length
    <3> QED
      BY ONLY <1>2, <1>4, <3>1
  <2>2. bytes \in Seq(Byte) /\ Len(bytes) = length
    BY <1>2, <2>1, HeaderIsPositive
  <2>3. left \in Seq(Byte)
    BY <1>2, <2>1, HeaderIsPositive
  <2>4. Newest(all, current)
    <3>1. CASE FramesIn(message) = <<>>
      <4>1. current = s.shown
        BY <3>1 DEF Showing
      <4> QED
        BY <1>2, <3>1, <4>1, NewestPlain
    <3>2. CASE FramesIn(message) # <<>>
      <4>1. Presentable(message.frame)
        BY <1>4, <2>1, <2>2, <3>2, ServerFrame
      <4> HIDE DEF message
      <4> QED
        BY <1>2, <3>2, <4>1, NewestFrame DEF Presentable
    <3> QED
      BY <3>1, <3>2
  <2> HIDE DEF left, all, current
  <2>5. Follows(s, rest, left)
    BY ONLY IsState(s), ~s.conn.closing, <2>3, <2>4, TakenForm, Zenon
  <2> HIDE DEF rest
  <2> QED
    BY ONLY <2>5, ~s.conn.closing, s.conn.role \in {"client", "gone"} DEF Follows
<1>5. Good(s)
  OBVIOUS
<1> HIDE DEF t, gone, idle, rest, message, length, input
<1>6. Good(t)
  <2> HIDE DEF Good
  <2> QED
    BY <1>1, <1>3, <1>4, <1>5
<1> QED
  BY ONLY <1>6, Zenon DEF t

\* All its rounds.
LEMMA ClientRoundsState ==
  ASSUME NEW s, IsState(s), ~s.conn.closing, s.conn.role \in {"client", "gone"}
  PROVE  LET t == ClientRounds(s)[MaxSent + 1]
         IN  IsState(t) /\ ~t.conn.closing /\ t.conn.role \in {"client", "gone"}
<1> DEFINE n == MaxSent + 1
           after == ClientRounds(s)
           Good(x) == IsState(x) /\ ~x.conn.closing /\ x.conn.role \in {"client", "gone"}
           T == {i \in 0 .. n : Good(after[i])}
<1>1. n \in Nat
  BY StreamAssumption
<1>2. after[0] = s /\ \A i \in 1 .. n : after[i] = ClientRound(after[i - 1])
  BY <1>1, ClientRoundsRecur
<1> HIDE DEF n, after
<1>3. 0 \in T
  BY <1>1, <1>2
<1>4. ASSUME NEW i \in 0 .. n - 1, i \in T
      PROVE  i + 1 \in T
  <2>1. i + 1 \in 1 .. n /\ i + 1 \in 0 .. n /\ i + 1 - 1 = i
    BY <1>1
  <2>2. after[i + 1] = ClientRound(after[i]) /\ Good(after[i])
    BY <1>2, <1>4, <2>1
  <2>3. Good(ClientRound(after[i]))
    BY <2>2, ClientRoundState
  <2> HIDE DEF Good
  <2> QED
    BY <2>1, <2>2, <2>3
<1>5. T = 0 .. n
  <2>1. T \in SUBSET (0 .. n)
    OBVIOUS
  <2> HIDE DEF T
  <2> QED
    BY <1>1, <1>3, <1>4, <2>1, RoundsInduct
<1>6. Good(after[n])
  <2> HIDE DEF Good
  <2> QED
    BY <1>1, <1>5
<1> QED
  BY ONLY <1>6, Zenon DEF after, n

\* A message written is bytes, one of them perhaps another.
LEMMA GarblesType ==
  ASSUME NEW bytes \in Seq(Byte), NEW other \in Garbles(bytes)
  PROVE  other \in Seq(Byte)
<1>1. \A i \in 1 .. Len(bytes) : bytes[i] \in Nat
  BY BytesAreNats
<1>2. {0, 255} \subseteq Byte
  BY DEF Byte
<1>3. \A k \in Nat : (k + 1) % 256 \in Byte
  BY DEF Byte
<1>4. PICK i \in 1 .. Len(bytes), b \in Byte : other = [bytes EXCEPT ![i] = b]
  BY <1>1, <1>2, <1>3 DEF Garbles
<1> QED
  BY <1>4

\* What is offered is encoded as bytes.
LEMMA EncodedBytes ==
  ASSUME NEW m \in Offered, Encode(m) # Bad
  PROVE  Encode(m) \in Seq(Byte)
BY BytesAssumption DEF Offered, Encode

\* A read takes no more than the stream has.
LEMMA ReadsType ==
  ASSUME wire \in Seq(Byte), NEW n \in Reads
  PROVE  n \in Nat /\ n <= Len(wire)
<1> DEFINE size == Len(wire)
<1>1. size \in Nat
  OBVIOUS
<1>2. CASE wire = <<>>
  BY <1>1, <1>2 DEF Reads
<1>3. CASE wire # <<>>
  <2>1. PICK most \in ReadSizes : n = Min({most, size})
    BY <1>3 DEF Reads
  <2>2. most \in Nat
    BY StreamAssumption
  <2>3. n \in {most, size} /\ n <= size
    <3> DEFINE S == {most, size}
    <3>1. \E x \in S : \A y \in S : x <= y
      <4> HIDE DEF size
      <4> QED
        BY <1>1, <2>2
    <3>2. n = CHOOSE x \in S : \A y \in S : x <= y
      BY <2>1 DEF Min
    <3> HIDE DEF S
    <3>3. n \in S /\ \A y \in S : n <= y
      BY ONLY <3>1, <3>2
    <3> QED
      BY <3>3 DEF S
  <2> QED
    BY <1>1, <2>2, <2>3
<1> QED
  BY <1>2, <1>3

(***************************************************************************)
(* The inductive invariant.  The section of the loop is that of the role   *)
(* the connection has; a closing connection has forgotten its input and    *)
(* was not polled for more; and past its section an open client has no     *)
(* complete message left.                                                  *)
(***************************************************************************)
StreamInv ==
  /\ IsConn(conn)
  /\ phase \in {"poll", "flush"} \/ phase = conn.role
  /\ conn.role = "client" => phase = "poll" /\ ~conn.closing
  /\ conn.closing /\ phase = "interactive" => ~ready
  /\ wire \in Seq(Byte)
  /\ served \in Nat
  /\ Newest(taken, shown)
  /\ Open /\ phase \in {"poll", "flush"} /\ conn.role = "interactive" => NoMore(conn.input)

\* The state in which a read begins.
LEMMA ReadState ==
  ASSUME StreamInv, NEW n \in Nat, n <= Len(wire)
  PROVE  LET s == WithRead(State, n)
         IN  /\ IsState(s) /\ s.more
             /\ s.conn.role = conn.role /\ s.conn.closing = conn.closing
             /\ s.taken = taken /\ s.served = served /\ s.shown = shown
<1> DEFINE s == State
           yes == TRUE
<1>1. /\ s = [conn |-> conn, taken |-> taken, served |-> served, shown |-> shown, more |-> yes]
      /\ yes \in BOOLEAN /\ yes
  BY DEF State
<1>2. IsConn(conn) /\ served \in Nat /\ Newest(taken, shown) /\ wire \in Seq(Byte)
  BY DEF StreamInv
<1> HIDE DEF s, yes
<1>3. /\ s.conn = conn /\ s.taken = taken /\ s.served = served /\ s.shown = shown
      /\ s.more = yes
      /\ s = [conn |-> s.conn, taken |-> s.taken, served |-> s.served, shown |-> s.shown,
              more |-> s.more]
  BY ONLY <1>1
<1>4. IsState(s) /\ s.more
  BY ONLY <1>1, <1>2, <1>3 DEF IsState
<1>5. CASE conn.closing
  <2>1. WithRead(s, n) = s
    BY <1>3, <1>5 DEF WithRead
  <2> QED
    BY <1>3, <1>4, <2>1 DEF s
<1>6. CASE ~conn.closing
  <2> DEFINE left == s.conn.input \o SubSeq(wire, 1, n)
             t == WithRead(s, n)
  <2>1. t = ReadIn(s, left)
    BY <1>3, <1>6 DEF WithRead, ReadIn
  <2>2. left \in Seq(Byte)
    <3>1. conn.input \in Seq(Byte) /\ SubSeq(wire, 1, n) \in Seq(Byte)
      BY <1>2 DEF IsConn
    <3> QED
      BY <1>3, <3>1
  <2> HIDE DEF left, t
  <2>3. LET u == ReadIn(s, left)
        IN  Follows(s, u, left) /\ u.taken = s.taken /\ u.shown = s.shown
    BY ONLY <1>3, <1>4, <1>6, <2>2, ReadForm
  <2>4. Follows(s, t, left) /\ t.taken = s.taken /\ t.shown = s.shown
    BY ONLY <2>1, <2>3
  <2> QED
    BY <1>3, <1>4, <2>4 DEF Follows, t, s
<1> QED
  BY <1>5, <1>6

\* What a read leaves, when it ends in a state and a section that fit each other.
LEMMA SettleKeeps ==
  ASSUME StreamInv, NEW s, IsState(s), NEW n \in Nat, NEW next, Settle(s, n, next),
         n <= Len(wire),
         next \in {"poll", "flush"} \/ next = s.conn.role,
         s.conn.role = "client" => next = "poll" /\ ~s.conn.closing,
         next \in {"poll", "flush"} /\ s.conn.role = "interactive"
           => s.conn.closing \/ NoMore(s.conn.input)
  PROVE  StreamInv'
<1>1. /\ conn' = s.conn /\ taken' = s.taken /\ served' = s.served /\ shown' = s.shown
      /\ ready' = FALSE /\ phase' = next
  BY DEF Settle
<1>2. wire' \in Seq(Byte)
  <2>1. wire \in Seq(Byte)
    BY DEF StreamInv
  <2>2. SubSeq(wire, n + 1, Len(wire)) \in Seq(Byte)
    BY <2>1
  <2>3. wire' = wire \/ wire' = SubSeq(wire, n + 1, Len(wire))
    BY DEF Settle
  <2> QED
    BY <2>1, <2>2, <2>3
<1>3. IsConn(conn')
  BY <1>1 DEF IsState
<1>4. Newest(taken', shown') /\ served' \in Nat
  BY <1>1 DEF IsState
<1>5. Open' /\ phase' \in {"poll", "flush"} /\ conn'.role = "interactive" => NoMore(conn'.input)
  BY <1>1 DEF Open
<1> QED
  BY <1>1, <1>2, <1>3, <1>4, <1>5 DEF StreamInv


\* A connection begins with nothing taken and nothing in its input.
LEMMA InitInv == Init => StreamInv
<1>1. SUFFICES ASSUME Init
               PROVE  StreamInv
  OBVIOUS
<1>2. <<>> \in Seq(Byte)
  OBVIOUS
<1>3. IsConn(conn) /\ ~conn.closing /\ conn.role \in {"pending", "client"}
  BY <1>1, <1>2 DEF Init, IsConn
<1>4. Newest(taken, shown)
  <2>1. taken = <<>> /\ shown = <<>>
    BY <1>1 DEF Init
  <2>2. IsSeq(<<>>) /\ Len(<<>>) = 0
    <3>1. <<>> \in Seq({})
      OBVIOUS
    <3> QED
      BY <3>1 DEF IsSeq
  <2> QED
    BY <2>1, <2>2 DEF Newest
<1> QED
  BY <1>1, <1>2, <1>3, <1>4 DEF Init, StreamInv

\* A connection that is lost where its section is.
LEMMA LostKeeps ==
  ASSUME StreamInv, Settle(Lost(State), 0, "flush")
  PROVE  StreamInv' /\ taken' = taken /\ served' = served
<1>1. IsConn(conn) /\ served \in Nat /\ Newest(taken, shown) /\ wire \in Seq(Byte)
  BY DEF StreamInv
<1> DEFINE s == State
           yes == TRUE
<1>2. s = [conn |-> conn, taken |-> taken, served |-> served, shown |-> shown, more |-> yes]
      /\ yes \in BOOLEAN
  BY DEF State
<1> HIDE DEF s, yes
<1>3. /\ s.conn = conn /\ s.taken = taken /\ s.served = served /\ s.shown = shown
      /\ s.more = yes
      /\ s = [conn |-> s.conn, taken |-> s.taken, served |-> s.served, shown |-> s.shown,
              more |-> s.more]
  BY ONLY <1>2
<1>4. IsState(s)
  BY ONLY <1>1, <1>2, <1>3 DEF IsState
<1> DEFINE t == Lost(s)
<1>5. t = Named(s, "gone")
  BY DEF Lost, Named
<1>6. /\ IsState(t) /\ t.conn.role = "gone" /\ t.taken = s.taken /\ t.served = s.served
  BY ONLY <1>4, <1>5, NamedForm
<1>7. Settle(t, 0, "flush")
  BY DEF s
<1>8. 0 <= Len(wire)
  BY <1>1
<1> HIDE DEF t
<1>9. StreamInv'
  BY <1>6, <1>7, <1>8, SettleKeeps
<1>10. taken' = t.taken /\ served' = t.served
  BY <1>7 DEF Settle
<1> QED
  BY <1>3, <1>6, <1>9, <1>10

\* Writing leaves all but the stream.
LEMMA PutKeeps ==
  ASSUME StreamInv, NEW m, NEW bytes \in Seq(Byte), Put(m, bytes)
  PROVE  StreamInv' /\ taken' = taken /\ served' = served
<1>1. wire' \in Seq(Byte)
  BY DEF StreamInv, Put
<1> QED
  BY <1>1 DEF StreamInv, Put, Open

\* So is either write.
LEMMA WriteKeeps == StreamInv /\ (Write \/ WriteGarbled)
                      => StreamInv' /\ taken' = taken /\ served' = served
<1>1. ASSUME StreamInv, Write
      PROVE  StreamInv' /\ taken' = taken /\ served' = served
  <2>1. PICK m \in Offered : Encode(m) # Bad /\ Put(m, Encode(m))
    BY <1>1 DEF Write
  <2> QED
    BY <1>1, <2>1, EncodedBytes, PutKeeps
<1>2. ASSUME StreamInv, WriteGarbled
      PROVE  StreamInv' /\ taken' = taken /\ served' = served
  <2>1. PICK m \in Offered : /\ Encode(m) # Bad
                             /\ \E bytes \in Garbles(Encode(m)) : Put(m, bytes)
    BY <1>2 DEF WriteGarbled
  <2>2. PICK bytes \in Garbles(Encode(m)) : Put(m, bytes)
    BY <2>1
  <2>3. bytes \in Seq(Byte)
    BY <2>1, EncodedBytes, GarblesType
  <2> QED
    BY <1>2, <2>2, <2>3, PutKeeps
<1> QED
  BY <1>1, <1>2

\* The sections of the loop.
LEMMA ReadPendingKeeps ==
  ASSUME StreamInv, ReadPending
  PROVE  /\ StreamInv'
         /\ ~Open => taken' = taken /\ served' = served
<1>1. conn.role = "pending" /\ wire \in Seq(Byte)
  BY DEF StreamInv, ReadPending
<1>2. CASE Ended
  <2>1. Settle(Lost(State), 0, "flush")
    BY <1>2 DEF ReadPending
  <2> QED
    BY <2>1, LostKeeps
<1>3. CASE ~Ended
  <2>0. PICK n \in Reads : \E s \in NextIncoming(WithRead(State, n)) :
          IF ~s.more THEN Settle(s, n, "flush")
          ELSE \E t \in Negotiated(s) : Settle(t, n, After(t.conn.role))
    BY <1>3 DEF ReadPending
  <2>1. PICK s \in NextIncoming(WithRead(State, n)) :
          IF ~s.more THEN Settle(s, n, "flush")
          ELSE \E t \in Negotiated(s) : Settle(t, n, After(t.conn.role))
    BY <2>0
  <2> DEFINE r == WithRead(State, n)
  <2>2. n \in Nat /\ n <= Len(wire)
    BY <1>1, ReadsType
  <2>3. /\ IsState(r) /\ r.more /\ r.conn.role = "pending" /\ r.conn.closing = conn.closing
        /\ r.taken = taken /\ r.served = served
    BY <1>1, <2>2, ReadState
  <2> HIDE DEF r
  <2>4. /\ IsState(s) /\ s.conn.role \in {"pending", "gone"}
        /\ conn.closing => s.taken = taken /\ ~s.more
        /\ s.served = served
        /\ s.more => s.conn.role = "pending" /\ ~s.conn.closing
    <3>1. s \in NextIncoming(r)
      BY <2>1 DEF r
    <3> QED
      BY <2>3, <3>1, IncomingState
  <2>5. CASE ~s.more
    <3>1. Settle(s, n, "flush")
      BY <2>1, <2>5
    <3>2. StreamInv'
      BY <2>2, <2>4, <3>1, SettleKeeps
    <3> QED
      BY <1>1, <2>4, <3>1, <3>2 DEF Settle, Open
  <2>6. CASE s.more
    <3>1. PICK t \in Negotiated(s) : Settle(t, n, After(t.conn.role))
      BY <2>1, <2>6
    <3>2. PICK role \in {"interactive", "metadata"} : t \in {Named(s, role), CloseWhenFlushed(s)}
      BY <3>1 DEF Negotiated, Named
    <3>3. /\ IsState(t) /\ t.conn.role \in {"interactive", "metadata", "pending"}
          /\ t.conn.role = "interactive" => ~t.conn.closing
      <4>1. CASE t = Named(s, role)
        BY <2>4, <2>6, <4>1, NamedForm
      <4>2. CASE t = CloseWhenFlushed(s)
        BY <2>4, <2>6, <4>2, StateForms, ZenonT(30)
      <4> QED
        BY <3>2, <4>1, <4>2
    <3>4. /\ After(t.conn.role) = "flush" \/ After(t.conn.role) = t.conn.role
          /\ t.conn.role = "interactive" => After(t.conn.role) = "interactive"
      BY <3>3 DEF After
    <3> DEFINE next == After(t.conn.role)
    <3> HIDE DEF next
    <3>5. /\ Settle(t, n, next)
          /\ next \in {"poll", "flush"} \/ next = t.conn.role
          /\ t.conn.role = "interactive" => next = "interactive"
      BY <3>1, <3>4 DEF next
    <3>6. StreamInv'
      BY <2>2, <3>3, <3>5, SettleKeeps
    <3>7. Open
      BY <1>1, <2>4, <2>6 DEF Open
    <3> QED
      BY <3>6, <3>7
  <2> QED
    BY <2>5, <2>6
<1> QED
  BY <1>2, <1>3

\* A metadata observer has nothing to say and takes nothing.
LEMMA ReadObserverKeeps ==
  ASSUME StreamInv, ReadObserver
  PROVE  /\ StreamInv'
         /\ ~Open => taken' = taken /\ served' = served
<1>1. conn.role = "metadata" /\ wire \in Seq(Byte)
  BY DEF StreamInv, ReadObserver
<1>2. CASE Ended
  <2>1. Settle(Lost(State), 0, "flush")
    BY <1>2 DEF ReadObserver
  <2> QED
    BY <2>1, LostKeeps
<1>3. CASE ~Ended
  <2>0. PICK n \in Reads : \E s \in NextIncoming(WithRead(State, n)) : Settle(s, n, "flush")
    BY <1>3 DEF ReadObserver
  <2>1. PICK s \in NextIncoming(WithRead(State, n)) : Settle(s, n, "flush")
    BY <2>0
  <2> DEFINE r == WithRead(State, n)
  <2>2. n \in Nat /\ n <= Len(wire)
    BY <1>1, ReadsType
  <2>3. /\ IsState(r) /\ r.more /\ r.conn.role = "metadata" /\ r.conn.closing = conn.closing
        /\ r.taken = taken /\ r.served = served
    BY <1>1, <2>2, ReadState
  <2> HIDE DEF r
  <2>4. /\ IsState(s) /\ s.conn.role \in {"metadata", "gone"}
        /\ conn.closing => s.taken = taken
        /\ s.served = served
    <3>1. s \in NextIncoming(r)
      BY <2>1 DEF r
    <3> QED
      BY <2>3, <3>1, IncomingState
  <2>5. StreamInv'
    BY <2>1, <2>2, <2>4, SettleKeeps
  <2> QED
    BY <1>1, <2>1, <2>4, <2>5 DEF Settle, Open
<1> QED
  BY <1>2, <1>3

\* The client is read until its input has no complete message.
LEMMA ReadClientKeeps ==
  ASSUME StreamInv, ReadClient
  PROVE  /\ StreamInv'
         /\ ~Open => taken' = taken /\ served' = served
<1>1. conn.role = "interactive" /\ wire \in Seq(Byte) /\ (conn.closing => ~ready)
      /\ IsConn(conn) /\ phase = "interactive"
  BY DEF StreamInv, ReadClient
<1>2. CASE ~HasInput
  <2>1. Settle(State, 0, "flush") /\ conn.input = <<>>
    BY <1>2 DEF ReadClient, HasInput
  <2>2. State.conn = conn /\ State.taken = taken /\ State.served = served /\ State.shown = shown
    BY DEF State
  <2>3. /\ conn' = conn /\ taken' = taken /\ served' = served /\ shown' = shown
        /\ ready' = FALSE /\ phase' = "flush"
    BY <2>1, <2>2 DEF Settle
  <2>4. wire' \in Seq(Byte)
    <3>1. SubSeq(wire, 1, Len(wire)) \in Seq(Byte)
      BY <1>1
    <3> QED
      BY <1>1, <2>1, <3>1 DEF Settle
  <2>5. NoMore(conn'.input)
    BY <2>1, <2>3, NoLength DEF NoMore
  <2>6. IsConn(conn') /\ Newest(taken', shown') /\ served' \in Nat
    BY <2>3 DEF StreamInv
  <2>7. conn'.role = "interactive"
    BY <1>1, <2>3
  <2>8. StreamInv'
    BY ONLY <2>3, <2>4, <2>5, <2>6, <2>7 DEF StreamInv
  <2> QED
    BY <2>3, <2>8
<1>3. CASE HasInput /\ Ended
  <2>1. Settle(Lost(State), 0, "flush")
    BY <1>3 DEF ReadClient
  <2> QED
    BY <2>1, LostKeeps
<1>4. CASE HasInput /\ ~Ended
  <2>0. PICK n \in Reads : \E s \in Served(WithRead(State, n)) : Settle(s, n, "flush")
    BY <1>4 DEF ReadClient
  <2>1. PICK s \in Served(WithRead(State, n)) : Settle(s, n, "flush")
    BY <2>0
  <2> DEFINE r == WithRead(State, n)
  <2>2. n \in Nat /\ n <= Len(wire)
    BY <1>1, ReadsType
  <2>3. IsState(r) /\ r.more /\ r.conn.role = "interactive"
    BY <1>1, <2>2, ReadState
  <2> HIDE DEF r
  <2>4. /\ IsState(s) /\ s.conn.role \in {"interactive", "gone"}
        /\ s.conn.role = "gone" \/ s.conn.closing \/ NoMore(s.conn.input)
    <3>1. s \in Served(r)
      BY <2>1 DEF r
    <3> QED
      BY <2>3, <3>1, ServedState
  <2>5. StreamInv'
    BY <2>1, <2>2, <2>4, SettleKeeps
  <2>6. Open
    BY <1>1, <1>4 DEF HasInput, IsConn, Open
  <2> QED
    BY <2>5, <2>6
<1> QED
  BY <1>2, <1>3, <1>4

\* A client's reader shows the newest of what it takes.
LEMMA ClientReadsKeeps ==
  ASSUME StreamInv, ClientReads
  PROVE  StreamInv' /\ Open
<1>1. conn.role = "client" /\ ~conn.closing /\ wire \in Seq(Byte)
  BY DEF StreamInv, ClientReads
<1>2. PICK n \in Reads : Settle(ClientRounds(WithRead(State, n))[MaxSent + 1], n, "poll")
  BY DEF ClientReads
<1> DEFINE r == WithRead(State, n)
           s == ClientRounds(r)[MaxSent + 1]
<1>3. n \in Nat /\ n <= Len(wire)
  BY <1>1, ReadsType
<1>4. IsState(r) /\ r.conn.role = "client" /\ ~r.conn.closing
  BY <1>1, <1>3, ReadState
<1> HIDE DEF r
<1>5. IsState(s) /\ ~s.conn.closing /\ s.conn.role \in {"client", "gone"}
  BY <1>4, ClientRoundsState
<1>6. Settle(s, n, "poll")
  BY <1>2 DEF r
<1> HIDE DEF s
<1>7. StreamInv'
  BY <1>3, <1>5, <1>6, SettleKeeps
<1> QED
  BY <1>1, <1>7 DEF Open

\* A flush ends a closing connection at most.
LEMMA FlushKeeps ==
  ASSUME StreamInv, Flush
  PROVE  StreamInv' /\ taken' = taken /\ served' = served
<1>1. /\ phase = "flush" /\ phase' = "poll"
      /\ UNCHANGED <<ready, wire, taken, served, shown>>
  BY DEF Flush
<1>2. conn' = conn \/ (conn.closing /\ conn' = [conn EXCEPT !.role = "gone"])
  BY DEF Flush
<1>3. CASE conn' = conn
  BY <1>1, <1>3 DEF StreamInv, Open
<1>4. CASE conn.closing /\ conn' = [conn EXCEPT !.role = "gone"]
  <2>1. IsConn(conn') /\ conn'.role = "gone"
    BY <1>4 DEF StreamInv, IsConn
  <2> QED
    BY <1>1, <2>1 DEF StreamInv, Open
<1> QED
  BY <1>1, <1>2, <1>3, <1>4

\* A step keeps the invariant, and takes nothing from a connection that is closed or lost.
LEMMA StepKeeps ==
  ASSUME StreamInv, [Next]_vars
  PROVE  /\ StreamInv'
         /\ ~Open => taken' = taken /\ served' = served
<1>1. CASE Write \/ WriteGarbled
  BY <1>1, WriteKeeps
<1>2. CASE HangUp
  BY <1>2 DEF HangUp, StreamInv, Open
<1>3. CASE Poll
  BY <1>3 DEF Poll, StreamInv, Open
<1>4. CASE ReadPending
  BY <1>4, ReadPendingKeeps
<1>5. CASE ReadObserver
  BY <1>5, ReadObserverKeeps
<1>6. CASE ReadClient
  BY <1>6, ReadClientKeeps
<1>7. CASE Flush
  BY <1>7, FlushKeeps
<1>8. CASE ClientReads
  BY <1>8, ClientReadsKeeps
<1>9. CASE UNCHANGED vars
  BY <1>9 DEF vars, StreamInv, Open
<1> QED
  BY <1>1, <1>2, <1>3, <1>4, <1>5, <1>6, <1>7, <1>8, <1>9 DEF Next

-----------------------------------------------------------------------------
(***************************************************************************)
(* What was read is the messages taken and what is left of the input.      *)
(***************************************************************************)
\* The encodings of messages, as what they are read by.
Code(end, m) == IF end = "client" THEN EncodeServer(m) ELSE EncodeClient(m)
Codes(end, t) == [i \in 1 .. Len(t) |-> Code(end, t[i])]
End(role) == IF role = "client" THEN "client" ELSE "owner"

\* The bytes read are these encodings and the input, and for a connection that is closing
\* these encodings and something that is forgotten.
Accounts(codes, c, read) ==
  /\ codes \in Seq(Seq(Byte))
  /\ IF c.closing THEN \E rest \in Seq(Byte) : read = Join(FlattenSeq(codes), rest)
     ELSE read = Join(FlattenSeq(codes), c.input)

Accounted(end, c, t, read) == Accounts(Codes(end, t), c, read)

\* All bytes written were read, or are in the stream.
FramingInv ==
  conn.role # "gone" =>
    \E read \in Seq(Byte) : /\ written = Join(read, wire)
                            /\ Accounted(End(conn.role), conn, taken, read)

\* A message more has its encoding after the others.
LEMMA CodesAppend ==
  ASSUME NEW end, NEW t, IsSeq(t), NEW m
  PROVE  Codes(end, Append(t, m)) = Append(Codes(end, t), Code(end, m))
<1> DEFINE F(x) == Code(end, x)
           u == Append(t, m)
           n == Len(t)
           f == [i \in 1 .. n |-> F(t[i])]
           g == [i \in 1 .. n + 1 |-> F(u[i])]
           Y == {F(x) : x \in {t[i] : i \in 1 .. n}}
<1>1. PICK X : t \in Seq(X)
  BY DEF IsSeq
<1>2. t \in Seq(X \union {m})
  BY <1>1
<1>3. n \in Nat /\ Len(u) = n + 1 /\ u[n + 1] = m /\ \A i \in 1 .. n : u[i] = t[i]
  BY <1>2
<1>4. Codes(end, t) = f /\ Codes(end, u) = g
  BY <1>3 DEF Codes
<1> HIDE DEF n, u, F
<1>5. f \in Seq(Y) /\ Len(f) = n
  BY <1>3
<1>6. \A i \in 1 .. n : f[i] = F(t[i])
  OBVIOUS
<1> HIDE DEF f, Y
<1>7. f \in Seq(Y \union {F(m)})
  BY <1>5
<1>8. /\ Append(f, F(m)) \in Seq(Y \union {F(m)})
      /\ Len(Append(f, F(m))) = n + 1 /\ Append(f, F(m))[n + 1] = F(m)
      /\ \A i \in 1 .. n : Append(f, F(m))[i] = f[i]
  BY <1>5, <1>7
<1> DEFINE h == Append(f, F(m))
<1> HIDE DEF h
<1>9. h \in Seq(Y \union {F(m)}) /\ Len(h) = n + 1 /\ h[n + 1] = F(m)
      /\ \A i \in 1 .. n : h[i] = f[i]
  BY <1>8 DEF h
<1>10. \A i \in 1 .. n + 1 : h[i] = F(u[i])
  BY <1>3, <1>6, <1>9
<1>11. h = [i \in 1 .. n + 1 |-> h[i]]
  BY <1>9
<1>12. g = h
  BY <1>10, <1>11
<1> QED
  BY <1>4, <1>12, Zenon DEF h, F, u

\* Taking a message out of the input accounts for its bytes.
LEMMA AccountsTake ==
  ASSUME NEW codes, NEW c, NEW d, NEW read, NEW bytes \in Seq(Byte), NEW left \in Seq(Byte),
         Accounts(codes, c, read), ~c.closing, c.input = Join(bytes, left),
         ~d.closing, d.input = left
  PROVE  Accounts(Append(codes, bytes), d, read)
<1> DEFINE flat == FlattenSeq(codes)
           more == FlattenSeq(Append(codes, bytes))
<1>1. codes \in Seq(Seq(Byte)) /\ read = Join(flat, Join(bytes, left))
  BY DEF Accounts
<1>2. flat \in Seq(Byte) /\ more = flat \o bytes
  BY <1>1, FlattenAppend
<1>3. Append(codes, bytes) \in Seq(Seq(Byte))
  BY <1>1
<1> HIDE DEF flat, more
<1>4. more = Join(flat, bytes)
  BY <1>2, Zenon DEF Join
<1>5. read = Join(Join(flat, bytes), left)
  BY <1>1, <1>2, JoinGroups
<1>6. read = Join(more, left)
  BY <1>4, <1>5
<1> QED
  BY <1>3, <1>6, Zenon DEF Accounts, more

\* What closes forgets its input, which was read.
LEMMA AccountsClose ==
  ASSUME NEW codes, NEW c, IsConn(c), NEW d, NEW read, Accounts(codes, c, read), d.closing
  PROVE  Accounts(codes, d, read)
<1>1. c.input \in Seq(Byte)
  BY DEF IsConn
<1> QED
  BY <1>1, Zenon DEF Accounts

\* Bytes that arrive are accounted for.
LEMMA AccountsRead ==
  ASSUME NEW codes, NEW c, NEW d, NEW read \in Seq(Byte), NEW bytes \in Seq(Byte),
         c.input \in Seq(Byte), Accounts(codes, c, read), ~c.closing,
         ~d.closing, d.input = Join(c.input, bytes)
  PROVE  Accounts(codes, d, Join(read, bytes))
<1> DEFINE flat == FlattenSeq(codes)
           input == c.input
<1>1. codes \in Seq(Seq(Byte)) /\ read = Join(flat, input)
  BY DEF Accounts
<1>2. flat \in Seq(Byte)
  BY <1>1, FlattenAppend
<1>3. input \in Seq(Byte)
  OBVIOUS
<1> HIDE DEF flat, input
<1>4. Join(read, bytes) = Join(flat, Join(input, bytes))
  BY <1>1, <1>2, <1>3, JoinGroups
<1> QED
  BY <1>1, <1>4, Zenon DEF Accounts, flat, input

\* Rejected, a connection forgets its input or is gone.
LEMMA RejectedFraming ==
  ASSUME NEW end, NEW s, IsState(s), NEW read, Accounted(end, s.conn, s.taken, read),
         NEW t \in Rejections(s)
  PROVE  Accounted(end, t.conn, t.taken, read)
<1>1. CASE t = CloseWhenFlushed(s)
  <2>1. t.conn.closing /\ t.taken = s.taken
    BY ONLY IsState(s), <1>1, StateForms
  <2>2. IsConn(s.conn)
    BY DEF IsState
  <2> QED
    BY <2>1, <2>2, AccountsClose DEF Accounted
<1>2. CASE t = [s EXCEPT !.conn.role = "gone", !.more = FALSE]
  <2>1. t.conn.closing = s.conn.closing /\ t.conn.input = s.conn.input /\ t.taken = s.taken
    BY ONLY IsState(s), <1>2, StateForms
  <2> QED
    BY <2>1, Zenon DEF Accounted, Accounts
<1> QED
  BY <1>1, <1>2 DEF Rejections

\* A message taken by the owner is what its bytes are the encoding of.
LEMMA TookFraming ==
  ASSUME NEW end, end = "owner", NEW s, IsState(s), NEW read,
         Accounted(end, s.conn, s.taken, read),
         NEW rest, NEW bytes, NEW left, Took(s, rest, bytes, left)
  PROVE  IsState(rest) /\ Accounted(end, rest.conn, rest.taken, read)
<1> DEFINE m == DecodeClient(bytes)
<1>1. /\ bytes \in Seq(Byte) /\ Len(bytes) >= HeaderBytes /\ m # Bad
      /\ left \in Seq(Byte) /\ s.conn.input = Join(bytes, left) /\ ~s.conn.closing
      /\ IsState(rest) /\ ~rest.conn.closing /\ rest.conn.input = left
      /\ rest.taken = Append(s.taken, m)
  BY DEF Took, Follows
<1>2. EncodeClient(m) = bytes
  BY <1>1, ClientSpelled, Zenon
<1>3. Code(end, m) = bytes
  BY <1>2 DEF Code
<1>4. IsSeq(s.taken)
  BY DEF IsState, Newest
<1> HIDE DEF m
<1>5. Codes(end, rest.taken) = Append(Codes(end, s.taken), bytes)
  BY ONLY <1>1, <1>3, <1>4, CodesAppend
<1>6. Accounts(Codes(end, s.taken), s.conn, read)
  BY DEF Accounted
<1>7. Accounts(Append(Codes(end, s.taken), bytes), rest.conn, read)
  BY ONLY <1>1, <1>6, AccountsTake
<1> QED
  BY <1>1, <1>5, <1>7, Zenon DEF Accounted

\* Whatever next_incoming leaves accounts for the bytes read.
LEMMA IncomingFraming ==
  ASSUME NEW s, IsState(s), NEW read, Accounted("owner", s.conn, s.taken, read),
         NEW t \in NextIncoming(s)
  PROVE  Accounted("owner", t.conn, t.taken, read)
<1> DEFINE end == "owner"
           Good == Accounted(end, t.conn, t.taken, read)
<1>1. end = "owner" /\ Accounted(end, s.conn, s.taken, read)
  OBVIOUS
<1> HIDE DEF end
<1>2. t \in Rejections(s) => Good
  BY <1>1, RejectedFraming
<1>3. t = [s EXCEPT !.more = FALSE] => Good
  <2>1. SUFFICES ASSUME t = [s EXCEPT !.more = FALSE]
                 PROVE  Good
    OBVIOUS
  <2>2. t.conn.closing = s.conn.closing /\ t.conn.input = s.conn.input /\ t.taken = s.taken
    BY ONLY IsState(s), <2>1, StateForms
  <2> QED
    BY <1>1, <2>2, Zenon DEF Accounted, Accounts
<1>4. ASSUME NEW rest, NEW bytes, NEW left,
             Took(s, rest, bytes, left), t \in {rest} \union Rejections(rest)
      PROVE  Good
  <2>1. IsState(rest) /\ Accounted(end, rest.conn, rest.taken, read)
    BY <1>1, <1>4, TookFraming
  <2>2. t \in Rejections(rest) => Good
    BY <2>1, RejectedFraming
  <2> QED
    BY <1>4, <2>1, <2>2
<1>5. \/ t \in Rejections(s)
      \/ t = [s EXCEPT !.more = FALSE] /\ NoMore(s.conn.input)
      \/ \E rest, bytes, left : /\ Took(s, rest, bytes, left)
                                /\ t \in {rest} \union Rejections(rest)
  BY IncomingForms
<1> HIDE DEF Good
<1>6. Good
  BY ONLY <1>2, <1>3, <1>4, <1>5, Zenon
<1> QED
  BY <1>6, Zenon DEF Good, end

\* So does every round of read_client.
LEMMA ServedFraming ==
  ASSUME NEW s, IsState(s), NEW read, Accounted("owner", s.conn, s.taken, read),
         NEW t \in Served(s)
  PROVE  Accounted("owner", t.conn, t.taken, read)
<1> DEFINE n == MaxRounds(s)
           after == Rounds(s)
           end == "owner"
           Good(u) == IsState(u) /\ Accounted(end, u.conn, u.taken, read)
           T == {i \in 0 .. n : \A u \in after[i] : Good(u)}
<1>1. n \in Nat
  <2>1. Len(s.conn.input) \in Nat
    BY DEF IsState, IsConn
  <2> QED
    BY <2>1, MoreThanHolds DEF MaxRounds
<1>2. after[0] = {s} /\ \A i \in 1 .. n : after[i] = Round(after[i - 1])
  BY <1>1, RoundsRecur
<1>3. Served(s) = after[n]
  BY DEF Served
<1>4. Good(s)
  OBVIOUS
<1>5. ASSUME NEW v, Good(v),
             NEW u \in IF v.more THEN {IF w.more THEN [w EXCEPT !.served = @ + 1] ELSE w :
                                         w \in NextIncoming(v)}
                       ELSE {v}
      PROVE  Good(u)
  <2>1. CASE ~v.more
    BY ONLY <1>5, <2>1
  <2>2. CASE v.more
    <3>1. PICK w \in NextIncoming(v) : u = IF w.more THEN [w EXCEPT !.served = @ + 1] ELSE w
      BY ONLY <1>5, <2>2
    <3>2. Good(w)
      <4>1. IsState(w)
        BY <1>5, <2>2, IncomingState
      <4>2. Accounted(end, w.conn, w.taken, read)
        BY <1>5, IncomingFraming
      <4> QED
        BY ONLY <4>1, <4>2, Zenon
    <3>3. LET x == [w EXCEPT !.served = @ + 1]
          IN  IsState(x) /\ x.conn = w.conn /\ x.taken = w.taken
      BY ONLY <3>2, StateForms, Zenon
    <3>4. CASE w.more
      <4>1. IsState(u) /\ u.conn = w.conn /\ u.taken = w.taken
        BY ONLY <3>1, <3>3, <3>4
      <4> QED
        BY ONLY <3>2, <4>1, Zenon
    <3>5. CASE ~w.more
      <4>1. u = w
        BY ONLY <3>1, <3>5
      <4> QED
        BY ONLY <3>2, <4>1
    <3> QED
      BY <3>4, <3>5
  <2> QED
    BY <2>1, <2>2
<1> HIDE DEF n, after, Good
<1>6. 0 \in T
  BY <1>1, <1>2, <1>4
<1>7. ASSUME NEW i \in 0 .. n - 1, i \in T
      PROVE  i + 1 \in T
  <2>1. i + 1 \in 1 .. n /\ i + 1 \in 0 .. n /\ i + 1 - 1 = i
    BY <1>1
  <2>2. after[i + 1] = Round(after[i]) /\ \A v \in after[i] : Good(v)
    BY <1>2, <1>7, <2>1
  <2>3. ASSUME NEW u \in Round(after[i])
        PROVE  Good(u)
    <3>1. PICK v \in after[i] :
            u \in IF v.more THEN {IF w.more THEN [w EXCEPT !.served = @ + 1] ELSE w :
                                    w \in NextIncoming(v)}
                  ELSE {v}
      BY ONLY <2>3, Zenon DEF Round
    <3>2. Good(v)
      BY <2>2
    <3> QED
      BY ONLY <1>5, <3>1, <3>2, Zenon
  <2> QED
    BY <2>1, <2>2, <2>3
<1>8. T \in SUBSET (0 .. n)
  OBVIOUS
<1> HIDE DEF T
<1>9. T = 0 .. n
  BY <1>1, <1>6, <1>7, <1>8, RoundsInduct
<1>10. Good(t)
  BY <1>1, <1>3, <1>9 DEF T
<1> QED
  BY <1>10, Zenon DEF Good, end

\* A message taken by a client is what its bytes are the encoding of.
LEMMA ClientRoundFraming ==
  ASSUME NEW s, IsState(s), ~s.conn.closing, s.conn.role \in {"client", "gone"},
         NEW read, Accounted("client", s.conn, s.taken, read)
  PROVE  LET t == ClientRound(s)
         IN  Accounted("client", t.conn, t.taken, read)
<1> DEFINE input == s.conn.input
           length == ServerMessageLen(input)
           bytes == SubSeq(input, 1, length)
           message == DecodeServer(bytes)
           gone == [s EXCEPT !.conn.role = "gone", !.more = FALSE]
           idle == [s EXCEPT !.more = FALSE]
           left == SubSeq(input, length + 1, Len(input))
           all == Append(s.taken, message)
           current == Showing(s.shown, message)
           rest == ShownOut(s, left, all, current)
           t == ClientRound(s)
           end == "client"
           Good(x) == Accounted(end, x.conn, x.taken, read)
<1>0. end = "client" /\ Good(s)
  OBVIOUS
<1> HIDE DEF end
<1>1. Good(gone) /\ Good(idle)
  <2>1. /\ gone.conn.closing = s.conn.closing /\ gone.conn.input = s.conn.input
        /\ gone.taken = s.taken
        /\ idle.conn.closing = s.conn.closing /\ idle.conn.input = s.conn.input
        /\ idle.taken = s.taken
    BY StateForms, ZenonT(30)
  <2> HIDE DEF gone, idle
  <2> QED
    BY <1>0, <2>1, Zenon DEF Accounted, Accounts
<1>2. input \in Seq(Byte) /\ Len(input) \in Nat /\ Newest(s.taken, s.shown) /\ IsSeq(s.taken)
  BY DEF IsState, IsConn, Newest
<1>3. t = IF ~s.more THEN s
          ELSE IF length = Bad THEN gone
          ELSE IF length = Incomplete \/ Len(input) < length THEN idle
          ELSE IF message = Bad THEN gone
          ELSE rest
  BY DEF ClientRound, Shown, Lost, ShownOut
<1>4. ASSUME length # Bad, length # Incomplete, ~(Len(input) < length), message # Bad
      PROVE  Good(rest)
  <2>1. length \in Nat /\ length >= HeaderBytes /\ length <= Len(input)
    <3>1. length \in Nat /\ length >= HeaderBytes
      BY ONLY <1>2, <1>4, ServerLength
    <3> HIDE DEF length
    <3> QED
      BY ONLY <1>2, <1>4, <3>1
  <2>2. bytes \in Seq(Byte) /\ Len(bytes) = length /\ left \in Seq(Byte)
        /\ input = Join(bytes, left)
    <3>1. length \in 0 .. Len(input)
      <4> HIDE DEF length
      <4> QED
        BY ONLY <1>2, <2>1
    <3> HIDE DEF length, input
    <3> QED
      BY ONLY <1>2, <3>1, CutBytes
  <2>3. Newest(all, current)
    <3>1. CASE FramesIn(message) = <<>>
      <4>1. current = s.shown
        BY <3>1 DEF Showing
      <4> QED
        BY <1>2, <3>1, <4>1, NewestPlain
    <3>2. CASE FramesIn(message) # <<>>
      <4>1. Presentable(message.frame)
        BY <1>4, <2>1, <2>2, <3>2, ServerFrame
      <4> HIDE DEF message
      <4> QED
        BY <1>2, <3>2, <4>1, NewestFrame DEF Presentable
    <3> QED
      BY <3>1, <3>2
  <2>4. Len(bytes) >= HeaderBytes
    <3> HIDE DEF bytes, length
    <3> QED
      BY ONLY <2>1, <2>2
  <2>5. EncodeServer(message) = bytes
    <3> HIDE DEF bytes
    <3> QED
      BY ONLY <1>4, <2>2, <2>4, ServerSpelled, Zenon
  <2> HIDE DEF left, all, current
  <2>6. Follows(s, rest, left) /\ rest.taken = all
    <3>1. left \in Seq(Byte)
      BY <2>2
    <3> QED
      BY ONLY IsState(s), ~s.conn.closing, <2>3, <3>1, TakenForm
  <2> HIDE DEF rest, bytes, message
  <2>7. rest.conn.input = left /\ ~rest.conn.closing
    BY <2>6 DEF Follows
  <2>8. Codes(end, rest.taken) = Append(Codes(end, s.taken), bytes)
    <3>1. Code(end, message) = bytes
      BY <1>0, <2>5 DEF Code
    <3> QED
      BY ONLY <1>2, <2>6, <3>1, CodesAppend DEF all
  <2>9. Accounts(Codes(end, s.taken), s.conn, read) /\ s.conn.input = Join(bytes, left)
    BY <1>0, <2>2, Zenon DEF Accounted, input
  <2>10. bytes \in Seq(Byte) /\ left \in Seq(Byte) /\ ~s.conn.closing
    BY <2>2
  <2>11. Accounts(Append(Codes(end, s.taken), bytes), rest.conn, read)
    BY ONLY <2>7, <2>9, <2>10, AccountsTake
  <2> QED
    BY <2>8, <2>11, Zenon DEF Accounted
<1> HIDE DEF t, gone, idle, rest, message, length, input
<1>6. Good(t)
  <2> HIDE DEF Good
  <2> QED
    BY <1>0, <1>1, <1>3, <1>4
<1> QED
  BY ONLY <1>6, Zenon DEF t, end

\* All its rounds.
LEMMA ClientRoundsFraming ==
  ASSUME NEW s, IsState(s), ~s.conn.closing, s.conn.role \in {"client", "gone"},
         NEW read, Accounted("client", s.conn, s.taken, read)
  PROVE  LET t == ClientRounds(s)[MaxSent + 1]
         IN  Accounted("client", t.conn, t.taken, read)
<1> DEFINE n == MaxSent + 1
           after == ClientRounds(s)
           end == "client"
           Good(x) == /\ IsState(x) /\ ~x.conn.closing /\ x.conn.role \in {"client", "gone"}
                      /\ Accounted(end, x.conn, x.taken, read)
           T == {i \in 0 .. n : Good(after[i])}
<1>1. n \in Nat
  BY StreamAssumption
<1>2. after[0] = s /\ \A i \in 1 .. n : after[i] = ClientRound(after[i - 1])
  BY <1>1, ClientRoundsRecur
<1>3. Good(s)
  OBVIOUS
<1>4. ASSUME NEW x, Good(x)
      PROVE  Good(ClientRound(x))
  <2>1. LET t == ClientRound(x)
        IN  IsState(t) /\ ~t.conn.closing /\ t.conn.role \in {"client", "gone"}
    BY <1>4, ClientRoundState
  <2>2. LET t == ClientRound(x)
        IN  Accounted("client", t.conn, t.taken, read)
    BY <1>4, ClientRoundFraming
  <2> QED
    BY ONLY <2>1, <2>2, Zenon
<1> HIDE DEF n, after, Good
<1>5. 0 \in T
  BY <1>1, <1>2, <1>3
<1>6. ASSUME NEW i \in 0 .. n - 1, i \in T
      PROVE  i + 1 \in T
  <2>1. i + 1 \in 1 .. n /\ i + 1 \in 0 .. n /\ i + 1 - 1 = i
    BY <1>1
  <2> QED
    BY <1>2, <1>4, <1>6, <2>1
<1>7. T \in SUBSET (0 .. n)
  OBVIOUS
<1> HIDE DEF T
<1>8. T = 0 .. n
  BY <1>1, <1>5, <1>6, <1>7, RoundsInduct
<1>9. Good(after[n])
  BY <1>1, <1>8 DEF T
<1> QED
  BY ONLY <1>9, Zenon DEF Good, after, n, end

\* What is left in the stream after a read.
Unread(n) == IF conn.closing THEN wire ELSE SubSeq(wire, n + 1, Len(wire))

\* What a read leaves, accounted for, is what the next state holds.
LEMMA SettleFraming ==
  ASSUME NEW s, NEW n, NEW next, Settle(s, n, next),
         NEW read \in Seq(Byte), written = Join(read, Unread(n)),
         s.conn.role # "gone" => Accounted(End(s.conn.role), s.conn, s.taken, read)
  PROVE  FramingInv'
<1>1. conn' = s.conn /\ taken' = s.taken /\ wire' = Unread(n) /\ written' = written
  BY DEF Settle, Unread
<1>2. written' = Join(read, wire')
  BY <1>1
<1>3. conn'.role # "gone" => Accounted(End(conn'.role), conn', taken', read)
  BY <1>1
<1> QED
  BY ONLY <1>2, <1>3, read \in Seq(Byte), Zenon DEF FramingInv

\* A connection that is lost need account for nothing.
LEMMA LostFraming ==
  ASSUME StreamInv, NEW n, NEW next, Settle(Lost(State), n, next)
  PROVE  FramingInv'
<1>1. IsConn(conn)
  BY DEF StreamInv
<1>2. Lost(State).conn.role = "gone"
  BY <1>1 DEF Lost, State, IsConn
<1>3. conn'.role = "gone"
  BY <1>2 DEF Settle
<1> QED
  BY <1>3 DEF FramingInv

\* The state in which a read begins accounts for what was read before, and now.
LEMMA ReadFraming ==
  ASSUME StreamInv, FramingInv, conn.role # "gone", NEW n \in Nat, n <= Len(wire)
  PROVE  LET s == WithRead(State, n)
         IN  \E read \in Seq(Byte) : /\ written = Join(read, Unread(n))
                                     /\ Accounted(End(conn.role), s.conn, s.taken, read)
<1> DEFINE s == WithRead(State, n)
           end == End(conn.role)
<1>1. PICK read \in Seq(Byte) : written = Join(read, wire) /\ Accounted(end, conn, taken, read)
  BY DEF FramingInv
<1>2. IsConn(conn) /\ wire \in Seq(Byte)
  BY DEF StreamInv
<1>3. State.conn = conn /\ State.taken = taken
  BY DEF State
<1> HIDE DEF end
<1>4. CASE conn.closing
  <2>1. s = State /\ Unread(n) = wire
    BY <1>3, <1>4 DEF WithRead, Unread
  <2>2. s.conn = conn /\ s.taken = taken
    BY <1>3, <2>1
  <2> HIDE DEF s
  <2>3. written = Join(read, Unread(n)) /\ Accounted(end, s.conn, s.taken, read)
    BY <1>1, <2>1, <2>2
  <2> QED
    BY <2>3, Zenon DEF s, end
<1>5. CASE ~conn.closing
  <2> DEFINE bytes == SubSeq(wire, 1, n)
             left == SubSeq(wire, n + 1, Len(wire))
             more == Join(read, bytes)
             input == conn.input
  <2>1. Unread(n) = left
    BY <1>5 DEF Unread
  <2>2. n \in 0 .. Len(wire)
    BY <1>2
  <2>3. bytes \in Seq(Byte) /\ left \in Seq(Byte) /\ wire = Join(bytes, left)
    BY ONLY <1>2, <2>2, CutBytes
  <2>4. /\ s.taken = taken /\ s.conn.input = Join(input, bytes) /\ ~s.conn.closing
    <3>1. s = [State EXCEPT !.conn.input = @ \o bytes]
      BY <1>3, <1>5 DEF WithRead
    <3>2. State = [conn |-> State.conn, taken |-> State.taken, served |-> State.served,
                   shown |-> State.shown, more |-> State.more]
      BY DEF State
    <3>3. conn = [role |-> conn.role, closing |-> conn.closing, input |-> conn.input]
      BY <1>2 DEF IsConn
    <3>4. s.taken = taken /\ s.conn.input = conn.input \o bytes /\ s.conn.closing = conn.closing
      <4> HIDE DEF bytes, s
      <4> QED
        BY ONLY <1>3, <3>1, <3>2, <3>3
    <3> HIDE DEF s, bytes
    <3> QED
      BY ONLY <1>5, <3>4, Zenon DEF Join, input
  <2> HIDE DEF s, bytes, left, more
  <2>5. written = Join(more, left) /\ more \in Seq(Byte)
    <3>1. written = Join(read, Join(bytes, left))
      BY <1>1, <2>3
    <3>2. Join(read, Join(bytes, left)) = Join(Join(read, bytes), left)
      BY <2>3, JoinGroups
    <3>3. Join(read, bytes) \in Seq(Byte)
      BY <2>3, JoinBytes
    <3> QED
      BY <3>1, <3>2, <3>3, Zenon DEF more
  <2>6. Accounts(Codes(end, taken), conn, read) /\ conn.input \in Seq(Byte)
    BY <1>1, <1>2 DEF Accounted, IsConn
  <2>7. Accounts(Codes(end, taken), s.conn, Join(read, bytes))
    BY ONLY <1>5, <2>3, <2>4, <2>6, read \in Seq(Byte), AccountsRead DEF input
  <2>8. Accounted(end, s.conn, s.taken, more)
    BY <2>4, <2>7, Zenon DEF Accounted, more
  <2> QED
    BY <2>1, <2>5, <2>8, Zenon DEF s, end
<1> QED
  BY <1>4, <1>5

\* Nothing is read, written or taken when the connection is made.
LEMMA InitFraming == Init => FramingInv
<1>1. SUFFICES ASSUME Init
               PROVE  FramingInv
  OBVIOUS
<1> DEFINE none == <<>>
           end == End(conn.role)
<1>2. /\ conn.input = none /\ ~conn.closing /\ wire = none /\ written = none /\ taken = none
  BY <1>1 DEF Init
<1>3. none \in Seq(Byte) /\ none = none \o none
  OBVIOUS
<1>4. Codes(end, none) = none /\ none \in Seq(Seq(Byte))
  BY DEF Codes
<1>5. FlattenSeq(none) = none
  BY FlattenEmpty
<1> HIDE DEF none, end
<1>6. none = Join(none, none)
  BY <1>3, Zenon DEF Join
<1>7. Accounts(none, conn, none)
  BY <1>2, <1>4, <1>5, <1>6 DEF Accounts
<1>8. Accounted(end, conn, taken, none)
  BY <1>2, <1>4, <1>7, Zenon DEF Accounted
<1>9. written = Join(none, wire)
  BY <1>2, <1>6
<1> QED
  BY <1>3, <1>8, <1>9, Zenon DEF FramingInv, end

\* What is written goes to the end of the stream.
LEMMA PutFraming ==
  ASSUME StreamInv, FramingInv, NEW m, NEW bytes \in Seq(Byte), Put(m, bytes)
  PROVE  FramingInv'
<1>1. /\ conn' = conn /\ taken' = taken
      /\ wire' = wire \o bytes /\ written' = written \o bytes
  BY DEF Put
<1>2. wire \in Seq(Byte)
  BY DEF StreamInv
<1>3. CASE conn.role # "gone"
  <2>1. PICK read \in Seq(Byte) : /\ written = Join(read, wire)
                                  /\ Accounted(End(conn.role), conn, taken, read)
    BY <1>3 DEF FramingInv
  <2>2. wire' = Join(wire, bytes) /\ written' = Join(written, bytes)
    BY <1>1, Zenon DEF Join
  <2>3. Join(read, Join(wire, bytes)) = Join(Join(read, wire), bytes)
    BY <1>2, JoinGroups
  <2>4. written' = Join(read, wire')
    BY <2>1, <2>2, <2>3
  <2>5. Accounted(End(conn'.role), conn', taken', read)
    BY <1>1, <2>1
  <2> QED
    BY <2>4, <2>5, Zenon DEF FramingInv
<1>4. CASE conn.role = "gone"
  BY <1>1, <1>4 DEF FramingInv
<1> QED
  BY <1>3, <1>4

\* Either write does that.
LEMMA WriteFraming == StreamInv /\ FramingInv /\ (Write \/ WriteGarbled) => FramingInv'
<1>1. ASSUME StreamInv, FramingInv, Write
      PROVE  FramingInv'
  <2>1. PICK m \in Offered : Encode(m) # Bad /\ Put(m, Encode(m))
    BY <1>1 DEF Write
  <2> QED
    BY <1>1, <2>1, EncodedBytes, PutFraming
<1>2. ASSUME StreamInv, FramingInv, WriteGarbled
      PROVE  FramingInv'
  <2>1. PICK m \in Offered : /\ Encode(m) # Bad
                             /\ \E bytes \in Garbles(Encode(m)) : Put(m, bytes)
    BY <1>2 DEF WriteGarbled
  <2>2. PICK bytes \in Garbles(Encode(m)) : Put(m, bytes)
    BY <2>1
  <2>3. bytes \in Seq(Byte)
    BY <2>1, EncodedBytes, GarblesType
  <2> QED
    BY <1>2, <2>2, <2>3, PutFraming
<1> QED
  BY <1>1, <1>2

\* The sections of the loop account for what they read.
LEMMA ReadPendingFraming ==
  ASSUME StreamInv, FramingInv, ReadPending
  PROVE  FramingInv'
<1>1. conn.role = "pending" /\ wire \in Seq(Byte)
  BY DEF StreamInv, ReadPending
<1>2. CASE Ended
  <2>1. Settle(Lost(State), 0, "flush")
    BY <1>2 DEF ReadPending
  <2> QED
    BY <2>1, LostFraming
<1>3. CASE ~Ended
  <2>0. PICK n \in Reads : \E s \in NextIncoming(WithRead(State, n)) :
          IF ~s.more THEN Settle(s, n, "flush")
          ELSE \E t \in Negotiated(s) : Settle(t, n, After(t.conn.role))
    BY <1>3 DEF ReadPending
  <2>1. PICK s \in NextIncoming(WithRead(State, n)) :
          IF ~s.more THEN Settle(s, n, "flush")
          ELSE \E t \in Negotiated(s) : Settle(t, n, After(t.conn.role))
    BY <2>0
  <2> DEFINE r == WithRead(State, n)
  <2>2. n \in Nat /\ n <= Len(wire)
    BY <1>1, ReadsType
  <2>3. IsState(r) /\ r.more /\ r.conn.role = "pending"
    BY <1>1, <2>2, ReadState
  <2>4. PICK read \in Seq(Byte) : /\ written = Join(read, Unread(n))
                                  /\ Accounted(End(conn.role), r.conn, r.taken, read)
    BY <1>1, <2>2, ReadFraming
  <2>5. End(conn.role) = "owner"
    BY <1>1 DEF End
  <2>6. s \in NextIncoming(r)
    BY <2>1
  <2> HIDE DEF r
  <2>7. IsState(s) /\ s.conn.role \in {"pending", "gone"}
    BY <2>3, <2>6, IncomingState
  <2>8. Accounted("owner", s.conn, s.taken, read)
    BY <2>3, <2>4, <2>5, <2>6, IncomingFraming
  <2>9. CASE ~s.more
    <3>1. Settle(s, n, "flush")
      BY <2>1, <2>9
    <3>2. s.conn.role # "gone" => End(s.conn.role) = "owner"
      BY <2>7 DEF End
    <3> QED
      BY <2>4, <2>8, <3>1, <3>2, SettleFraming
  <2>10. CASE s.more
    <3>1. PICK t \in Negotiated(s) : Settle(t, n, After(t.conn.role))
      BY <2>1, <2>10
    <3>2. PICK role \in {"interactive", "metadata"} : t \in {Named(s, role), CloseWhenFlushed(s)}
      BY <3>1 DEF Negotiated, Named
    <3>3. t.conn.role # "client" /\ Accounted("owner", t.conn, t.taken, read)
      <4>1. CASE t = Named(s, role)
        <5>1. /\ t.conn.role = role /\ t.conn.closing = s.conn.closing
              /\ t.conn.input = s.conn.input /\ t.taken = s.taken
          BY ONLY <2>7, <4>1, NamedForm
        <5> QED
          BY <2>8, <3>2, <5>1 DEF Accounted, Accounts
      <4>2. CASE t = CloseWhenFlushed(s)
        <5>1. t.conn.role = s.conn.role
          BY ONLY <2>7, <4>2, StateForms
        <5>2. t \in Rejections(s)
          BY <4>2 DEF Rejections
        <5> QED
          BY <2>7, <2>8, <5>1, <5>2, RejectedFraming
      <4> QED
        BY <3>2, <4>1, <4>2
    <3>4. End(t.conn.role) = "owner"
      BY <3>3 DEF End
    <3> QED
      BY <2>4, <3>1, <3>3, <3>4, SettleFraming
  <2> QED
    BY <2>9, <2>10
<1> QED
  BY <1>2, <1>3

\* An observer is closed at most,
LEMMA ReadObserverFraming ==
  ASSUME StreamInv, FramingInv, ReadObserver
  PROVE  FramingInv'
<1>1. conn.role = "metadata" /\ wire \in Seq(Byte)
  BY DEF StreamInv, ReadObserver
<1>2. CASE Ended
  <2>1. Settle(Lost(State), 0, "flush")
    BY <1>2 DEF ReadObserver
  <2> QED
    BY <2>1, LostFraming
<1>3. CASE ~Ended
  <2>0. PICK n \in Reads : \E s \in NextIncoming(WithRead(State, n)) : Settle(s, n, "flush")
    BY <1>3 DEF ReadObserver
  <2>1. PICK s \in NextIncoming(WithRead(State, n)) : Settle(s, n, "flush")
    BY <2>0
  <2> DEFINE r == WithRead(State, n)
  <2>2. n \in Nat /\ n <= Len(wire)
    BY <1>1, ReadsType
  <2>3. IsState(r) /\ r.more /\ r.conn.role = "metadata"
    BY <1>1, <2>2, ReadState
  <2>4. PICK read \in Seq(Byte) : /\ written = Join(read, Unread(n))
                                  /\ Accounted(End(conn.role), r.conn, r.taken, read)
    BY <1>1, <2>2, ReadFraming
  <2>5. End(conn.role) = "owner"
    BY <1>1 DEF End
  <2>6. s \in NextIncoming(r)
    BY <2>1
  <2> HIDE DEF r
  <2>7. s.conn.role \in {"metadata", "gone"}
    BY <2>3, <2>6, IncomingState
  <2>8. Accounted("owner", s.conn, s.taken, read)
    BY <2>3, <2>4, <2>5, <2>6, IncomingFraming
  <2>9. End(s.conn.role) = "owner"
    BY <2>7 DEF End
  <2> QED
    BY <2>1, <2>4, <2>8, <2>9, SettleFraming
<1> QED
  BY <1>2, <1>3

\* the interactive client has its messages taken,
LEMMA ReadClientFraming ==
  ASSUME StreamInv, FramingInv, ReadClient
  PROVE  FramingInv'
<1>1. conn.role = "interactive" /\ wire \in Seq(Byte)
  BY DEF StreamInv, ReadClient
<1>2. End(conn.role) = "owner" /\ conn.role # "gone"
  BY <1>1 DEF End
<1>3. CASE ~HasInput
  <2>1. Settle(State, 0, "flush")
    BY <1>3 DEF ReadClient
  <2>2. State.conn = conn /\ State.taken = taken
    BY DEF State
  <2>3. PICK read \in Seq(Byte) : /\ written = Join(read, wire)
                                  /\ Accounted(End(conn.role), conn, taken, read)
    BY <1>2 DEF FramingInv
  <2>4. Unread(0) = wire
    <3>1. SubSeq(wire, 0 + 1, Len(wire)) = wire
      BY <1>1
    <3> QED
      BY <3>1 DEF Unread
  <2> QED
    BY <2>1, <2>2, <2>3, <2>4, SettleFraming
<1>4. CASE HasInput /\ Ended
  <2>1. Settle(Lost(State), 0, "flush")
    BY <1>4 DEF ReadClient
  <2> QED
    BY <2>1, LostFraming
<1>5. CASE HasInput /\ ~Ended
  <2>0. PICK n \in Reads : \E s \in Served(WithRead(State, n)) : Settle(s, n, "flush")
    BY <1>5 DEF ReadClient
  <2>1. PICK s \in Served(WithRead(State, n)) : Settle(s, n, "flush")
    BY <2>0
  <2> DEFINE r == WithRead(State, n)
  <2>2. n \in Nat /\ n <= Len(wire)
    BY <1>1, ReadsType
  <2>3. IsState(r) /\ r.more /\ r.conn.role = "interactive"
    BY <1>1, <2>2, ReadState
  <2>4. PICK read \in Seq(Byte) : /\ written = Join(read, Unread(n))
                                  /\ Accounted(End(conn.role), r.conn, r.taken, read)
    BY <1>2, <2>2, ReadFraming
  <2>5. s \in Served(r)
    BY <2>1
  <2> HIDE DEF r
  <2>6. s.conn.role \in {"interactive", "gone"}
    BY <2>3, <2>5, ServedState
  <2>7. Accounted("owner", s.conn, s.taken, read)
    BY <1>2, <2>3, <2>4, <2>5, ServedFraming
  <2>8. End(s.conn.role) = "owner"
    BY <2>6 DEF End
  <2> QED
    BY <2>1, <2>4, <2>7, <2>8, SettleFraming
<1> QED
  BY <1>3, <1>4, <1>5

\* and so does the owner, by a client.
LEMMA ClientReadsFraming ==
  ASSUME StreamInv, FramingInv, ClientReads
  PROVE  FramingInv'
<1>1. conn.role = "client" /\ ~conn.closing /\ wire \in Seq(Byte)
  BY DEF StreamInv, ClientReads
<1>2. PICK n \in Reads : Settle(ClientRounds(WithRead(State, n))[MaxSent + 1], n, "poll")
  BY DEF ClientReads
<1> DEFINE r == WithRead(State, n)
           s == ClientRounds(r)[MaxSent + 1]
<1>3. n \in Nat /\ n <= Len(wire)
  BY <1>1, ReadsType
<1>4. IsState(r) /\ r.conn.role = "client" /\ ~r.conn.closing
  BY <1>1, <1>3, ReadState
<1>5. PICK read \in Seq(Byte) : /\ written = Join(read, Unread(n))
                                /\ Accounted(End(conn.role), r.conn, r.taken, read)
  BY <1>1, <1>3, ReadFraming
<1>6. End(conn.role) = "client"
  BY <1>1 DEF End
<1> HIDE DEF r
<1>7. s.conn.role \in {"client", "gone"}
  BY <1>4, ClientRoundsState
<1>8. Accounted("client", s.conn, s.taken, read)
  BY <1>4, <1>5, <1>6, ClientRoundsFraming
<1>9. Settle(s, n, "poll")
  BY <1>2 DEF r
<1> HIDE DEF s
<1>10. s.conn.role # "gone" => End(s.conn.role) = "client"
  BY <1>7 DEF End
<1> QED
  BY <1>5, <1>8, <1>9, <1>10, SettleFraming

\* Every step accounts for all bytes.
LEMMA StepFraming == StreamInv /\ FramingInv /\ [Next]_vars => FramingInv'
<1>1. SUFFICES ASSUME StreamInv, FramingInv, [Next]_vars
               PROVE  FramingInv'
  OBVIOUS
<1>2. CASE Write \/ WriteGarbled
  BY <1>1, <1>2, WriteFraming
<1>3. CASE UNCHANGED <<conn, taken, wire, written>>
  <2>1. conn' = conn /\ taken' = taken /\ wire' = wire /\ written' = written
    BY <1>3
  <2> QED
    BY <1>1, <2>1 DEF FramingInv
<1>4. CASE ReadPending
  BY <1>1, <1>4, ReadPendingFraming
<1>5. CASE ReadObserver
  BY <1>1, <1>5, ReadObserverFraming
<1>6. CASE ReadClient
  BY <1>1, <1>6, ReadClientFraming
<1>7. CASE ClientReads
  BY <1>1, <1>7, ClientReadsFraming
<1>8. CASE Flush
  <2>1. taken' = taken /\ wire' = wire /\ written' = written
        /\ (conn' = conn \/ conn' = [conn EXCEPT !.role = "gone"])
    BY <1>8 DEF Flush
  <2>2. IsConn(conn)
    BY <1>1 DEF StreamInv
  <2>3. conn' = [conn EXCEPT !.role = "gone"] => conn'.role = "gone"
    BY <2>2 DEF IsConn
  <2>4. CASE conn' = conn
    BY <1>3, <2>1, <2>4
  <2>5. CASE conn'.role = "gone"
    BY <2>5 DEF FramingInv
  <2> QED
    BY <2>1, <2>3, <2>4, <2>5
<1>9. CASE Poll
  BY <1>3, <1>9 DEF Poll
<1>10. CASE HangUp
  BY <1>3, <1>10 DEF HangUp
<1>11. CASE UNCHANGED vars
  BY <1>3, <1>11 DEF vars
<1> QED
  BY <1>1, <1>2, <1>4, <1>5, <1>6, <1>7, <1>8, <1>9, <1>10, <1>11 DEF Next

\* Bytes begin with what they begin with.
LEMMA BeginsWith ==
  ASSUME NEW s \in Seq(Byte), NEW t \in Seq(Byte), NEW all, all = Join(s, t)
  PROVE  IsPrefix(s, all)
<1>1. all \in Seq(Byte) /\ Len(all) = Len(s) + Len(t)
  BY JoinBytes
<1>2. \A i \in 1 .. Len(s) : all[i] = s[i]
  BY ConcatProperties DEF Join
<1>3. Len(s) \in Nat /\ Len(t) \in Nat
  OBVIOUS
<1>4. Len(s) <= Len(all)
  BY <1>1, <1>3
<1> DEFINE n == Len(s)
           a == SubSeq(s, 1, n)
           b == SubSeq(all, 1, n)
<1>5. a \in Seq(Byte) /\ Len(a) = n /\ \A i \in 1 .. n : a[i] = s[i]
  BY <1>3
<1>6. b \in Seq(Byte) /\ Len(b) = n /\ \A i \in 1 .. n : b[i] = all[i]
  BY <1>1, <1>3, <1>4
<1> HIDE DEF a, b
<1>7. a = b
  BY <1>2, <1>3, <1>5, <1>6
<1> QED
  BY <1>4, <1>7 DEF IsPrefix, a, b

\* What the invariant says of the bytes that are encoded again.
LEMMA FramingImplies == StreamInv /\ FramingInv => FramingExact
<1>1. SUFFICES ASSUME StreamInv, FramingInv, conn.role # "gone"
               PROVE  IF conn.closing THEN IsPrefix(EncodedTaken, written)
                      ELSE EncodedTaken \o conn.input \o wire = written
  BY DEF FramingExact
<1> DEFINE end == End(conn.role)
           codes == Codes(end, taken)
           flat == FlattenSeq(codes)
<1>2. PICK read \in Seq(Byte) : written = Join(read, wire) /\ Accounted(end, conn, taken, read)
  BY <1>1 DEF FramingInv
<1>3. EncodedTaken = flat
  <2>1. \A m : Encode(m) = Code(end, m)
    BY DEF Encode, Code, End
  <2> HIDE DEF end
  <2>2. [i \in 1 .. Len(taken) |-> Encode(taken[i])] = codes
    BY <2>1 DEF Codes
  <2> QED
    BY <2>2, Zenon DEF EncodedTaken
<1> HIDE DEF end
<1>4. Accounts(codes, conn, read)
  BY <1>2 DEF Accounted
<1>5. flat \in Seq(Byte)
  <2> HIDE DEF codes
  <2>1. codes \in Seq(Seq(Byte))
    BY <1>4 DEF Accounts
  <2> QED
    BY <2>1, FlattenAppend
<1>6. wire \in Seq(Byte) /\ conn.input \in Seq(Byte)
  BY <1>1 DEF StreamInv, IsConn
<1>7. CASE conn.closing
  <2>1. PICK rest \in Seq(Byte) : read = Join(flat, rest)
    BY <1>4, <1>7 DEF Accounts
  <2> HIDE DEF flat
  <2>2. written = Join(flat, Join(rest, wire))
    BY <1>2, <1>5, <1>6, <2>1, JoinGroups
  <2>3. Join(rest, wire) \in Seq(Byte)
    BY <1>6, JoinBytes
  <2>4. IsPrefix(flat, written)
    BY ONLY <1>5, <2>2, <2>3, BeginsWith
  <2> QED
    BY <1>3, <1>7, <2>4
<1>8. CASE ~conn.closing
  <2>1. read = Join(flat, conn.input)
    BY <1>4, <1>8 DEF Accounts
  <2> HIDE DEF flat
  <2>2. written = Join(Join(flat, conn.input), wire)
    BY <1>2, <2>1
  <2>3. written = (flat \o conn.input) \o wire
    BY ONLY <2>2, Zenon DEF Join
  <2> QED
    BY <1>3, <1>8, <2>3
<1> QED
  BY <1>7, <1>8

-----------------------------------------------------------------------------
(***************************************************************************)
(* The theorems.                                                           *)
(***************************************************************************)
\* The invariant holds in every state.
THEOREM Inductive == Spec => []StreamInv
<1>1. StreamInv /\ [Next]_vars => StreamInv'
  BY StepKeeps
<1> QED
  BY InitInv, <1>1, PTL DEF Spec

(***************************************************************************)
(* The owner never waits in poll with a complete message of an interactive *)
(* client in its input (has_input in run, the loop of read_client), however *)
(* many messages a read brings and wherever it ends.                       *)
(***************************************************************************)
THEOREM ServedBeforeWaiting == Spec => []ServedBeforePolling
<1>1. StreamInv => ServedBeforePolling
  BY DEF StreamInv, ServedBeforePolling, NoMore
<1> QED
  BY <1>1, Inductive, PTL

(***************************************************************************)
(* A connection that is refused or lost takes and serves nothing more      *)
(* (close_when_flushed forgets the input, poll asks for none).             *)
(***************************************************************************)
THEOREM RefusedForGood == Spec => RefusalIsFinal
<1>1. StreamInv /\ [Next]_vars => [~Open => taken' = taken /\ served' = served]_vars
  BY StepKeeps
<1> QED
  BY <1>1, Inductive, PTL DEF Spec, RefusalIsFinal

(***************************************************************************)
(* Whatever bytes arrive, what a decoder admits FrameReducer.push refuses  *)
(* for its revision at most, so that a client shows the first of its       *)
(* frames of the highest revision.                                         *)
(***************************************************************************)
THEOREM NewestShown == Spec => []ShowsNewest
<1>1. StreamInv => ShowsNewest
  BY DEF StreamInv, Newest, ShowsNewest
<1> QED
  BY <1>1, Inductive, PTL

(***************************************************************************)
(* No byte is lost, read twice or skipped, whatever the pieces in which    *)
(* the bytes arrive and whatever bytes they are, and what a decoder takes  *)
(* is encoded by the very bytes it was taken from (client_message_len and  *)
(* its decode against the encode; the drain of next_incoming): the         *)
(* messages taken, encoded again, the input and the stream are what was    *)
(* written.                                                                *)
(***************************************************************************)
THEOREM AllBytesAccountedFor == Spec => []FramingExact
<1>1. Init => StreamInv /\ FramingInv
  BY InitInv, InitFraming
<1>2. (StreamInv /\ FramingInv) /\ [Next]_vars => (StreamInv /\ FramingInv)'
  BY StepKeeps, StepFraming
<1>3. StreamInv /\ FramingInv => FramingExact
  BY FramingImplies
<1> QED
  BY <1>1, <1>2, <1>3, PTL DEF Spec
=============================================================================
