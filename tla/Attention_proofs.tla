---------------------------- MODULE Attention_proofs ----------------------------
(***************************************************************************)
(* Proofs about attention/attention.cpp.                                   *)
(*                                                                         *)
(* Its numbers (QuantizedAttention, KernelBackend), for every dimension up *)
(* to the last of Powers, every offer of vectors and every content of the  *)
(* cache:                                                                  *)
(*                                                                         *)
(* What pack_indices packs, every reader recovers: lemmas on numbers, one  *)
(* on each of the formats, and the invariant that a token holds what       *)
(* quantize_into made of its vectors (TokensStored).                       *)
(*                                                                         *)
(* The rotation goes there and back: two passes over pairs commute, a pass *)
(* done twice doubles, so the passes done twice multiply by the length; a  *)
(* pass is symmetric for the dot product and linear, so a score or a       *)
(* weighted sum may be taken before or after it.                           *)
(*                                                                         *)
(* The search finds a nearest centroid: the thresholds it counts are the   *)
(* middles of a rising codebook, so a number lies in the bracket of its    *)
(* code.                                                                   *)
(*                                                                         *)
(* An answer attends to the dequantized tokens and covers the mass asked   *)
(* for (AnswerInv), and both backends compute the same: every fold over    *)
(* the tokens is a sum of terms, in whatever groups it takes them.         *)
(*                                                                         *)
(* Its threads (ThreadScratch), for any number of threads, heads, tokens   *)
(* and queries, any thresholds and any interleaving: a head is appended to *)
(* by one thread alone, or computed on by a team while its cache does not  *)
(* change (Exclusive); therefore what a thread finds in its buffers is     *)
(* what it left there for the step it is at (Buffered); and a query of a   *)
(* batch is untaken, in work or answered (Outstanding).                    *)
(***************************************************************************)
EXTENDS KernelBackend, ThreadScratch, Facts, SequenceTheorems, TLAPS

-----------------------------------------------------------------------------
(* The fields of a number. *)

LEMMA Digits4 ==
  ASSUME NEW a \in 0 .. 3, NEW b \in 0 .. 3, NEW c \in 0 .. 3, NEW d \in 0 .. 3,
         NEW p \in Nat, p = 64 * a + 16 * b + 4 * c + d
  PROVE  /\ (p \div 64) % 4 = a
         /\ (p \div 16) % 4 = b
         /\ (p \div 4) % 4 = c
         /\ p % 4 = d
BY SMT

LEMMA Nibbles ==
  ASSUME NEW a \in 0 .. 15, NEW b \in 0 .. 15, NEW p \in Nat,
         p = ((16 * a) % 256) + (b % 16)
  PROVE  p \div 16 = a /\ p % 16 = b
BY SMT

(* What a byte keeps of a code that is split over two of them. *)
LEMMA Split ==
  ASSUME NEW s \in 0 .. 7
  PROVE  /\ s \div 2 \in 0 .. 3 /\ s \div 4 \in 0 .. 1
         /\ s % 2 \in 0 .. 1 /\ s % 4 \in 0 .. 3
         /\ s = 2 * (s \div 2) + (s % 2)
         /\ s = 4 * (s \div 4) + (s % 4)
         /\ (128 * s) % 256 = 128 * (s % 2)
         /\ (64 * s) % 256 = 64 * (s % 4)
BY SMT

(* Eight codes of three bits, as one number, and the number as them. *)
Octal(x) ==
  2097152 * x[0] + 262144 * x[1] + 32768 * x[2] + 4096 * x[3] + 512 * x[4] + 64 * x[5]
  + 8 * x[6] + x[7]

HasDigits(v, x) ==
  /\ (v \div 2097152) % 8 = x[0] /\ (v \div 262144) % 8 = x[1]
  /\ (v \div 32768) % 8 = x[2] /\ (v \div 4096) % 8 = x[3]
  /\ (v \div 512) % 8 = x[4] /\ (v \div 64) % 8 = x[5]
  /\ (v \div 8) % 8 = x[6] /\ v % 8 = x[7]

LEMMA OctalDigits ==
  ASSUME NEW x \in [0 .. 7 -> 0 .. 7], NEW v \in Nat, v = Octal(x)
  PROVE  HasDigits(v, x)
<1> DEFINE a == x[0]
           b == x[1]
           c == x[2]
           d == x[3]
           e == x[4]
           f == x[5]
           g == x[6]
           h == x[7]
<1>a. /\ a \in 0 .. 7 /\ b \in 0 .. 7 /\ c \in 0 .. 7 /\ d \in 0 .. 7
      /\ e \in 0 .. 7 /\ f \in 0 .. 7 /\ g \in 0 .. 7 /\ h \in 0 .. 7
  OBVIOUS
<1>b. v = 2097152 * a + 262144 * b + 32768 * c + 4096 * d + 512 * e + 64 * f + 8 * g + h
  BY SMT DEF Octal
<1> HIDE DEF a, b, c, d, e, f, g, h
<1>1. (v \div 2097152) % 8 = a
  BY <1>a, <1>b, SMT
<1>2. (v \div 262144) % 8 = b
  <2>1. v \div 262144 = 8 * a + b
    BY <1>a, <1>b, SMT
  <2> QED
    BY <1>a, <2>1, SMT
<1>3. (v \div 32768) % 8 = c
  <2>1. v \div 32768 = 64 * a + 8 * b + c
    BY <1>a, <1>b, SMT
  <2> QED
    BY <1>a, <2>1, SMT
<1>4. (v \div 4096) % 8 = d
  <2>1. v \div 4096 = 512 * a + 64 * b + 8 * c + d
    BY <1>a, <1>b, SMT
  <2> QED
    BY <1>a, <2>1, SMT
<1>5. (v \div 512) % 8 = e
  <2>1. v \div 512 = 4096 * a + 512 * b + 64 * c + 8 * d + e
    BY <1>a, <1>b, SMT
  <2> QED
    BY <1>a, <2>1, SMT
<1>6. (v \div 64) % 8 = f
  <2>1. v \div 64 = 32768 * a + 4096 * b + 512 * c + 64 * d + 8 * e + f
    BY <1>a, <1>b, SMT
  <2> QED
    BY <1>a, <2>1, SMT
<1>7. (v \div 8) % 8 = g
  <2>1. v \div 8 = 262144 * a + 32768 * b + 4096 * c + 512 * d + 64 * e + 8 * f + g
    BY <1>a, <1>b, SMT
  <2> QED
    BY <1>a, <2>1, SMT
<1>8. v % 8 = h
  BY <1>a, <1>b, SMT
<1> QED
  BY <1>1, <1>2, <1>3, <1>4, <1>5, <1>6, <1>7, <1>8, SMT
  DEF HasDigits, a, b, c, d, e, f, g, h

(* Two bytes, as one little-endian number. *)
LEMMA Word ==
  ASSUME NEW p \in Byte, NEW q \in Byte, NEW v \in Nat, v = p + 256 * q
  PROVE  /\ (v \div 64) % 4 = (p \div 64) % 4 /\ (v \div 16) % 4 = (p \div 16) % 4
         /\ (v \div 4) % 4 = (p \div 4) % 4 /\ v % 4 = p % 4
         /\ (v \div 16384) % 4 = (q \div 64) % 4 /\ (v \div 4096) % 4 = (q \div 16) % 4
         /\ (v \div 1024) % 4 = (q \div 4) % 4 /\ (v \div 256) % 4 = q % 4
<1>1. (v \div 64) % 4 = (p \div 64) % 4
  BY SMT DEF Byte
<1>2. (v \div 16) % 4 = (p \div 16) % 4
  BY SMT DEF Byte
<1>3. (v \div 4) % 4 = (p \div 4) % 4
  BY SMT DEF Byte
<1>4. v % 4 = p % 4
  BY SMT DEF Byte
<1>5. (v \div 16384) % 4 = (q \div 64) % 4
  BY SMT DEF Byte
<1>6. (v \div 4096) % 4 = (q \div 16) % 4
  BY SMT DEF Byte
<1>7. (v \div 1024) % 4 = (q \div 4) % 4
  BY SMT DEF Byte
<1>8. (v \div 256) % 4 = q % 4
  <2>1. p \in 0 .. 255 /\ q \in 0 .. 255
    BY DEF Byte
  <2>2. v \div 256 = q
    BY <2>1
  <2> QED
    BY <2>2
<1> QED
  BY <1>1, <1>2, <1>3, <1>4, <1>5, <1>6, <1>7, <1>8

-----------------------------------------------------------------------------
(* Positions and their bytes. *)

LEMMA Halves ==
  ASSUME NEW i \in Position
  PROVE  /\ i = 2 * (i \div 2) + (i % 2) /\ i % 2 \in 0 .. 1
         /\ i \div 2 \in 0 .. PackedBytes(4) - 1
<1>1. PackedBytes(4) = Padded \div 2
  BY DEF PackedBytes
<1>2. i \in Int /\ 0 <= i /\ i < Padded /\ Padded \in Nat /\ Padded % 2 = 0
  BY PaddedAssumption, SMT DEF Position
<1>3. i = 2 * (i \div 2) + (i % 2) /\ i % 2 \in 0 .. 1
  BY <1>2, SMT
<1>4. i \div 2 \in 0 .. (Padded \div 2) - 1
  BY <1>2, SMT
<1> QED
  BY <1>1, <1>3, <1>4

(* The padded width is a whole number of groups of each size. *)
LEMMA WholeGroups ==
  \E u \in Nat : Padded = 16 * u /\ Padded \div 4 = 4 * u /\ Padded \div 8 = 2 * u
<1> DEFINE u == Padded \div 16
<1>5. Padded \in Nat /\ Padded % 16 = 0
  BY PaddedAssumption
<1>1. u \in Int /\ Padded = 16 * u + (Padded % 16)
  BY <1>5, DivMod
<1> HIDE DEF u
<1>2. u \in Nat /\ Padded = 16 * u
  BY <1>1, <1>5
<1>3. Padded \div 4 = 4 * u
  BY <1>2
<1>4. Padded \div 8 = 2 * u
  BY <1>2
<1> QED
  BY <1>2, <1>3, <1>4

LEMMA Quarters ==
  ASSUME NEW i \in Position
  PROVE  /\ i = 4 * (i \div 4) + (i % 4) /\ i % 4 \in 0 .. 3
         /\ i \div 4 \in 0 .. PackedBytes(2) - 1
<1>1. PICK u \in Nat : Padded = 16 * u /\ Padded \div 4 = 4 * u /\ Padded \div 8 = 2 * u
  BY WholeGroups
<1>2. i \in Nat /\ i < 16 * u
  BY <1>1 DEF Position
<1>3. i \div 4 \in Int /\ i % 4 \in 0 .. 3 /\ i = 4 * (i \div 4) + (i % 4)
  BY <1>2, DivMod
<1>4. PackedBytes(2) = 4 * u
  BY <1>1 DEF PackedBytes
<1>5. i \div 4 \in 0 .. 4 * u - 1
  BY <1>2, <1>3
<1> QED
  BY <1>3, <1>4, <1>5

LEMMA Eighths ==
  ASSUME NEW i \in Position
  PROVE  /\ i = 8 * (i \div 8) + (i % 8) /\ i % 8 \in 0 .. 7
         /\ \A k \in 0 .. 7 : 8 * (i \div 8) + k \in Position
         /\ \A k \in 0 .. 2 : 3 * (i \div 8) + k \in 0 .. PackedBytes(3) - 1
<1> DEFINE q == i \div 8
           r == i % 8
<1>1. PICK u \in Nat : Padded = 16 * u /\ Padded \div 4 = 4 * u /\ Padded \div 8 = 2 * u
  BY WholeGroups
<1>2. i \in Nat /\ i < 16 * u
  BY <1>1 DEF Position
<1>3. q \in Int /\ r \in 0 .. 7 /\ i = 8 * q + r
  BY <1>2, DivMod
<1>4. PackedBytes(3) = 3 * (2 * u)
  BY <1>1 DEF PackedBytes
<1> HIDE DEF q, r
<1>5. q \in 0 .. 2 * u - 1
  BY <1>2, <1>3
<1>6. \A k \in 0 .. 7 : 8 * q + k \in Position
  BY <1>1, <1>5 DEF Position
<1>7. \A k \in 0 .. 2 : 3 * q + k \in 0 .. PackedBytes(3) - 1
  BY <1>4, <1>5
<1> QED
  BY <1>3, <1>6, <1>7 DEF q, r

LEMMA GroupsInside ==
  /\ \A b \in 0 .. PackedBytes(2) - 1 : \A k \in 0 .. 3 : 4 * b + k \in Position
  /\ \A b \in 0 .. PackedBytes(4) - 1 : \A k \in 0 .. 1 : 2 * b + k \in Position
BY PaddedAssumption, SMT DEF Position, PackedBytes

(* The blocks a four-token kernel reads are those of the others. *)
LEMMA QuadIsSingle ==
  ASSUME NEW b \in Bits, NEW i \in Position, NEW src
  PROVE  Quad(src, i, b) = Single(src, i, b)
<1>1. 2 * b * (i \div 16) + (IF i % 16 < 8 THEN 0 ELSE b) = b * (i \div 8)
  <2>1. i \div 8 = 2 * (i \div 16) + (IF i % 16 < 8 THEN 0 ELSE 1)
    BY PaddedAssumption, SMT DEF Position
  <2>2. i \div 16 \in Nat /\ i \div 8 \in Nat
    BY PaddedAssumption, SMT DEF Position
  <2>3. b = 2 \/ b = 3 \/ b = 4
    BY SMT DEF Bits
  <2> QED
    BY <2>1, <2>2, <2>3, SMT
<1> QED
  BY <1>1 DEF Quad, Single, Step
-----------------------------------------------------------------------------
(* The three formats. *)

(* Two bits: four codes in a byte. *)
LEMMA Bytes2 ==
  ASSUME NEW idx \in [Position -> 0 .. 3], NEW b \in 0 .. PackedBytes(2) - 1
  PROVE  /\ pack2(idx)[b] \in Byte
         /\ (pack2(idx)[b] \div 64) % 4 = idx[4 * b]
         /\ (pack2(idx)[b] \div 16) % 4 = idx[4 * b + 1]
         /\ (pack2(idx)[b] \div 4) % 4 = idx[4 * b + 2]
         /\ pack2(idx)[b] % 4 = idx[4 * b + 3]
<1>1. 4 * b \in Position /\ 4 * b + 1 \in Position /\ 4 * b + 2 \in Position
      /\ 4 * b + 3 \in Position
  <2>1. \A k \in 0 .. 3 : 4 * b + k \in Position
    BY GroupsInside
  <2> QED
    BY <2>1, PaddedAssumption, SMT DEF PackedBytes
<1>2. /\ idx[4 * b] \in 0 .. 3 /\ idx[4 * b + 1] \in 0 .. 3
      /\ idx[4 * b + 2] \in 0 .. 3 /\ idx[4 * b + 3] \in 0 .. 3
  BY <1>1
<1> DEFINE p == pack2(idx)[b]
           w == idx[4 * b]
           x == idx[4 * b + 1]
           y == idx[4 * b + 2]
           z == idx[4 * b + 3]
<1>3. p = 64 * w + 16 * x + 4 * y + z
  BY DEF pack2
<1> HIDE DEF p, w, x, y, z
<1>4. w \in 0 .. 3 /\ x \in 0 .. 3 /\ y \in 0 .. 3 /\ z \in 0 .. 3
  BY <1>2 DEF w, x, y, z
<1>5. p \in Byte /\ p \in Nat
  BY <1>3, <1>4, SMT DEF Byte
<1>6. /\ (p \div 64) % 4 = w /\ (p \div 16) % 4 = x
      /\ (p \div 4) % 4 = y /\ p % 4 = z
  BY <1>3, <1>4, <1>5, Digits4
<1> QED
  BY <1>5, <1>6 DEF p, w, x, y, z

LEMMA Recovered2 ==
  ASSUME NEW idx \in [Position -> 0 .. 3]
  PROVE  /\ unpack_indices(pack_indices(idx, 2), 2) = idx
         /\ \A i \in Position : Single(pack_indices(idx, 2), i, 2) = idx[i]
<1> DEFINE src == pack2(idx)
<1>1. pack_indices(idx, 2) = src
  BY DEF pack_indices
<1>2. ASSUME NEW i \in Position
      PROVE  unpack2(src)[i] = idx[i]
  <2>1. unpack2(src)[i] = LET p == src[i \div 4]
                          IN CASE i % 4 = 0 -> (p \div 64) % 4
                               [] i % 4 = 1 -> (p \div 16) % 4
                               [] i % 4 = 2 -> (p \div 4) % 4
                               [] i % 4 = 3 -> p % 4
    BY DEF unpack2
  <2>2. /\ i = 4 * (i \div 4) + (i % 4) /\ i % 4 \in 0 .. 3
        /\ i \div 4 \in 0 .. PackedBytes(2) - 1
    BY Quarters
  <2> HIDE DEF src
  <2>3. /\ (src[i \div 4] \div 64) % 4 = idx[4 * (i \div 4)]
        /\ (src[i \div 4] \div 16) % 4 = idx[4 * (i \div 4) + 1]
        /\ (src[i \div 4] \div 4) % 4 = idx[4 * (i \div 4) + 2]
        /\ src[i \div 4] % 4 = idx[4 * (i \div 4) + 3]
    BY <2>2, Bytes2 DEF src
  <2>4. CASE i % 4 = 0
    <3>1. i = 4 * (i \div 4)
      BY <2>2, <2>4, SMT DEF Position
    <3> QED
      BY <2>1, <2>3, <2>4, <3>1
  <2>5. CASE i % 4 = 1
    BY <2>1, <2>2, <2>3, <2>5
  <2>6. CASE i % 4 = 2
    BY <2>1, <2>2, <2>3, <2>6
  <2>7. CASE i % 4 = 3
    BY <2>1, <2>2, <2>3, <2>7
  <2> QED
    BY <2>2, <2>4, <2>5, <2>6, <2>7
<1>3. unpack_indices(src, 2) = idx
  <2>1. unpack_indices(src, 2) = unpack2(src)
    BY DEF unpack_indices
  <2> HIDE DEF src
  <2>2. unpack2(src) \in [Position -> 0 .. 3]
    BY <1>2 DEF unpack2
  <2> QED
    BY <1>2, <2>1, <2>2
<1>4. ASSUME NEW i \in Position
      PROVE  Single(src, i, 2) = idx[i]
  <2> DEFINE b == 2 * (i \div 8)
             p == src[b]
             q == src[b + 1]
             v == p + 256 * q
  <2>1. /\ i = 8 * (i \div 8) + (i % 8) /\ i % 8 \in 0 .. 7
        /\ b \in 0 .. PackedBytes(2) - 1 /\ b + 1 \in 0 .. PackedBytes(2) - 1
    <3>1. PackedBytes(2) = Padded \div 4
      BY DEF PackedBytes
    <3>2. i \in Int /\ 0 <= i /\ i < Padded /\ Padded \in Nat /\ Padded % 16 = 0
      BY PaddedAssumption, SMT DEF Position
    <3>3. b \in 0 .. (Padded \div 4) - 1 /\ b + 1 \in 0 .. (Padded \div 4) - 1
      BY <3>2, SMT
    <3> QED
      BY <3>1, <3>3, Eighths
  <2>2. Single(src, i, 2) = Decode2(p, q)[i % 8]
    BY DEF Single, Decode, Step
  <2>3. /\ Decode2(p, q)[0] = (v \div 64) % 4    /\ Decode2(p, q)[4] = (v \div 16384) % 4
        /\ Decode2(p, q)[1] = (v \div 16) % 4    /\ Decode2(p, q)[5] = (v \div 4096) % 4
        /\ Decode2(p, q)[2] = (v \div 4) % 4     /\ Decode2(p, q)[6] = (v \div 1024) % 4
        /\ Decode2(p, q)[3] = v % 4              /\ Decode2(p, q)[7] = (v \div 256) % 4
    BY SMT DEF Decode2
  <2> HIDE DEF src, b
  <2>4. p \in Byte /\ q \in Byte
    BY <2>1, Bytes2 DEF src
  <2> HIDE DEF p, q
  <2>5. v \in Nat
    BY <2>4, SMT DEF Byte
  <2> HIDE DEF v
  <2>6. /\ (v \div 64) % 4 = (p \div 64) % 4 /\ (v \div 16) % 4 = (p \div 16) % 4
        /\ (v \div 4) % 4 = (p \div 4) % 4 /\ v % 4 = p % 4
        /\ (v \div 16384) % 4 = (q \div 64) % 4 /\ (v \div 4096) % 4 = (q \div 16) % 4
        /\ (v \div 1024) % 4 = (q \div 4) % 4 /\ (v \div 256) % 4 = q % 4
    BY <2>4, <2>5, Word DEF v
  <2>7. /\ (p \div 64) % 4 = idx[4 * b] /\ (p \div 16) % 4 = idx[4 * b + 1]
        /\ (p \div 4) % 4 = idx[4 * b + 2] /\ p % 4 = idx[4 * b + 3]
    BY <2>1, Bytes2 DEF src, p
  <2>8. /\ (q \div 64) % 4 = idx[4 * (b + 1)] /\ (q \div 16) % 4 = idx[4 * (b + 1) + 1]
        /\ (q \div 4) % 4 = idx[4 * (b + 1) + 2] /\ q % 4 = idx[4 * (b + 1) + 3]
    BY <2>1, Bytes2 DEF src, q
  <2>9. i \div 8 \in Nat /\ b = 2 * (i \div 8)
    BY SMT DEF Position, b
  <2>10. /\ (i % 8 = 0 => i = 4 * b)
         /\ (i % 8 = 1 => i = 4 * b + 1)
         /\ (i % 8 = 2 => i = 4 * b + 2)
         /\ (i % 8 = 3 => i = 4 * b + 3)
         /\ (i % 8 = 4 => i = 4 * (b + 1))
         /\ (i % 8 = 5 => i = 4 * (b + 1) + 1)
         /\ (i % 8 = 6 => i = 4 * (b + 1) + 2)
         /\ (i % 8 = 7 => i = 4 * (b + 1) + 3)
    BY <2>1, <2>9, SMT
  <2>11. \/ i % 8 = 0 \/ i % 8 = 1 \/ i % 8 = 2 \/ i % 8 = 3
         \/ i % 8 = 4 \/ i % 8 = 5 \/ i % 8 = 6 \/ i % 8 = 7
    BY <2>1, SMT
  <2> HIDE DEF b
  <2>12. /\ i % 8 = 0 => Single(src, i, 2) = idx[i]
         /\ i % 8 = 1 => Single(src, i, 2) = idx[i]
         /\ i % 8 = 2 => Single(src, i, 2) = idx[i]
         /\ i % 8 = 3 => Single(src, i, 2) = idx[i]
    BY <2>2, <2>3, <2>6, <2>7, <2>10
  <2>13. /\ i % 8 = 4 => Single(src, i, 2) = idx[i]
         /\ i % 8 = 5 => Single(src, i, 2) = idx[i]
         /\ i % 8 = 6 => Single(src, i, 2) = idx[i]
         /\ i % 8 = 7 => Single(src, i, 2) = idx[i]
    BY <2>2, <2>3, <2>6, <2>8, <2>10
  <2> QED
    BY <2>11, <2>12, <2>13
<1> HIDE DEF src
<1> QED
  BY <1>1, <1>3, <1>4

(* Four bits: two codes in a byte. *)
LEMMA Bytes4 ==
  ASSUME NEW idx \in [Position -> 0 .. 15], NEW b \in 0 .. PackedBytes(4) - 1
  PROVE  /\ pack4(idx)[b] \div 16 = idx[2 * b]
         /\ pack4(idx)[b] % 16 = idx[2 * b + 1]
<1>1. 2 * b \in Position /\ 2 * b + 1 \in Position
  <2>1. \A k \in 0 .. 1 : 2 * b + k \in Position
    BY GroupsInside
  <2>2. b \in Int
    BY PaddedAssumption, SMT DEF PackedBytes
  <2> QED
    BY <2>1, <2>2, SMT
<1> DEFINE p == pack4(idx)[b]
           w == idx[2 * b]
           x == idx[2 * b + 1]
<1>2. w \in 0 .. 15 /\ x \in 0 .. 15
  BY <1>1
<1>3. p = ((16 * w) % 256) + (x % 16)
  BY DEF pack4
<1> HIDE DEF p, w, x
<1>4. p \in Nat
  BY <1>2, <1>3, SMT
<1>5. p \div 16 = w /\ p % 16 = x
  BY <1>2, <1>3, <1>4, Nibbles
<1> QED
  BY <1>5 DEF p, w, x

LEMMA Recovered4 ==
  ASSUME NEW idx \in [Position -> 0 .. 15]
  PROVE  /\ unpack_indices(pack_indices(idx, 4), 4) = idx
         /\ \A i \in Position : Single(pack_indices(idx, 4), i, 4) = idx[i]
<1> DEFINE src == pack4(idx)
<1>1. pack_indices(idx, 4) = src
  BY DEF pack_indices
<1>2. ASSUME NEW i \in Position
      PROVE  /\ i % 2 = 0 => src[i \div 2] \div 16 = idx[i]
             /\ i % 2 = 1 => src[i \div 2] % 16 = idx[i]
             /\ i % 2 \in 0 .. 1
  <2>1. /\ i = 2 * (i \div 2) + (i % 2) /\ i % 2 \in 0 .. 1
        /\ i \div 2 \in 0 .. PackedBytes(4) - 1
    BY Halves
  <2>2. /\ src[i \div 2] \div 16 = idx[2 * (i \div 2)]
        /\ src[i \div 2] % 16 = idx[2 * (i \div 2) + 1]
    BY <2>1, Bytes4
  <2>3. i % 2 = 0 => i = 2 * (i \div 2)
    BY <2>1, SMT DEF Position
  <2> HIDE DEF src
  <2> QED
    BY <2>1, <2>2, <2>3
<1> HIDE DEF src
<1>3. ASSUME NEW i \in Position
      PROVE  unpack4(src)[i] = idx[i]
  <2>1. unpack4(src)[i] = IF i % 2 = 0 THEN src[i \div 2] \div 16 ELSE src[i \div 2] % 16
    BY DEF unpack4
  <2>2. i % 2 = 0 \/ i % 2 = 1
    BY <1>2, SMT
  <2> QED
    BY <1>2, <2>1, <2>2
<1>4. unpack_indices(src, 4) = idx
  <2>1. unpack_indices(src, 4) = unpack4(src)
    BY DEF unpack_indices
  <2>2. unpack4(src) \in [Position -> 0 .. 15]
    BY <1>3 DEF unpack4
  <2> QED
    BY <1>3, <2>1, <2>2
<1>5. ASSUME NEW i \in Position
      PROVE  Single(src, i, 4) = idx[i]
  <2> DEFINE b == 4 * (i \div 8)
             p == [j \in 0 .. 3 |-> src[b + j]]
             k == i % 8
  <2>1. Single(src, i, 4) = Decode4(p)[k]
    BY DEF Single, Decode, Step
  <2>2. /\ i = 8 * (i \div 8) + k /\ k \in 0 .. 7
        /\ i \div 8 \in Nat
    BY Eighths, SMT DEF Position
  <2>3. k % 2 = i % 2 /\ k \div 2 \in 0 .. 3 /\ b + (k \div 2) = i \div 2
    BY <2>2, SMT
  <2> HIDE DEF b, k
  <2>4. Decode4(p)[k] = IF k % 2 = 0 THEN p[k \div 2] \div 16 ELSE p[k \div 2] % 16
    BY <2>2 DEF Decode4
  <2>5. p[k \div 2] = src[i \div 2]
    BY <2>3
  <2> HIDE DEF p
  <2>6. i % 2 = 0 \/ i % 2 = 1
    BY <1>2, SMT
  <2> QED
    BY <1>2, <2>1, <2>3, <2>4, <2>5, <2>6
<1> QED
  BY <1>1, <1>4, <1>5

(* The number Decode<3> assembles of three bytes. *)
Number(p, q, r) == 65536 * p + 256 * q + r

(* Three bits: eight codes in three bytes, read one by one or as a number. *)
LEMMA Triple ==
  ASSUME NEW x \in [0 .. 7 -> 0 .. 7], NEW p, NEW q, NEW r,
         p = 32 * x[0] + 4 * x[1] + (x[2] \div 2),
         q = ((128 * x[2]) % 256) + 16 * x[3] + 2 * x[4] + (x[5] \div 4),
         r = ((64 * x[5]) % 256) + 8 * x[6] + x[7]
  PROVE  /\ p \in Byte /\ q \in Byte /\ r \in Byte
         /\ (p \div 32) % 8 = x[0]
         /\ (p \div 4) % 8 = x[1]
         /\ 2 * (p % 4) + (q \div 128) = x[2]
         /\ (q \div 16) % 8 = x[3]
         /\ (q \div 2) % 8 = x[4]
         /\ 4 * (q % 2) + (r \div 64) = x[5]
         /\ (r \div 8) % 8 = x[6]
         /\ r % 8 = x[7]
         /\ Number(p, q, r) = Octal(x)
<1> DEFINE a == x[0]
           b == x[1]
           c == x[2]
           d == x[3]
           e == x[4]
           f == x[5]
           g == x[6]
           h == x[7]
<1>a. /\ a \in 0 .. 7 /\ b \in 0 .. 7 /\ c \in 0 .. 7 /\ d \in 0 .. 7
      /\ e \in 0 .. 7 /\ f \in 0 .. 7 /\ g \in 0 .. 7 /\ h \in 0 .. 7
  OBVIOUS
<1>b. /\ p = 32 * a + 4 * b + (c \div 2)
      /\ q = ((128 * c) % 256) + 16 * d + 2 * e + (f \div 4)
      /\ r = ((64 * f) % 256) + 8 * g + h
  OBVIOUS
<1> HIDE DEF a, b, c, d, e, f, g, h
<1> DEFINE c1 == c \div 2
           c0 == c % 2
           f1 == f \div 4
           f0 == f % 4
<1>1. /\ c1 \in 0 .. 3 /\ c0 \in 0 .. 1 /\ c = 2 * c1 + c0
      /\ f1 \in 0 .. 1 /\ f0 \in 0 .. 3 /\ f = 4 * f1 + f0
      /\ (128 * c) % 256 = 128 * c0
      /\ (64 * f) % 256 = 64 * f0
  BY ONLY <1>a, Split
<1>2. p = 32 * a + 4 * b + c1
  BY <1>b
<1>3. q = 128 * c0 + 16 * d + 2 * e + f1
  BY <1>1, <1>b
<1>4. r = 64 * f0 + 8 * g + h
  BY <1>1, <1>b
<1> HIDE DEF c1, c0, f1, f0
<1>5. p \in Byte /\ q \in Byte /\ r \in Byte
  BY ONLY <1>a, <1>1, <1>2, <1>3, <1>4, SMT DEF Byte
<1>6. (p \div 32) % 8 = a /\ (p \div 4) % 8 = b /\ p % 4 = c1
  BY ONLY <1>a, <1>1, <1>2, SMT
<1>7. q \div 128 = c0 /\ (q \div 16) % 8 = d /\ (q \div 2) % 8 = e /\ q % 2 = f1
  <2>1. q \div 128 = c0
    BY ONLY <1>a, <1>1, <1>3, SMT
  <2>2. q \div 16 = 8 * c0 + d
    BY ONLY <1>a, <1>1, <1>3, SMT
  <2>3. q \div 2 = 64 * c0 + 8 * d + e
    BY ONLY <1>a, <1>1, <1>3, SMT
  <2>4. (q \div 16) % 8 = d
    BY ONLY <1>a, <1>1, <2>2, SMT
  <2>5. (q \div 2) % 8 = e
    BY ONLY <1>a, <1>1, <2>3, SMT
  <2>6. q % 2 = f1
    BY ONLY <1>a, <1>1, <1>3, SMT
  <2> QED
    BY <2>1, <2>4, <2>5, <2>6
<1>8. r \div 64 = f0 /\ (r \div 8) % 8 = g /\ r % 8 = h
  BY ONLY <1>a, <1>1, <1>4, SMT
<1>9. Number(p, q, r) = Octal(x)
  <2>1. 65536 * p + 256 * q + r
        = 2097152 * a + 262144 * b + 32768 * c + 4096 * d + 512 * e + 64 * f + 8 * g + h
    BY ONLY <1>a, <1>1, <1>2, <1>3, <1>4, SMT
  <2> QED
    BY ONLY <2>1, SMT DEF Number, Octal, a, b, c, d, e, f, g, h
<1>10. 2 * (p % 4) + (q \div 128) = c /\ 4 * (q % 2) + (r \div 64) = f
  BY <1>1, <1>6, <1>7, <1>8
<1> QED
  BY <1>5, <1>6, <1>7, <1>8, <1>9, <1>10 DEF a, b, c, d, e, f, g, h

LEMMA Bytes3 ==
  ASSUME NEW idx \in [Position -> 0 .. 7], NEW t \in Nat,
         \A k \in 0 .. 7 : 8 * t + k \in Position,
         \A k \in 0 .. 2 : 3 * t + k \in 0 .. PackedBytes(3) - 1
  PROVE  /\ pack3(idx)[3 * t] = 32 * idx[8 * t] + 4 * idx[8 * t + 1] + (idx[8 * t + 2] \div 2)
         /\ pack3(idx)[3 * t + 1] = ((128 * idx[8 * t + 2]) % 256) + 16 * idx[8 * t + 3]
                                    + 2 * idx[8 * t + 4] + (idx[8 * t + 5] \div 4)
         /\ pack3(idx)[3 * t + 2] = ((64 * idx[8 * t + 5]) % 256) + 8 * idx[8 * t + 6]
                                    + idx[8 * t + 7]
<1> DEFINE First(s)  == 32 * idx[s] + 4 * idx[s + 1] + (idx[s + 2] \div 2)
           Second(s) == ((128 * idx[s + 2]) % 256) + 16 * idx[s + 3] + 2 * idx[s + 4]
                        + (idx[s + 5] \div 4)
           Third(s)  == ((64 * idx[s + 5]) % 256) + 8 * idx[s + 6] + idx[s + 7]
           Body(b)   == CASE b % 3 = 0 -> First(8 * (b \div 3))
                          [] b % 3 = 1 -> Second(8 * (b \div 3))
                          [] b % 3 = 2 -> Third(8 * (b \div 3))
<1>1. pack3(idx) = [b \in 0 .. PackedBytes(3) - 1 |-> Body(b)]
  BY DEF pack3
<1>2. /\ 3 * t \in 0 .. PackedBytes(3) - 1
      /\ 3 * t + 1 \in 0 .. PackedBytes(3) - 1
      /\ 3 * t + 2 \in 0 .. PackedBytes(3) - 1
  <2>1. 3 * t + 0 = 3 * t
    BY SMT
  <2> QED
    BY <2>1
<1>3. /\ (3 * t) \div 3 = t /\ (3 * t) % 3 = 0
      /\ (3 * t + 1) \div 3 = t /\ (3 * t + 1) % 3 = 1
      /\ (3 * t + 2) \div 3 = t /\ (3 * t + 2) % 3 = 2
  BY SMT
<1> HIDE DEF First, Second, Third
<1>4. Body(3 * t) = First(8 * t)
  <2>1. (3 * t) % 3 # 1 /\ (3 * t) % 3 # 2
    BY <1>3
  <2> QED
    BY <1>3, <2>1
<1>5. Body(3 * t + 1) = Second(8 * t)
  BY <1>3
<1>6. Body(3 * t + 2) = Third(8 * t)
  BY <1>3
<1> HIDE DEF Body
<1>7. /\ pack3(idx)[3 * t] = Body(3 * t)
      /\ pack3(idx)[3 * t + 1] = Body(3 * t + 1)
      /\ pack3(idx)[3 * t + 2] = Body(3 * t + 2)
  BY <1>1, <1>2
<1> QED
  BY <1>4, <1>5, <1>6, <1>7 DEF First, Second, Third

(* What is read of a group of eight codes. *)
Eight(idx, t) == [k \in 0 .. 7 |-> idx[8 * t + k]]

LEMMA Group3 ==
  ASSUME NEW idx \in [Position -> 0 .. 7], NEW t \in Nat,
         \A k \in 0 .. 7 : 8 * t + k \in Position,
         \A k \in 0 .. 2 : 3 * t + k \in 0 .. PackedBytes(3) - 1,
         NEW p, NEW q, NEW r,
         p = pack3(idx)[3 * t], q = pack3(idx)[3 * t + 1], r = pack3(idx)[3 * t + 2]
  PROVE  /\ p \in Byte /\ q \in Byte /\ r \in Byte
         /\ \A k \in 0 .. 7 : idx[8 * t + k] \in 0 .. 7
         /\ (p \div 32) % 8 = idx[8 * t]
         /\ (p \div 4) % 8 = idx[8 * t + 1]
         /\ 2 * (p % 4) + (q \div 128) = idx[8 * t + 2]
         /\ (q \div 16) % 8 = idx[8 * t + 3]
         /\ (q \div 2) % 8 = idx[8 * t + 4]
         /\ 4 * (q % 2) + (r \div 64) = idx[8 * t + 5]
         /\ (r \div 8) % 8 = idx[8 * t + 6]
         /\ r % 8 = idx[8 * t + 7]
         /\ Eight(idx, t) \in [0 .. 7 -> 0 .. 7]
         /\ Number(p, q, r) = Octal(Eight(idx, t))
<1> DEFINE x == Eight(idx, t)
<1>1. \A k \in 0 .. 7 : idx[8 * t + k] \in 0 .. 7
  OBVIOUS
<1>2. 8 * t + 0 = 8 * t
  BY SMT
<1>3. /\ x[0] = idx[8 * t] /\ x[1] = idx[8 * t + 1]
      /\ x[2] = idx[8 * t + 2] /\ x[3] = idx[8 * t + 3]
      /\ x[4] = idx[8 * t + 4] /\ x[5] = idx[8 * t + 5]
      /\ x[6] = idx[8 * t + 6] /\ x[7] = idx[8 * t + 7]
  BY <1>2 DEF Eight
<1>4. x \in [0 .. 7 -> 0 .. 7]
  BY <1>1 DEF Eight
<1> HIDE DEF x
<1>5. /\ p = 32 * x[0] + 4 * x[1] + (x[2] \div 2)
      /\ q = ((128 * x[2]) % 256) + 16 * x[3] + 2 * x[4] + (x[5] \div 4)
      /\ r = ((64 * x[5]) % 256) + 8 * x[6] + x[7]
  BY <1>3, Bytes3
<1>6. /\ p \in Byte /\ q \in Byte /\ r \in Byte
      /\ (p \div 32) % 8 = x[0]
      /\ (p \div 4) % 8 = x[1]
      /\ 2 * (p % 4) + (q \div 128) = x[2]
      /\ (q \div 16) % 8 = x[3]
      /\ (q \div 2) % 8 = x[4]
      /\ 4 * (q % 2) + (r \div 64) = x[5]
      /\ (r \div 8) % 8 = x[6]
      /\ r % 8 = x[7]
      /\ Number(p, q, r) = Octal(x)
  BY ONLY <1>4, <1>5, Triple
<1> QED
  BY <1>1, <1>3, <1>4, <1>6 DEF x

LEMMA Recovered3 ==
  ASSUME NEW idx \in [Position -> 0 .. 7]
  PROVE  /\ unpack_indices(pack_indices(idx, 3), 3) = idx
         /\ \A i \in Position : Single(pack_indices(idx, 3), i, 3) = idx[i]
<1> DEFINE src == pack3(idx)
<1>1. pack_indices(idx, 3) = src
  BY DEF pack_indices
<1>2. ASSUME NEW i \in Position
      PROVE  unpack3(src)[i] = idx[i] /\ Single(src, i, 3) = idx[i]
  <2> DEFINE t == i \div 8
             p == src[3 * t]
             q == src[3 * t + 1]
             r == src[3 * t + 2]
             v == Number(p, q, r)
  <2>1. /\ i = 8 * t + (i % 8) /\ i % 8 \in 0 .. 7
        /\ \A k \in 0 .. 7 : 8 * t + k \in Position
        /\ \A k \in 0 .. 2 : 3 * t + k \in 0 .. PackedBytes(3) - 1
        /\ t \in Nat
    BY Eighths, SMT DEF Position
  <2>2. unpack3(src)[i] = CASE i % 8 = 0 -> (p \div 32) % 8
                            [] i % 8 = 1 -> (p \div 4) % 8
                            [] i % 8 = 2 -> 2 * (p % 4) + (q \div 128)
                            [] i % 8 = 3 -> (q \div 16) % 8
                            [] i % 8 = 4 -> (q \div 2) % 8
                            [] i % 8 = 5 -> 4 * (q % 2) + (r \div 64)
                            [] i % 8 = 6 -> (r \div 8) % 8
                            [] i % 8 = 7 -> r % 8
    BY DEF unpack3
  <2>3. Single(src, i, 3) = Decode3(p, q, r)[i % 8]
    BY DEF Single, Decode, Step
  <2>4. /\ Decode3(p, q, r)[0] = (v \div 2097152) % 8
        /\ Decode3(p, q, r)[1] = (v \div 262144) % 8
        /\ Decode3(p, q, r)[2] = (v \div 32768) % 8
        /\ Decode3(p, q, r)[3] = (v \div 4096) % 8
        /\ Decode3(p, q, r)[4] = (v \div 512) % 8
        /\ Decode3(p, q, r)[5] = (v \div 64) % 8
        /\ Decode3(p, q, r)[6] = (v \div 8) % 8
        /\ Decode3(p, q, r)[7] = v % 8
    BY SMT DEF Decode3, Number
  <2> HIDE DEF src, t
  <2>5. p = pack3(idx)[3 * t] /\ q = pack3(idx)[3 * t + 1] /\ r = pack3(idx)[3 * t + 2]
    BY DEF src
  <2> HIDE DEF p, q, r
  <2> DEFINE a == idx[8 * t]
             b == idx[8 * t + 1]
             c == idx[8 * t + 2]
             d == idx[8 * t + 3]
             e == idx[8 * t + 4]
             f == idx[8 * t + 5]
             g == idx[8 * t + 6]
             h == idx[8 * t + 7]
  <2>6. /\ p \in Byte /\ q \in Byte /\ r \in Byte
        /\ (p \div 32) % 8 = a
        /\ (p \div 4) % 8 = b
        /\ 2 * (p % 4) + (q \div 128) = c
        /\ (q \div 16) % 8 = d
        /\ (q \div 2) % 8 = e
        /\ 4 * (q % 2) + (r \div 64) = f
        /\ (r \div 8) % 8 = g
        /\ r % 8 = h
        /\ Eight(idx, t) \in [0 .. 7 -> 0 .. 7]
        /\ v = Octal(Eight(idx, t))
    BY <2>1, <2>5, Group3
  <2>7. v \in Nat
    BY <2>6, SMT DEF Byte, Number
  <2> HIDE DEF v
  <2>8. 8 * t + 0 = 8 * t
    BY <2>1, SMT
  <2>9. /\ i % 8 = 0 => idx[i] = a
        /\ i % 8 = 1 => idx[i] = b
        /\ i % 8 = 2 => idx[i] = c
        /\ i % 8 = 3 => idx[i] = d
        /\ i % 8 = 4 => idx[i] = e
        /\ i % 8 = 5 => idx[i] = f
        /\ i % 8 = 6 => idx[i] = g
        /\ i % 8 = 7 => idx[i] = h
    BY <2>1, <2>8
  <2>10. HasDigits(v, Eight(idx, t))
    BY <2>6, <2>7, OctalDigits
  <2>11. \/ i % 8 = 0 \/ i % 8 = 1 \/ i % 8 = 2 \/ i % 8 = 3
         \/ i % 8 = 4 \/ i % 8 = 5 \/ i % 8 = 6 \/ i % 8 = 7
    BY <2>1, SMT
  <2>12. unpack3(src)[i] = idx[i]
    BY <2>2, <2>6, <2>9, <2>11
  <2>13. /\ Decode3(p, q, r)[0] = a /\ Decode3(p, q, r)[1] = b
         /\ Decode3(p, q, r)[2] = c /\ Decode3(p, q, r)[3] = d
         /\ Decode3(p, q, r)[4] = e /\ Decode3(p, q, r)[5] = f
         /\ Decode3(p, q, r)[6] = g /\ Decode3(p, q, r)[7] = h
    <3>1. /\ Eight(idx, t)[0] = a /\ Eight(idx, t)[1] = b
          /\ Eight(idx, t)[2] = c /\ Eight(idx, t)[3] = d
          /\ Eight(idx, t)[4] = e /\ Eight(idx, t)[5] = f
          /\ Eight(idx, t)[6] = g /\ Eight(idx, t)[7] = h
      BY <2>8 DEF Eight, a, b, c, d, e, f, g, h
    <3> QED
      BY ONLY <2>4, <2>10, <3>1, SMT DEF HasDigits
  <2>14. Single(src, i, 3) = idx[i]
    BY ONLY <2>3, <2>9, <2>11, <2>13
  <2> QED
    BY <2>12, <2>14
<1>3. unpack_indices(src, 3) = idx
  <2>1. unpack_indices(src, 3) = unpack3(src)
    BY DEF unpack_indices
  <2> HIDE DEF src
  <2>2. unpack3(src) \in [Position -> 0 .. 7]
    BY <1>2 DEF unpack3
  <2> QED
    BY <1>2, <2>1, <2>2
<1> HIDE DEF src
<1> QED
  BY <1>1, <1>2, <1>3

-----------------------------------------------------------------------------
(* The cache. *)

(* Whatever the value, the search ends at a code of the codebook. *)
LEMMA FastInRange ==
  ASSUME NEW v, NEW b \in Bits
  PROVE  quantize_fast(v, b) \in Code(b)
<1>1. \A i, s : Ahead(v, b, i, s) = s \/ Ahead(v, b, i, s) = 0
  BY DEF Ahead
<1> SUFFICES ASSUME b = 2 \/ b = 3 \/ b = 4
             PROVE  quantize_fast(v, b) \in Code(b)
  BY SMT DEF Bits
<1>2. CASE b = 2
  <2> DEFINE a == Ahead(v, 2, 1, 2)
             z == Ahead(v, 2, a, 1)
  <2>1. quantize_fast(v, b) = a + z
    BY <1>2 DEF quantize_fast
  <2>2. (a = 2 \/ a = 0) /\ (z = 1 \/ z = 0)
    BY <1>1, <1>2
  <2> HIDE DEF a, z
  <2>3. a + z \in 0 .. 3
    BY <2>2, SMT
  <2>4. Code(b) = 0 .. 3
    BY <1>2, SMT DEF Code, codebook_size
  <2> QED
    BY <2>1, <2>3, <2>4
<1>3. CASE b = 3
  <2> DEFINE a == Ahead(v, 3, 3, 4)
             d == Ahead(v, 3, a + 1, 2)
             z == Ahead(v, 3, a + d, 1)
  <2>1. quantize_fast(v, b) = a + d + z
    BY <1>3 DEF quantize_fast
  <2>2. (a = 4 \/ a = 0) /\ (d = 2 \/ d = 0) /\ (z = 1 \/ z = 0)
    BY <1>1, <1>3
  <2> HIDE DEF a, d, z
  <2>3. a + d + z \in 0 .. 7
    BY <2>2, SMT
  <2>4. Code(b) = 0 .. 7
    BY <1>3, SMT DEF Code, codebook_size
  <2> QED
    BY <2>1, <2>3, <2>4
<1>4. CASE b = 4
  <2> DEFINE a == Ahead(v, 4, 7, 8)
             c == Ahead(v, 4, a + 3, 4)
             d == Ahead(v, 4, a + c + 1, 2)
             z == Ahead(v, 4, a + c + d, 1)
  <2>1. quantize_fast(v, b) = a + c + d + z
    BY <1>4 DEF quantize_fast
  <2>2. (a = 8 \/ a = 0) /\ (c = 4 \/ c = 0) /\ (d = 2 \/ d = 0) /\ (z = 1 \/ z = 0)
    BY <1>1, <1>4
  <2> HIDE DEF a, c, d, z
  <2>3. a + c + d + z \in 0 .. 15
    BY <2>2, SMT
  <2>4. Code(b) = 0 .. 15
    BY <1>4, SMT DEF Code, codebook_size
  <2> QED
    BY <2>1, <2>3, <2>4
<1> QED
  BY <1>2, <1>3, <1>4

LEMMA CodesInRange ==
  ASSUME NEW x \in Vector, NEW b \in Bits
  PROVE  Codes[x][b] \in [Position -> Code(b)]
<1>1. Codes[x][b] = [i \in Position |-> quantize_fast(Clipped[x][i], b)]
  BY DEF Codes
<1> QED
  BY <1>1, FastInRange

(* A vector that is packed is found again by every reader. *)
LEMMA PackedIsRecoverable ==
  ASSUME NEW x \in Vector, bits \in Bits
  PROVE  Recoverable(quantize_into(x, bits), x)
<1> DEFINE idx  == Codes[x][bits]
           data == pack_indices(idx, bits)
<1>1. quantize_into(x, bits).data = data
  BY DEF quantize_into
<1>2. idx \in [Position -> Code(bits)]
  BY CodesInRange
<1> HIDE DEF idx
<1>3. /\ unpack_indices(data, bits) = idx
      /\ \A i \in Position : Single(data, i, bits) = idx[i]
  <2>1. bits = 2 \/ bits = 3 \/ bits = 4
    BY SMT DEF Bits
  <2>2. CASE bits = 2
    <3>1. Code(bits) = 0 .. 3
      BY <2>2, SMT DEF Code, codebook_size
    <3> QED
      BY <1>2, <2>2, <3>1, Recovered2
  <2>3. CASE bits = 3
    <3>1. Code(bits) = 0 .. 7
      BY <2>3, SMT DEF Code, codebook_size
    <3> QED
      BY <1>2, <2>3, <3>1, Recovered3
  <2>4. CASE bits = 4
    <3>1. Code(bits) = 0 .. 15
      BY <2>4, SMT DEF Code, codebook_size
    <3> QED
      BY <1>2, <2>4, <3>1, Recovered4
  <2> QED
    BY <2>1, <2>2, <2>3, <2>4
<1> HIDE DEF data
<1>4. \A i \in Position : Quad(data, i, bits) = idx[i]
  BY <1>3, QuadIsSingle
<1> QED
  BY <1>1, <1>3, <1>4 DEF Recoverable, idx

(* What a token may be: its vectors, and what quantize_into made of them. *)
Stored == {[key |-> x, val |-> y, k |-> quantize_into(x, bits), v |-> quantize_into(y, bits)] :
            x \in Vector, y \in Vector}

TokensStored == bits \in Bits /\ tokens \in Seq(Stored)

LEMMA InitStored == Init => TokensStored
BY DEF Init, TokensStored

LEMMA NextStored == TokensStored /\ [Next]_vars => TokensStored'
<1> SUFFICES ASSUME TokensStored, [Next]_vars
             PROVE  TokensStored'
  OBVIOUS
<1> USE DEF TokensStored
<1>1. ASSUME bits' = bits, tokens' \in Seq(Stored)
      PROVE  TokensStored'
  <2>1. Stored' = Stored
    BY <1>1 DEF Stored
  <2> QED
    BY <1>1, <2>1
<1>2. ASSUME Len(tokens) < Len(Offered),
             NEW kv \in Offered[Len(tokens) + 1], append_kv(kv[1], kv[2])
      PROVE  TokensStored'
  <2>1. Len(tokens) + 1 \in DOMAIN Offered
    BY <1>2, OfferedAssumption, SMT
  <2>2. kv[1] \in Vector /\ kv[2] \in Vector
    BY <2>1, OfferedAssumption
  <2> DEFINE t == [key |-> kv[1], val |-> kv[2], k |-> quantize_into(kv[1], bits),
                   v |-> quantize_into(kv[2], bits)]
  <2>3. t \in Stored
    BY <2>2 DEF Stored
  <2>4. tokens' = Append(tokens, t) /\ bits' = bits
    BY <1>2 DEF append_kv
  <2> HIDE DEF t
  <2>5. tokens' \in Seq(Stored)
    BY <2>3, <2>4
  <2> QED
    BY <1>1, <2>4, <2>5
<1>3. ASSUME NEW q \in Queries, compute(q)
      PROVE  TokensStored'
  <2>1. bits' = bits /\ tokens' = tokens
    BY <1>3 DEF compute
  <2> QED
    BY <1>1, <2>1
<1>4. CASE reset
  BY <1>1, <1>4 DEF reset
<1>5. CASE UNCHANGED vars
  BY <1>1, <1>5 DEF vars
<1> QED
  BY <1>2, <1>3, <1>4, <1>5 DEF Next

(* Whatever keys and values were appended, of whatever length, in any of   *)
(* the three formats, every reader finds the codes quantize_into chose.    *)
THEOREM EveryReaderRecovers == Spec => []PackedRecoverable
<1>1. TokensStored => PackedRecoverable
  <2> SUFFICES ASSUME TokensStored, NEW t \in DOMAIN tokens
               PROVE  /\ Recoverable(tokens[t].k, tokens[t].key)
                      /\ Recoverable(tokens[t].v, tokens[t].val)
    BY DEF PackedRecoverable
  <2>1. bits \in Bits /\ tokens[t] \in Stored
    BY DEF TokensStored
  <2>2. PICK x \in Vector, y \in Vector :
          tokens[t] = [key |-> x, val |-> y, k |-> quantize_into(x, bits),
                       v |-> quantize_into(y, bits)]
    BY <2>1 DEF Stored
  <2>3. Recoverable(quantize_into(x, bits), x) /\ Recoverable(quantize_into(y, bits), y)
    BY <2>1, PackedIsRecoverable
  <2> QED
    BY <2>2, <2>3
<1> QED
  BY <1>1, InitStored, NextStored, PTL DEF Spec

-----------------------------------------------------------------------------
(* The pairs of a pass. *)

(* The partner of a place in a pass over blocks of 2 * l. *)
Low(i, l) == (i \div l) % 2 = 0

LEMMA LowParts ==
  ASSUME NEW l \in Nat \ {0}, NEW i \in Nat
  PROVE  \E h \in Nat, r \in 0 .. l - 1 :
           /\ Low(i, l) => i = 2 * l * h + r
           /\ ~Low(i, l) => i = 2 * l * h + l + r
<1> DEFINE q == i \div l
           r == i % l
           h == q \div 2
<1>1. q \in Int /\ r \in 0 .. l - 1 /\ i = l * q + r
  BY DivMod
<1>2. q \in Nat
  <2> HIDE DEF q, r
  <2>1. CASE q <= -1
    <3>1. l * q = l * (q + 1) - l /\ l * (q + 1) <= 0
      BY <1>1, <2>1
    <3> QED
      BY <1>1, <3>1
  <2> QED
    BY <1>1, <2>1
<1> HIDE DEF q
<1>3. h \in Nat /\ (q % 2 = 0 => q = 2 * h) /\ (q % 2 # 0 => q = 2 * h + 1)
  BY <1>2
<1> HIDE DEF h, r
<1>4. l * (2 * h) = 2 * l * h /\ l * (2 * h + 1) = 2 * l * h + l
  BY <1>3
<1>5. Low(i, l) => i = 2 * l * h + r
  BY <1>1, <1>3, <1>4 DEF Low, q
<1>6. ~Low(i, l) => i = 2 * l * h + l + r
  BY <1>1, <1>3, <1>4 DEF Low, q
<1> QED
  BY <1>1, <1>3, <1>5, <1>6

LEMMA PartsLow ==
  ASSUME NEW l \in Nat \ {0}, NEW h \in Nat, NEW r \in 0 .. l - 1, NEW i \in Nat
  PROVE  /\ i = 2 * l * h + r => Low(i, l)
         /\ i = 2 * l * h + l + r => ~Low(i, l)
<1>1. ASSUME i = 2 * l * h + r
      PROVE  Low(i, l)
  <2> DEFINE q == 2 * h
  <2>1. q \in Int /\ i = l * q + r
    BY <1>1
  <2>2. q % 2 = 0
    OBVIOUS
  <2> HIDE DEF q
  <2>3. i \div l = q
    BY <2>1, DivUnique
  <2> QED
    BY <2>2, <2>3 DEF Low
<1>2. ASSUME i = 2 * l * h + l + r
      PROVE  ~Low(i, l)
  <2> DEFINE q == 2 * h + 1
  <2>1. q \in Int /\ i = l * q + r
    BY <1>2
  <2>2. q % 2 = 1
    OBVIOUS
  <2> HIDE DEF q
  <2>3. i \div l = q
    BY <2>1, DivUnique
  <2> QED
    BY <2>2, <2>3 DEF Low
<1> QED
  BY <1>1, <1>2

(* Blocks of 2 * l fill n places. *)
Blocks(l, n) == l \in Nat \ {0} /\ \E m \in Nat \ {0} : n = 2 * l * m

(* The partner of a place is in the same block. *)
LEMMA Partner ==
  ASSUME NEW l, NEW n, Blocks(l, n), NEW i \in 0 .. n - 1
  PROVE  /\ Low(i, l) => i + l \in 0 .. n - 1 /\ ~Low(i + l, l)
         /\ ~Low(i, l) => i - l \in 0 .. n - 1 /\ Low(i - l, l)
<1>1. l \in Nat \ {0} /\ l \in Nat /\ l > 0
  BY DEF Blocks
<1>2. PICK m \in Nat \ {0} : n = 2 * l * m
  BY DEF Blocks
<1>3. i \in Nat /\ n \in Nat /\ i < n
  BY <1>1, <1>2
<1>4. PICK h \in Nat, r \in 0 .. l - 1 :
           /\ Low(i, l) => i = 2 * l * h + r
           /\ ~Low(i, l) => i = 2 * l * h + l + r
  BY <1>1, <1>3, LowParts
<1>5. 2 * l * h <= i
  BY <1>1, <1>4
<1>6. h <= m - 1
  <2> SUFFICES ASSUME h >= m
               PROVE  FALSE
    BY <1>2, <1>4
  <2>1. 2 * l \in Nat
    BY <1>1
  <2>2. 2 * l * m <= 2 * l * h
    <3> DEFINE k == 2 * l
    <3>1. k \in Nat
      BY <2>1
    <3> HIDE DEF k
    <3>2. k * m <= k * h
      BY <3>1, <1>2, <1>4, TimesMonotone
    <3> QED
      BY <3>2 DEF k
  <2> DEFINE A == 2 * l * m
             B == 2 * l * h
  <2>3. A \in Int /\ B \in Int /\ A <= B /\ B <= i /\ n = A
    BY <2>2, <1>1, <1>2, <1>4, <1>5
  <2> HIDE DEF A, B
  <2> QED
    BY <2>3, <1>3
<1>7. 2 * l * h + 2 * l <= n
  <2> DEFINE k == 2 * l
  <2>1. k \in Nat /\ n = k * m /\ 2 * l * h + 2 * l = k * h + k
    BY <1>1, <1>2, <1>4
  <2> HIDE DEF k
  <2>2. k * (h + 1) <= k * m
    BY <2>1, <1>2, <1>4, <1>6, TimesMonotone
  <2>3. k * (h + 1) = k * h + k
    BY <2>1, <1>4
  <2> QED
    BY <2>1, <2>2, <2>3
<1>8. ASSUME Low(i, l)
      PROVE  i + l \in 0 .. n - 1 /\ ~Low(i + l, l)
  <2> DEFINE b == 2 * l * h
  <2>1. b \in Nat /\ i = b + r /\ b + 2 * l <= n
    BY <1>1, <1>4, <1>7, <1>8
  <2>2. i + l = b + l + r /\ i + l \in Nat
    BY <1>1, <2>1
  <2>3. ~Low(i + l, l)
    BY <1>1, <1>4, <2>2, PartsLow
  <2> HIDE DEF b
  <2> QED
    BY <1>1, <1>3, <2>1, <2>2, <2>3
<1>9. ASSUME ~Low(i, l)
      PROVE  i - l \in 0 .. n - 1 /\ Low(i - l, l)
  <2> DEFINE b == 2 * l * h
  <2>1. b \in Nat /\ i = b + l + r
    BY <1>1, <1>4, <1>9
  <2>2. i - l = b + r /\ i - l \in Nat
    BY <1>1, <2>1
  <2>3. Low(i - l, l)
    BY <1>1, <1>4, <2>2, PartsLow
  <2> HIDE DEF b
  <2> QED
    BY <1>1, <1>3, <2>1, <2>2, <2>3
<1> QED
  BY <1>8, <1>9

(* Passes over blocks that go into one another do not disturb each other's *)
(* partners.                                                               *)
LEMMA FinerPass ==
  ASSUME NEW a \in Nat \ {0}, NEW c \in Nat \ {0}, NEW i \in Nat, Low(i, a)
  PROVE  (i + a) \div (2 * a * c) = i \div (2 * a * c)
<1> DEFINE k == 2 * a
           b == k * c
<1>1. k \in Nat \ {0} /\ k = 2 * a /\ k * c \in Nat \ {0}
  OBVIOUS
<1>2. PICK h \in Nat, r \in 0 .. a - 1 : i = k * h + r
  BY LowParts
<1> HIDE DEF k
<1> DEFINE u == h \div c
           v == h % c
<1>3. u \in Int /\ v \in 0 .. c - 1 /\ h = c * u + v
  BY DivMod
<1> HIDE DEF u, v
<1>4. k * h = b * u + k * v
  BY <1>1, <1>3
<1>5. k * v \in Nat /\ k * v <= b - k
  <2>1. k * v <= k * (c - 1)
    BY <1>1, <1>3, TimesMonotone
  <2>2. k * (c - 1) = b - k
    BY <1>1
  <2> QED
    BY <1>1, <1>3, <2>1, <2>2
<1> DEFINE w == k * v
<1>6. b \in Nat \ {0} /\ w \in Nat /\ w <= b - k /\ k = 2 * a
  BY <1>1, <1>5
<1>7. i = b * u + (w + r) /\ i + a = b * u + (w + r + a)
  <2>1. b * u \in Int
    BY <1>3, <1>6
  <2> QED
    BY <1>2, <1>4, <1>6, <2>1
<1> HIDE DEF b, w
<1>8. w + r \in 0 .. b - 1 /\ w + r + a \in 0 .. b - 1
  BY <1>1, <1>2, <1>6
<1>9. i \div b = u
  BY <1>3, <1>6, <1>7, <1>8, DivUnique
<1>10. (i + a) \div b = u
  <2>1. i + a \in Nat
    OBVIOUS
  <2> QED
    BY <1>3, <1>6, <1>7, <1>8, <2>1, DivUnique
<1> QED
  BY <1>9, <1>10 DEF b, k

LEMMA CoarserPass ==
  ASSUME NEW a \in Nat \ {0}, NEW c \in Nat, NEW i \in Nat
  PROVE  Low(i + 2 * a * c, a) <=> Low(i, a)
<1>1. PICK h \in Nat, r \in 0 .. a - 1 :
           /\ Low(i, a) => i = 2 * a * h + r
           /\ ~Low(i, a) => i = 2 * a * h + a + r
  BY LowParts
<1> DEFINE k == 2 * a
           g == h + c
<1>2. k \in Nat /\ g \in Nat /\ k * g = k * h + k * c /\ k * h \in Nat /\ k * c \in Nat
  OBVIOUS
<1>3. ASSUME Low(i, a)
      PROVE  Low(i + 2 * a * c, a)
  <2>1. i + 2 * a * c = 2 * a * g + r /\ i + 2 * a * c \in Nat
    BY <1>1, <1>2, <1>3
  <2> HIDE DEF g
  <2> DEFINE j == i + 2 * a * c
  <2>2. j = 2 * a * g + r /\ j \in Nat
    BY <2>1
  <2> HIDE DEF j
  <2>3. Low(j, a)
    BY <1>2, <2>2, PartsLow
  <2> QED
    BY <2>3 DEF j
<1>4. ASSUME ~Low(i, a)
      PROVE  ~Low(i + 2 * a * c, a)
  <2>1. i + 2 * a * c = 2 * a * g + a + r /\ i + 2 * a * c \in Nat
    BY <1>1, <1>2, <1>4
  <2> HIDE DEF g
  <2> DEFINE j == i + 2 * a * c
  <2>2. j = 2 * a * g + a + r /\ j \in Nat
    BY <2>1
  <2> HIDE DEF j
  <2>3. ~Low(j, a)
    BY <1>2, <2>2, PartsLow
  <2> QED
    BY <2>3 DEF j
<1> QED
  BY <1>3, <1>4

LEMMA CrossLow ==
  ASSUME NEW a, NEW b, NEW n, Blocks(a, n), Blocks(b, n),
         NEW c \in Nat \ {0}, b = 2 * a * c, NEW i \in 0 .. n - 1
  PROVE  /\ Low(i, a) => (Low(i + a, b) <=> Low(i, b))
         /\ ~Low(i, a) => (Low(i - a, b) <=> Low(i, b))
         /\ Low(i, b) => (Low(i + b, a) <=> Low(i, a))
         /\ ~Low(i, b) => (Low(i - b, a) <=> Low(i, a))
<1>1. a \in Nat \ {0} /\ b \in Nat \ {0} /\ i \in Nat
  BY DEF Blocks
<1>2. \A j \in Nat : Low(j, a) => (Low(j + a, b) <=> Low(j, b))
  BY <1>1, FinerPass DEF Low
<1>3. \A j \in Nat : Low(j + b, a) <=> Low(j, a)
  <2>1. c \in Nat
    OBVIOUS
  <2> QED
    BY <1>1, <2>1, CoarserPass
<1>4. ASSUME ~Low(i, a)
      PROVE  Low(i - a, b) <=> Low(i, b)
  <2>1. i - a \in 0 .. n - 1 /\ Low(i - a, a)
    BY <1>4, Partner
  <2>2. i - a \in Nat /\ (i - a) + a = i
    BY <1>1, <2>1
  <2> QED
    BY <1>2, <2>1, <2>2
<1>5. ASSUME ~Low(i, b)
      PROVE  Low(i - b, a) <=> Low(i, a)
  <2>1. i - b \in 0 .. n - 1
    BY <1>5, Partner
  <2>2. i - b \in Nat /\ (i - b) + b = i
    BY <1>1, <2>1
  <2> QED
    BY <1>3, <2>2
<1> QED
  BY <1>1, <1>2, <1>3, <1>4, <1>5

-----------------------------------------------------------------------------
(* One pass. *)

Numbers == [Position -> Int]

PositionsOf(y, x, l) ==
  \A i \in Position :
    /\ Low(i, l) => i + l \in Position /\ ~Low(i + l, l) /\ y[i] = x[i] + x[i + l]
    /\ ~Low(i, l) => i - l \in Position /\ Low(i - l, l) /\ y[i] = x[i - l] - x[i]

LEMMA ButterflyValue ==
  ASSUME NEW x \in Numbers, NEW l, Blocks(l, Padded)
  PROVE  Butterfly(x, l) \in Numbers /\ PositionsOf(Butterfly(x, l), x, l)
<1>1. \A i \in Position : /\ Low(i, l) => i + l \in Position /\ ~Low(i + l, l)
                          /\ ~Low(i, l) => i - l \in Position /\ Low(i - l, l)
  BY Partner DEF Position
<1>2. DOMAIN x = Position /\ \A i \in Position : x[i] \in Int
  BY DEF Numbers
<1>3. Butterfly(x, l) = [i \in Position |-> IF Low(i, l) THEN x[i] + x[i + l] ELSE x[i - l] - x[i]]
  BY <1>2 DEF Butterfly, Low
<1>4. \A i \in Position : (IF Low(i, l) THEN x[i] + x[i + l] ELSE x[i - l] - x[i]) \in Int
  BY <1>1, <1>2
<1>5. Butterfly(x, l) \in Numbers
  BY <1>3, <1>4 DEF Numbers
<1> QED
  BY <1>1, <1>3, <1>5 DEF PositionsOf

LEMMA PassTwice ==
  ASSUME NEW x \in Numbers, NEW l, Blocks(l, Padded)
  PROVE  Butterfly(Butterfly(x, l), l) = [i \in Position |-> 2 * x[i]]
<1> DEFINE y == Butterfly(x, l)
           z == Butterfly(y, l)
<1>1. y \in Numbers /\ PositionsOf(y, x, l)
  BY ButterflyValue
<1> HIDE DEF y
<1>2. z \in Numbers /\ PositionsOf(z, y, l)
  BY <1>1, ButterflyValue
<1> HIDE DEF z
<1>3. ASSUME NEW i \in Position
      PROVE  z[i] = 2 * x[i]
  <2>0. \A j \in Position : x[j] \in Int /\ y[j] \in Int
    BY <1>1 DEF Numbers
  <2>1. l \in Int /\ i \in Int
    BY DEF Blocks, Position
  <2>2. CASE Low(i, l)
    <3>1. i + l \in Position /\ ~Low(i + l, l) /\ z[i] = y[i] + y[i + l] /\ y[i] = x[i] + x[i + l]
      BY <1>1, <1>2, <2>2 DEF PositionsOf
    <3>2. (i + l) - l = i
      BY <2>1
    <3>3. y[i + l] = x[i] - x[i + l]
      BY <1>1, <3>1, <3>2 DEF PositionsOf
    <3> QED
      BY <2>0, <3>1, <3>3
  <2>3. CASE ~Low(i, l)
    <3>1. i - l \in Position /\ Low(i - l, l) /\ z[i] = y[i - l] - y[i] /\ y[i] = x[i - l] - x[i]
      BY <1>1, <1>2, <2>3 DEF PositionsOf
    <3>2. (i - l) + l = i
      BY <2>1
    <3>3. y[i - l] = x[i - l] + x[i]
      BY <1>1, <3>1, <3>2 DEF PositionsOf
    <3> QED
      BY <2>0, <3>1, <3>3
  <2> QED
    BY <2>2, <2>3
<1>4. z = [i \in Position |-> z[i]]
  BY <1>2 DEF Numbers
<1> QED
  BY <1>3, <1>4 DEF z, y

LEMMA PassesCommute ==
  ASSUME NEW x \in Numbers, NEW a, NEW b, Blocks(a, Padded), Blocks(b, Padded),
         NEW c \in Nat \ {0}, b = 2 * a * c
  PROVE  Butterfly(Butterfly(x, a), b) = Butterfly(Butterfly(x, b), a)
<1> DEFINE y == Butterfly(x, a)
           z == Butterfly(y, b)
           u == Butterfly(x, b)
           v == Butterfly(u, a)
<1>1. y \in Numbers /\ PositionsOf(y, x, a) /\ u \in Numbers /\ PositionsOf(u, x, b)
  BY ButterflyValue
<1> HIDE DEF y, u
<1>2. z \in Numbers /\ PositionsOf(z, y, b) /\ v \in Numbers /\ PositionsOf(v, u, a)
  BY <1>1, ButterflyValue
<1> HIDE DEF z, v
<1>3. ASSUME NEW i \in Position
      PROVE  z[i] = v[i]
  <2>0. \A j \in Position : x[j] \in Int /\ y[j] \in Int /\ u[j] \in Int
    BY <1>1 DEF Numbers
  <2>1. a \in Int /\ b \in Int /\ i \in Int
    BY DEF Blocks, Position
  <2>2. /\ Low(i, a) => (Low(i + a, b) <=> Low(i, b))
        /\ ~Low(i, a) => (Low(i - a, b) <=> Low(i, b))
        /\ Low(i, b) => (Low(i + b, a) <=> Low(i, a))
        /\ ~Low(i, b) => (Low(i - b, a) <=> Low(i, a))
    BY CrossLow DEF Position
  <2>3. CASE Low(i, a) /\ Low(i, b)
    <3>1. i + a \in Position /\ i + b \in Position /\ Low(i + a, b) /\ Low(i + b, a)
      BY <1>1, <2>2, <2>3 DEF PositionsOf
    <3>2. z[i] = y[i] + y[i + b] /\ y[i] = x[i] + x[i + a] /\ y[i + b] = x[i + b] + x[(i + b) + a]
      BY <1>1, <1>2, <2>3, <3>1 DEF PositionsOf
    <3>3. v[i] = u[i] + u[i + a] /\ u[i] = x[i] + x[i + b] /\ u[i + a] = x[i + a] + x[(i + a) + b]
      BY <1>1, <1>2, <2>3, <3>1 DEF PositionsOf
    <3>4. (i + a) + b = (i + b) + a
      BY <2>1
    <3>5. (i + a) + b \in Position
      BY <1>1, <3>1 DEF PositionsOf
    <3> QED
      BY <2>0, <2>3, <3>1, <3>2, <3>3, <3>4, <3>5
  <2>4. CASE Low(i, a) /\ ~Low(i, b)
    <3>1. i + a \in Position /\ i - b \in Position /\ ~Low(i + a, b) /\ Low(i - b, a)
      BY <1>1, <2>2, <2>4 DEF PositionsOf
    <3>2. z[i] = y[i - b] - y[i] /\ y[i] = x[i] + x[i + a] /\ y[i - b] = x[i - b] + x[(i - b) + a]
      BY <1>1, <1>2, <2>4, <3>1 DEF PositionsOf
    <3>3. v[i] = u[i] + u[i + a] /\ u[i] = x[i - b] - x[i] /\ u[i + a] = x[(i + a) - b] - x[i + a]
      BY <1>1, <1>2, <2>4, <3>1 DEF PositionsOf
    <3>4. (i + a) - b = (i - b) + a
      BY <2>1
    <3>5. (i + a) - b \in Position
      BY <1>1, <3>1 DEF PositionsOf
    <3> QED
      BY <2>0, <2>4, <3>1, <3>2, <3>3, <3>4, <3>5
  <2>5. CASE ~Low(i, a) /\ Low(i, b)
    <3>1. i - a \in Position /\ i + b \in Position /\ Low(i - a, b) /\ ~Low(i + b, a)
      BY <1>1, <2>2, <2>5 DEF PositionsOf
    <3>2. z[i] = y[i] + y[i + b] /\ y[i] = x[i - a] - x[i] /\ y[i + b] = x[(i + b) - a] - x[i + b]
      BY <1>1, <1>2, <2>5, <3>1 DEF PositionsOf
    <3>3. v[i] = u[i - a] - u[i] /\ u[i] = x[i] + x[i + b] /\ u[i - a] = x[i - a] + x[(i - a) + b]
      BY <1>1, <1>2, <2>5, <3>1 DEF PositionsOf
    <3>4. (i - a) + b = (i + b) - a
      BY <2>1
    <3>5. (i - a) + b \in Position
      BY <1>1, <3>1 DEF PositionsOf
    <3> QED
      BY <2>0, <2>5, <3>1, <3>2, <3>3, <3>4, <3>5
  <2>6. CASE ~Low(i, a) /\ ~Low(i, b)
    <3>1. i - a \in Position /\ i - b \in Position /\ ~Low(i - a, b) /\ ~Low(i - b, a)
      BY <1>1, <2>2, <2>6 DEF PositionsOf
    <3>2. z[i] = y[i - b] - y[i] /\ y[i] = x[i - a] - x[i] /\ y[i - b] = x[(i - b) - a] - x[i - b]
      BY <1>1, <1>2, <2>6, <3>1 DEF PositionsOf
    <3>3. v[i] = u[i - a] - u[i] /\ u[i] = x[i - b] - x[i] /\ u[i - a] = x[(i - a) - b] - x[i - a]
      BY <1>1, <1>2, <2>6, <3>1 DEF PositionsOf
    <3>4. (i - a) - b = (i - b) - a
      BY <2>1
    <3>5. (i - a) - b \in Position
      BY <1>1, <3>1 DEF PositionsOf
    <3> QED
      BY <2>0, <2>6, <3>1, <3>2, <3>3, <3>4, <3>5
  <2> QED
    BY <2>3, <2>4, <2>5, <2>6
<1>4. z = [i \in Position |-> z[i]] /\ v = [i \in Position |-> v[i]]
  BY <1>2 DEF Numbers
<1>5. z = v
  BY <1>3, <1>4
<1> QED
  BY <1>5 DEF z, y, v, u

-----------------------------------------------------------------------------
(* The lengths of the passes. *)

LEMMA PowersValue ==
  /\ DOMAIN Powers = 1 .. 11 /\ Len(Powers) = 11 /\ Powers[1] = 1 /\ Powers[11] = 1024
  /\ \A k \in 1 .. 11 : Powers[k] \in Nat \ {0}
  /\ \A k \in 1 .. 10 : Powers[k + 1] = 2 * Powers[k]
<1>1. DOMAIN Powers = 1 .. 11 /\ Len(Powers) = 11
  BY DEF Powers
<1>2. /\ Powers[1] = 1 /\ Powers[2] = 2 /\ Powers[3] = 4 /\ Powers[4] = 8 /\ Powers[5] = 16
      /\ Powers[6] = 32 /\ Powers[7] = 64 /\ Powers[8] = 128 /\ Powers[9] = 256
      /\ Powers[10] = 512 /\ Powers[11] = 1024
  BY DEF Powers
<1> QED
  BY <1>1, <1>2

LEMMA PowersDivide ==
  ASSUME NEW a \in 1 .. 11, NEW b \in 1 .. 11, a < b
  PROVE  \E c \in Nat \ {0} : Powers[b] = 2 * Powers[a] * c
<1> DEFINE T == {k \in 0 .. b - a - 1 :
                   \E c \in Nat \ {0} : Powers[a + 1 + k] = 2 * Powers[a] * c}
<1>1. 0 \in T
  <2>1. Powers[a + 1 + 0] = 2 * Powers[a] * 1
    BY PowersValue
  <2>2. 0 \in 0 .. b - a - 1 /\ 1 \in Nat \ {0}
    OBVIOUS
  <2> QED
    BY <2>1, <2>2
<1>2. ASSUME NEW k \in 0 .. (b - a - 1) - 1, k \in T
      PROVE  k + 1 \in T
  <2>1. PICK c \in Nat \ {0} : Powers[a + 1 + k] = 2 * Powers[a] * c
    BY <1>2
  <2>2. a + 1 + k \in 1 .. 10 /\ a + 1 + (k + 1) = (a + 1 + k) + 1
    OBVIOUS
  <2>3. Powers[a + 1 + (k + 1)] = 2 * (2 * Powers[a] * c)
    BY <2>1, <2>2, PowersValue
  <2>4. 2 * c \in Nat \ {0} /\ 2 * (2 * Powers[a] * c) = 2 * Powers[a] * (2 * c)
    BY PowersValue
  <2>5. k + 1 \in 0 .. b - a - 1
    OBVIOUS
  <2> QED
    BY <2>3, <2>4, <2>5
<1>3. b - a - 1 \in T
  <2>1. b - a - 1 \in Nat
    OBVIOUS
  <2> HIDE DEF T
  <2> QED
    BY <1>1, <1>2, <2>1, UpTo
<1>4. a + 1 + (b - a - 1) = b
  OBVIOUS
<1> QED
  BY <1>3, <1>4

LEMMA PaddedIsPower == \E k \in 1 .. 11 : Padded = Powers[k]
<1> DEFINE U == {k \in 1 .. 11 : Dim <= Powers[k]}
<1>0. Dim \in Nat
  BY PaddedAssumption
<1>1. 11 \in U
  BY RotationAssumption, PowersValue
<1>2. PICK k \in U : \A m \in U : k <= m
  <2>1. U \in SUBSET Nat /\ U # {}
    BY <1>1
  <2> HIDE DEF U
  <2> QED
    BY <2>1, LeastNatural
<1>3. \A j \in 1 .. k - 1 : Powers[j] < Dim
  <2> SUFFICES ASSUME NEW j \in 1 .. k - 1
               PROVE  Powers[j] < Dim
    OBVIOUS
  <2>1. j \in 1 .. 11 /\ j < k
    OBVIOUS
  <2>2. j \notin U
    BY <1>2, <2>1
  <2> QED
    BY <1>0, <2>1, <2>2, PowersValue
<1> DEFINE Fits(m) == Dim <= Powers[m] /\ \A j \in 1 .. m - 1 : Powers[j] < Dim
           n == CHOOSE m \in DOMAIN Powers : Fits(m)
<1>4. k \in DOMAIN Powers /\ Fits(k)
  BY <1>3, PowersValue
<1>5. n \in DOMAIN Powers
  <2> HIDE DEF Fits
  <2> QED
    BY <1>4
<1>6. Padded = Powers[n]
  <2>1. next_pow2(Dim) = Powers[n]
    BY Zenon DEF next_pow2
  <2> HIDE DEF n
  <2> QED
    BY <2>1, RotationAssumption
<1> HIDE DEF n
<1> QED
  BY <1>5, <1>6, PowersValue

(* The number of passes. *)
Passed == (CHOOSE k \in 1 .. 11 : Padded = Powers[k]) - 1

LEMMA PassesValue ==
  /\ Passed \in 0 .. 10 /\ Padded = Powers[Passed + 1]
  /\ DOMAIN Passes = 1 .. Passed
  /\ \A k \in 1 .. Passed : Passes[k] = Powers[k] /\ Blocks(Powers[k], Padded)
<1> DEFINE n == CHOOSE k \in 1 .. 11 : Padded = Powers[k]
<1>1. n \in 1 .. 11 /\ Padded = Powers[n]
  BY PaddedIsPower
<1>2. Passed = n - 1
  BY DEF Passed
<1> HIDE DEF n
<1>3. \A k \in 1 .. 11 : Powers[k] \in Nat \ {0}
  BY PowersValue
<1>4. ASSUME NEW k \in 1 .. 11, k < n
      PROVE  Powers[k] < Padded /\ Blocks(Powers[k], Padded)
  <2>1. PICK c \in Nat \ {0} : Padded = 2 * Powers[k] * c
    BY <1>1, <1>4, PowersDivide
  <2> DEFINE l == Powers[k]
  <2>2. l \in Nat \ {0}
    BY <1>3
  <2> HIDE DEF l
  <2>3. Padded = 2 * l * c
    BY <2>1 DEF l
  <2>4. l * 1 <= l * c
    BY <2>2, TimesMonotone
  <2>5. l < Padded
    <3>1. 2 * l * c = 2 * (l * c) /\ l * c \in Int /\ l * 1 = l
      BY <2>2
    <3> DEFINE w == l * c
    <3>2. Padded = 2 * w /\ l <= w /\ w \in Int /\ l > 0 /\ l \in Int
      BY <2>2, <2>3, <2>4, <3>1
    <3> HIDE DEF w
    <3> QED
      BY <3>2
  <2>6. Blocks(l, Padded)
    BY <2>2, <2>3 DEF Blocks
  <2> QED
    BY <2>5, <2>6 DEF l
<1>5. ASSUME NEW k \in 1 .. 11, k >= n
      PROVE  ~(Powers[k] < Padded)
  <2>1. CASE k = n
    BY <1>1, <1>3, <2>1
  <2>2. CASE n < k
    <3>1. PICK c \in Nat \ {0} : Powers[k] = 2 * Powers[n] * c
      BY <1>1, <2>2, PowersDivide
    <3> DEFINE l == Powers[n]
               w == l * c
    <3>2. l \in Nat \ {0}
      BY <1>1, <1>3
    <3> HIDE DEF l
    <3>3. l * 1 <= l * c /\ l * 1 = l
      BY <3>2, TimesMonotone
    <3>4. Powers[k] = 2 * w /\ w \in Int /\ l <= w
      <4>1. 2 * l * c = 2 * w
        BY <3>2
      <4>2. Powers[k] = 2 * l * c
        BY <3>1 DEF l
      <4>3. w \in Int
        BY <3>2
      <4> QED
        BY <3>3, <4>1, <4>2, <4>3
    <3> HIDE DEF w
    <3>5. Padded = l
      BY <1>1 DEF l
    <3> QED
      BY <3>2, <3>4, <3>5
  <2> QED
    BY <1>1, <1>5, <2>1, <2>2
<1>6. {k \in DOMAIN Powers : Powers[k] < Padded} = 1 .. Passed
  BY <1>1, <1>2, <1>4, <1>5, PowersValue
<1>7. Passes = [k \in 1 .. Passed |-> Powers[k]]
  BY <1>6 DEF Passes
<1>8. \A k \in 1 .. Passed : k \in 1 .. 11 /\ k < n
  BY <1>1, <1>2
<1> QED
  BY <1>1, <1>2, <1>4, <1>7, <1>8

-----------------------------------------------------------------------------
(* All passes. *)

(* g is what the passes make of x on the way. *)
IsWalk(g, x) ==
  /\ g \in [0 .. Passed -> Numbers]
  /\ g[0] = x
  /\ \A k \in 0 .. Passed - 1 : g[k + 1] = Butterfly(g[k], Powers[k + 1])

LEMMA FoldIsWalk ==
  ASSUME NEW x \in Numbers
  PROVE  \E g : IsWalk(g, x) /\ g[Passed] = FoldLeft(Butterfly, x, Passes)
<1> DEFINE n == Passed
           Chosen(f) == f = [s \in SUBSET (DOMAIN Passes) |->
             IF s = {} THEN x ELSE Butterfly(f[s \ {Max(s)}], Passes[Max(s)])]
           iter == CHOOSE f : Chosen(f)
           F == [p \in Numbers \X (1 .. n) |-> Butterfly(p[1], Powers[p[2]])]
<1>1. FoldLeft(Butterfly, x, Passes) = iter[DOMAIN Passes]
  BY Zenon DEF FoldLeft, MapThenFoldSet
<1>2. /\ n \in Nat /\ DOMAIN Passes = 1 .. n
      /\ \A k \in 1 .. n : Passes[k] = Powers[k] /\ Blocks(Powers[k], Padded)
  BY PassesValue
<1> HIDE DEF n
<1>3. F \in [Numbers \X (1 .. n) -> Numbers]
  BY <1>2, ButterflyValue
<1>4. PICK f \in [SUBSET (1 .. n) -> Numbers] : Folding(f, n, x, F)
  <2> HIDE DEF F
  <2> QED
    BY <1>2, <1>3, FoldExists
<1>5. ASSUME NEW s \in SUBSET (1 .. n), s # {}
      PROVE  /\ Max(s) \in 1 .. n
             /\ F[<<f[s \ {Max(s)}], Max(s)>>] = Butterfly(f[s \ {Max(s)}], Passes[Max(s)])
  <2>1. Max(s) \in s
    BY <1>2, <1>5, MaxIsLast
  <2>2. Max(s) \in 1 .. n
    BY <2>1
  <2>3. s \ {Max(s)} \in SUBSET (1 .. n)
    OBVIOUS
  <2>4. <<f[s \ {Max(s)}], Max(s)>> \in Numbers \X (1 .. n)
    BY <1>4, <2>2, <2>3
  <2>5. Passes[Max(s)] = Powers[Max(s)]
    BY <1>2, <2>2
  <2> QED
    BY <2>2, <2>4, <2>5
<1>6. Chosen(f)
  <2> HIDE DEF F
  <2>1. f = [s \in SUBSET (1 .. n) |-> f[s]]
    BY <1>4
  <2> QED
    BY <1>2, <1>4, <1>5, <2>1 DEF Folding
<1>7. Chosen(iter)
  <2> HIDE DEF Chosen
  <2> QED
    BY <1>6
<1> HIDE DEF iter, F
<1>8. \A s \in SUBSET (1 .. n) :
        iter[s] = IF s = {} THEN x ELSE Butterfly(iter[s \ {Max(s)}], Passes[Max(s)])
  <2>1. Chosen(iter)
    BY <1>7
  <2> QED
    BY <1>2, <2>1
<1> HIDE DEF Chosen
<1> DEFINE g == [k \in 0 .. n |-> iter[1 .. k]]
<1>9. g[0] = x
  <2>1. 1 .. 0 = {} /\ {} \in SUBSET (1 .. n) /\ 0 \in 0 .. n
    BY <1>2
  <2>2. iter[{}] = x
    BY <1>8, <2>1
  <2> QED
    BY <2>1, <2>2
<1>10. ASSUME NEW k \in 0 .. n - 1
       PROVE  g[k + 1] = Butterfly(g[k], Powers[k + 1])
  <2>1. k \in Nat /\ k \in 0 .. n /\ k + 1 \in 0 .. n /\ k + 1 \in 1 .. n
    BY <1>2
  <2>2. /\ 1 .. k + 1 # {} /\ Max(1 .. k + 1) = k + 1
        /\ (1 .. k + 1) \ {k + 1} = 1 .. k
    BY <2>1, Initial
  <2>3. 1 .. k + 1 \in SUBSET (1 .. n) /\ Passes[k + 1] = Powers[k + 1]
    BY <1>2, <2>1
  <2>4. iter[1 .. k + 1] = Butterfly(iter[1 .. k], Powers[k + 1])
    BY <1>8, <2>2, <2>3
  <2> QED
    BY <2>1, <2>4
<1>11. \A k \in 0 .. n : g[k] \in Numbers
  <2> DEFINE T == {k \in 0 .. n : g[k] \in Numbers}
  <2>1. 0 \in T
    BY <1>2, <1>9
  <2>2. ASSUME NEW k \in 0 .. n, NEW j \in 0 .. k - 1, j \in T
        PROVE  j + 1 \in T
    <3>1. j \in 0 .. n - 1 /\ j + 1 \in 0 .. n /\ j + 1 \in 1 .. n
      BY <1>2
    <3>2. g[j + 1] = Butterfly(g[j], Powers[j + 1])
      BY <1>10, <3>1
    <3>3. g[j] \in Numbers
      BY <2>2
    <3> HIDE DEF g
    <3>4. g[j + 1] \in Numbers
      BY <1>2, <3>1, <3>2, <3>3, ButterflyValue
    <3> QED
      BY <3>1, <3>4
  <2> SUFFICES ASSUME NEW k \in 0 .. n PROVE  k \in T
    OBVIOUS
  <2>3. k \in Nat
    BY <1>2
  <2> HIDE DEF T
  <2> QED
    BY <2>1, <2>2, <2>3, UpTo
<1>12. g = [k \in 0 .. n |-> g[k]]
  OBVIOUS
<1>13. g[n] = iter[1 .. n]
  BY <1>2
<1> HIDE DEF g
<1>14. g \in [0 .. n -> Numbers]
  BY <1>11, <1>12
<1>15. IsWalk(g, x)
  BY <1>9, <1>10, <1>14 DEF IsWalk, n
<1>16. g[Passed] = FoldLeft(Butterfly, x, Passes)
  BY <1>1, <1>2, <1>13 DEF n
<1> QED
  BY <1>15, <1>16

Walk(x) == CHOOSE g : IsWalk(g, x) /\ g[Passed] = FoldLeft(Butterfly, x, Passes)

(* What the first k passes make of x. *)
After(k, x) == Walk(x)[k]

LEMMA AfterValue ==
  ASSUME NEW x \in Numbers
  PROVE  /\ After(0, x) = x
         /\ \A k \in 0 .. Passed : After(k, x) \in Numbers
         /\ \A k \in 0 .. Passed - 1 : After(k + 1, x) = Butterfly(After(k, x), Powers[k + 1])
         /\ FoldLeft(Butterfly, x, Passes) = After(Passed, x)
<1> DEFINE g == Walk(x)
<1>1. IsWalk(g, x) /\ g[Passed] = FoldLeft(Butterfly, x, Passes)
  BY FoldIsWalk DEF Walk
<1> HIDE DEF g
<1>2. \A k : After(k, x) = g[k]
  BY DEF After, g
<1>3. \A k \in 0 .. Passed - 1 : k \in 0 .. Passed /\ k + 1 \in 0 .. Passed
  BY PassesValue
<1> QED
  BY <1>1, <1>2, <1>3 DEF IsWalk

(* Induction on the number of passes, for all vectors at a time. *)
LEMMA PassInduct ==
  ASSUME NEW T, 0 \in T, \A k \in 0 .. Passed - 1 : k \in T => k + 1 \in T
  PROVE  0 .. Passed \subseteq T
<1> SUFFICES ASSUME NEW n \in 0 .. Passed
             PROVE  n \in T
  OBVIOUS
<1>1. n \in Nat /\ \A k \in 0 .. n - 1 : k \in 0 .. Passed - 1
  BY PassesValue
<1> QED
  BY <1>1, UpTo

LEMMA PassAfter ==
  ASSUME NEW k \in 0 .. Passed - 1
  PROVE  /\ k \in 0 .. Passed /\ k + 1 \in 0 .. Passed
         /\ Blocks(Powers[k + 1], Padded)
<1>1. k \in 0 .. Passed /\ k + 1 \in 0 .. Passed /\ k + 1 \in 1 .. Passed
  BY PassesValue
<1> QED
  BY <1>1, PassesValue

(* A later pass may be made first. *)
LaterFirst(k) ==
  \A x \in Numbers : \A j \in k + 1 .. Passed :
    After(k, Butterfly(x, Powers[j])) = Butterfly(After(k, x), Powers[j])

LEMMA LaterFirstHolds == \A k \in 0 .. Passed : LaterFirst(k)
<1> DEFINE T == {k \in 0 .. Passed : LaterFirst(k)}
<1>1. 0 \in T
  <2>1. 0 \in 0 .. Passed
    BY PassesValue
  <2>2. ASSUME NEW x \in Numbers, NEW j \in 0 + 1 .. Passed
        PROVE  After(0, Butterfly(x, Powers[j])) = Butterfly(After(0, x), Powers[j])
    <3>1. Blocks(Powers[j], Padded)
      BY PassesValue
    <3>2. Butterfly(x, Powers[j]) \in Numbers
      BY <3>1, ButterflyValue
    <3> QED
      BY <3>2, AfterValue
  <2> QED
    BY <2>1, <2>2 DEF LaterFirst
<1>2. ASSUME NEW k \in 0 .. Passed - 1, k \in T
      PROVE  k + 1 \in T
  <2>1. k \in 0 .. Passed /\ k + 1 \in 0 .. Passed /\ Blocks(Powers[k + 1], Padded)
    BY PassAfter
  <2>2. ASSUME NEW x \in Numbers, NEW j \in (k + 1) + 1 .. Passed
        PROVE  After(k + 1, Butterfly(x, Powers[j])) = Butterfly(After(k + 1, x), Powers[j])
    <3> DEFINE a == Powers[k + 1]
               b == Powers[j]
               y == After(k, x)
    <3>1. j \in 1 .. Passed /\ j \in k + 1 .. Passed /\ k + 1 \in 1 .. 11 /\ j \in 1 .. 11 /\ k + 1 < j
      BY PassesValue
    <3>2. Blocks(a, Padded) /\ Blocks(b, Padded)
      BY <2>1, <3>1, PassesValue
    <3>3. PICK c \in Nat \ {0} : b = 2 * a * c
      BY <3>1, PowersDivide
    <3>4. y \in Numbers /\ After(k + 1, x) = Butterfly(y, a)
      BY <2>1, AfterValue
    <3>5. Butterfly(x, b) \in Numbers
      BY <3>2, ButterflyValue
    <3>6. After(k + 1, Butterfly(x, b)) = Butterfly(After(k, Butterfly(x, b)), a)
      BY <3>5, AfterValue
    <3>7. After(k, Butterfly(x, b)) = Butterfly(y, b)
      BY <1>2, <3>1 DEF LaterFirst
    <3> HIDE DEF a, b, y
    <3>8. Butterfly(Butterfly(y, a), b) = Butterfly(Butterfly(y, b), a)
      BY <3>2, <3>3, <3>4, PassesCommute
    <3>9. After(k + 1, Butterfly(x, b)) = Butterfly(After(k + 1, x), b)
      BY <3>4, <3>6, <3>7, <3>8
    <3> QED
      BY <3>9 DEF b
  <2> QED
    BY <2>1, <2>2 DEF LaterFirst
<1>3. 0 .. Passed \subseteq T
  <2> HIDE DEF T
  <2> QED
    BY <1>1, <1>2, PassInduct
<1> QED
  BY <1>3

(* The first k passes, made twice, multiply by 2 to the k. *)
Doubling(k) ==
  \A x \in Numbers : After(k, After(k, x)) = [i \in Position |-> Powers[k + 1] * x[i]]

LEMMA DoublingHolds == \A k \in 0 .. Passed : Doubling(k)
<1> DEFINE T == {k \in 0 .. Passed : Doubling(k)}
<1>1. 0 \in T
  <2>1. 0 \in 0 .. Passed
    BY PassesValue
  <2>2. ASSUME NEW x \in Numbers
        PROVE  After(0, After(0, x)) = [i \in Position |-> Powers[0 + 1] * x[i]]
    <3>1. After(0, After(0, x)) = x
      BY AfterValue
    <3>2. \A i \in Position : Powers[0 + 1] * x[i] = x[i]
      BY PowersValue DEF Numbers
    <3>3. x = [i \in Position |-> x[i]]
      BY DEF Numbers
    <3> QED
      BY <3>1, <3>2, <3>3
  <2> QED
    BY <2>1, <2>2 DEF Doubling
<1>2. ASSUME NEW k \in 0 .. Passed - 1, k \in T
      PROVE  k + 1 \in T
  <2>1. k \in 0 .. Passed /\ k + 1 \in 0 .. Passed /\ Blocks(Powers[k + 1], Padded)
    BY PassAfter
  <2>2. ASSUME NEW x \in Numbers
        PROVE  After(k + 1, After(k + 1, x)) = [i \in Position |-> Powers[(k + 1) + 1] * x[i]]
    <3> DEFINE a == Powers[k + 1]
               y == After(k, x)
               z == After(k, y)
    <3>1. y \in Numbers /\ After(k + 1, x) = Butterfly(y, a)
      BY <2>1, AfterValue
    <3>2. Butterfly(y, a) \in Numbers
      BY <2>1, <3>1, ButterflyValue
    <3>3. After(k + 1, Butterfly(y, a)) = Butterfly(After(k, Butterfly(y, a)), a)
      BY <3>2, AfterValue
    <3>4. After(k, Butterfly(y, a)) = Butterfly(z, a)
      <4>1. k + 1 \in k + 1 .. Passed /\ LaterFirst(k)
        BY <2>1, LaterFirstHolds
      <4> QED
        BY <3>1, <4>1 DEF LaterFirst
    <3>5. z \in Numbers
      BY <2>1, <3>1, AfterValue
    <3>6. \A i \in Position : z[i] = a * x[i]
      BY <1>2 DEF Doubling
    <3> HIDE DEF z, y
    <3>7. Butterfly(Butterfly(z, a), a) = [i \in Position |-> 2 * z[i]]
      BY <2>1, <3>5, PassTwice
    <3>8. Powers[(k + 1) + 1] = 2 * a /\ a \in Int
      <4> DEFINE j == k + 1
      <4>1. j \in 1 .. 10 /\ j \in 1 .. 11
        BY PassesValue
      <4> HIDE DEF j
      <4>2. Powers[j + 1] = 2 * Powers[j] /\ Powers[j] \in Int
        BY <4>1, PowersValue
      <4> QED
        BY <4>2 DEF j
    <3> HIDE DEF a
    <3>9. \A i \in Position : 2 * z[i] = Powers[(k + 1) + 1] * x[i]
      BY <3>6, <3>8 DEF Numbers
    <3> QED
      BY <3>1, <3>3, <3>4, <3>7, <3>9
  <2> QED
    BY <2>1, <2>2 DEF Doubling
<1>3. 0 .. Passed \subseteq T
  <2> HIDE DEF T
  <2> QED
    BY <1>1, <1>2, PassInduct
<1> QED
  BY <1>3

-----------------------------------------------------------------------------
(* There and back. *)

LEMMA SignsValue ==
  ASSUME NEW x \in Numbers
  PROVE  /\ Signed(x) \in Numbers
         /\ \A i \in Position : Signed(x)[i] = D[i] * x[i] /\ D[i] \in {-1, 1}
         /\ Signed(Signed(x)) = x
<1>1. DOMAIN x = Position /\ \A i \in Position : x[i] \in Int /\ D[i] \in {-1, 1}
  BY RotationAssumption DEF Numbers
<1>2. Signed(x) = [i \in Position |-> D[i] * x[i]]
  BY <1>1 DEF Signed
<1>3. \A i \in Position : D[i] * x[i] \in Int /\ D[i] * (D[i] * x[i]) = x[i]
  BY <1>1
<1>4. Signed(x) \in Numbers
  BY <1>2, <1>3 DEF Numbers
<1> DEFINE y == Signed(x)
<1>5. DOMAIN y = Position /\ \A i \in Position : y[i] = D[i] * x[i]
  BY <1>2
<1> HIDE DEF y
<1>6. Signed(y) = [i \in Position |-> D[i] * y[i]]
  BY <1>5 DEF Signed
<1>7. \A i \in Position : D[i] * y[i] = x[i]
  BY <1>3, <1>5
<1>8. x = [i \in Position |-> x[i]]
  BY DEF Numbers
<1>9. Signed(y) = x
  BY <1>6, <1>7, <1>8
<1> QED
  BY <1>1, <1>4, <1>5, <1>9 DEF y

LEMMA ForwardIsNumbers ==
  ASSUME NEW x \in Numbers
  PROVE  /\ fwht_forward(x) = After(Passed, Signed(x))
         /\ fwht_inverse(x) = Signed(After(Passed, x))
         /\ fwht_forward(x) \in Numbers /\ fwht_inverse(x) \in Numbers
<1>1. Passed \in 0 .. Passed
  BY PassesValue
<1>2. Signed(x) \in Numbers
  BY SignsValue
<1>3. After(Passed, Signed(x)) \in Numbers /\ After(Passed, x) \in Numbers
  BY <1>1, <1>2, AfterValue
<1>4. fwht_forward(x) = After(Passed, Signed(x))
  BY <1>2, AfterValue DEF fwht_forward
<1>5. fwht_inverse(x) = Signed(After(Passed, x))
  BY AfterValue DEF fwht_inverse
<1>6. Signed(After(Passed, x)) \in Numbers
  BY <1>3, SignsValue
<1> QED
  BY <1>3, <1>4, <1>5, <1>6

LEMMA ThereAndBack ==
  ASSUME NEW x \in Numbers
  PROVE  fwht_inverse(fwht_forward(x)) = [i \in Position |-> Padded * x[i]]
<1> DEFINE y == Signed(x)
           z == After(Passed, After(Passed, y))
<1>1. y \in Numbers /\ (\A i \in Position : y[i] = D[i] * x[i] /\ D[i] \in {-1, 1})
  BY SignsValue
<1>2. fwht_forward(x) = After(Passed, y) /\ After(Passed, y) \in Numbers
  BY ForwardIsNumbers
<1> HIDE DEF y
<1>3. fwht_inverse(After(Passed, y)) = Signed(z)
  BY <1>2, ForwardIsNumbers
<1>4. Passed \in 0 .. Passed /\ Padded = Powers[Passed + 1] /\ Padded \in Nat
  BY PassesValue, PaddedAssumption
<1>5. z = [i \in Position |-> Padded * y[i]]
  BY <1>1, <1>4, DoublingHolds DEF Doubling
<1>6. z \in Numbers
  <2>1. \A i \in Position : Padded * y[i] \in Int
    BY <1>1, <1>4 DEF Numbers
  <2> QED
    BY <1>5, <2>1 DEF Numbers
<1> HIDE DEF z
<1>7. Signed(z) \in Numbers /\ \A i \in Position : Signed(z)[i] = D[i] * z[i]
  BY <1>6, SignsValue
<1>8. \A i \in Position : Signed(z)[i] = Padded * x[i]
  <2> TAKE i \in Position
  <2>1. Signed(z)[i] = D[i] * (Padded * (D[i] * x[i]))
    BY <1>1, <1>5, <1>7
  <2>2. x[i] \in Int /\ (D[i] = 1 \/ D[i] = -1)
    BY <1>1 DEF Numbers
  <2>3. D[i] * (Padded * (D[i] * x[i])) = Padded * x[i]
    BY <1>4, <2>2
  <2> QED
    BY <2>1, <2>3
<1>9. Signed(z) = [i \in Position |-> Signed(z)[i]]
  BY <1>7 DEF Numbers
<1> QED
  BY <1>2, <1>3, <1>8, <1>9

LEMMA PadIsNumbers ==
  ASSUME NEW x \in [0 .. Dim - 1 -> Int]
  PROVE  Pad(x) \in Numbers
<1>1. \A i \in Position : (IF i < Dim THEN x[i] ELSE 0) \in Int
  BY PaddedAssumption DEF Position
<1> QED
  BY <1>1 DEF Pad, Numbers

(* A vector that is rotated there and back is itself, times Padded, for    *)
(* any signs and any length the buffers have room for.                     *)
THEOREM RotationsRoundTrip == Spec => []RotationRoundTrip
<1>1. TokensStored => RotationRoundTrip
  <2> SUFFICES ASSUME TokensStored, tokens # << >>
               PROVE  fwht_inverse(fwht_forward(Pad(Last(tokens).key)))
                        = [i \in Position |-> Padded * Pad(Last(tokens).key)[i]]
    BY DEF RotationRoundTrip
  <2>1. tokens \in Seq(Stored) /\ Last(tokens) = tokens[Len(tokens)] /\ Len(tokens) \in 1 .. Len(tokens)
    BY DEF TokensStored, Last
  <2>2. Last(tokens) \in Stored
    BY <2>1
  <2>3. Last(tokens).key \in Vector
    BY <2>2 DEF Stored
  <2>4. Last(tokens).key \in [0 .. Dim - 1 -> Int]
    BY <2>3, VectorAssumption
  <2> QED
    BY <2>4, PadIsNumbers, ThereAndBack
<1> QED
  BY <1>1, InitStored, NextStored, PTL DEF Spec

-----------------------------------------------------------------------------
(* Dot products. *)

LEMMA DotSum ==
  ASSUME NEW x \in Numbers, NEW y \in Numbers
  PROVE  /\ IsFiniteSet(Position)
         /\ Dot(x, y) = SumFunctionOnSet([i \in Position |-> x[i] * y[i]], Position)
         /\ Dot(x, y) \in Int
<1> DEFINE f == [i \in Position |-> x[i] * y[i]]
<1>1. IsFiniteSet(Position)
  BY PaddedAssumption, FS_Interval DEF Position
<1>2. DOMAIN f = Position /\ \A i \in Position : f[i] \in Int
  BY DEF Numbers
<1>3. Dot(x, y) = SumFunctionOnSet(f, DOMAIN f)
  BY Zenon DEF Dot, SumFunction
<1> HIDE DEF f
<1>4. SumFunctionOnSet(f, Position) \in Int
  BY <1>1, <1>2, SumValue
<1> QED
  BY <1>1, <1>2, <1>3, <1>4 DEF f

LEMMA CrossTerms ==
  ASSUME NEW a \in Int, NEW b \in Int, NEW c \in Int, NEW e \in Int
  PROVE  (a - b) * e - b * (c - e) = -((a + b) * c - a * (c + e))
OBVIOUS

(* A pass may be made on either side of a dot product. *)
LEMMA PassMoves ==
  ASSUME NEW x \in Numbers, NEW y \in Numbers, NEW l, Blocks(l, Padded)
  PROVE  Dot(Butterfly(x, l), y) = Dot(x, Butterfly(y, l))
<1> DEFINE u == Butterfly(x, l)
           v == Butterfly(y, l)
<1>1. /\ u \in Numbers /\ PositionsOf(u, x, l)
      /\ v \in Numbers /\ PositionsOf(v, y, l)
  BY ButterflyValue
<1> HIDE DEF u, v
<1> DEFINE p == [i \in Position |-> IF Low(i, l) THEN i + l ELSE i - l]
           d == [i \in Position |-> u[i] * y[i] - x[i] * v[i]]
           f == [i \in Position |-> u[i] * y[i]]
           g == [i \in Position |-> x[i] * v[i]]
<1>2. \A i \in Position : x[i] \in Int /\ y[i] \in Int /\ u[i] \in Int /\ v[i] \in Int
  BY <1>1 DEF Numbers
<1>3. \A i \in Position : d[i] \in Int /\ f[i] \in Int /\ g[i] \in Int /\ f[i] = d[i] + g[i]
  BY <1>2
<1>4. l \in Int /\ \A i \in Position : i \in Int
  BY DEF Blocks, Position
<1>5. ASSUME NEW i \in Position, Low(i, l)
      PROVE  /\ p[i] = i + l /\ p[i] \in Position /\ p[p[i]] = i
             /\ d[p[i]] = -d[i]
  <2>1. /\ i + l \in Position /\ ~Low(i + l, l) /\ (i + l) - l = i
        /\ u[i] = x[i] + x[i + l] /\ v[i] = y[i] + y[i + l]
    BY <1>1, <1>4, <1>5 DEF PositionsOf
  <2>2. u[i + l] = x[i] - x[i + l] /\ v[i + l] = y[i] - y[i + l]
    BY <1>1, <2>1 DEF PositionsOf
  <2>3. p[i] = i + l /\ p[i + l] = i
    BY <1>5, <2>1
  <2>4. d[i] = (x[i] + x[i + l]) * y[i] - x[i] * (y[i] + y[i + l])
    BY <2>1
  <2>5. d[i + l] = (x[i] - x[i + l]) * y[i + l] - x[i + l] * (y[i] - y[i + l])
    BY <2>1, <2>2
  <2>6. d[i + l] = -d[i]
    BY <1>2, <2>1, <2>4, <2>5, CrossTerms
  <2> QED
    BY <2>1, <2>3, <2>6
<1>6. ASSUME NEW i \in Position
      PROVE  p[i] \in Position /\ p[p[i]] = i /\ d[i] \in Int /\ d[p[i]] = -d[i]
  <2>1. CASE Low(i, l)
    <3> HIDE DEF p, d
    <3> QED
      BY <1>3, <1>5, <2>1
  <2>2. CASE ~Low(i, l)
    <3> DEFINE j == i - l
    <3>1. j \in Position /\ Low(j, l) /\ j + l = i
      BY <1>1, <1>4, <2>2 DEF PositionsOf
    <3>2. p[i] = j
      BY <2>2
    <3> HIDE DEF j, p, d
    <3>3. p[j] = i /\ d[i] = -d[j] /\ d[j] \in Int
      BY <1>3, <1>5, <3>1
    <3> QED
      BY <1>3, <3>1, <3>2, <3>3
  <2> QED
    BY <2>1, <2>2
<1>7. IsFiniteSet(Position)
  BY DotSum
<1>8. Dot(u, y) = SumFunctionOnSet(f, Position) /\ Dot(x, v) = SumFunctionOnSet(g, Position)
  BY <1>1, DotSum
<1> HIDE DEF p, d, f, g
<1>9. SumFunctionOnSet(d, Position) = 0
  BY <1>6, <1>7, SumOfPairs
<1>10. SumFunctionOnSet(f, Position) = SumFunctionOnSet(d, Position) + SumFunctionOnSet(g, Position)
  BY <1>3, <1>7, SumPlus
<1>11. SumFunctionOnSet(g, Position) \in Int
  BY <1>3, <1>7, SumValue
<1> QED
  BY <1>8, <1>9, <1>10, <1>11 DEF u, v

Symmetric(k) == \A x \in Numbers, y \in Numbers : Dot(After(k, x), y) = Dot(x, After(k, y))

LEMMA SymmetricHolds == \A k \in 0 .. Passed : Symmetric(k)
<1> DEFINE T == {k \in 0 .. Passed : Symmetric(k)}
<1>1. 0 \in T
  <2>1. 0 \in 0 .. Passed
    BY PassesValue
  <2> QED
    BY <2>1, AfterValue DEF Symmetric
<1>2. ASSUME NEW k \in 0 .. Passed - 1, k \in T
      PROVE  k + 1 \in T
  <2>1. k \in 0 .. Passed /\ k + 1 \in 0 .. Passed /\ Blocks(Powers[k + 1], Padded)
    BY PassAfter
  <2>2. ASSUME NEW x \in Numbers, NEW y \in Numbers
        PROVE  Dot(After(k + 1, x), y) = Dot(x, After(k + 1, y))
    <3> DEFINE a == Powers[k + 1]
               u == After(k, x)
               v == After(k, y)
               w == Butterfly(y, a)
    <3>1. /\ u \in Numbers /\ After(k + 1, x) = Butterfly(u, a)
          /\ v \in Numbers /\ After(k + 1, y) = Butterfly(v, a)
      BY <2>1, AfterValue
    <3>2. w \in Numbers
      BY <2>1, ButterflyValue
    <3>3. Dot(Butterfly(u, a), y) = Dot(u, w)
      BY <2>1, <3>1, PassMoves
    <3>4. Dot(u, w) = Dot(x, After(k, w))
      BY <1>2, <3>2 DEF Symmetric
    <3>5. After(k, w) = Butterfly(v, a)
      <4>1. k + 1 \in k + 1 .. Passed /\ LaterFirst(k)
        BY <2>1, LaterFirstHolds
      <4> QED
        BY <4>1 DEF LaterFirst
    <3> QED
      BY <3>1, <3>3, <3>4, <3>5
  <2> QED
    BY <2>1, <2>2 DEF Symmetric
<1>3. 0 .. Passed \subseteq T
  <2> HIDE DEF T
  <2> QED
    BY <1>1, <1>2, PassInduct
<1> QED
  BY <1>3

-----------------------------------------------------------------------------
(* Scores are sums over the coordinates, and the passes are linear. *)

LEMMA DotSigned ==
  ASSUME NEW x \in Numbers, NEW y \in Numbers
  PROVE  Dot(Signed(x), y) = Dot(x, Signed(y))
<1>1. /\ Signed(x) \in Numbers /\ \A i \in Position : Signed(x)[i] = D[i] * x[i] /\ D[i] \in {-1, 1}
      /\ Signed(y) \in Numbers /\ \A i \in Position : Signed(y)[i] = D[i] * y[i]
  BY SignsValue
<1>2. \A i \in Position : Signed(x)[i] * y[i] = x[i] * Signed(y)[i]
  <2> TAKE i \in Position
  <2>1. x[i] \in Int /\ y[i] \in Int /\ (D[i] = 1 \/ D[i] = -1)
    BY <1>1 DEF Numbers
  <2>2. (D[i] * x[i]) * y[i] = x[i] * (D[i] * y[i])
    BY <2>1
  <2> QED
    BY <1>1, <2>2
<1>3. [i \in Position |-> Signed(x)[i] * y[i]] = [i \in Position |-> x[i] * Signed(y)[i]]
  BY <1>2
<1>4. Dot(Signed(x), y) = SumFunctionOnSet([i \in Position |-> Signed(x)[i] * y[i]], Position)
  BY <1>1, DotSum
<1>5. Dot(x, Signed(y)) = SumFunctionOnSet([i \in Position |-> x[i] * Signed(y)[i]], Position)
  BY <1>1, DotSum
<1> QED
  BY <1>3, <1>4, <1>5, Zenon

(* A rotated vector meets another as it meets that one rotated back. *)
LEMMA RotationMoves ==
  ASSUME NEW x \in Numbers, NEW y \in Numbers
  PROVE  Dot(fwht_forward(x), y) = Dot(x, fwht_inverse(y))
<1>1. Passed \in 0 .. Passed
  BY PassesValue
<1>2. Signed(x) \in Numbers
  BY SignsValue
<1>3. After(Passed, y) \in Numbers
  BY <1>1, AfterValue
<1>4. Dot(After(Passed, Signed(x)), y) = Dot(Signed(x), After(Passed, y))
  BY <1>1, <1>2, SymmetricHolds DEF Symmetric
<1>5. Dot(Signed(x), After(Passed, y)) = Dot(x, Signed(After(Passed, y)))
  BY <1>3, DotSigned
<1> QED
  BY <1>4, <1>5, ForwardIsNumbers

(* The zeros a vector is padded with do not count. *)
LEMMA DotPadded ==
  ASSUME NEW x \in [0 .. Dim - 1 -> Int], NEW y \in Numbers
  PROVE  /\ Dot(Pad(x), y) = SumFunctionOnSet([i \in 0 .. Dim - 1 |-> x[i] * y[i]], 0 .. Dim - 1)
         /\ IsFiniteSet(0 .. Dim - 1) /\ \A i \in 0 .. Dim - 1 : y[i] \in Int
<1> DEFINE A == 0 .. Dim - 1
           B == Dim .. Padded - 1
           f == [i \in Position |-> Pad(x)[i] * y[i]]
           g == [i \in A |-> x[i] * y[i]]
<1>1. IsFiniteSet(A) /\ IsFiniteSet(B)
  BY PaddedAssumption, FS_Interval
<1>2. /\ Position = A \cup B /\ (\A i \in A : i \notin B)
      /\ (\A i \in A : i \in Position /\ i < Dim)
      /\ (\A i \in B : i \in Position /\ ~(i < Dim))
  BY PaddedAssumption DEF Position
<1>3. Pad(x) \in Numbers
  BY PadIsNumbers
<1>4. \A i \in Position : Pad(x)[i] = IF i < Dim THEN x[i] ELSE 0
  BY DEF Pad
<1>5. \A i \in Position : f[i] \in Int
  BY <1>3 DEF Numbers
<1>6. \A i \in B : f[i] = 0
  <2> TAKE i \in B
  <2>1. i \in Position /\ Pad(x)[i] = 0 /\ y[i] \in Int
    BY <1>2, <1>4 DEF Numbers
  <2>2. f[i] = Pad(x)[i] * y[i]
    BY <2>1
  <2>3. 0 * y[i] = 0
    BY <2>1
  <2> QED
    BY <2>1, <2>2, <2>3
<1>7. \A i \in A : g[i] \in Int /\ f[i] = g[i]
  BY <1>2, <1>4 DEF Numbers
<1>8. Dot(Pad(x), y) = SumFunctionOnSet(f, Position)
  BY <1>3, DotSum
<1>10. \A i \in A : y[i] \in Int
  BY <1>2 DEF Numbers
<1> HIDE DEF A, B, f, g
<1>9. SumFunctionOnSet(f, A \cup B) = SumFunctionOnSet(f, A) + SumFunctionOnSet(f, B)
  BY <1>1, <1>2, <1>5, SumSplit
<1>11. SumFunctionOnSet(f, B) = 0
  BY <1>1, <1>6, SumOfZeros
<1>12. SumFunctionOnSet(f, A) = SumFunctionOnSet(g, A) /\ SumFunctionOnSet(g, A) \in Int
  BY <1>1, <1>7, SumAgree, SumValue
<1> QED
  BY <1>1, <1>2, <1>8, <1>9, <1>10, <1>11, <1>12 DEF A, g

-----------------------------------------------------------------------------
(* Linearity. *)

Times(c, x) == [i \in Position |-> c * x[i]]

LEMMA TimesValue ==
  ASSUME NEW c \in Int, NEW x \in Numbers
  PROVE  Times(c, x) \in Numbers /\ \A i \in Position : Times(c, x)[i] = c * x[i]
BY DEF Times, Numbers

LEMMA PassOfMultiple ==
  ASSUME NEW c \in Int, NEW x \in Numbers, NEW l, Blocks(l, Padded)
  PROVE  Butterfly(Times(c, x), l) = Times(c, Butterfly(x, l))
<1> DEFINE u == Times(c, x)
           v == Butterfly(u, l)
           y == Butterfly(x, l)
<1>1. u \in Numbers /\ \A i \in Position : u[i] = c * x[i]
  BY TimesValue
<1> HIDE DEF u
<1>2. v \in Numbers /\ PositionsOf(v, u, l) /\ y \in Numbers /\ PositionsOf(y, x, l)
  BY <1>1, ButterflyValue
<1> HIDE DEF v, y
<1>3. ASSUME NEW i \in Position
      PROVE  v[i] = c * y[i]
  <2>1. CASE Low(i, l)
    <3>1. i + l \in Position /\ v[i] = u[i] + u[i + l] /\ y[i] = x[i] + x[i + l]
      BY <1>2, <2>1 DEF PositionsOf
    <3>2. v[i] = c * x[i] + c * x[i + l] /\ x[i] \in Int /\ x[i + l] \in Int
      BY <1>1, <3>1 DEF Numbers
    <3> QED
      BY <3>1, <3>2
  <2>2. CASE ~Low(i, l)
    <3>1. i - l \in Position /\ v[i] = u[i - l] - u[i] /\ y[i] = x[i - l] - x[i]
      BY <1>2, <2>2 DEF PositionsOf
    <3>2. v[i] = c * x[i - l] - c * x[i] /\ x[i] \in Int /\ x[i - l] \in Int
      BY <1>1, <3>1 DEF Numbers
    <3> QED
      BY <3>1, <3>2
  <2> QED
    BY <2>1, <2>2
<1>4. v = [i \in Position |-> v[i]]
  BY <1>2 DEF Numbers
<1>5. v = Times(c, y)
  BY <1>3, <1>4 DEF Times
<1> QED
  BY <1>5 DEF v, u, y

MultiplesPass(k) ==
  \A c \in Int : \A x \in Numbers : After(k, Times(c, x)) = Times(c, After(k, x))

LEMMA MultiplesHold == \A k \in 0 .. Passed : MultiplesPass(k)
<1> DEFINE T == {k \in 0 .. Passed : MultiplesPass(k)}
<1>1. 0 \in T
  <2>1. 0 \in 0 .. Passed
    BY PassesValue
  <2>2. ASSUME NEW c \in Int, NEW x \in Numbers
        PROVE  After(0, Times(c, x)) = Times(c, After(0, x))
    <3>1. Times(c, x) \in Numbers
      BY TimesValue
    <3> QED
      BY <3>1, AfterValue
  <2> QED
    BY <2>1, <2>2 DEF MultiplesPass
<1>2. ASSUME NEW k \in 0 .. Passed - 1, k \in T
      PROVE  k + 1 \in T
  <2>1. k \in 0 .. Passed /\ k + 1 \in 0 .. Passed /\ Blocks(Powers[k + 1], Padded)
    BY PassAfter
  <2>2. ASSUME NEW c \in Int, NEW x \in Numbers
        PROVE  After(k + 1, Times(c, x)) = Times(c, After(k + 1, x))
    <3> DEFINE a == Powers[k + 1]
               y == Times(c, x)
               u == After(k, x)
    <3>1. y \in Numbers
      BY TimesValue
    <3>2. u \in Numbers /\ After(k + 1, x) = Butterfly(u, a)
      BY <2>1, AfterValue
    <3>3. After(k + 1, y) = Butterfly(After(k, y), a)
      BY <3>1, AfterValue
    <3>4. After(k, y) = Times(c, u)
      BY <1>2 DEF MultiplesPass
    <3>5. Butterfly(Times(c, u), a) = Times(c, Butterfly(u, a))
      BY <2>1, <3>2, PassOfMultiple
    <3> QED
      BY <3>2, <3>3, <3>4, <3>5
  <2> QED
    BY <2>1, <2>2 DEF MultiplesPass
<1>3. 0 .. Passed \subseteq T
  <2> HIDE DEF T
  <2> QED
    BY <1>1, <1>2, PassInduct
<1> QED
  BY <1>3

LEMMA InverseOfMultiple ==
  ASSUME NEW c \in Int, NEW x \in Numbers
  PROVE  fwht_inverse(Times(c, x)) = Times(c, fwht_inverse(x))
<1> DEFINE u == Times(c, x)
           y == After(Passed, x)
           z == Times(c, y)
<1>1. u \in Numbers
  BY TimesValue
<1>2. Passed \in 0 .. Passed
  BY PassesValue
<1>3. After(Passed, u) = z
  BY <1>2, MultiplesHold DEF MultiplesPass
<1>4. y \in Numbers
  BY <1>2, AfterValue
<1> HIDE DEF y
<1>5. z \in Numbers /\ \A i \in Position : z[i] = c * y[i]
  BY <1>4, TimesValue
<1> HIDE DEF z
<1>6. /\ Signed(y) \in Numbers /\ \A i \in Position : Signed(y)[i] = D[i] * y[i] /\ D[i] \in {-1, 1}
      /\ Signed(z) \in Numbers /\ \A i \in Position : Signed(z)[i] = D[i] * z[i]
  BY <1>4, <1>5, SignsValue
<1>7. \A i \in Position : Signed(z)[i] = c * Signed(y)[i]
  <2> TAKE i \in Position
  <2>1. y[i] \in Int /\ (D[i] = 1 \/ D[i] = -1)
    BY <1>4, <1>6 DEF Numbers
  <2>2. D[i] * (c * y[i]) = c * (D[i] * y[i])
    BY <2>1
  <2> QED
    BY <1>5, <1>6, <2>2
<1>8. Signed(z) = [i \in Position |-> Signed(z)[i]]
  BY <1>6 DEF Numbers
<1>9. Signed(z) = Times(c, Signed(y))
  BY <1>7, <1>8 DEF Times
<1> QED
  BY <1>1, <1>3, <1>9, ForwardIsNumbers DEF y

(* The sum of the vectors f[j], place by place. *)
Combined(f, J) == [i \in Position |-> SumFunctionOnSet([j \in J |-> f[j][i]], J)]

LEMMA CombinedValue ==
  ASSUME NEW J, IsFiniteSet(J), NEW f \in [J -> Numbers]
  PROVE  /\ Combined(f, J) \in Numbers
         /\ \A i \in Position : Combined(f, J)[i] = SumFunctionOnSet([j \in J |-> f[j][i]], J)
<1>1. ASSUME NEW i \in Position
      PROVE  SumFunctionOnSet([j \in J |-> f[j][i]], J) \in Int
  <2> DEFINE h == [j \in J |-> f[j][i]]
  <2>1. \A j \in J : h[j] \in Int
    BY DEF Numbers
  <2> HIDE DEF h
  <2>2. SumFunctionOnSet(h, J) \in Int
    BY <2>1, SumValue
  <2> QED
    BY <2>2 DEF h
<1> QED
  BY <1>1, Zenon DEF Combined, Numbers

LEMMA PassOfSum ==
  ASSUME NEW J, IsFiniteSet(J), NEW f \in [J -> Numbers], NEW l, Blocks(l, Padded)
  PROVE  /\ [j \in J |-> Butterfly(f[j], l)] \in [J -> Numbers]
         /\ Butterfly(Combined(f, J), l) = Combined([j \in J |-> Butterfly(f[j], l)], J)
<1> DEFINE g == [j \in J |-> Butterfly(f[j], l)]
           u == Combined(f, J)
           v == Butterfly(u, l)
           w == Combined(g, J)
           F(i) == [j \in J |-> f[j][i]]
           G(i) == [j \in J |-> g[j][i]]
<1>1. \A j \in J : f[j] \in Numbers /\ g[j] \in Numbers /\ PositionsOf(g[j], f[j], l)
  BY ButterflyValue
<1>2. g \in [J -> Numbers]
  BY <1>1
<1> HIDE DEF g
<1>3. u \in Numbers /\ \A i \in Position : u[i] = SumFunctionOnSet(F(i), J)
  BY CombinedValue
<1> HIDE DEF u
<1>4. w \in Numbers /\ \A i \in Position : w[i] = SumFunctionOnSet(G(i), J)
  BY <1>2, CombinedValue
<1> HIDE DEF w
<1>5. v \in Numbers /\ PositionsOf(v, u, l)
  BY <1>3, ButterflyValue
<1> HIDE DEF v
<1>6. ASSUME NEW i \in Position
      PROVE  \A j \in J : F(i)[j] = f[j][i] /\ F(i)[j] \in Int
  BY <1>1 DEF Numbers
<1>7. ASSUME NEW i \in Position
      PROVE  \A j \in J : G(i)[j] = g[j][i] /\ G(i)[j] \in Int
  BY <1>1 DEF Numbers
<1> HIDE DEF F, G
<1>8. ASSUME NEW i \in Position
      PROVE  v[i] = w[i]
  <2>1. CASE Low(i, l)
    <3> DEFINE m == i + l
    <3>1. m \in Position /\ v[i] = u[i] + u[m]
      BY <1>5, <2>1 DEF PositionsOf
    <3>2. \A j \in J : g[j][i] = f[j][i] + f[j][m]
      BY <1>1, <2>1 DEF PositionsOf
    <3> HIDE DEF m
    <3>3. \A j \in J : F(i)[j] \in Int /\ F(m)[j] \in Int /\ G(i)[j] = F(i)[j] + F(m)[j]
      BY <1>6, <1>7, <3>1, <3>2
    <3>4. SumFunctionOnSet(G(i), J) = SumFunctionOnSet(F(i), J) + SumFunctionOnSet(F(m), J)
      BY <3>3, SumPlus
    <3> QED
      BY <1>3, <1>4, <3>1, <3>4
  <2>2. CASE ~Low(i, l)
    <3> DEFINE m == i - l
    <3>1. m \in Position /\ v[i] = u[m] - u[i]
      BY <1>5, <2>2 DEF PositionsOf
    <3>2. \A j \in J : g[j][i] = f[j][m] - f[j][i]
      BY <1>1, <2>2 DEF PositionsOf
    <3> HIDE DEF m
    <3>3. \A j \in J : F(i)[j] \in Int /\ G(i)[j] \in Int /\ F(m)[j] = G(i)[j] + F(i)[j]
      BY <1>6, <1>7, <3>1, <3>2
    <3>4. SumFunctionOnSet(F(m), J) = SumFunctionOnSet(G(i), J) + SumFunctionOnSet(F(i), J)
      BY <3>3, SumPlus
    <3>5. u[m] = w[i] + u[i]
      BY <1>3, <1>4, <3>1, <3>4
    <3>6. u[m] \in Int /\ w[i] \in Int /\ u[i] \in Int
      BY <1>3, <1>4, <3>1 DEF Numbers
    <3> QED
      BY <3>1, <3>5, <3>6
  <2> QED
    BY <2>1, <2>2
<1>9. v = [i \in Position |-> v[i]] /\ w = [i \in Position |-> w[i]]
  BY <1>4, <1>5 DEF Numbers
<1>10. v = w
  BY <1>8, <1>9
<1> QED
  BY <1>2, <1>10 DEF v, w, u, g

SumsPass(k, J) ==
  \A f \in [J -> Numbers] :
    After(k, Combined(f, J)) = Combined([j \in J |-> After(k, f[j])], J)

LEMMA SumsHold ==
  ASSUME NEW J, IsFiniteSet(J)
  PROVE  \A k \in 0 .. Passed : SumsPass(k, J)
<1> DEFINE T == {k \in 0 .. Passed : SumsPass(k, J)}
<1>1. 0 \in T
  <2>1. 0 \in 0 .. Passed
    BY PassesValue
  <2>2. ASSUME NEW f \in [J -> Numbers]
        PROVE  After(0, Combined(f, J)) = Combined([j \in J |-> After(0, f[j])], J)
    <3>1. Combined(f, J) \in Numbers
      BY CombinedValue
    <3>2. \A j \in J : After(0, f[j]) = f[j]
      BY AfterValue
    <3>3. f = [j \in J |-> After(0, f[j])]
      BY <3>2
    <3>4. After(0, Combined(f, J)) = Combined(f, J)
      BY <3>1, AfterValue
    <3> QED
      BY <3>3, <3>4, Zenon
  <2> QED
    BY <2>1, <2>2 DEF SumsPass
<1>2. ASSUME NEW k \in 0 .. Passed - 1, k \in T
      PROVE  k + 1 \in T
  <2>1. k \in 0 .. Passed /\ k + 1 \in 0 .. Passed /\ Blocks(Powers[k + 1], Padded)
    BY PassAfter
  <2>2. ASSUME NEW f \in [J -> Numbers]
        PROVE  After(k + 1, Combined(f, J)) = Combined([j \in J |-> After(k + 1, f[j])], J)
    <3> DEFINE a == Powers[k + 1]
               u == Combined(f, J)
               g == [j \in J |-> After(k, f[j])]
               h == [j \in J |-> Butterfly(g[j], a)]
    <3>1. u \in Numbers
      BY CombinedValue
    <3>2. After(k + 1, u) = Butterfly(After(k, u), a)
      BY <3>1, AfterValue
    <3>3. After(k, u) = Combined(g, J)
      BY <1>2, Zenon DEF SumsPass
    <3>4. \A j \in J : After(k, f[j]) \in Numbers /\ After(k + 1, f[j]) = Butterfly(After(k, f[j]), a)
      BY <2>1, AfterValue
    <3>5. g \in [J -> Numbers]
      BY <3>4
    <3>6. \A j \in J : g[j] = After(k, f[j])
      OBVIOUS
    <3> HIDE DEF g
    <3>7. Butterfly(Combined(g, J), a) = Combined(h, J)
      BY <2>1, <3>5, PassOfSum
    <3>8. h = [j \in J |-> After(k + 1, f[j])]
      BY <3>4, <3>6
    <3> HIDE DEF h, u
    <3>9. After(k + 1, u) = Combined([j \in J |-> After(k + 1, f[j])], J)
      BY <3>2, <3>3, <3>7, <3>8, Zenon
    <3> QED
      BY <3>9 DEF u
  <2> QED
    BY <2>1, <2>2 DEF SumsPass
<1>3. 0 .. Passed \subseteq T
  <2> HIDE DEF T
  <2> QED
    BY <1>1, <1>2, PassInduct
<1> QED
  BY <1>3

LEMMA InverseOfSum ==
  ASSUME NEW J, IsFiniteSet(J), NEW f \in [J -> Numbers]
  PROVE  /\ [j \in J |-> fwht_inverse(f[j])] \in [J -> Numbers]
         /\ fwht_inverse(Combined(f, J)) = Combined([j \in J |-> fwht_inverse(f[j])], J)
<1> DEFINE u == Combined(f, J)
           g == [j \in J |-> After(Passed, f[j])]
           h == [j \in J |-> fwht_inverse(f[j])]
           y == Combined(g, J)
           z == Combined(h, J)
           G(i) == [j \in J |-> g[j][i]]
           H(i) == [j \in J |-> h[j][i]]
<1>1. Passed \in 0 .. Passed
  BY PassesValue
<1>2. \A j \in J : f[j] \in Numbers /\ After(Passed, f[j]) \in Numbers
  BY <1>1, AfterValue
<1>3. \A j \in J : /\ fwht_inverse(f[j]) = Signed(After(Passed, f[j]))
                   /\ fwht_inverse(f[j]) \in Numbers
  BY <1>2, ForwardIsNumbers
<1>4. u \in Numbers
  BY CombinedValue
<1>5. After(Passed, u) = y
  BY <1>1, SumsHold, Zenon DEF SumsPass
<1>6. fwht_inverse(u) = Signed(y)
  BY <1>4, <1>5, ForwardIsNumbers
<1>7. g \in [J -> Numbers] /\ h \in [J -> Numbers]
  BY <1>2, <1>3
<1>8. \A j \in J : g[j] = After(Passed, f[j]) /\ h[j] = Signed(g[j])
  BY <1>3
<1> HIDE DEF g, h
<1>9. \A j \in J : \A i \in Position : h[j][i] = D[i] * g[j][i] /\ g[j][i] \in Int
  <2> TAKE j \in J
  <2>1. g[j] \in Numbers
    BY <1>7
  <2> QED
    BY <1>8, <2>1, SignsValue DEF Numbers
<1>10. y \in Numbers /\ \A i \in Position : y[i] = SumFunctionOnSet(G(i), J)
  BY <1>7, CombinedValue
<1>11. z \in Numbers /\ \A i \in Position : z[i] = SumFunctionOnSet(H(i), J)
  BY <1>7, CombinedValue
<1> HIDE DEF y, z
<1>12. ASSUME NEW i \in Position
       PROVE  \A j \in J : G(i)[j] \in Int /\ H(i)[j] = D[i] * G(i)[j]
  BY <1>9
<1> HIDE DEF G, H
<1>13. Signed(y) \in Numbers /\ \A i \in Position : Signed(y)[i] = D[i] * y[i] /\ D[i] \in {-1, 1}
  BY <1>10, SignsValue
<1>14. ASSUME NEW i \in Position
       PROVE  Signed(y)[i] = z[i]
  <2>1. D[i] \in Int
    BY <1>13
  <2>2. SumFunctionOnSet(H(i), J) = D[i] * SumFunctionOnSet(G(i), J)
    BY <1>12, <2>1, SumTimes
  <2> QED
    BY <1>10, <1>11, <1>13, <2>2
<1>15. Signed(y) = [i \in Position |-> Signed(y)[i]] /\ z = [i \in Position |-> z[i]]
  BY <1>11, <1>13 DEF Numbers
<1>16. Signed(y) = z
  BY <1>14, <1>15
<1> QED
  BY <1>6, <1>7, <1>16 DEF u, z, h

-----------------------------------------------------------------------------
(* The search of a code. *)

Rising(cb, n) == \A i, j \in 0 .. n : i <= j => cb[i] <= cb[j]

LEMMA Rising2 == CB2 \in [0 .. 3 -> Int] /\ Rising(CB2, 3)
<1>1. /\ CB2[0] = -15104 /\ CB2[1] = -4528 /\ CB2[2] = 4528 /\ CB2[3] = 15104
      /\ DOMAIN CB2 = 0 .. 3 /\ CB2 = [i \in 0 .. 3 |-> CB2[i]]
  BY DEF CB2
<1> QED
  BY <1>1 DEF Rising

LEMMA Rising3 == CB3 \in [0 .. 7 -> Int] /\ Rising(CB3, 7)
<1>1. /\ CB3[0] = -21529 /\ CB3[1] = -13439 /\ CB3[2] = -7560 /\ CB3[3] = -2451
      /\ CB3[4] = 2451 /\ CB3[5] = 7560 /\ CB3[6] = 13439 /\ CB3[7] = 21529
      /\ DOMAIN CB3 = 0 .. 7 /\ CB3 = [i \in 0 .. 7 |-> CB3[i]]
  BY DEF CB3
<1> QED
  BY <1>1 DEF Rising

LEMMA Rising4 == CB4 \in [0 .. 15 -> Int] /\ Rising(CB4, 15)
<1>1. /\ CB4[0] = -27326 /\ CB4[1] = -20690 /\ CB4[2] = -15860 /\ CB4[3] = -11880
      /\ CB4[4] = -8491 /\ CB4[5] = -5480 /\ CB4[6] = -2633 /\ CB4[7] = 0
      /\ CB4[8] = 2633 /\ CB4[9] = 5480 /\ CB4[10] = 8491 /\ CB4[11] = 11880
      /\ CB4[12] = 15860 /\ CB4[13] = 20690 /\ CB4[14] = 27326 /\ CB4[15] = 35714
  BY DEF CB4
<1>2. DOMAIN CB4 = 0 .. 15 /\ CB4 = [i \in 0 .. 15 |-> CB4[i]]
  BY DEF CB4
<1>3. \A i \in 0 .. 15 : CB4[i] \in Int
  BY <1>1
<1>4. \A i \in 0 .. 14 : CB4[i] <= CB4[i + 1]
  BY <1>1
<1>5. \A i, j \in 0 .. 15 : i <= j => CB4[i] <= CB4[j]
  BY <1>1
<1> QED
  BY <1>2, <1>3, <1>5 DEF Rising

LEMMA CodebookValue ==
  ASSUME NEW b \in Bits
  PROVE  /\ Code(b) = 0 .. codebook_size(b) - 1 /\ codebook_size(b) \in Nat
         /\ get_codebook(b) \in [Code(b) -> Int]
         /\ Rising(get_codebook(b), codebook_size(b) - 1)
<1>1. b = 2 \/ b = 3 \/ b = 4
  BY DEF Bits
<1>2. CASE b = 2
  BY <1>2, Rising2 DEF Code, codebook_size, get_codebook
<1>3. CASE b = 3
  BY <1>3, Rising3 DEF Code, codebook_size, get_codebook
<1>4. CASE b = 4
  BY <1>4, Rising4 DEF Code, codebook_size, get_codebook
<1> QED
  BY <1>1, <1>2, <1>3, <1>4

(* The code found lies between the thresholds on either side of it. *)
Bracket(v, b, c) ==
  /\ c = 0 \/ v >= Threshold(b, c - 1)
  /\ c = codebook_size(b) - 1 \/ v < Threshold(b, c)

LEMMA ThresholdValue ==
  ASSUME NEW b \in Bits, NEW i \in 0 .. codebook_size(b) - 2
  PROVE  Threshold(b, i) \in Int /\ Threshold(b, i) = 63 * (get_codebook(b)[i] + get_codebook(b)[i + 1])
<1>1. i \in Code(b) /\ i + 1 \in Code(b)
  BY CodebookValue
<1>2. get_codebook(b)[i] \in Int /\ get_codebook(b)[i + 1] \in Int
  BY <1>1, CodebookValue
<1>3. Centroid \div 2 = 63
  BY DEF Centroid
<1> QED
  BY <1>2, <1>3 DEF Threshold

LEMMA AheadValue ==
  ASSUME NEW v \in Int, NEW b \in Bits, NEW i \in 0 .. codebook_size(b) - 2, NEW s
  PROVE  \/ v >= Threshold(b, i) /\ Ahead(v, b, i, s) = s
         \/ v < Threshold(b, i) /\ Ahead(v, b, i, s) = 0
BY ThresholdValue DEF Ahead

LEMMA FastBrackets ==
  ASSUME NEW v \in Int, NEW b \in Bits
  PROVE  Bracket(v, b, quantize_fast(v, b))
<1> SUFFICES ASSUME b = 2 \/ b = 3 \/ b = 4
             PROVE  Bracket(v, b, quantize_fast(v, b))
  BY DEF Bits
<1>2. CASE b = 2
  <2> DEFINE a == Ahead(v, 2, 1, 2)
             z == Ahead(v, 2, a, 1)
             T(i) == Threshold(2, i)
  <2>0. codebook_size(b) = 4 /\ codebook_size(2) = 4 /\ 2 \in Bits
    BY <1>2 DEF codebook_size, Bits
  <2>1. quantize_fast(v, b) = a + z
    BY <1>2 DEF quantize_fast
  <2>2. (v >= T(1) /\ a = 2) \/ (v < T(1) /\ a = 0)
    BY <2>0, AheadValue
  <2> HIDE DEF a
  <2>3. (v >= T(a) /\ z = 1) \/ (v < T(a) /\ z = 0)
    <3>1. a \in 0 .. codebook_size(2) - 2
      BY <2>0, <2>2
    <3> QED
      BY <2>0, <3>1, AheadValue
  <2> HIDE DEF z
  <2>4. /\ a + z = 0 \/ v >= T(a + z - 1)
        /\ a + z = 3 \/ v < T(a + z)
    <3> HIDE DEF T
    <3> QED
      BY <2>2, <2>3
  <2> DEFINE k == a + z
  <2>7. (k = 0 \/ v >= T(k - 1)) /\ (k = 3 \/ v < T(k)) /\ quantize_fast(v, b) = k
    <3> HIDE DEF T
    <3> QED
      BY <2>2, <2>3, <2>1, <2>4
  <2> HIDE DEF k
  <2>8. Bracket(v, 2, k)
    BY <2>0, <2>7 DEF Bracket
  <2> QED
    BY <1>2, <2>7, <2>8
<1>3. CASE b = 3
  <2> DEFINE a == Ahead(v, 3, 3, 4)
             d == Ahead(v, 3, a + 1, 2)
             z == Ahead(v, 3, a + d, 1)
             T(i) == Threshold(3, i)
  <2>0. codebook_size(b) = 8 /\ codebook_size(3) = 8 /\ 3 \in Bits
    BY <1>3 DEF codebook_size, Bits
  <2>1. quantize_fast(v, b) = a + d + z
    BY <1>3 DEF quantize_fast
  <2>2. (v >= T(3) /\ a = 4) \/ (v < T(3) /\ a = 0)
    BY <2>0, AheadValue
  <2> HIDE DEF a
  <2>3. (v >= T(a + 1) /\ d = 2) \/ (v < T(a + 1) /\ d = 0)
    <3>1. a + 1 \in 0 .. codebook_size(3) - 2
      BY <2>0, <2>2
    <3> QED
      BY <2>0, <3>1, AheadValue
  <2> HIDE DEF d
  <2>4. (v >= T(a + d) /\ z = 1) \/ (v < T(a + d) /\ z = 0)
    <3>1. a + d \in 0 .. codebook_size(3) - 2
      BY <2>0, <2>2, <2>3
    <3> QED
      BY <2>0, <3>1, AheadValue
  <2> HIDE DEF z
  <2>5. /\ a + d + z = 0 \/ v >= T(a + d + z - 1)
        /\ a + d + z = 7 \/ v < T(a + d + z)
    <3> HIDE DEF T
    <3> QED
      BY <2>2, <2>3, <2>4
  <2> DEFINE k == a + d + z
  <2>7. (k = 0 \/ v >= T(k - 1)) /\ (k = 7 \/ v < T(k)) /\ quantize_fast(v, b) = k
    <3> HIDE DEF T
    <3> QED
      BY <2>2, <2>3, <2>4, <2>1, <2>5
  <2> HIDE DEF k
  <2>8. Bracket(v, 3, k)
    BY <2>0, <2>7 DEF Bracket
  <2> QED
    BY <1>3, <2>7, <2>8
<1>4. CASE b = 4
  <2> DEFINE a == Ahead(v, 4, 7, 8)
             c == Ahead(v, 4, a + 3, 4)
             d == Ahead(v, 4, a + c + 1, 2)
             z == Ahead(v, 4, a + c + d, 1)
             T(i) == Threshold(4, i)
  <2>0. codebook_size(b) = 16 /\ codebook_size(4) = 16 /\ 4 \in Bits
    BY <1>4 DEF codebook_size, Bits
  <2>1. quantize_fast(v, b) = a + c + d + z
    BY <1>4 DEF quantize_fast
  <2>2. (v >= T(7) /\ a = 8) \/ (v < T(7) /\ a = 0)
    BY <2>0, AheadValue
  <2> HIDE DEF a
  <2>3. (v >= T(a + 3) /\ c = 4) \/ (v < T(a + 3) /\ c = 0)
    <3>1. a + 3 \in 0 .. codebook_size(4) - 2
      BY <2>0, <2>2
    <3> QED
      BY <2>0, <3>1, AheadValue
  <2> HIDE DEF c
  <2>4. (v >= T(a + c + 1) /\ d = 2) \/ (v < T(a + c + 1) /\ d = 0)
    <3>1. a + c + 1 \in 0 .. codebook_size(4) - 2
      BY <2>0, <2>2, <2>3
    <3> QED
      BY <2>0, <3>1, AheadValue
  <2> HIDE DEF d
  <2>5. (v >= T(a + c + d) /\ z = 1) \/ (v < T(a + c + d) /\ z = 0)
    <3>1. a + c + d \in 0 .. codebook_size(4) - 2
      BY <2>0, <2>2, <2>3, <2>4
    <3> QED
      BY <2>0, <3>1, AheadValue
  <2> HIDE DEF z
  <2>6. /\ a + c + d + z = 0 \/ v >= T(a + c + d + z - 1)
        /\ a + c + d + z = 15 \/ v < T(a + c + d + z)
    <3> HIDE DEF T
    <3> QED
      BY <2>2, <2>3, <2>4, <2>5
  <2> DEFINE k == a + c + d + z
  <2>7. (k = 0 \/ v >= T(k - 1)) /\ (k = 15 \/ v < T(k)) /\ quantize_fast(v, b) = k
    <3> HIDE DEF T
    <3> QED
      BY <2>2, <2>3, <2>4, <2>5, <2>1, <2>6
  <2> HIDE DEF k
  <2>8. Bracket(v, 4, k)
    BY <2>0, <2>7 DEF Bracket
  <2> QED
    BY <1>4, <2>7, <2>8
<1> QED
  BY <1>2, <1>3, <1>4

(* Of three centroids in a row, and the midpoint of the first two. *)
LEMMA BelowIsFarther ==
  ASSUME NEW v \in Int, NEW x \in Int, NEW y \in Int, NEW z \in Int,
         x <= y, y <= z, v >= 63 * (y + z)
  PROVE  (IF v - 126 * z < 0 THEN -(v - 126 * z) ELSE v - 126 * z)
           <= (IF v - 126 * x < 0 THEN -(v - 126 * x) ELSE v - 126 * x)
OBVIOUS

LEMMA AboveIsFarther ==
  ASSUME NEW v \in Int, NEW x \in Int, NEW y \in Int, NEW z \in Int,
         x <= y, y <= z, v < 63 * (x + y)
  PROVE  (IF v - 126 * x < 0 THEN -(v - 126 * x) ELSE v - 126 * x)
           <= (IF v - 126 * z < 0 THEN -(v - 126 * z) ELSE v - 126 * z)
OBVIOUS

LEMMA BracketIsNearest ==
  ASSUME NEW v \in Int, NEW b \in Bits, NEW k \in Code(b), Bracket(v, b, k), NEW c \in Code(b)
  PROVE  Distance(v, b, k) <= Distance(v, b, c)
<1> DEFINE cb == get_codebook(b)
           n == codebook_size(b)
           A(x) == IF v - 126 * x < 0 THEN -(v - 126 * x) ELSE v - 126 * x
<1>1. /\ Code(b) = 0 .. n - 1 /\ n \in Nat /\ cb \in [0 .. n - 1 -> Int]
      /\ \A i, j \in 0 .. n - 1 : i <= j => cb[i] <= cb[j]
  BY CodebookValue DEF Rising
<1>2. Distance(v, b, k) = A(cb[k]) /\ Distance(v, b, c) = A(cb[c])
  BY DEF Distance, Centroid
<1>3. /\ k = 0 \/ v >= Threshold(b, k - 1)
      /\ k = n - 1 \/ v < Threshold(b, k)
  BY DEF Bracket
<1>4. /\ k # 0 => k - 1 \in 0 .. n - 2
      /\ k # n - 1 => k \in 0 .. n - 2
      /\ k \in 0 .. n - 1 /\ c \in 0 .. n - 1 /\ (k - 1) + 1 = k
  BY <1>1
<1>5. /\ k # 0 => v >= 63 * (cb[k - 1] + cb[k])
      /\ k # n - 1 => v < 63 * (cb[k] + cb[k + 1])
  <2> HIDE DEF cb
  <2>1. k # 0 => Threshold(b, k - 1) = 63 * (cb[k - 1] + cb[k])
    BY <1>4, ThresholdValue DEF cb
  <2>2. k # n - 1 => Threshold(b, k) = 63 * (cb[k] + cb[k + 1])
    BY <1>4, ThresholdValue DEF cb
  <2> QED
    BY <1>3, <2>1, <2>2
<1> HIDE DEF cb, n, A
<1>6. CASE c = k
  <2>1. cb[k] \in Int
    BY <1>1, <1>4
  <2>2. A(cb[k]) \in Int
    BY <2>1 DEF A
  <2> QED
    BY <1>2, <1>6, <2>2
<1>7. CASE c < k
  <2>1. k # 0 /\ k - 1 \in 0 .. n - 1 /\ c <= k - 1 /\ k - 1 <= k
    BY <1>1, <1>4, <1>7
  <2>2. /\ cb[c] \in Int /\ cb[k - 1] \in Int /\ cb[k] \in Int
        /\ cb[c] <= cb[k - 1] /\ cb[k - 1] <= cb[k]
    BY <1>1, <1>4, <2>1
  <2>3. A(cb[k]) <= A(cb[c])
    BY <1>5, <2>1, <2>2, BelowIsFarther DEF A
  <2> QED
    BY <1>2, <2>3
<1>8. CASE k < c
  <2>1. k # n - 1 /\ k + 1 \in 0 .. n - 1 /\ k <= k + 1 /\ k + 1 <= c
    BY <1>1, <1>4, <1>8
  <2>2. /\ cb[c] \in Int /\ cb[k + 1] \in Int /\ cb[k] \in Int
        /\ cb[k] <= cb[k + 1] /\ cb[k + 1] <= cb[c]
    BY <1>1, <1>4, <2>1
  <2>3. A(cb[k]) <= A(cb[c])
    BY <1>5, <2>1, <2>2, AboveIsFarther DEF A
  <2> QED
    BY <1>2, <2>3
<1> QED
  BY <1>4, <1>6, <1>7, <1>8

LEMMA NormValue ==
  ASSUME NEW x \in Vector
  PROVE  norm(x) \in Nat /\ x \in [0 .. Dim - 1 -> Int]
<1>1. x \in [0 .. Dim - 1 -> Int] /\ \E n \in Norms : n * n = Square(x)
  BY VectorAssumption
<1>2. norm(x) \in Norms
  BY <1>1, Zenon DEF norm
<1> QED
  BY <1>1, <1>2 DEF Norms

LEMMA ClippedValue ==
  ASSUME NEW x \in Vector
  PROVE  \A i \in Position : Clipped[x][i] \in Int
<1> DEFINE y == fwht_forward(Pad(x))
           n == norm(x)
           u == Unit \div (3 * n)
<1>1. Clipped[x] = [i \in Position |-> IF n = 0 THEN 0 ELSE Clip(y[i] * u)]
  BY DEF Clipped
<1>2. y \in Numbers /\ n \in Nat
  BY NormValue, PadIsNumbers, ForwardIsNumbers
<1>3. \A z \in Int : Clip(z) \in Int
  BY DEF Clip, Unit
<1>4. n # 0 => u \in Int
  <2>1. 3 * n \in Int /\ (n # 0 => 3 * n > 0)
    BY <1>2
  <2> QED
    BY <2>1 DEF Unit
<1> HIDE DEF y, n, u
<1>5. \A i \in Position : y[i] \in Int /\ (n # 0 => y[i] * u \in Int)
  BY <1>2, <1>4 DEF Numbers
<1> QED
  BY <1>1, <1>3, <1>5

(* The binary search of quantize_fast finds a nearest centroid, whatever   *)
(* the coordinate, in each of the three codebooks.                         *)
THEOREM SearchFindsNearest == Spec => []DecodedIsNearest
<1>1. TokensStored => DecodedIsNearest
  <2> SUFFICES ASSUME TokensStored, NEW t \in DOMAIN tokens, NEW i \in Position, NEW c \in Code(bits)
               PROVE  Distance(Clipped[tokens[t].key][i], bits, unpack_indices(tokens[t].k.data, bits)[i])
                        <= Distance(Clipped[tokens[t].key][i], bits, c)
    BY DEF DecodedIsNearest
  <2>1. bits \in Bits /\ tokens[t] \in Stored
    BY DEF TokensStored
  <2>2. PICK x \in Vector : tokens[t].key = x /\ tokens[t].k = quantize_into(x, bits)
    BY <2>1 DEF Stored
  <2>3. unpack_indices(tokens[t].k.data, bits) = Codes[x][bits]
    BY <2>1, <2>2, PackedIsRecoverable DEF Recoverable
  <2>4. Codes[x][bits][i] = quantize_fast(Clipped[x][i], bits)
    BY <2>1 DEF Codes
  <2> DEFINE v == Clipped[x][i]
  <2>5. v \in Int
    BY ClippedValue
  <2> HIDE DEF v
  <2>6. quantize_fast(v, bits) \in Code(bits) /\ Bracket(v, bits, quantize_fast(v, bits))
    BY <2>1, <2>5, FastInRange, FastBrackets
  <2>7. Distance(v, bits, quantize_fast(v, bits)) <= Distance(v, bits, c)
    BY <2>1, <2>5, <2>6, BracketIsNearest
  <2> QED
    BY <2>2, <2>3, <2>4, <2>7 DEF v
<1> QED
  BY <1>1, InitStored, NextStored, PTL DEF Spec

-----------------------------------------------------------------------------
(* What compute reads of a stored vector. *)

(* The centroids of a vector. *)
Centers(x) == Centroids(Codes[x][bits])

LEMMA CentersValue ==
  ASSUME NEW x \in Vector, bits \in Bits
  PROVE  /\ Centers(x) \in Numbers
         /\ \A i \in Position : Centers(x)[i] = get_codebook(bits)[Codes[x][bits][i]]
         /\ fwht_inverse(Centers(x)) \in Numbers
<1>1. Codes[x][bits] \in [Position -> Code(bits)] /\ get_codebook(bits) \in [Code(bits) -> Int]
  BY CodesInRange, CodebookValue
<1>2. \A i \in Position : get_codebook(bits)[Codes[x][bits][i]] \in Int
  BY <1>1
<1>3. /\ Centers(x) \in Numbers
      /\ \A i \in Position : Centers(x)[i] = get_codebook(bits)[Codes[x][bits][i]]
  BY <1>2 DEF Centers, Centroids, Numbers
<1> QED
  BY <1>3, ForwardIsNumbers

(* Every reader finds the codes, in whatever loop. *)
LEMMA ReadersFind ==
  ASSUME NEW x \in Vector, bits \in Bits, NEW j, NEW n
  PROVE  CodesRead(quantize_into(x, bits).data, j, n) = Codes[x][bits]
<1> DEFINE p == quantize_into(x, bits)
           idx == Codes[x][bits]
<1>1. Recoverable(p, x)
  BY PackedIsRecoverable
<1>2. /\ unpack_indices(p.data, bits) = idx
      /\ \A i \in Position : Quad(p.data, i, bits) = idx[i] /\ Single(p.data, i, bits) = idx[i]
  BY <1>1 DEF Recoverable
<1>3. idx = [i \in Position |-> idx[i]]
  BY CodesInRange
<1> HIDE DEF p, idx
<1>4. CASE kernel = "avx2"
  <2>1. CodesRead(p.data, j, n)
          = [i \in Position |-> IF j <= 4 * (n \div 4) THEN Quad(p.data, i, bits)
                                                       ELSE Single(p.data, i, bits)]
    BY <1>4 DEF CodesRead
  <2>2. CodesRead(p.data, j, n) = [i \in Position |-> idx[i]]
    BY <1>2, <2>1
  <2> QED
    BY <1>3, <2>2 DEF p, idx
<1>5. CASE kernel # "avx2"
  BY <1>2, <1>5 DEF CodesRead, RefCodes, p, idx
<1> QED
  BY <1>4, <1>5

LEMMA DequantizedValue ==
  ASSUME NEW x \in Vector, bits \in Bits
  PROVE  /\ dequantize_raw(quantize_into(x, bits), bits)
              = [i \in 0 .. Dim - 1 |-> (3 * norm(x)) * fwht_inverse(Centers(x))[i]]
         /\ 3 * norm(x) \in Int
         /\ quantize_into(x, bits).scale = 3 * norm(x)
<1>1. quantize_into(x, bits).scale = 3 * norm(x)
  BY DEF quantize_into
<1>2. unpack_indices(quantize_into(x, bits).data, bits) = Codes[x][bits]
  BY PackedIsRecoverable DEF Recoverable
<1> DEFINE p == quantize_into(x, bits)
<1>3. dequantize_raw(p, bits)
        = [i \in 0 .. Dim - 1 |-> p.scale * fwht_inverse(Centroids(unpack_indices(p.data, bits)))[i]]
  BY DEF dequantize_raw, Centroids
<1>4. 3 * norm(x) \in Int
  BY NormValue
<1> QED
  BY <1>1, <1>2, <1>3, <1>4 DEF Centers

(* The dot product the kernels compute. *)
LEMMA KdotValue ==
  ASSUME NEW x \in Vector, bits \in Bits, NEW qr \in Numbers, NEW j, NEW n
  PROVE  kdot(qr, quantize_into(x, bits).data, j, n) = Dot(qr, Centers(x))
<1>1. CodesRead(quantize_into(x, bits).data, j, n) = Codes[x][bits]
  BY ReadersFind
<1>2. kdot(qr, quantize_into(x, bits).data, j, n)
        = SumFunction([i \in Position |-> qr[i] * get_codebook(bits)[Codes[x][bits][i]]])
  BY <1>1 DEF kdot
<1>3. [i \in Position |-> qr[i] * get_codebook(bits)[Codes[x][bits][i]]]
        = [i \in Position |-> qr[i] * Centers(x)[i]]
  BY CentersValue
<1> QED
  BY <1>2, <1>3, Zenon DEF Dot

(* A dot product with a key, as it was given and as it is dequantized. *)
DotKey(q, k) == SumFunction([i \in DOMAIN k |-> q[i] * k[i]])

LEMMA KeyValue ==
  ASSUME NEW x \in Vector, bits \in Bits, NEW q \in Vector, NEW j, NEW n
  PROVE  /\ (3 * norm(x)) * kdot(fwht_forward(Pad(q)), quantize_into(x, bits).data, j, n)
              = DotKey(q, dequantize_raw(quantize_into(x, bits), bits))
         /\ kdot(fwht_forward(Pad(q)), quantize_into(x, bits).data, j, n) \in Int
<1> DEFINE qr == fwht_forward(Pad(q))
           y == fwht_inverse(Centers(x))
           s == 3 * norm(x)
           k == dequantize_raw(quantize_into(x, bits), bits)
           A == 0 .. Dim - 1
           f == [i \in A |-> q[i] * y[i]]
           h == [i \in A |-> q[i] * k[i]]
<1>1. q \in [0 .. Dim - 1 -> Int] /\ Pad(q) \in Numbers /\ qr \in Numbers
  BY NormValue, PadIsNumbers, ForwardIsNumbers
<1>2. Centers(x) \in Numbers /\ y \in Numbers
  BY CentersValue
<1>3. kdot(qr, quantize_into(x, bits).data, j, n) = Dot(qr, Centers(x))
  BY <1>1, KdotValue
<1>4. Dot(qr, Centers(x)) = Dot(Pad(q), y) /\ Dot(Pad(q), y) \in Int
  BY <1>1, <1>2, RotationMoves, DotSum
<1>5. s \in Int /\ k = [i \in A |-> s * y[i]]
  BY DequantizedValue
<1> HIDE DEF qr, y, s, k
<1>6. Dot(Pad(q), y) = SumFunctionOnSet(f, A) /\ IsFiniteSet(A) /\ \A i \in A : y[i] \in Int
  BY <1>1, <1>2, DotPadded
<1>7. \A i \in A : f[i] \in Int /\ h[i] = s * f[i]
  <2> TAKE i \in A
  <2> DEFINE a == q[i]
             b == y[i]
  <2>1. a \in Int /\ b \in Int
    BY <1>1, <1>6
  <2>2. f[i] = a * b /\ h[i] = a * (s * b)
    BY <1>5
  <2> HIDE DEF a, b
  <2>3. a * b \in Int /\ a * (s * b) = s * (a * b)
    BY <1>5, <2>1
  <2> QED
    BY <2>2, <2>3
<1>8. DotKey(q, k) = SumFunctionOnSet(h, A)
  <2>1. DOMAIN k = A /\ DOMAIN h = A
    BY <1>5
  <2>2. DotKey(q, k) = SumFunction([i \in A |-> q[i] * k[i]])
    BY <2>1, Zenon DEF DotKey
  <2>3. DotKey(q, k) = SumFunctionOnSet(h, DOMAIN h)
    BY <2>2, Zenon DEF SumFunction
  <2> QED
    BY <2>1, <2>3, Zenon
<1> HIDE DEF f, h, A
<1>9. SumFunctionOnSet(h, A) = s * SumFunctionOnSet(f, A)
  BY <1>5, <1>6, <1>7, SumTimes
<1> QED
  BY <1>3, <1>4, <1>6, <1>8, <1>9 DEF qr, s, k

(* The length of a sequence that is given as a function. *)
LEMMA LenOfFunction ==
  ASSUME NEW n \in Nat, NEW S, NEW f \in [1 .. n -> S]
  PROVE  f \in Seq(S) /\ Len(f) = n
<1>1. f \in Seq(S)
  BY SeqDef
<1>2. DOMAIN f = 1 .. n /\ DOMAIN f = 1 .. Len(f) /\ Len(f) \in Nat
  BY <1>1, LenProperties
<1> QED
  BY <1>1, <1>2

-----------------------------------------------------------------------------
(* The cache as compute reads it. *)

Held == TokensStored /\ Len(tokens) \in 0 .. Len(Offered)

LEMMA TokenValue ==
  ASSUME TokensStored
  PROVE  /\ bits \in Bits /\ Len(tokens) \in Nat /\ DOMAIN tokens = 1 .. Len(tokens)
         /\ \A t \in 1 .. Len(tokens) :
              /\ tokens[t].key \in Vector /\ tokens[t].k = quantize_into(tokens[t].key, bits)
              /\ tokens[t].val \in Vector /\ tokens[t].v = quantize_into(tokens[t].val, bits)
<1>1. bits \in Bits /\ tokens \in Seq(Stored)
  BY DEF TokensStored
<1>2. Len(tokens) \in Nat /\ DOMAIN tokens = 1 .. Len(tokens)
      /\ \A t \in 1 .. Len(tokens) : tokens[t] \in Stored
  BY <1>1, LenProperties, ElementOfSeq
<1>3. ASSUME NEW s \in Stored
      PROVE  /\ s.key \in Vector /\ s.k = quantize_into(s.key, bits)
             /\ s.val \in Vector /\ s.v = quantize_into(s.val, bits)
  BY DEF Stored
<1> QED
  BY <1>1, <1>2, <1>3

LEMMA LogitsValue ==
  ASSUME TokensStored, NEW q \in Vector
  PROVE  /\ Logits(q) \in [1 .. Len(tokens) -> Int]
         /\ Len(Logits(q)) = Len(tokens)
         /\ \A t \in 1 .. Len(tokens) :
              Logits(q)[t] = DotKey(q, dequantize_raw(tokens[t].k, bits))
<1> DEFINE n == Len(tokens)
           qr == fwht_forward(Pad(q))
<1>1. Logits(q) = [t \in 1 .. n |-> tokens[t].k.scale * kdot(qr, tokens[t].k.data, t, n)]
  BY TokenValue DEF Logits
<1>2. ASSUME NEW t \in 1 .. n
      PROVE  /\ Logits(q)[t] \in Int
             /\ Logits(q)[t] = DotKey(q, dequantize_raw(tokens[t].k, bits))
  <2> DEFINE x == tokens[t].key
             s == 3 * norm(x)
             d == kdot(qr, quantize_into(x, bits).data, t, n)
  <2>1. x \in Vector /\ tokens[t].k = quantize_into(x, bits) /\ bits \in Bits
    BY TokenValue
  <2>2. tokens[t].k.scale = s /\ s \in Int
    BY <2>1, DequantizedValue
  <2> HIDE DEF x
  <2>3. s * d = DotKey(q, dequantize_raw(quantize_into(x, bits), bits)) /\ d \in Int
    BY <2>1, KeyValue
  <2>4. Logits(q)[t] = s * d
    BY <1>1, <2>1, <2>2
  <2> HIDE DEF s, d
  <2>5. s * d \in Int
    BY <2>2, <2>3
  <2> QED
    BY <2>1, <2>3, <2>4, <2>5
<1>3. Logits(q) \in [1 .. n -> Int]
  BY <1>1, <1>2
<1>4. n \in Nat
  BY TokenValue
<1> HIDE DEF n
<1>5. Len(Logits(q)) = n
  BY <1>3, <1>4, LenOfFunction
<1> QED
  BY <1>2, <1>3, <1>5 DEF n

(* The weights softmax may give. *)
LEMMA WeightsValue ==
  ASSUME Held, NEW q \in Vector, NEW w \in softmax(Logits(q))
  PROVE  w \in [1 .. Len(tokens) -> 0 .. Whole] /\ w \in Seq(0 .. Whole) /\ Len(w) = Len(tokens)
<1> DEFINE n == Len(tokens)
<1>1. n \in 0 .. Len(Offered) /\ n \in Nat /\ Len(Logits(q)) = n
  BY TokenValue, LogitsValue DEF Held
<1> HIDE DEF n
<1>2. w \in Distributions[n]
  BY <1>1 DEF softmax
<1>3. w \in [1 .. n -> 0 .. Whole]
  BY <1>1, <1>2 DEF Distributions
<1>4. w \in Seq(0 .. Whole) /\ Len(w) = n
  BY <1>1, <1>3, LenOfFunction
<1> QED
  BY <1>3, <1>4 DEF n

(* An order names every token once. *)
Arranges(ord, n) ==
  /\ ord \in [1 .. n -> 1 .. n] /\ Len(ord) = n
  /\ \A a, b \in 1 .. n : ord[a] = ord[b] => a = b
  /\ \A t \in 1 .. n : \E a \in 1 .. n : ord[a] = t

Heaviest(w, ord, n) == \A a, b \in 1 .. n : a < b => w[ord[a]] >= w[ord[b]]

LEMMA OrdersValue ==
  ASSUME NEW n \in 0 .. Len(Offered), NEW w \in Seq(0 .. Whole), Len(w) = n, NEW ord \in Orders(w)
  PROVE  /\ Arranges(ord, n)
         /\ v_mass # 0 => Heaviest(w, ord, n)
<1>0. Len(Offered) \in Nat
  BY OfferedAssumption
<1>1. n \in Nat /\ DOMAIN w = 1 .. n
  BY <1>0
<1>2. CASE v_mass = 0
  <2>1. ord = [j \in 1 .. n |-> j]
    BY <1>1, <1>2 DEF Orders
  <2>2. ord \in [1 .. n -> 1 .. n] /\ \A j \in 1 .. n : ord[j] = j
    BY <2>1
  <2>3. Len(ord) = n
    BY <1>1, <2>2, LenOfFunction
  <2> QED
    BY <1>2, <2>2, <2>3 DEF Arranges
<1>3. CASE v_mass # 0
  <2>1. ord \in Arrangements[n] /\ \A a, b \in 1 .. n : a < b => w[ord[a]] >= w[ord[b]]
    BY <1>1, <1>3 DEF Orders
  <2>2. ord \in Bijection(1 .. n, 1 .. n)
    BY <2>1 DEF Arrangements
  <2>3. /\ ord \in [1 .. n -> 1 .. n]
        /\ \A a, b \in DOMAIN ord : ord[a] = ord[b] => a = b
        /\ \A t \in 1 .. n : \E a \in 1 .. n : ord[a] = t
    BY <2>2 DEF Bijection, Injection, Surjection, IsInjective
  <2>4. Len(ord) = n
    BY <1>1, <2>3, LenOfFunction
  <2> QED
    BY <2>1, <2>3, <2>4 DEF Arranges, Heaviest
<1> QED
  BY <1>2, <1>3

(* The tokens summed: all, or as many as reach the mass at a stop. *)
Firsts(ord, m) == {ord[j] : j \in 1 .. m}

LEMMA UsedValue ==
  ASSUME NEW n \in Nat, NEW w, NEW ord, Arranges(ord, n)
  PROVE  /\ Used(w, ord) \in 0 .. n
         /\ v_mass = 0 => Used(w, ord) = n
         /\ Used(w, ord) = n \/ MassOf(w, ord, Used(w, ord)) >= v_mass
<1>1. Len(ord) = n
  BY DEF Arranges
<1>2. CASE v_mass = 0 \/ kernel = "portable"
  <2>1. Used(w, ord) = n
    BY <1>1, <1>2 DEF Used
  <2> QED
    BY <2>1
<1>3. CASE ~(v_mass = 0 \/ kernel = "portable")
  <2> DEFINE Enough(m) == m \in Stops(n) /\ (m = n \/ MassOf(w, ord, m) >= v_mass)
             T == {m \in 0 .. n : Enough(m)}
  <2>1. Used(w, ord) = CHOOSE m \in 0 .. n : Enough(m) /\ \A k \in 0 .. m - 1 : ~Enough(k)
    BY <1>1, <1>3 DEF Used
  <2>2. n \in Stops(n)
    <3>1. n % 4 = 0 \/ n > 4 * (n \div 4)
      OBVIOUS
    <3> QED
      BY <3>1 DEF Stops
  <2>3. Enough(n)
    BY <2>2
  <2> HIDE DEF Enough
  <2>4. T \in SUBSET Nat /\ T # {}
    BY <2>3
  <2>5. PICK m \in T : \A k \in T : m <= k
    BY <2>4, LeastNatural
  <2>6. m \in 0 .. n /\ Enough(m) /\ \A k \in 0 .. m - 1 : ~Enough(k)
    <3>1. m \in 0 .. n /\ Enough(m)
      BY <2>5
    <3>2. ASSUME NEW k \in 0 .. m - 1, Enough(k)
          PROVE  FALSE
      <4>1. k \in 0 .. n /\ k < m /\ k \in Int /\ m \in Int
        BY <3>1
      <4>2. k \in T
        BY <3>2, <4>1
      <4> QED
        BY <2>5, <4>1, <4>2
    <3> QED
      BY <3>1, <3>2
  <2>7. Used(w, ord) \in 0 .. n /\ Enough(Used(w, ord))
    BY <2>1, <2>6, Zenon
  <2>8. Used(w, ord) = n \/ MassOf(w, ord, Used(w, ord)) >= v_mass
    BY <2>7 DEF Enough
  <2> QED
    BY <1>3, <2>7, <2>8
<1> QED
  BY <1>2, <1>3

LEMMA MassValue ==
  ASSUME NEW n \in Nat, NEW w \in [1 .. n -> Nat], NEW ord, Arranges(ord, n), NEW m \in 0 .. n
  PROVE  MassOf(w, ord, m) = SumFunctionOnSet(w, Firsts(ord, m))
<1> DEFINE h == [j \in DOMAIN ord |-> w[ord[j]]]
           S == 1 .. m
<1>1. IsFiniteSet(S)
  BY FS_Interval
<1>2. DOMAIN ord = 1 .. n /\ \A j \in S : j \in 1 .. n /\ ord[j] \in 1 .. n
  BY DEF Arranges
<1>3. \A x, y \in S : ord[x] = ord[y] => x = y
  BY <1>2 DEF Arranges
<1>4. \A j \in S : h[j] \in Int /\ h[j] = w[ord[j]]
  BY <1>2
<1>5. MassOf(w, ord, m) = SumFunctionOnSet(h, S)
  BY Zenon DEF MassOf
<1> HIDE DEF h, S
<1>6. SumFunctionOnSet(h, S) = SumFunctionOnSet(w, {ord[x] : x \in S})
  BY <1>1, <1>3, <1>4, SumMoved
<1> QED
  BY <1>5, <1>6 DEF Firsts, S

(* What SparseCoversMass says, of weights and of the tokens used. *)
Covers(w, used) ==
  LET unused == DOMAIN w \ used
  IN /\ unused # {} => SumFunctionOnSet(w, used) >= v_mass
     /\ \A s \in used, t \in unused : w[s] >= w[t]
     /\ v_mass = 0 => unused = {}

LEMMA OrderedCovers ==
  ASSUME NEW n \in Nat, NEW w \in [1 .. n -> Nat], NEW ord, Arranges(ord, n),
         v_mass # 0 => Heaviest(w, ord, n)
  PROVE  Covers(w, Firsts(ord, Used(w, ord)))
<1> DEFINE m == Used(w, ord)
           used == Firsts(ord, m)
           unused == DOMAIN w \ used
<1>1. m \in 0 .. n /\ (v_mass = 0 => m = n) /\ (m = n \/ MassOf(w, ord, m) >= v_mass)
  BY UsedValue
<1> HIDE DEF m
<1>2. MassOf(w, ord, m) = SumFunctionOnSet(w, used)
  BY <1>1, MassValue
<1>3. m = n => unused = {}
  BY DEF Firsts, Arranges
<1>4. \A s \in used, t \in unused : w[s] >= w[t]
  <2> TAKE s \in used, t \in unused
  <2>1. m # n /\ v_mass # 0
    BY <1>1, <1>3
  <2>2. PICK a \in 1 .. m : ord[a] = s
    BY DEF Firsts
  <2>3. t \in 1 .. n /\ \A j \in 1 .. m : ord[j] # t
    BY DEF Firsts
  <2>4. PICK c \in 1 .. n : ord[c] = t
    BY <2>3 DEF Arranges
  <2>5. a \in 1 .. n /\ a < c
    <3>1. c \notin 1 .. m
      BY <2>3, <2>4
    <3> QED
      BY <1>1, <3>1
  <2>6. w[ord[a]] >= w[ord[c]]
    BY <2>1, <2>5 DEF Heaviest
  <2> QED
    BY <2>2, <2>4, <2>6
<1> HIDE DEF unused, used
<1>5. /\ unused # {} => SumFunctionOnSet(w, used) >= v_mass
      /\ v_mass = 0 => unused = {}
  BY <1>1, <1>2, <1>3
<1> QED
  BY <1>4, <1>5 DEF Covers, m, used, unused

-----------------------------------------------------------------------------
(* The weighted sum of the values. *)

(* The values that are summed, as they are dequantized. *)
SumOfValues(w, val, used, i) == SumFunction([t \in used |-> w[t] * val[t][i]])

(* What each of the first m tokens of the order adds to the sum of rotated values. *)
Shares(w, ord, m) ==
  [j \in 1 .. m |-> Times(w[ord[j]] * (3 * norm(tokens[ord[j]].val)),
                          Centers(tokens[ord[j]].val))]

LEMMA VaccumValue ==
  ASSUME TokensStored, NEW n, n = Len(tokens), NEW w \in [1 .. n -> Nat],
         NEW ord, Arranges(ord, n), NEW m \in 0 .. n
  PROVE  vaccum(w, ord, m) = Combined(Shares(w, ord, m), 1 .. m)
<1> DEFINE J == 1 .. m
           F == Shares(w, ord, m)
           idx == [j \in J |-> CodesRead(tokens[ord[j]].v.data, j, Len(ord))]
           G(i) == [j \in J |-> w[ord[j]] * tokens[ord[j]].v.scale * get_codebook(bits)[idx[j][i]]]
           H(i) == [j \in J |-> F[j][i]]
<1>1. vaccum(w, ord, m) = [i \in Position |-> SumFunction(G(i))]
  BY Zenon DEF vaccum
<1>2. ASSUME NEW i \in Position, NEW j \in J
      PROVE  w[ord[j]] * tokens[ord[j]].v.scale * get_codebook(bits)[idx[j][i]] = F[j][i]
  <2> DEFINE x == tokens[ord[j]].val
             c == w[ord[j]] * (3 * norm(x))
  <2>1. n \in Nat /\ j \in 1 .. n /\ ord[j] \in 1 .. n
    <3>1. n \in Nat
      BY TokenValue
    <3>2. j \in 1 .. n
      BY <3>1
    <3>3. ord \in [1 .. n -> 1 .. n]
      BY DEF Arranges
    <3> QED
      BY <3>1, <3>2, <3>3
  <2>2. x \in Vector /\ tokens[ord[j]].v = quantize_into(x, bits) /\ bits \in Bits
    BY <2>1, TokenValue
  <2>3. tokens[ord[j]].v.scale = 3 * norm(x) /\ 3 * norm(x) \in Int /\ w[ord[j]] \in Int
    BY <2>1, <2>2, DequantizedValue
  <2>4. idx[j] = Codes[x][bits]
    <3>1. CodesRead(quantize_into(x, bits).data, j, Len(ord)) = Codes[x][bits]
      BY <2>2, ReadersFind
    <3> QED
      BY <2>2, <3>1
  <2>5. F[j] = Times(c, Centers(x))
    BY Zenon DEF Shares
  <2>6. c \in Int
    BY <2>3
  <2> HIDE DEF x, c, idx
  <2>7. Times(c, Centers(x))[i] = c * Centers(x)[i]
        /\ Centers(x)[i] = get_codebook(bits)[Codes[x][bits][i]]
    BY <2>2, <2>6, CentersValue, TimesValue
  <2> QED
    BY <2>3, <2>4, <2>5, <2>7 DEF c
<1> HIDE DEF idx
<1>3. ASSUME NEW i \in Position
      PROVE  SumFunction(G(i)) = SumFunctionOnSet(H(i), J)
  <2>1. G(i) = H(i)
    BY <1>2
  <2>2. DOMAIN H(i) = J
    OBVIOUS
  <2> QED
    BY <2>1, <2>2, Zenon DEF SumFunction
<1> HIDE DEF G
<1>4. vaccum(w, ord, m) = [i \in Position |-> SumFunctionOnSet(H(i), J)]
  BY <1>1, <1>3, Zenon
<1> QED
  BY <1>4, Zenon DEF Combined

LEMMA OutValue ==
  ASSUME TokensStored, NEW n, n = Len(tokens), NEW w \in [1 .. n -> Nat],
         NEW ord, Arranges(ord, n), NEW m \in 0 .. n, NEW i \in 0 .. Dim - 1
  PROVE  Cut(fwht_inverse(vaccum(w, ord, m)))[i]
           = SumOfValues(w, [t \in Firsts(ord, m) |-> dequantize_raw(tokens[t].v, bits)],
                         Firsts(ord, m), i)
<1> DEFINE J == 1 .. m
           x(t) == tokens[t].val
           c(j) == w[ord[j]] * (3 * norm(x(ord[j])))
           F == [j \in J |-> Times(c(j), Centers(x(ord[j])))]
           G == [j \in J |-> fwht_inverse(F[j])]
           used == Firsts(ord, m)
           val == [t \in used |-> dequantize_raw(tokens[t].v, bits)]
           h == [j \in J |-> G[j][i]]
           f == [t \in used |-> w[t] * val[t][i]]
<1>1. n \in Nat /\ IsFiniteSet(J) /\ i \in Position
      /\ \A j \in J : j \in 1 .. n /\ ord[j] \in 1 .. n /\ ord[j] \in used
  <2>1. n \in Nat
    BY TokenValue
  <2>2. IsFiniteSet(J)
    BY FS_Interval
  <2>3. i \in Position
    BY PaddedAssumption DEF Position
  <2>4. ASSUME NEW j \in J
        PROVE  j \in 1 .. n /\ ord[j] \in 1 .. n /\ ord[j] \in used
    <3>1. j \in 1 .. n
      BY <2>1
    <3>2. ord \in [1 .. n -> 1 .. n]
      BY DEF Arranges
    <3>3. ord[j] \in used
      BY DEF Firsts
    <3> QED
      BY <3>1, <3>2, <3>3
  <2> QED
    BY <2>1, <2>2, <2>3, <2>4
<1>2. ASSUME NEW t \in 1 .. n
      PROVE  /\ x(t) \in Vector /\ tokens[t].v = quantize_into(x(t), bits) /\ bits \in Bits
             /\ Centers(x(t)) \in Numbers /\ fwht_inverse(Centers(x(t))) \in Numbers
             /\ dequantize_raw(tokens[t].v, bits)[i]
                  = (3 * norm(x(t))) * fwht_inverse(Centers(x(t)))[i]
             /\ 3 * norm(x(t)) \in Int /\ w[t] \in Int
  <2>1. x(t) \in Vector /\ tokens[t].v = quantize_into(x(t), bits) /\ bits \in Bits
    BY TokenValue
  <2> HIDE DEF x
  <2>2. Centers(x(t)) \in Numbers /\ fwht_inverse(Centers(x(t))) \in Numbers
    BY <2>1, CentersValue
  <2>3. /\ dequantize_raw(quantize_into(x(t), bits), bits)
             = [k \in 0 .. Dim - 1 |-> (3 * norm(x(t))) * fwht_inverse(Centers(x(t)))[k]]
        /\ 3 * norm(x(t)) \in Int
    BY <2>1, DequantizedValue
  <2> QED
    BY <2>1, <2>2, <2>3
<1>3. ASSUME NEW j \in J
      PROVE  /\ c(j) \in Int /\ F[j] \in Numbers
             /\ h[j] = c(j) * fwht_inverse(Centers(x(ord[j])))[i] /\ h[j] \in Int
             /\ f[ord[j]] = h[j]
  <2> DEFINE t == ord[j]
             y == fwht_inverse(Centers(x(t)))
             s == 3 * norm(x(t))
             a == w[t]
  <2>1. /\ t \in 1 .. n /\ t \in used
        /\ Centers(x(t)) \in Numbers /\ y \in Numbers
        /\ dequantize_raw(tokens[t].v, bits)[i] = s * y[i]
        /\ s \in Int /\ a \in Int
    BY <1>1, <1>2
  <2>2. c(j) = a * s /\ a * s \in Int
    BY <2>1
  <2>3. F[j] = Times(a * s, Centers(x(t))) /\ h[j] = fwht_inverse(F[j])[i]
    BY Zenon
  <2>4. f[t] = a * dequantize_raw(tokens[t].v, bits)[i]
    BY <2>1
  <2> HIDE DEF F, G, h, f, c, x, y, s, a, t
  <2>5. Times(a * s, Centers(x(t))) \in Numbers
        /\ fwht_inverse(Times(a * s, Centers(x(t)))) = Times(a * s, fwht_inverse(Centers(x(t))))
    BY <2>1, <2>2, TimesValue, InverseOfMultiple
  <2>6. Times(a * s, y)[i] = (a * s) * y[i] /\ y[i] \in Int
    BY <1>1, <2>1, <2>2, TimesValue DEF Numbers
  <2>7. h[j] = (a * s) * y[i]
    BY <2>3, <2>5, <2>6 DEF y
  <2>8. f[t] = a * (s * y[i])
    BY <2>1, <2>4
  <2>9. (a * s) * y[i] = a * (s * y[i]) /\ (a * s) * y[i] \in Int
    BY <2>1, <2>6
  <2> QED
    BY <2>2, <2>3, <2>5, <2>7, <2>8, <2>9 DEF y, t
<1>4. F \in [J -> Numbers]
  BY <1>3
<1>5. vaccum(w, ord, m) = Combined(F, J)
  <2>1. F = Shares(w, ord, m)
    BY DEF Shares
  <2>2. vaccum(w, ord, m) = Combined(Shares(w, ord, m), 1 .. m)
    BY VaccumValue
  <2> HIDE DEF F
  <2> QED
    BY <2>1, <2>2
<1>6. DOMAIN G = J /\ \A j \in J : h[j] = G[j][i]
  OBVIOUS
<1>7. \A a, b \in J : ord[a] = ord[b] => a = b
  BY <1>1 DEF Arranges
<1>8. used = {ord[j] : j \in J} /\ DOMAIN f = used
  BY DEF Firsts
<1>12. Cut(fwht_inverse(vaccum(w, ord, m)))[i] = fwht_inverse(vaccum(w, ord, m))[i]
  BY DEF Cut
<1>13. SumOfValues(w, val, used, i) = SumFunctionOnSet(f, DOMAIN f)
  BY Zenon DEF SumOfValues, SumFunction
<1>9. G \in [J -> Numbers] /\ fwht_inverse(Combined(F, J)) = Combined(G, J)
  <2> HIDE DEF F
  <2> QED
    BY <1>1, <1>4, InverseOfSum
<1>14. h = [j \in J |-> G[j][i]]
  OBVIOUS
<1> HIDE DEF F, G, h, f, val, used, J, x, c
<1>10. Combined(G, J)[i] = SumFunctionOnSet(h, J)
  BY <1>1, <1>9, <1>14, CombinedValue
<1>15. \A j \in J : h[j] \in Int /\ h[j] = f[ord[j]]
  BY <1>3
<1>18. IsFiniteSet(J)
  BY <1>1
<1>11. SumFunctionOnSet(h, J) = SumFunctionOnSet(f, {ord[j] : j \in J})
  BY ONLY <1>7, <1>15, <1>18, SumMoved
<1>16. fwht_inverse(vaccum(w, ord, m))[i] = SumFunctionOnSet(h, J)
  BY <1>5, <1>9, <1>10
<1>17. Cut(fwht_inverse(vaccum(w, ord, m)))[i] = SumOfValues(w, val, used, i)
  BY <1>8, <1>11, <1>12, <1>13, <1>16, Zenon
<1> QED
  BY <1>17, Zenon DEF val, used

-----------------------------------------------------------------------------
(* Answers. *)

LEMMA InitHeld == Init => Held
<1>1. Len(Offered) \in Nat
  BY OfferedAssumption
<1> QED
  BY <1>1, InitStored DEF Init, Held

LEMMA NextHeld == Held /\ [Next]_vars => Held'
<1> SUFFICES ASSUME Held, [Next]_vars
             PROVE  Len(tokens') \in 0 .. Len(Offered)
  BY NextStored DEF Held
<1>1. Len(Offered) \in Nat /\ Len(tokens) \in 0 .. Len(Offered) /\ tokens \in Seq(Stored)
  BY OfferedAssumption DEF Held, TokensStored
<1>2. ASSUME Len(tokens) < Len(Offered),
             NEW kv \in Offered[Len(tokens) + 1], append_kv(kv[1], kv[2])
      PROVE  Len(tokens') \in 0 .. Len(Offered)
  <2>1. PICK e : tokens' = Append(tokens, e)
    BY <1>2 DEF append_kv
  <2>2. Len(Append(tokens, e)) = Len(tokens) + 1
    BY <1>1
  <2> QED
    BY <1>1, <1>2, <2>1, <2>2
<1>3. ASSUME NEW q \in Queries, compute(q)
      PROVE  Len(tokens') \in 0 .. Len(Offered)
  BY <1>1, <1>3 DEF compute
<1>4. CASE reset
  BY <1>1, <1>4 DEF reset
<1>5. CASE UNCHANGED vars
  BY <1>1, <1>5 DEF vars
<1> QED
  BY <1>2, <1>3, <1>4, <1>5 DEF Next

(* AttendsToDequantized and SparseCoversMass, of an answer a. *)
LogitsAttend(a, ts, b) ==
  \A t \in DOMAIN ts : a.logits[t] = DotKey(a.q, dequantize_raw(ts[t].k, b))

OutAttends(a, ts, b) ==
  \A i \in DOMAIN a.out :
    a.out[i] = SumOfValues(a.weights, [t \in a.used |-> dequantize_raw(ts[t].v, b)], a.used, i)

CoversMass(a, mass) ==
  LET unused == DOMAIN a.weights \ a.used
  IN /\ unused # {} => SumFunctionOnSet(a.weights, a.used) >= mass
     /\ \A s \in a.used, t \in unused : a.weights[s] >= a.weights[t]
     /\ mass = 0 => unused = {}

AnswerIsRight(a, ts, b, mass) ==
  a.asked => /\ a.q \in Vector /\ a.weights \in [1 .. Len(ts) -> 0 .. Whole]
             /\ LogitsAttend(a, ts, b) /\ OutAttends(a, ts, b) /\ CoversMass(a, mass)

AnswerInv == Held /\ AnswerIsRight(answer, tokens, bits, v_mass)

LEMMA RightAnswers ==
  ASSUME AnswerInv
  PROVE  AttendsToDequantized /\ SparseCoversMass
<1>1. AttendsToDequantized
  <2> SUFFICES ASSUME answer.asked
               PROVE  /\ \A t \in DOMAIN tokens :
                           answer.logits[t] =
                             SumFunction([i \in DOMAIN dequantize_raw(tokens[t].k, bits) |->
                                            answer.q[i] * dequantize_raw(tokens[t].k, bits)[i]])
                      /\ \A i \in DOMAIN answer.out :
                           answer.out[i] =
                             SumFunction([t \in answer.used |->
                               answer.weights[t] *
                                 [s \in answer.used |-> dequantize_raw(tokens[s].v, bits)][t][i]])
    BY Zenon DEF AttendsToDequantized
  <2>1. LogitsAttend(answer, tokens, bits) /\ OutAttends(answer, tokens, bits)
    BY DEF AnswerInv, AnswerIsRight
  <2> QED
    BY <2>1, Zenon DEF LogitsAttend, OutAttends, DotKey, SumOfValues
<1>2. SparseCoversMass
  BY DEF AnswerInv, AnswerIsRight, CoversMass, SparseCoversMass
<1> QED
  BY <1>1, <1>2

(* What compute answers. *)
Answered(q, w, ord) ==
  [asked |-> TRUE, q |-> q, logits |-> Logits(q), weights |-> w,
   used |-> Firsts(ord, Used(w, ord)),
   out |-> Cut(fwht_inverse(vaccum(w, ord, Used(w, ord))))]

LEMMA AnsweredIsRight ==
  ASSUME Held, NEW q \in Vector, NEW w \in softmax(Logits(q)), NEW ord \in Orders(w)
  PROVE  AnswerIsRight(Answered(q, w, ord), tokens, bits, v_mass)
<1> DEFINE a == Answered(q, w, ord)
           n == Len(tokens)
           m == Used(w, ord)
<1>1. TokensStored /\ n \in 0 .. Len(Offered) /\ n \in Nat /\ DOMAIN tokens = 1 .. n
  BY TokenValue DEF Held
<1>2. w \in [1 .. n -> 0 .. Whole] /\ w \in Seq(0 .. Whole) /\ Len(w) = n
  BY WeightsValue
<1>3. w \in [1 .. n -> Nat]
  BY <1>2, OfferedAssumption
<1>4. Arranges(ord, n) /\ (v_mass # 0 => Heaviest(w, ord, n))
  <2> HIDE DEF n
  <2> QED
    BY <1>1, <1>2, OrdersValue
<1>5. m \in 0 .. n /\ Covers(w, Firsts(ord, m))
  <2> HIDE DEF n
  <2> QED
    BY <1>1, <1>3, <1>4, UsedValue, OrderedCovers
<1>6. /\ a.q = q /\ a.logits = Logits(q) /\ a.weights = w /\ a.used = Firsts(ord, m)
      /\ a.out = Cut(fwht_inverse(vaccum(w, ord, m)))
  BY DEF Answered
<1> HIDE DEF a, m
<1>7. LogitsAttend(a, tokens, bits)
  BY <1>1, <1>6, LogitsValue DEF LogitsAttend
<1>8. OutAttends(a, tokens, bits)
  <2>1. DOMAIN a.out = 0 .. Dim - 1
    BY <1>6 DEF Cut
  <2>2. ASSUME NEW i \in 0 .. Dim - 1
        PROVE  a.out[i] = SumOfValues(w, [t \in Firsts(ord, m) |-> dequantize_raw(tokens[t].v, bits)],
                                      Firsts(ord, m), i)
    BY <1>1, <1>3, <1>4, <1>5, <1>6, OutValue
  <2> QED
    BY <1>6, <2>1, <2>2, Zenon DEF OutAttends
<1>9. CoversMass(a, v_mass)
  BY <1>5, <1>6, Zenon DEF Covers, CoversMass
<1> QED
  BY <1>2, <1>6, <1>7, <1>8, <1>9 DEF AnswerIsRight, a

LEMMA InitAnswer == Init => AnswerInv
BY InitHeld DEF Init, AnswerInv, AnswerIsRight, NoAnswer

LEMMA NextAnswer == AnswerInv /\ [Next]_vars => AnswerInv'
<1> SUFFICES ASSUME AnswerInv, [Next]_vars
             PROVE  AnswerIsRight(answer', tokens', bits', v_mass')
  BY NextHeld DEF AnswerInv
<1>1. ASSUME answer' = NoAnswer
      PROVE  AnswerIsRight(answer', tokens', bits', v_mass')
  BY <1>1 DEF NoAnswer, AnswerIsRight
<1>2. ASSUME NEW q \in Queries, compute(q)
      PROVE  AnswerIsRight(answer', tokens', bits', v_mass')
  <2>5. PICK w \in softmax(Logits(q)) : \E ord \in Orders(w) :
          /\ answer' = [asked |-> TRUE, q |-> q, logits |-> Logits(q), weights |-> w,
                        used |-> {ord[j] : j \in 1 .. Used(w, ord)},
                        out |-> Cut(fwht_inverse(vaccum(w, ord, Used(w, ord))))]
          /\ UNCHANGED <<bits, kernel, v_mass, tokens>>
    BY <1>2, Zenon DEF compute
  <2>1. PICK ord \in Orders(w) :
          /\ answer' = [asked |-> TRUE, q |-> q, logits |-> Logits(q), weights |-> w,
                        used |-> {ord[j] : j \in 1 .. Used(w, ord)},
                        out |-> Cut(fwht_inverse(vaccum(w, ord, Used(w, ord))))]
          /\ UNCHANGED <<bits, kernel, v_mass, tokens>>
    BY <2>5, Zenon
  <2>2. answer' = Answered(q, w, ord)
    BY <2>1, Zenon DEF Answered, Firsts
  <2>3. q \in Vector /\ Held
    BY OfferedAssumption DEF AnswerInv
  <2>4. AnswerIsRight(Answered(q, w, ord), tokens, bits, v_mass)
    BY <2>3, AnsweredIsRight
  <2> QED
    BY <2>1, <2>2, <2>4
<1>3. CASE UNCHANGED vars
  BY <1>3 DEF vars, AnswerInv
<1>4. ASSUME NEW key, NEW val, append_kv(key, val)
      PROVE  answer' = NoAnswer
  BY <1>4 DEF append_kv
<1>5. ASSUME reset
      PROVE  answer' = NoAnswer
  BY <1>5 DEF reset
<1> QED
  BY <1>1, <1>2, <1>3, <1>4, <1>5 DEF Next

THEOREM AnswersAttend == Spec => []AttendsToDequantized
BY InitAnswer, NextAnswer, RightAnswers, PTL DEF Spec

THEOREM MassIsCovered == Spec => []SparseCoversMass
BY InitAnswer, NextAnswer, RightAnswers, PTL DEF Spec

-----------------------------------------------------------------------------
(* The two backends. *)

Packs == {quantize_into(x, bits) : x \in Vector}

(* The centroids of a pack. *)
Unpacked(p) == Centroids(unpack_indices(p.data, bits))

LEMMA PackValue ==
  ASSUME bits \in Bits, NEW p \in Packs
  PROVE  /\ p.scale \in Int /\ Unpacked(p) \in Numbers
         /\ Centroids([i \in Position |-> Quad(p.data, i, bits)]) = Unpacked(p)
         /\ Centroids([i \in Position |-> Single(p.data, i, bits)]) = Unpacked(p)
<1>1. PICK x \in Vector : p = quantize_into(x, bits)
  BY DEF Packs
<1>2. p.scale \in Int
  BY <1>1, DequantizedValue
<1> DEFINE idx == Codes[x][bits]
<1>3. idx = [i \in Position |-> idx[i]]
  BY CodesInRange
<1>4. /\ unpack_indices(p.data, bits) = idx
      /\ \A i \in Position : Quad(p.data, i, bits) = idx[i] /\ Single(p.data, i, bits) = idx[i]
  BY <1>1, PackedIsRecoverable DEF Recoverable
<1>5. Unpacked(p) \in Numbers
  BY <1>4, CentersValue DEF Unpacked, Centers
<1> HIDE DEF idx
<1>6. [i \in Position |-> Quad(p.data, i, bits)] = idx /\ [i \in Position |-> Single(p.data, i, bits)] = idx
  BY <1>3, <1>4
<1> QED
  BY <1>2, <1>4, <1>5, <1>6, Zenon DEF Unpacked

(* Four in a row. *)
LEMMA FourOf ==
  ASSUME NEW S, NEW n \in Nat, NEW s \in [1 .. n -> S], NEW g \in Nat \ {0}, 4 * g <= n
  PROVE  \A t \in 1 .. 4 : /\ 4 * g - 4 + t \in 1 .. n
                           /\ SubSeq(s, 4 * g - 3, 4 * g)[t] = s[4 * g - 4 + t]
<1> DEFINE a == 4 * g - 3
           b == 4 * g
<1>1. a \in Int /\ b \in Int /\ b - a + 1 = 4 /\ \A i \in a .. b : i \in 1 .. n
  OBVIOUS
<1>2. \A i \in a .. b : s[i] \in S
  BY <1>1
<1>3. \A t \in 1 .. 4 : a + t - 1 = 4 * g - 4 + t /\ 4 * g - 4 + t \in 1 .. n
  OBVIOUS
<1> HIDE DEF a, b
<1>4. \A i \in 1 .. b - a + 1 : SubSeq(s, a, b)[i] = s[a + i - 1]
  BY <1>1, <1>2, SubSeqProperties
<1> QED
  BY <1>1, <1>3, <1>4 DEF a, b

LEMMA KdotsAgree ==
  ASSUME bits \in Bits, NEW n \in Nat, NEW kr \in [1 .. n -> Packs], NEW q \in Numbers
  PROVE  avx2_kdot_batch(q, kr) = scalar_kdot_batch(q, kr)
<1>1. Len(kr) = n /\ DOMAIN kr = 1 .. n
  BY LenOfFunction
<1> DEFINE G(i) == LET first == 4 * ((i - 1) \div 4)
                   IN kr[i].scale * IF i < Leftover(n)
                        THEN kdot4_quad_avx2(q, SubSeq(kr, first + 1, first + 4))[i - first]
                        ELSE kdot1_avx2(q, kr[i].data)
           H(i) == kdot_single(q, kr[i].data) * kr[i].scale
<1>2. avx2_kdot_batch(q, kr) = [i \in 1 .. n |-> G(i)]
  BY <1>1, Zenon DEF avx2_kdot_batch
<1>3. scalar_kdot_batch(q, kr) = [i \in 1 .. n |-> H(i)]
  BY <1>1, Zenon DEF scalar_kdot_batch
<1>4. ASSUME NEW i \in 1 .. n
      PROVE  G(i) = H(i)
  <2> DEFINE p == kr[i]
             d == Dot(q, Unpacked(p))
             h == (i - 1) \div 4
             first == 4 * h
             four == SubSeq(kr, first + 1, first + 4)
  <2>1. p \in Packs
    OBVIOUS
  <2>2. /\ p.scale \in Int /\ d \in Int
        /\ Centroids([k \in Position |-> Quad(p.data, k, bits)]) = Unpacked(p)
        /\ Centroids([k \in Position |-> Single(p.data, k, bits)]) = Unpacked(p)
    BY <2>1, PackValue, DotSum
  <2>3. kdot_single(q, p.data) = d
    BY DEF kdot_single, Unpacked
  <2>4. kdot1_avx2(q, p.data) = d
    BY <2>2 DEF kdot1_avx2
  <2>5. ASSUME i < Leftover(n)
        PROVE  kdot4_quad_avx2(q, four)[i - first] = d
    <3> DEFINE g == h + 1
    <3>1. i < 4 * (n \div 4) + 1
      BY <2>5 DEF Leftover
    <3>2. g \in Nat \ {0} /\ 4 * g <= n /\ i - first \in 1 .. 4
          /\ first + 1 = 4 * g - 3 /\ first + 4 = 4 * g /\ 4 * g - 4 + (i - first) = i
      BY <3>1
    <3> HIDE DEF h, g, first
    <3>3. SubSeq(kr, 4 * g - 3, 4 * g)[i - first] = kr[4 * g - 4 + (i - first)]
      BY <3>2, FourOf
    <3>4. four[i - first] = p
      BY <3>2, <3>3
    <3> HIDE DEF four
    <3>5. kdot4_quad_avx2(q, four)[i - first]
            = Dot(q, Centroids([k \in Position |-> Quad(four[i - first].data, k, bits)]))
      BY <3>2 DEF kdot4_quad_avx2
    <3> QED
      BY <2>2, <3>4, <3>5
  <2>6. G(i) = p.scale * IF i < Leftover(n) THEN kdot4_quad_avx2(q, four)[i - first]
                                            ELSE kdot1_avx2(q, p.data)
    BY Zenon
  <2>7. G(i) = p.scale * d
    <3> HIDE DEF G, four, first, p, d
    <3> QED
      BY <2>4, <2>5, <2>6
  <2>8. H(i) = d * p.scale
    BY <2>3
  <2> HIDE DEF G, H, d, p
  <2> QED
    BY <2>2, <2>7, <2>8
<1> HIDE DEF G, H
<1> QED
  BY <1>2, <1>3, <1>4, Zenon

-----------------------------------------------------------------------------
(* A fold that adds terms to a base gives their sum. *)

Together(x, y) == [i \in Position |-> x[i] + y[i]]

Zeros == [i \in Position |-> 0]

LEMMA TogetherValue ==
  ASSUME NEW x \in Numbers, NEW y \in Numbers
  PROVE  Together(x, y) \in Numbers /\ \A i \in Position : Together(x, y)[i] = x[i] + y[i]
BY DEF Together, Numbers

LEMMA PlusValue ==
  ASSUME NEW x \in Numbers, NEW w \in Int, NEW y \in Numbers
  PROVE  Plus(x, w, y) = Together(x, Times(w, y))
<1>1. \A i \in Position : Times(w, y)[i] = w * y[i]
  BY TimesValue
<1> QED
  BY <1>1 DEF Plus, Together

(* base and the sum of the terms of s. *)
Added(base, term, s) ==
  [i \in Position |-> base[i] + SumFunctionOnSet([j \in s |-> term[j][i]], s)]

LEMMA AddedValue ==
  ASSUME NEW base \in Numbers, NEW n \in Nat, NEW term \in [1 .. n -> Numbers],
         NEW s \in SUBSET (1 .. n)
  PROVE  /\ Added(base, term, s) \in Numbers
         /\ s = {} => Added(base, term, s) = base
         /\ \A m \in s : Added(base, term, s) = Together(Added(base, term, s \ {m}), term[m])
<1> DEFINE f(i) == [j \in 1 .. n |-> term[j][i]]
           S(i, r) == SumFunctionOnSet(f(i), r)
<1>1. \A i \in Position : \A j \in 1 .. n : f(i)[j] = term[j][i] /\ f(i)[j] \in Int
  BY DEF Numbers
<1>2. \A r \in SUBSET (1 .. n) : IsFiniteSet(r)
  <2>1. IsFiniteSet(1 .. n)
    BY FS_Interval
  <2> QED
    BY <2>1, FS_Subset
<1> HIDE DEF f
<1>3. ASSUME NEW r \in SUBSET (1 .. n), NEW i \in Position
      PROVE  SumFunctionOnSet([j \in r |-> term[j][i]], r) = S(i, r) /\ S(i, r) \in Int
  <2> DEFINE h == [j \in r |-> term[j][i]]
  <2>1. \A j \in r : f(i)[j] \in Int /\ h[j] = f(i)[j]
    BY <1>1
  <2> HIDE DEF h
  <2>2. SumFunctionOnSet(h, r) = SumFunctionOnSet(f(i), r) /\ SumFunctionOnSet(f(i), r) \in Int
    BY <1>2, <2>1, SumAgree, SumValue
  <2> QED
    BY <2>2 DEF h
<1>4. ASSUME NEW r \in SUBSET (1 .. n)
      PROVE  Added(base, term, r) = [i \in Position |-> base[i] + S(i, r)]
  <2> HIDE DEF S
  <2> QED
    BY <1>3, Zenon DEF Added
<1>5. \A i \in Position : base[i] \in Int
  BY DEF Numbers
<1>6. ASSUME NEW r \in SUBSET (1 .. n)
      PROVE  Added(base, term, r) \in Numbers
  <2>1. ASSUME NEW i \in Position
        PROVE  base[i] + S(i, r) \in Int
    <3>1. S(i, r) \in Int /\ base[i] \in Int
      BY <1>3, <1>5
    <3> HIDE DEF S
    <3> QED
      BY <3>1
  <2>2. Added(base, term, r) = [i \in Position |-> base[i] + S(i, r)]
    BY <1>4
  <2> HIDE DEF S
  <2> QED
    BY <2>1, <2>2 DEF Numbers
<1>7. ASSUME s = {}
      PROVE  Added(base, term, s) = base
  <2>1. \A i \in Position : base[i] + S(i, s) = base[i]
    <3>1. \A i \in Position : S(i, s) = 0
      BY <1>7, SumOfNone
    <3> QED
      BY <1>5, <3>1
  <2>2. base = [i \in Position |-> base[i]]
    BY DEF Numbers
  <2> HIDE DEF S
  <2> QED
    BY <1>4, <2>1, <2>2
<1>8. ASSUME NEW m \in s
      PROVE  Added(base, term, s) = Together(Added(base, term, s \ {m}), term[m])
  <2> DEFINE r == s \ {m}
             A == Added(base, term, r)
  <2>1. r \in SUBSET (1 .. n) /\ m \in 1 .. n
    OBVIOUS
  <2>2. \A i \in Position : S(i, s) = f(i)[m] + S(i, r)
    <3> TAKE i \in Position
    <3>1. IsFiniteSet(s) /\ \A j \in s : f(i)[j] \in Int
      BY <1>1, <1>2
    <3> QED
      BY <3>1, SumRemove
  <2>3. \A i \in Position : S(i, r) \in Int /\ S(i, s) \in Int
    BY <1>3, <2>1
  <2> HIDE DEF r, S
  <2>4. \A i \in Position : A[i] = base[i] + S(i, r)
    BY <1>4, <2>1
  <2>5. \A i \in Position : base[i] + S(i, s) = A[i] + term[m][i]
    <3> TAKE i \in Position
    <3>1. f(i)[m] = term[m][i] /\ f(i)[m] \in Int
      BY <1>1, <2>1
    <3> DEFINE a == base[i]
               b == S(i, r)
               c == term[m][i]
    <3>2. a \in Int /\ b \in Int /\ c \in Int
      BY <1>5, <2>3, <3>1
    <3>3. S(i, s) = c + b /\ A[i] = a + b
      BY <2>2, <2>4, <3>1
    <3> HIDE DEF a, b, c
    <3>4. a + (c + b) = (a + b) + c
      BY <3>2
    <3> QED
      BY <3>3, <3>4 DEF a, c
  <2> HIDE DEF A
  <2>6. Added(base, term, s) = [i \in Position |-> A[i] + term[m][i]]
    BY <1>4, <2>5, Zenon
  <2> QED
    BY <2>6, Zenon DEF Together, A, r
<1> QED
  BY <1>6, <1>7, <1>8

(* A fold whose steps add the terms, one after the other. *)
Adding(iter, n, base, term) ==
  /\ iter[{}] = base
  /\ \A s \in SUBSET (1 .. n) :
       s # {} /\ iter[s \ {Max(s)}] \in Numbers =>
         iter[s] = Together(iter[s \ {Max(s)}], term[Max(s)])

LEMMA AddingValue ==
  ASSUME NEW base \in Numbers, NEW n \in Nat, NEW term \in [1 .. n -> Numbers],
         NEW iter, Adding(iter, n, base, term)
  PROVE  iter[1 .. n] = Added(base, term, 1 .. n)
<1> DEFINE T == {k \in 0 .. n : iter[1 .. k] = Added(base, term, 1 .. k)}
<1>1. 0 \in T
  <2>1. 1 .. 0 = {} /\ {} \in SUBSET (1 .. n) /\ 0 \in 0 .. n
    OBVIOUS
  <2>2. Added(base, term, {}) = base
    BY <2>1, AddedValue
  <2> QED
    BY <2>1, <2>2 DEF Adding
<1>2. ASSUME NEW k \in 0 .. n - 1, k \in T
      PROVE  k + 1 \in T
  <2>1. k \in Nat /\ k + 1 \in 0 .. n /\ k + 1 \in 1 .. k + 1
        /\ 1 .. k \in SUBSET (1 .. n) /\ 1 .. k + 1 \in SUBSET (1 .. n)
    OBVIOUS
  <2>2. /\ 1 .. k + 1 # {} /\ Max(1 .. k + 1) = k + 1
        /\ (1 .. k + 1) \ {k + 1} = 1 .. k
    BY <2>1, Initial
  <2>3. iter[1 .. k] = Added(base, term, 1 .. k) /\ Added(base, term, 1 .. k) \in Numbers
    BY <1>2, <2>1, AddedValue
  <2>4. iter[1 .. k + 1] = Together(iter[1 .. k], term[k + 1])
    BY <2>1, <2>2, <2>3 DEF Adding
  <2>5. Added(base, term, 1 .. k + 1)
          = Together(Added(base, term, (1 .. k + 1) \ {k + 1}), term[k + 1])
    BY <2>1, AddedValue
  <2> QED
    BY <2>1, <2>2, <2>3, <2>4, <2>5
<1>3. n \in T
  <2> HIDE DEF T
  <2> QED
    BY <1>1, <1>2, UpTo
<1> QED
  BY <1>3

(* Such a fold has a solution. *)
Chain(base, term, n) == [s \in SUBSET (1 .. n) |-> Added(base, term, s)]

IsChain(h, base, term, n) ==
  /\ h = [s \in SUBSET (1 .. n) |-> h[s]] /\ h[{}] = base
  /\ \A s \in SUBSET (1 .. n) : s # {} =>
       /\ Max(s) \in 1 .. n /\ h[s \ {Max(s)}] \in Numbers
       /\ h[s] = Together(h[s \ {Max(s)}], term[Max(s)])

LEMMA ChainValue ==
  ASSUME NEW base \in Numbers, NEW n \in Nat, NEW term \in [1 .. n -> Numbers]
  PROVE  IsChain(Chain(base, term, n), base, term, n)
<1> DEFINE h == Chain(base, term, n)
<1>1. h = [s \in SUBSET (1 .. n) |-> h[s]] /\ \A s \in SUBSET (1 .. n) : h[s] = Added(base, term, s)
  BY DEF Chain
<1> HIDE DEF h
<1>2. h[{}] = base
  <2>1. {} \in SUBSET (1 .. n)
    OBVIOUS
  <2> QED
    BY <1>1, <2>1, AddedValue
<1>3. ASSUME NEW s \in SUBSET (1 .. n), s # {}
      PROVE  /\ Max(s) \in 1 .. n /\ h[s \ {Max(s)}] \in Numbers
             /\ h[s] = Together(h[s \ {Max(s)}], term[Max(s)])
  <2> DEFINE m == Max(s)
  <2>1. m \in s
    BY <1>3, MaxIsLast
  <2> HIDE DEF m
  <2>2. m \in 1 .. n /\ s \ {m} \in SUBSET (1 .. n)
    BY <2>1
  <2>3. h[s \ {m}] = Added(base, term, s \ {m}) /\ Added(base, term, s \ {m}) \in Numbers
        /\ h[s] = Added(base, term, s)
    BY <1>1, <2>2, AddedValue
  <2>4. Added(base, term, s) = Together(Added(base, term, s \ {m}), term[m])
    BY <2>1, AddedValue
  <2> QED
    BY <2>2, <2>3, <2>4 DEF m
<1>4. IsChain(h, base, term, n)
  BY <1>1, <1>2, <1>3 DEF IsChain
<1> QED
  BY <1>4 DEF h

-----------------------------------------------------------------------------
(* The sums over V: token by token, in fours, and the tokens left over. *)

(* What each token adds to the sum. *)
Term(p, w) == Times(w * p.scale, Unpacked(p))

Terms(vr, weights, n) == [j \in 1 .. n |-> Term(vr[j], weights[j])]

LEMMA TermValue ==
  ASSUME bits \in Bits, NEW p \in Packs, NEW w \in Int
  PROVE  /\ Term(p, w) \in Numbers /\ w * p.scale \in Int
         /\ \A acc \in Numbers : Plus(acc, w * p.scale, Unpacked(p)) = Together(acc, Term(p, w))
         /\ w = 0 => \A acc \in Numbers : Together(acc, Term(p, w)) = acc
<1>1. p.scale \in Int /\ Unpacked(p) \in Numbers
  BY PackValue
<1>2. w * p.scale \in Int
  BY <1>1
<1> DEFINE c == w * p.scale
           u == Unpacked(p)
           t == Term(p, w)
<1>3. t = Times(c, u) /\ c \in Int /\ (w = 0 => c = 0)
  BY <1>1, <1>2 DEF Term
<1> HIDE DEF c, t
<1>4. t \in Numbers /\ \A i \in Position : t[i] = c * u[i]
  BY <1>1, <1>3, TimesValue
<1>5. \A acc \in Numbers : Plus(acc, c, u) = Together(acc, t)
  BY <1>1, <1>3, PlusValue
<1>6. ASSUME w = 0, NEW acc \in Numbers
      PROVE  Together(acc, t) = acc
  <2>1. \A i \in Position : acc[i] + t[i] = acc[i]
    <3> TAKE i \in Position
    <3>1. u[i] \in Int /\ acc[i] \in Int /\ c = 0
      BY <1>1, <1>3, <1>6 DEF Numbers
    <3>2. c * u[i] = 0
      BY <3>1
    <3> QED
      BY <1>4, <3>1, <3>2
  <2>2. acc = [i \in Position |-> acc[i]]
    BY DEF Numbers
  <2> QED
    BY <2>1, <2>2 DEF Together
<1> QED
  BY <1>2, <1>4, <1>5, <1>6 DEF c, t

LEMMA TermsValue ==
  ASSUME bits \in Bits, NEW n \in Nat, NEW vr \in [1 .. n -> Packs], NEW weights \in [1 .. n -> Int]
  PROVE  /\ Terms(vr, weights, n) \in [1 .. n -> Numbers]
         /\ \A j \in 1 .. n : Terms(vr, weights, n)[j] = Term(vr[j], weights[j])
         /\ Zeros \in Numbers
<1>1. \A j \in 1 .. n : Term(vr[j], weights[j]) \in Numbers
  BY TermValue
<1> QED
  BY <1>1 DEF Terms, Zeros, Numbers

LEMMA ScalarAdds ==
  ASSUME bits \in Bits, NEW n \in Nat, NEW vr \in [1 .. n -> Packs], NEW weights \in [1 .. n -> Int]
  PROVE  scalar_vaccum_batch(vr, weights) = Added(Zeros, Terms(vr, weights, n), 1 .. n)
<1> DEFINE seq == [i \in DOMAIN vr |-> i]
           term == Terms(vr, weights, n)
           Go(acc, i) == IF weights[i] = 0
                           THEN acc
                           ELSE vaccum_single(acc, vr[i].data, vr[i].scale, weights[i])
           Chosen(f) == f = [s \in SUBSET (DOMAIN seq) |->
             IF s = {} THEN Zeros ELSE Go(f[s \ {Max(s)}], seq[Max(s)])]
           iter == CHOOSE f : Chosen(f)
           h == Chain(Zeros, term, n)
<1>1. scalar_vaccum_batch(vr, weights) = iter[DOMAIN seq]
  BY Zenon DEF scalar_vaccum_batch, FoldLeft, MapThenFoldSet, Zeros
<1>2. DOMAIN seq = 1 .. n /\ \A i \in 1 .. n : seq[i] = i
  OBVIOUS
<1>3. term \in [1 .. n -> Numbers] /\ Zeros \in Numbers
      /\ \A j \in 1 .. n : term[j] = Term(vr[j], weights[j])
  BY TermsValue
<1>4. ASSUME NEW acc \in Numbers, NEW i \in 1 .. n
      PROVE  Go(acc, i) = Together(acc, term[i])
  <2>1. vr[i] \in Packs /\ weights[i] \in Int
    OBVIOUS
  <2>2. /\ Plus(acc, weights[i] * vr[i].scale, Unpacked(vr[i])) = Together(acc, term[i])
        /\ weights[i] = 0 => Together(acc, term[i]) = acc
    BY <1>3, <2>1, TermValue
  <2>3. vaccum_single(acc, vr[i].data, vr[i].scale, weights[i])
          = Plus(acc, weights[i] * vr[i].scale, Unpacked(vr[i]))
    BY DEF vaccum_single, Unpacked
  <2> HIDE DEF term
  <2> QED
    BY <2>2, <2>3
<1> HIDE DEF seq, term, Go
<1>11. IsChain(h, Zeros, term, n)
  BY <1>3, ChainValue
<1> HIDE DEF h
<1>5. /\ h = [s \in SUBSET (1 .. n) |-> h[s]] /\ h[{}] = Zeros
      /\ \A s \in SUBSET (1 .. n) : s # {} =>
           /\ Max(s) \in 1 .. n /\ h[s \ {Max(s)}] \in Numbers
           /\ h[s] = Together(h[s \ {Max(s)}], term[Max(s)])
  BY <1>11 DEF IsChain
<1>6. Chosen(h)
  <2>1. ASSUME NEW s \in SUBSET (1 .. n), s # {}
        PROVE  h[s] = Go(h[s \ {Max(s)}], seq[Max(s)])
    <3> DEFINE m == Max(s)
               acc == h[s \ {m}]
    <3>1. m \in 1 .. n /\ acc \in Numbers /\ h[s] = Together(acc, term[m])
      BY <1>5, <2>1
    <3> HIDE DEF m, acc
    <3>2. Go(acc, m) = Together(acc, term[m]) /\ seq[m] = m
      BY <1>2, <1>4, <3>1
    <3> QED
      BY <3>1, <3>2 DEF acc, m
  <2> QED
    BY <1>2, <1>5, <2>1
<1>7. Chosen(iter)
  <2> HIDE DEF Chosen
  <2> QED
    BY <1>6
<1> HIDE DEF iter
<1>8. \A s \in SUBSET (1 .. n) :
        iter[s] = IF s = {} THEN Zeros ELSE Go(iter[s \ {Max(s)}], seq[Max(s)])
  <2>1. Chosen(iter)
    BY <1>7
  <2> QED
    BY <1>2, <2>1
<1> HIDE DEF Chosen
<1>9. Adding(iter, n, Zeros, term)
  <2>1. iter[{}] = Zeros
    <3>1. {} \in SUBSET (1 .. n)
      OBVIOUS
    <3> QED
      BY <1>8, <3>1
  <2>2. ASSUME NEW s \in SUBSET (1 .. n), s # {}, iter[s \ {Max(s)}] \in Numbers
        PROVE  iter[s] = Together(iter[s \ {Max(s)}], term[Max(s)])
    <3>1. Max(s) \in 1 .. n /\ seq[Max(s)] = Max(s)
      BY <1>2, <1>5, <2>2
    <3>2. iter[s] = Go(iter[s \ {Max(s)}], Max(s))
      BY <1>8, <2>2, <3>1
    <3> QED
      BY <1>4, <2>2, <3>1, <3>2
  <2> QED
    BY <2>1, <2>2 DEF Adding
<1>10. iter[1 .. n] = Added(Zeros, term, 1 .. n)
  BY <1>3, <1>9, AddingValue
<1> QED
  BY <1>1, <1>2, <1>10 DEF term

LEMMA FourTogether ==
  ASSUME NEW x \in Numbers, NEW a \in Numbers, NEW b \in Numbers, NEW c \in Numbers, NEW d \in Numbers
  PROVE  /\ Together(Together(Together(a, b), c), d) \in Numbers
         /\ \A i \in Position :
              Together(Together(Together(a, b), c), d)[i] = a[i] + b[i] + c[i] + d[i]
         /\ Together(Together(Together(Together(x, a), b), c), d)
              = Together(x, Together(Together(Together(a, b), c), d))
<1>1. \A i \in Position : x[i] \in Int /\ a[i] \in Int /\ b[i] \in Int /\ c[i] \in Int /\ d[i] \in Int
  BY DEF Numbers
<1> DEFINE p == Together(a, b)
           q == Together(p, c)
           r == Together(q, d)
           s == Together(x, a)
           t == Together(s, b)
           u == Together(t, c)
<1>2. p \in Numbers /\ \A i \in Position : p[i] = a[i] + b[i]
  BY TogetherValue
<1>3. s \in Numbers /\ \A i \in Position : s[i] = x[i] + a[i]
  BY TogetherValue
<1> HIDE DEF p, s
<1>4. q \in Numbers /\ \A i \in Position : q[i] = p[i] + c[i]
  BY <1>2, TogetherValue
<1>5. t \in Numbers /\ \A i \in Position : t[i] = s[i] + b[i]
  BY <1>3, TogetherValue
<1> HIDE DEF q, t
<1>6. r \in Numbers /\ \A i \in Position : r[i] = q[i] + d[i]
  BY <1>4, TogetherValue
<1>7. u \in Numbers /\ \A i \in Position : u[i] = t[i] + c[i]
  BY <1>5, TogetherValue
<1> HIDE DEF r, u
<1>8. \A i \in Position : r[i] = a[i] + b[i] + c[i] + d[i]
  BY <1>1, <1>2, <1>4, <1>6
<1>9. \A i \in Position : u[i] + d[i] = x[i] + r[i]
  BY <1>1, <1>3, <1>5, <1>7, <1>8
<1>10. Together(u, d) = Together(x, r)
  BY <1>9 DEF Together
<1> QED
  BY <1>6, <1>8, <1>10 DEF p, q, r, s, t, u

Four(term, g) ==
  Together(Together(Together(term[4 * g - 3], term[4 * g - 2]), term[4 * g - 1]), term[4 * g])

Fours(term, n) == [g \in 1 .. n \div 4 |-> Four(term, g)]

(* Four tokens at a time. *)
LEMMA FourAdd ==
  ASSUME bits \in Bits, NEW n \in Nat, NEW vr \in [1 .. n -> Packs], NEW weights \in [1 .. n -> Int],
         NEW e \in [1 .. n -> Int], \A i \in 1 .. n : e[i] = weights[i] * vr[i].scale,
         NEW g \in 1 .. n \div 4, NEW acc \in Numbers
  PROVE  /\ Four(Terms(vr, weights, n), g) \in Numbers
         /\ vaccum4_avx2(acc, SubSeq(vr, 4 * g - 3, 4 * g), SubSeq(e, 4 * g - 3, 4 * g))
              = Together(acc, Four(Terms(vr, weights, n), g))
<1> DEFINE term == Terms(vr, weights, n)
           v == SubSeq(vr, 4 * g - 3, 4 * g)
           f == SubSeq(e, 4 * g - 3, 4 * g)
           y(t) == Centroids([i \in Position |-> Quad(v[t].data, i, bits)])
           a == 4 * g - 3
           b == 4 * g - 2
           c == 4 * g - 1
           d == 4 * g
<1>1. /\ g \in Nat \ {0} /\ 4 * g <= n
      /\ a \in 1 .. n /\ b \in 1 .. n /\ c \in 1 .. n /\ d \in 1 .. n
      /\ 4 * g - 4 + 1 = a /\ 4 * g - 4 + 2 = b /\ 4 * g - 4 + 3 = c /\ 4 * g - 4 + 4 = d
  OBVIOUS
<1>2. /\ v[1] = vr[a] /\ v[2] = vr[b] /\ v[3] = vr[c] /\ v[4] = vr[d]
      /\ f[1] = e[a] /\ f[2] = e[b] /\ f[3] = e[c] /\ f[4] = e[d]
  <2>1. \A t \in 1 .. 4 : v[t] = vr[4 * g - 4 + t]
    <3>1. vr \in [1 .. n -> Packs] /\ n \in Nat /\ g \in Nat \ {0} /\ 4 * g <= n
      BY <1>1
    <3> QED
      BY ONLY <3>1, FourOf DEF v
  <2>2. \A t \in 1 .. 4 : f[t] = e[4 * g - 4 + t]
    <3>1. e \in [1 .. n -> Int] /\ n \in Nat /\ g \in Nat \ {0} /\ 4 * g <= n
      BY <1>1
    <3> QED
      BY ONLY <3>1, FourOf DEF f
  <2> HIDE DEF v, f
  <2>3. v[1] = vr[4 * g - 4 + 1] /\ v[2] = vr[4 * g - 4 + 2]
        /\ v[3] = vr[4 * g - 4 + 3] /\ v[4] = vr[4 * g - 4 + 4]
    BY <2>1
  <2>4. f[1] = e[4 * g - 4 + 1] /\ f[2] = e[4 * g - 4 + 2]
        /\ f[3] = e[4 * g - 4 + 3] /\ f[4] = e[4 * g - 4 + 4]
    BY <2>2
  <2> HIDE DEF a, b, c, d
  <2> QED
    BY <1>1, <2>3, <2>4
<1>3. vaccum4_avx2(acc, v, f)
        = Plus(Plus(Plus(Plus(acc, f[1], y(1)), f[2], y(2)), f[3], y(3)), f[4], y(4))
  BY DEF vaccum4_avx2
<1>4. term[a] = Term(vr[a], weights[a]) /\ term[b] = Term(vr[b], weights[b])
      /\ term[c] = Term(vr[c], weights[c]) /\ term[d] = Term(vr[d], weights[d])
      /\ term[a] \in Numbers /\ term[b] \in Numbers /\ term[c] \in Numbers /\ term[d] \in Numbers
  <2>1. term \in [1 .. n -> Numbers] /\ \A j \in 1 .. n : term[j] = Term(vr[j], weights[j])
    BY TermsValue
  <2> HIDE DEF term, a, b, c, d
  <2> QED
    BY <1>1, <2>1
<1>5. Four(term, g) = Together(Together(Together(term[a], term[b]), term[c]), term[d])
  BY DEF Four
<1> HIDE DEF v, f, a, b, c, d, term
<1>6. ASSUME NEW k \in 1 .. n, NEW x \in Numbers, term[k] = Term(vr[k], weights[k]), term[k] \in Numbers
      PROVE  Plus(x, e[k], Unpacked(vr[k])) = Together(x, term[k]) /\ Together(x, term[k]) \in Numbers
  <2>1. vr[k] \in Packs /\ weights[k] \in Int
    OBVIOUS
  <2>2. Plus(x, weights[k] * vr[k].scale, Unpacked(vr[k])) = Together(x, Term(vr[k], weights[k]))
    BY <2>1, TermValue
  <2> QED
    BY <1>6, <2>2, TogetherValue
<1>14. \A k \in 1 .. n :
         Centroids([i \in Position |-> Quad(vr[k].data, i, bits)]) = Unpacked(vr[k])
  BY PackValue
<1>15. y(1) = Unpacked(vr[a]) /\ y(2) = Unpacked(vr[b]) /\ y(3) = Unpacked(vr[c]) /\ y(4) = Unpacked(vr[d])
  BY <1>1, <1>2, <1>14, Zenon
<1> DEFINE p == Together(acc, term[a])
           q == Together(p, term[b])
           r == Together(q, term[c])
<1> HIDE DEF y
<1>7. Plus(acc, f[1], y(1)) = p /\ p \in Numbers
  <2>1. f[1] = e[a] /\ y(1) = Unpacked(vr[a]) /\ a \in 1 .. n
    BY <1>1, <1>2, <1>15
  <2> QED
    BY <1>4, <1>6, <2>1
<1> HIDE DEF p
<1>8. Plus(p, f[2], y(2)) = q /\ q \in Numbers
  <2>1. f[2] = e[b] /\ y(2) = Unpacked(vr[b]) /\ b \in 1 .. n
    BY <1>1, <1>2, <1>15
  <2> QED
    BY <1>4, <1>6, <1>7, <2>1
<1> HIDE DEF q
<1>9. Plus(q, f[3], y(3)) = r /\ r \in Numbers
  <2>1. f[3] = e[c] /\ y(3) = Unpacked(vr[c]) /\ c \in 1 .. n
    BY <1>1, <1>2, <1>15
  <2> QED
    BY <1>4, <1>6, <1>8, <2>1
<1> HIDE DEF r
<1>10. Plus(r, f[4], y(4)) = Together(r, term[d])
  <2>1. f[4] = e[d] /\ y(4) = Unpacked(vr[d]) /\ d \in 1 .. n
    BY <1>1, <1>2, <1>15
  <2> QED
    BY <1>4, <1>6, <1>9, <2>1
<1>11. vaccum4_avx2(acc, v, f) = Together(r, term[d])
  BY <1>3, <1>7, <1>8, <1>9, <1>10
<1>12. /\ Four(term, g) \in Numbers
       /\ Together(Together(Together(Together(acc, term[a]), term[b]), term[c]), term[d])
            = Together(acc, Four(term, g))
  BY <1>4, <1>5, FourTogether
<1>13. vaccum4_avx2(acc, v, f) = Together(acc, Four(term, g))
  BY <1>11, <1>12 DEF p, q, r
<1> QED
  BY <1>12, <1>13 DEF v, f, term

FoursSum(vr, e) ==
  FoldLeft(LAMBDA acc, g : vaccum4_avx2(acc, SubSeq(vr, 4 * g - 3, 4 * g),
                                             SubSeq(e, 4 * g - 3, 4 * g)),
           [i \in Position |-> 0], [g \in 1 .. Len(vr) \div 4 |-> g])

LEMMA FoursAdd ==
  ASSUME bits \in Bits, NEW n \in Nat, NEW vr \in [1 .. n -> Packs], NEW weights \in [1 .. n -> Int],
         NEW e \in [1 .. n -> Int], \A i \in 1 .. n : e[i] = weights[i] * vr[i].scale
  PROVE  /\ Fours(Terms(vr, weights, n), n) \in [1 .. n \div 4 -> Numbers]
         /\ FoursSum(vr, e) = Added(Zeros, Fours(Terms(vr, weights, n), n), 1 .. n \div 4)
<1> DEFINE k == n \div 4
           term == Fours(Terms(vr, weights, n), n)
           Go(acc, g) == vaccum4_avx2(acc, SubSeq(vr, 4 * g - 3, 4 * g), SubSeq(e, 4 * g - 3, 4 * g))
           seq == [g \in 1 .. Len(vr) \div 4 |-> g]
           Chosen(f) == f = [s \in SUBSET (DOMAIN seq) |->
             IF s = {} THEN Zeros ELSE Go(f[s \ {Max(s)}], seq[Max(s)])]
           iter == CHOOSE f : Chosen(f)
           h == Chain(Zeros, term, k)
<1>1. FoursSum(vr, e) = iter[DOMAIN seq]
  BY Zenon DEF FoursSum, FoldLeft, MapThenFoldSet, Zeros
<1>2. DOMAIN seq = 1 .. k /\ (\A i \in 1 .. k : seq[i] = i) /\ k \in Nat
  <2>1. Len(vr) = n
    BY LenOfFunction
  <2> QED
    BY <2>1
<1>3. term \in [1 .. k -> Numbers] /\ Zeros \in Numbers
  <2>1. \A g \in 1 .. k : Four(Terms(vr, weights, n), g) \in Numbers
    <3>1. Zeros \in Numbers
      BY TermsValue
    <3> QED
      BY <3>1, FourAdd
  <2> HIDE DEF k
  <2>2. Zeros \in Numbers
    BY TermsValue
  <2> QED
    BY <2>1, <2>2 DEF Fours, k
<1>4. ASSUME NEW acc \in Numbers, NEW i \in 1 .. k
      PROVE  Go(acc, i) = Together(acc, term[i])
  <2>1. Go(acc, i) = Together(acc, Four(Terms(vr, weights, n), i))
    BY FourAdd
  <2>2. term[i] = Four(Terms(vr, weights, n), i)
    BY DEF Fours
  <2> QED
    BY <2>1, <2>2
<1>12. IsChain(h, Zeros, term, k)
  <2> HIDE DEF k, term, Go, seq
  <2> QED
    BY <1>2, <1>3, ChainValue
<1> HIDE DEF seq, term, Go, k
<1> HIDE DEF h
<1>5. /\ h = [s \in SUBSET (1 .. k) |-> h[s]] /\ h[{}] = Zeros
      /\ \A s \in SUBSET (1 .. k) : s # {} =>
           /\ Max(s) \in 1 .. k /\ h[s \ {Max(s)}] \in Numbers
           /\ h[s] = Together(h[s \ {Max(s)}], term[Max(s)])
  BY <1>12 DEF IsChain
<1>6. Chosen(h)
  <2>1. ASSUME NEW s \in SUBSET (1 .. k), s # {}
        PROVE  h[s] = Go(h[s \ {Max(s)}], seq[Max(s)])
    <3> DEFINE m == Max(s)
               acc == h[s \ {m}]
    <3>1. m \in 1 .. k /\ acc \in Numbers /\ h[s] = Together(acc, term[m])
      BY <1>5, <2>1
    <3> HIDE DEF m, acc
    <3>2. Go(acc, m) = Together(acc, term[m]) /\ seq[m] = m
      BY <1>2, <1>4, <3>1
    <3> QED
      BY <3>1, <3>2 DEF acc, m
  <2> QED
    BY <1>2, <1>5, <2>1
<1>7. Chosen(iter)
  <2> HIDE DEF Chosen
  <2> QED
    BY <1>6
<1> HIDE DEF iter
<1>8. \A s \in SUBSET (1 .. k) :
        iter[s] = IF s = {} THEN Zeros ELSE Go(iter[s \ {Max(s)}], seq[Max(s)])
  <2>1. Chosen(iter)
    BY <1>7
  <2> QED
    BY <1>2, <2>1
<1> HIDE DEF Chosen
<1>9. Adding(iter, k, Zeros, term)
  <2>1. iter[{}] = Zeros
    <3>1. {} \in SUBSET (1 .. k)
      OBVIOUS
    <3> QED
      BY <1>8, <3>1
  <2>2. ASSUME NEW s \in SUBSET (1 .. k), s # {}, iter[s \ {Max(s)}] \in Numbers
        PROVE  iter[s] = Together(iter[s \ {Max(s)}], term[Max(s)])
    <3>1. Max(s) \in 1 .. k /\ seq[Max(s)] = Max(s)
      BY <1>2, <1>5, <2>2
    <3>2. iter[s] = Go(iter[s \ {Max(s)}], Max(s))
      BY <1>8, <2>2, <3>1
    <3> QED
      BY <1>4, <2>2, <3>1, <3>2
  <2> QED
    BY <2>1, <2>2 DEF Adding
<1>10. iter[1 .. k] = Added(Zeros, term, 1 .. k)
  BY <1>2, <1>3, <1>9, AddingValue
<1> QED
  BY <1>1, <1>2, <1>3, <1>10 DEF term, k

(* The tokens left over. *)
Left(term, n) == [j \in 1 .. n % 4 |-> term[4 * (n \div 4) + j]]

RestSum(vr, e, base) ==
  FoldLeft(LAMBDA acc, i : vaccum1_avx2(acc, vr[i].data, e[i]), base,
           [j \in 1 .. Len(vr) % 4 |-> Leftover(Len(vr)) - 1 + j])

LEMMA OneAdd ==
  ASSUME bits \in Bits, NEW n \in Nat, NEW vr \in [1 .. n -> Packs], NEW weights \in [1 .. n -> Int],
         NEW e \in [1 .. n -> Int], \A i \in 1 .. n : e[i] = weights[i] * vr[i].scale,
         NEW i \in 1 .. n, NEW acc \in Numbers
  PROVE  vaccum1_avx2(acc, vr[i].data, e[i]) = Together(acc, Terms(vr, weights, n)[i])
<1>1. vr[i] \in Packs /\ weights[i] \in Int
  OBVIOUS
<1>2. Plus(acc, weights[i] * vr[i].scale, Unpacked(vr[i])) = Together(acc, Term(vr[i], weights[i]))
  BY <1>1, TermValue
<1>3. Centroids([k \in Position |-> Single(vr[i].data, k, bits)]) = Unpacked(vr[i])
  BY <1>1, PackValue
<1>4. vaccum1_avx2(acc, vr[i].data, e[i]) = Plus(acc, e[i], Unpacked(vr[i]))
  BY <1>3, Zenon DEF vaccum1_avx2
<1>5. Terms(vr, weights, n)[i] = Term(vr[i], weights[i])
  BY TermsValue
<1> QED
  BY <1>2, <1>4, <1>5

LEMMA LeftValue ==
  ASSUME NEW n \in Nat, NEW term \in [1 .. n -> Numbers]
  PROVE  /\ Left(term, n) \in [1 .. n % 4 -> Numbers] /\ n % 4 \in Nat
         /\ \A j \in 1 .. n % 4 : /\ 4 * (n \div 4) + j \in 1 .. n
                                  /\ Left(term, n)[j] = term[4 * (n \div 4) + j]
<1>1. n % 4 \in Nat /\ \A j \in 1 .. n % 4 : 4 * (n \div 4) + j \in 1 .. n
  OBVIOUS
<1> QED
  BY <1>1 DEF Left

LEMMA RestAdds ==
  ASSUME bits \in Bits, NEW n \in Nat, NEW vr \in [1 .. n -> Packs], NEW weights \in [1 .. n -> Int],
         NEW e \in [1 .. n -> Int], \A i \in 1 .. n : e[i] = weights[i] * vr[i].scale,
         NEW base \in Numbers
  PROVE  RestSum(vr, e, base) = Added(base, Left(Terms(vr, weights, n), n), 1 .. n % 4)
<1> DEFINE k == n % 4
           term == Left(Terms(vr, weights, n), n)
           Go(acc, i) == vaccum1_avx2(acc, vr[i].data, e[i])
           seq == [j \in 1 .. Len(vr) % 4 |-> Leftover(Len(vr)) - 1 + j]
           Chosen(f) == f = [s \in SUBSET (DOMAIN seq) |->
             IF s = {} THEN base ELSE Go(f[s \ {Max(s)}], seq[Max(s)])]
           iter == CHOOSE f : Chosen(f)
           h == Chain(base, term, k)
<1>1. RestSum(vr, e, base) = iter[DOMAIN seq]
  BY Zenon DEF RestSum, FoldLeft, MapThenFoldSet
<1>2. /\ DOMAIN seq = 1 .. k /\ k \in Nat
      /\ \A j \in 1 .. k : seq[j] = 4 * (n \div 4) + j /\ 4 * (n \div 4) + j \in 1 .. n
  <2>1. Len(vr) = n
    BY LenOfFunction
  <2>2. Leftover(n) - 1 = 4 * (n \div 4)
    BY DEF Leftover
  <2> QED
    BY <2>1, <2>2
<1>3. Terms(vr, weights, n) \in [1 .. n -> Numbers]
  BY TermsValue
<1>4. /\ term \in [1 .. k -> Numbers]
      /\ \A j \in 1 .. k : term[j] = Terms(vr, weights, n)[4 * (n \div 4) + j]
  BY <1>3, LeftValue
<1>13. ASSUME NEW acc \in Numbers, NEW j \in 1 .. k
      PROVE  Go(acc, seq[j]) = Together(acc, term[j])
  <2> DEFINE i == 4 * (n \div 4) + j
  <2>1. i \in 1 .. n /\ seq[j] = i /\ term[j] = Terms(vr, weights, n)[i]
    BY <1>2, <1>4
  <2> HIDE DEF i, seq, term
  <2>2. Go(acc, i) = Together(acc, Terms(vr, weights, n)[i])
    BY <2>1, OneAdd
  <2> QED
    BY <2>1, <2>2
<1>12. IsChain(h, base, term, k)
  <2> HIDE DEF k, term, Go, seq
  <2> QED
    BY <1>2, <1>4, ChainValue
<1> HIDE DEF seq, term, Go, k
<1> HIDE DEF h
<1>5. /\ h = [s \in SUBSET (1 .. k) |-> h[s]] /\ h[{}] = base
      /\ \A s \in SUBSET (1 .. k) : s # {} =>
           /\ Max(s) \in 1 .. k /\ h[s \ {Max(s)}] \in Numbers
           /\ h[s] = Together(h[s \ {Max(s)}], term[Max(s)])
  BY <1>12 DEF IsChain
<1>6. Chosen(h)
  <2>1. ASSUME NEW s \in SUBSET (1 .. k), s # {}
        PROVE  h[s] = Go(h[s \ {Max(s)}], seq[Max(s)])
    <3> DEFINE m == Max(s)
               acc == h[s \ {m}]
    <3>1. m \in 1 .. k /\ acc \in Numbers /\ h[s] = Together(acc, term[m])
      BY <1>5, <2>1
    <3> HIDE DEF m, acc
    <3>2. Go(acc, seq[m]) = Together(acc, term[m])
      BY <1>13, <3>1
    <3> QED
      BY <3>1, <3>2 DEF acc, m
  <2> QED
    BY <1>2, <1>5, <2>1
<1>7. Chosen(iter)
  <2> HIDE DEF Chosen
  <2> QED
    BY <1>6
<1> HIDE DEF iter
<1>8. \A s \in SUBSET (1 .. k) :
        iter[s] = IF s = {} THEN base ELSE Go(iter[s \ {Max(s)}], seq[Max(s)])
  <2>1. Chosen(iter)
    BY <1>7
  <2> QED
    BY <1>2, <2>1
<1> HIDE DEF Chosen
<1>9. Adding(iter, k, base, term)
  <2>1. iter[{}] = base
    <3>1. {} \in SUBSET (1 .. k)
      OBVIOUS
    <3> QED
      BY <1>8, <3>1
  <2>2. ASSUME NEW s \in SUBSET (1 .. k), s # {}, iter[s \ {Max(s)}] \in Numbers
        PROVE  iter[s] = Together(iter[s \ {Max(s)}], term[Max(s)])
    <3>1. Max(s) \in 1 .. k
      BY <1>5, <2>2
    <3>2. iter[s] = Go(iter[s \ {Max(s)}], seq[Max(s)])
      BY <1>8, <2>2
    <3> QED
      BY <1>13, <2>2, <3>1, <3>2
  <2> QED
    BY <2>1, <2>2 DEF Adding
<1>14. term \in [1 .. k -> Numbers] /\ k \in Nat
  BY <1>2, <1>4
<1>10. iter[1 .. k] = Added(base, term, 1 .. k)
  BY ONLY <1>9, <1>14, base \in Numbers, AddingValue
<1> QED
  BY <1>1, <1>2, <1>10 DEF term, k

(* All tokens: those in fours, then those left over. *)
LEMMA AddedInFours ==
  ASSUME NEW n \in Nat, NEW term \in [1 .. n -> Numbers],
         Fours(term, n) \in [1 .. n \div 4 -> Numbers]
  PROVE  Added(Added(Zeros, Fours(term, n), 1 .. n \div 4), Left(term, n), 1 .. n % 4)
           = Added(Zeros, term, 1 .. n)
<1> DEFINE q == n \div 4
           r == n % 4
           A == Added(Zeros, Fours(term, n), 1 .. q)
           f(i) == [j \in 1 .. n |-> term[j][i]]
           g(i) == [j \in 1 .. q |-> Fours(term, n)[j][i]]
           h(i) == [j \in 1 .. r |-> Left(term, n)[j][i]]
<1>1. Left(term, n) \in [1 .. r -> Numbers] /\ r \in Nat
      /\ \A j \in 1 .. r : Left(term, n)[j] = term[4 * q + j] /\ 4 * q + j \in 1 .. n
  BY LeftValue
<1>2. ASSUME NEW i \in Position
      PROVE  /\ \A j \in 1 .. n : f(i)[j] = term[j][i] /\ f(i)[j] \in Int
             /\ \A j \in 1 .. r : h(i)[j] \in Int /\ h(i)[j] = f(i)[4 * q + j]
             /\ \A k \in 1 .. q :
                  /\ g(i)[k] \in Int
                  /\ g(i)[k] = f(i)[4 * k - 3] + f(i)[4 * k - 2] + f(i)[4 * k - 1] + f(i)[4 * k]
  <2>1. \A j \in 1 .. n : f(i)[j] = term[j][i] /\ f(i)[j] \in Int /\ term[j] \in Numbers
    BY DEF Numbers
  <2>2. \A j \in 1 .. r : h(i)[j] \in Int /\ h(i)[j] = f(i)[4 * q + j]
    <3> TAKE j \in 1 .. r
    <3>1. h(i)[j] = Left(term, n)[j][i]
      OBVIOUS
    <3>2. Left(term, n)[j] = term[4 * q + j] /\ 4 * q + j \in 1 .. n
      BY <1>1
    <3> HIDE DEF f, q, r, h
    <3> QED
      BY <2>1, <3>1, <3>2
  <2>3. ASSUME NEW k \in 1 .. q
        PROVE  /\ g(i)[k] \in Int
               /\ g(i)[k] = f(i)[4 * k - 3] + f(i)[4 * k - 2] + f(i)[4 * k - 1] + f(i)[4 * k]
    <3>1. 4 * k - 3 \in 1 .. n /\ 4 * k - 2 \in 1 .. n /\ 4 * k - 1 \in 1 .. n /\ 4 * k \in 1 .. n
      OBVIOUS
    <3>2. g(i)[k] = Four(term, k)[i]
      BY DEF Fours
    <3> DEFINE a == term[4 * k - 3]
               b == term[4 * k - 2]
               c == term[4 * k - 1]
               d == term[4 * k]
    <3>3. /\ a \in Numbers /\ b \in Numbers /\ c \in Numbers /\ d \in Numbers
          /\ f(i)[4 * k - 3] = a[i] /\ f(i)[4 * k - 2] = b[i]
          /\ f(i)[4 * k - 1] = c[i] /\ f(i)[4 * k] = d[i]
          /\ a[i] \in Int /\ b[i] \in Int /\ c[i] \in Int /\ d[i] \in Int
      <4> HIDE DEF f
      <4> QED
        BY <2>1, <3>1
    <3>4. Four(term, k) = Together(Together(Together(a, b), c), d)
      BY DEF Four
    <3> HIDE DEF a, b, c, d, f, g
    <3>6. a \in Numbers /\ b \in Numbers /\ c \in Numbers /\ d \in Numbers
      BY <3>3
    <3>7. \A l \in Position :
            Together(Together(Together(a, b), c), d)[l] = a[l] + b[l] + c[l] + d[l]
      BY ONLY <3>6, FourTogether
    <3>5. Four(term, k)[i] = a[i] + b[i] + c[i] + d[i]
      BY <3>4, <3>7
    <3> DEFINE u == a[i]
               v == b[i]
               w == c[i]
               x == d[i]
    <3>8. u \in Int /\ v \in Int /\ w \in Int /\ x \in Int /\ g(i)[k] = u + v + w + x
      BY <3>2, <3>3, <3>5
    <3>9. f(i)[4 * k - 3] = u /\ f(i)[4 * k - 2] = v /\ f(i)[4 * k - 1] = w /\ f(i)[4 * k] = x
      BY <3>3
    <3> HIDE DEF u, v, w, x
    <3> QED
      BY <3>8, <3>9
  <2> HIDE DEF f, g, h, q, r
  <2> QED
    BY <2>1, <2>2, <2>3
<1>3. /\ \A i \in Position : A[i] = 0 + SumFunctionOnSet(g(i), 1 .. q)
      /\ Added(A, Left(term, n), 1 .. r) = [k \in Position |-> A[k] + SumFunctionOnSet(h(k), 1 .. r)]
      /\ Added(Zeros, term, 1 .. n) = [k \in Position |-> Zeros[k] + SumFunctionOnSet(f(k), 1 .. n)]
  BY DEF Added, Zeros
<1>4. ASSUME NEW i \in Position
      PROVE  A[i] + SumFunctionOnSet(h(i), 1 .. r) = Zeros[i] + SumFunctionOnSet(f(i), 1 .. n)
  <2>1. /\ \A j \in 1 .. n : f(i)[j] \in Int
        /\ \A j \in 1 .. r : h(i)[j] \in Int /\ h(i)[j] = f(i)[4 * q + j]
        /\ \A k \in 1 .. q :
             /\ g(i)[k] \in Int
             /\ g(i)[k] = f(i)[4 * k - 3] + f(i)[4 * k - 2] + f(i)[4 * k - 1] + f(i)[4 * k]
    BY <1>2
  <2>2. A[i] = 0 + SumFunctionOnSet(g(i), 1 .. q)
    BY <1>3
  <2> DEFINE F == f(i)
             G == g(i)
             H == h(i)
             a == SumFunctionOnSet(F, 1 .. n)
             b == SumFunctionOnSet(G, 1 .. q)
             c == SumFunctionOnSet(H, 1 .. r)
  <2> HIDE DEF F, G, H
  <2>3. b \in Int /\ c \in Int /\ a = b + c
    <3>1. InFours(F, G, H, n)
      BY <2>1 DEF F, G, H, InFours
    <3>2. /\ SumFunctionOnSet(G, 1 .. n \div 4) \in Int /\ SumFunctionOnSet(H, 1 .. n % 4) \in Int
          /\ SumFunctionOnSet(F, 1 .. n)
               = SumFunctionOnSet(G, 1 .. n \div 4) + SumFunctionOnSet(H, 1 .. n % 4)
      BY ONLY <3>1, SumInFours, n \in Nat
    <3> QED
      BY <3>2
  <2>4. A[i] = 0 + b /\ Zeros[i] = 0
    BY <2>2 DEF G, Zeros
  <2> HIDE DEF a, b, c, A
  <2>5. A[i] + c = Zeros[i] + a
    BY <2>3, <2>4
  <2> QED
    BY <2>5 DEF F, H, a, c
<1> HIDE DEF A, f, h, q, r
<1> QED
  BY <1>3, <1>4, Zenon DEF A, q, r

LEMMA VaccumsAgree ==
  ASSUME bits \in Bits, NEW n \in Nat, NEW vr \in [1 .. n -> Packs], NEW weights \in [1 .. n -> Int]
  PROVE  avx2_vaccum_batch(vr, weights) = scalar_vaccum_batch(vr, weights)
<1> DEFINE e == [i \in DOMAIN vr |-> weights[i] * vr[i].scale]
           term == Terms(vr, weights, n)
<1>1. e \in [1 .. n -> Int] /\ \A i \in 1 .. n : e[i] = weights[i] * vr[i].scale
  <2>1. \A i \in 1 .. n : weights[i] * vr[i].scale \in Int
    <3> TAKE i \in 1 .. n
    <3>1. vr[i].scale \in Int /\ weights[i] \in Int
      BY PackValue
    <3> QED
      BY <3>1
  <2> QED
    BY <2>1
<1>2. avx2_vaccum_batch(vr, weights) = RestSum(vr, e, FoursSum(vr, e))
  BY Zenon DEF avx2_vaccum_batch, RestSum, FoursSum
<1> HIDE DEF e
<1>3. /\ Fours(term, n) \in [1 .. n \div 4 -> Numbers]
      /\ FoursSum(vr, e) = Added(Zeros, Fours(term, n), 1 .. n \div 4)
  BY <1>1, FoursAdd
<1>4. term \in [1 .. n -> Numbers] /\ Zeros \in Numbers
  BY TermsValue
<1>5. FoursSum(vr, e) \in Numbers
  <2> DEFINE k == n \div 4
             F == Fours(term, n)
             s == 1 .. k
  <2>1. k \in Nat /\ F \in [1 .. k -> Numbers] /\ s \in SUBSET (1 .. k)
    BY <1>3
  <2> HIDE DEF k, F, s
  <2>2. Added(Zeros, F, s) \in Numbers
    BY <1>4, <2>1, AddedValue
  <2> QED
    BY <1>3, <2>2 DEF k, F, s
<1>6. RestSum(vr, e, FoursSum(vr, e)) = Added(FoursSum(vr, e), Left(term, n), 1 .. n % 4)
  BY <1>1, <1>5, RestAdds
<1>7. scalar_vaccum_batch(vr, weights) = Added(Zeros, term, 1 .. n)
  BY ScalarAdds
<1> HIDE DEF term
<1>8. Added(Added(Zeros, Fours(term, n), 1 .. n \div 4), Left(term, n), 1 .. n % 4)
        = Added(Zeros, term, 1 .. n)
  BY <1>3, <1>4, AddedInFours
<1> QED
  BY <1>2, <1>3, <1>6, <1>7, <1>8

LEMMA BackendsGiveTheSame == AnswerInv => BackendsAgree
<1> SUFFICES ASSUME AnswerInv, answer.asked
             PROVE  LET q_rot == fwht_forward(Pad(answer.q))
                        kr    == [t \in DOMAIN tokens |-> tokens[t].k]
                        vr    == [t \in DOMAIN tokens |-> tokens[t].v]
                    IN /\ avx2_kdot_batch(q_rot, kr) = scalar_kdot_batch(q_rot, kr)
                       /\ avx2_vaccum_batch(vr, answer.weights) = scalar_vaccum_batch(vr, answer.weights)
  BY Zenon DEF BackendsAgree
<1> DEFINE n == Len(tokens)
           q_rot == fwht_forward(Pad(answer.q))
           kr == [t \in DOMAIN tokens |-> tokens[t].k]
           vr == [t \in DOMAIN tokens |-> tokens[t].v]
           w == answer.weights
<1>1. bits \in Bits /\ n \in Nat /\ answer.q \in Vector /\ w \in [1 .. n -> 0 .. Whole]
  BY DEF AnswerInv, AnswerIsRight, Held, TokensStored
<1>2. w \in [1 .. n -> Int]
  BY <1>1, OfferedAssumption
<1>3. kr \in [1 .. n -> Packs] /\ vr \in [1 .. n -> Packs]
  BY TokenValue DEF AnswerInv, Held, Packs
<1>4. q_rot \in Numbers
  BY <1>1, PadIsNumbers, ForwardIsNumbers, VectorAssumption
<1> HIDE DEF q_rot, kr, vr, w, n
<1>5. avx2_kdot_batch(q_rot, kr) = scalar_kdot_batch(q_rot, kr)
  BY <1>1, <1>3, <1>4, KdotsAgree
<1>6. avx2_vaccum_batch(vr, w) = scalar_vaccum_batch(vr, w)
  BY <1>1, <1>2, <1>3, VaccumsAgree
<1> QED
  BY <1>5, <1>6 DEF q_rot, kr, vr, w

THEOREM BackendsDoAgree == Spec => []BackendsAgree
BY InitAnswer, NextAnswer, BackendsGiveTheSame, PTL DEF Spec

-----------------------------------------------------------------------------
(* Threads. *)

Pair == [k : Token, v : Token]

Appending(t) == job[t] \in AppendJob
Computing(t) == job[t] \in ComputeJob

OwnOutput(h, q) == [q |-> q, k |-> Keys(h), v |-> Values(h), ord |-> q]

(* Who may be at work on a head. *)
Exclusive ==
  \A t \in Thread :
    /\ Appending(t) =>
         /\ caller[job[t].head] = Nothing
         /\ \A u \in Thread : job[u] # Nothing /\ job[u].head = job[t].head => u = t
    /\ Computing(t) => caller[job[t].head] # Nothing

(* What the buffers of a thread hold when its next step reads them. *)
OwnBuffers(t) ==
  /\ Appending(t) =>
       /\ job[t].pc # "quantize_k" => tls[t]["tmp_k"] = job[t].token
       /\ job[t].pc = "insert" => tls[t]["tmp_v"] = job[t].token
  /\ Computing(t) =>
       /\ job[t].pc = "score" /\ ~RawPath(job[t].head) => tls[t]["q_rot"] = job[t].query
       /\ job[t].pc \in {"score", "weigh"} /\ ~RawPath(job[t].head) =>
            tls[t]["slots"] = job[t].head
       /\ job[t].pc = "weigh" /\ ~RawPath(job[t].head) => tls[t]["ord"] = job[t].query
       /\ job[t].pc \in {"weigh", "write"} =>
            tls[t]["logits"] = [q |-> job[t].query, k |-> Keys(job[t].head)]
       /\ job[t].pc = "write" /\ ~RawPath(job[t].head) =>
            tls[t]["v_accum"] = OwnOutput(job[t].head, job[t].query)

Buffered == \A t \in Thread : OwnBuffers(t)

Outstanding ==
  \A h \in Handle :
    /\ caller[h] = Nothing => batch[h] = {}
    /\ caller[h] # Nothing =>
         \A q \in Query :
           \/ outs[h][q] # Nothing
           \/ q \in batch[h]
           \/ \E t \in Thread : Computing(t) /\ job[t].head = h /\ job[t].query = q

(* Every thread has all its buffers. *)
HasBuffers == DOMAIN tls = Thread /\ \A t \in Thread : DOMAIN tls[t] = Buffers

ScratchInv ==
  /\ TypeOK /\ HasBuffers
  /\ Exclusive /\ Buffered /\ Outstanding
  /\ PairedTokens /\ AnswersOwnQuery

-----------------------------------------------------------------------------
(* The state as the steps read and write it. *)

LEMMA JobKinds ==
  ASSUME TypeOK, NEW t \in Thread
  PROVE  /\ job[t] = Nothing => ~Appending(t) /\ ~Computing(t)
         /\ job[t] # Nothing => Appending(t) \/ Computing(t)
         /\ Appending(t) => /\ job[t].pc \in {"quantize_k", "quantize_v", "insert"}
                            /\ job[t].head \in Handle /\ job[t].token \in Token
                            /\ ~Computing(t)
         /\ Computing(t) => /\ job[t].pc \in {"rotate", "score", "weigh", "write"}
                            /\ job[t].head \in Handle /\ job[t].query \in Query
  BY NothingAssumption DEF TypeOK, Appending, Computing, AppendJob, ComputeJob

LEMMA KeysAndValues ==
  ASSUME TypeOK, NEW h \in Handle
  PROVE  Keys(h) \in Seq(Token) /\ Values(h) \in Seq(Token)
<1>1. cache[h] \in Seq(Pair)
  BY DEF TypeOK, Pair
<1>2. Len(cache[h]) \in Nat /\ DOMAIN cache[h] = 1 .. Len(cache[h])
      /\ \A i \in 1 .. Len(cache[h]) : cache[h][i] \in Pair
  BY <1>1, LenProperties, ElementOfSeq
<1>3. /\ Keys(h) \in [1 .. Len(cache[h]) -> Token]
      /\ Values(h) \in [1 .. Len(cache[h]) -> Token]
  BY <1>2 DEF Keys, Values, Pair
<1> QED
  BY <1>2, <1>3, SeqDef

LEMMA StoreEffect ==
  ASSUME HasBuffers, NEW t \in Thread, NEW new, Store(t, new)
  PROVE  /\ HasBuffers'
         /\ \A b \in Buffers : b \in DOMAIN new => tls'[t][b] = new[b]
         /\ \A b \in Buffers : b \notin DOMAIN new => tls'[t][b] = tls[t][b]
         /\ \A u \in Thread : u # t => tls'[u] = tls[u]
  BY DEF HasBuffers, Store, Overwritten

LEMMA GoToEffect ==
  ASSUME TypeOK, NEW t \in Thread, NEW pc, GoTo(t, pc)
  PROVE  /\ \A u \in Thread : u # t => job'[u] = job[u]
         /\ Appending(t) =>
              job'[t] = [pc |-> pc, head |-> job[t].head, token |-> job[t].token]
         /\ Computing(t) =>
              job'[t] = [pc |-> pc, head |-> job[t].head, query |-> job[t].query]
         /\ DOMAIN job' = Thread
  BY DEF TypeOK, GoTo, Appending, Computing, AppendJob, ComputeJob
(* What a thread left in its buffers it finds there, if no one appends to  *)
(* its head.                                                               *)
LEMMA BuffersFrame ==
  ASSUME NEW t \in Thread, OwnBuffers(t), job'[t] = job[t], tls'[t] = tls[t],
         Computing(t) => cache'[job[t].head] = cache[job[t].head]
  PROVE  OwnBuffers(t)'
<1>1. Computing(t) =>
        /\ Keys(job[t].head)' = Keys(job[t].head)
        /\ Values(job[t].head)' = Values(job[t].head)
        /\ RawPath(job[t].head)' = RawPath(job[t].head)
  BY DEF Keys, Values, RawPath
<1> QED
  BY <1>1 DEF OwnBuffers, Appending, Computing, OwnOutput

-----------------------------------------------------------------------------
(* The steps that leave something in a buffer and go on. *)

LEMMA BufferStep ==
  ASSUME ScratchInv, NEW t \in Thread, job[t] # Nothing,
         NEW new, Store(t, new), NEW pc, GoTo(t, pc),
         UNCHANGED <<cache, caller, batch, outs>>,
         Appending(t) => pc \in {"quantize_k", "quantize_v", "insert"},
         Computing(t) => pc \in {"rotate", "score", "weigh", "write"},
         OwnBuffers(t)'
  PROVE  ScratchInv'
<1>1. TypeOK /\ HasBuffers /\ Exclusive /\ Buffered /\ Outstanding
      /\ PairedTokens /\ AnswersOwnQuery
  BY DEF ScratchInv
<1>2. /\ HasBuffers' /\ \A u \in Thread : u # t => tls'[u] = tls[u]
  BY <1>1, StoreEffect
<1>3. /\ \A u \in Thread : u # t => job'[u] = job[u]
      /\ Appending(t) => job'[t] = [pc |-> pc, head |-> job[t].head, token |-> job[t].token]
      /\ Computing(t) => job'[t] = [pc |-> pc, head |-> job[t].head, query |-> job[t].query]
      /\ DOMAIN job' = Thread
  BY <1>1, GoToEffect
<1>4. Appending(t) \/ Computing(t)
  BY <1>1, JobKinds
<1>5. /\ Appending(t) => Appending(t)'
      /\ Computing(t) => Computing(t)'
      /\ job'[t].head = job[t].head
      /\ Computing(t) => job'[t].query = job[t].query
  BY <1>1, <1>3, <1>4, JobKinds DEF Appending, Computing, AppendJob, ComputeJob
<1>6. TypeOK'
  <2>1. job' \in [Thread -> AppendJob \cup ComputeJob \cup {Nothing}]
    <3>1. job = [u \in Thread |-> job[u]] /\ job' = [job EXCEPT ![t].pc = pc]
      BY <1>1 DEF TypeOK, GoTo
    <3>2. job'[t] \in AppendJob \cup ComputeJob
      BY <1>4, <1>5 DEF Appending, Computing
    <3>3. \A u \in Thread : job'[u] \in AppendJob \cup ComputeJob \cup {Nothing}
      BY <1>1, <1>3, <3>2 DEF TypeOK
    <3>4. job' = [u \in Thread |-> job'[u]]
      BY <1>1 DEF TypeOK, GoTo
    <3> QED
      BY <3>3, <3>4
  <2> QED
    BY <1>1, <2>1 DEF TypeOK
<1>7. /\ job'[t] # Nothing
      /\ Appending(t)' => Appending(t)
      /\ Computing(t)' => Computing(t)
  BY <1>4, <1>5, NothingAssumption DEF Appending, Computing, AppendJob, ComputeJob
<1>8. Exclusive'
  BY <1>1, <1>3, <1>5, <1>7 DEF Exclusive, Appending, Computing
<1>9. Buffered'
  <2>1. ASSUME NEW u \in Thread, u # t
        PROVE  OwnBuffers(u)'
    BY <1>1, <1>2, <1>3, <2>1, BuffersFrame DEF Buffered
  <2> QED
    BY <2>1 DEF Buffered
<1>10. Outstanding'
  <2>1. ASSUME NEW u \in Thread, Computing(u)
        PROVE  Computing(u)' /\ job'[u].head = job[u].head /\ job'[u].query = job[u].query
    BY <1>3, <1>5, <2>1 DEF Computing
  <2>2. ASSUME NEW h \in Handle, caller'[h] # Nothing, NEW q \in Query
        PROVE  \/ outs'[h][q] # Nothing
               \/ q \in batch'[h]
               \/ \E u \in Thread : Computing(u)' /\ job'[u].head = h /\ job'[u].query = q
    BY <1>1, <2>1, <2>2 DEF Outstanding
  <2>3. \A h \in Handle : caller'[h] = Nothing => batch'[h] = {}
    BY <1>1 DEF Outstanding
  <2> QED
    BY <2>2, <2>3 DEF Outstanding, Computing
<1>11. PairedTokens' /\ AnswersOwnQuery'
  BY <1>1 DEF PairedTokens, AnswersOwnQuery, Keys, Values
<1> QED
  BY <1>2, <1>6, <1>8, <1>9, <1>10, <1>11 DEF ScratchInv

LEMMA QuantizeStep ==
  ASSUME ScratchInv, NEW t \in Thread, job[t] # Nothing, QuantizeK(t) \/ QuantizeV(t)
  PROVE  ScratchInv'
<1>1. TypeOK /\ HasBuffers /\ OwnBuffers(t)
  BY DEF ScratchInv, Buffered
<1>2. Appending(t) /\ ~Computing(t)
  BY <1>1, JobKinds DEF QuantizeK, QuantizeV
<1>3. CASE QuantizeK(t)
  <2>1. /\ tls'[t]["tmp_k"] = job[t].token
        /\ job'[t] = [pc |-> "quantize_v", head |-> job[t].head, token |-> job[t].token]
    <3>1. Store(t, [tmp_k |-> job[t].token]) /\ GoTo(t, "quantize_v") /\ "tmp_k" \in Buffers
      BY <1>3 DEF QuantizeK, Buffers
    <3>2. tls'[t]["tmp_k"] = job[t].token
      BY <1>1, <3>1, StoreEffect
    <3> QED
      BY <1>1, <1>2, <3>1, <3>2, GoToEffect
  <2>2. OwnBuffers(t)'
    BY <2>1 DEF OwnBuffers, Appending, Computing, ComputeJob
  <2> QED
    BY <1>2, <1>3, <2>2, BufferStep DEF QuantizeK, Buffers
<1>4. CASE QuantizeV(t)
  <2>1. /\ tls'[t]["tmp_v"] = job[t].token
        /\ tls'[t]["tmp_k"] = tls[t]["tmp_k"]
        /\ job'[t] = [pc |-> "insert", head |-> job[t].head, token |-> job[t].token]
    <3>1. /\ Store(t, [tmp_v |-> job[t].token]) /\ GoTo(t, "insert")
          /\ "tmp_v" \in Buffers /\ "tmp_k" \in Buffers
      BY <1>4 DEF QuantizeV, Buffers
    <3>2. tls'[t]["tmp_v"] = job[t].token /\ tls'[t]["tmp_k"] = tls[t]["tmp_k"]
      BY <1>1, <3>1, StoreEffect
    <3> QED
      BY <1>1, <1>2, <3>1, <3>2, GoToEffect
  <2>2. OwnBuffers(t)'
    BY <1>1, <1>2, <1>4, <2>1 DEF OwnBuffers, QuantizeV, Appending, Computing, ComputeJob
  <2> QED
    BY <1>2, <1>4, <2>2, BufferStep DEF QuantizeV, Buffers
<1> QED
  BY <1>3, <1>4

LEMMA RotateStep ==
  ASSUME ScratchInv, NEW t \in Thread, job[t] # Nothing, RotateQuery(t)
  PROVE  ScratchInv'
<1>1. TypeOK /\ HasBuffers
  BY DEF ScratchInv
<1>2. Computing(t) /\ ~Appending(t)
  BY <1>1, JobKinds DEF RotateQuery
<1>3. /\ tls'[t]["q_rot"] = job[t].query
      /\ tls'[t]["slots"] = job[t].head
      /\ job'[t] = [pc |-> "score", head |-> job[t].head, query |-> job[t].query]
  <2>1. /\ Store(t, [q_rot |-> job[t].query, slots |-> job[t].head]) /\ GoTo(t, "score")
        /\ "q_rot" \in Buffers /\ "slots" \in Buffers
    BY DEF RotateQuery, Buffers
  <2>2. tls'[t]["q_rot"] = job[t].query /\ tls'[t]["slots"] = job[t].head
    BY <1>1, <2>1, StoreEffect
  <2> QED
    BY <1>1, <1>2, <2>1, <2>2, GoToEffect
<1>4. OwnBuffers(t)'
  BY <1>3 DEF OwnBuffers, Appending, AppendJob
<1> QED
  BY <1>2, <1>4, BufferStep DEF RotateQuery, Buffers

LEMMA ListedIsOwn ==
  ASSUME NEW t \in Thread, OwnBuffers(t), Computing(t), job[t].pc \in {"score", "weigh", "write"},
         job[t].pc = "write" => RawPath(job[t].head)
  PROVE  Listed(t) = job[t].head
  BY DEF OwnBuffers, Listed

LEMMA ScoreStep ==
  ASSUME ScratchInv, NEW t \in Thread, job[t] # Nothing, Score(t)
  PROVE  ScratchInv'
<1> DEFINE h == job[t].head
           q == job[t].query
           x == [q |-> q, k |-> Keys(h)]
<1>1. TypeOK /\ HasBuffers /\ OwnBuffers(t)
  BY DEF ScratchInv, Buffered
<1>2. Computing(t) /\ ~Appending(t) /\ job[t].pc = "score"
  BY <1>1, JobKinds DEF Score
<1>3. UNCHANGED <<cache, caller, batch, outs>>
  BY DEF Score
<1>4. Listed(t) = h
  BY <1>1, <1>2, ListedIsOwn
<1>5. {"logits", "ord", "slots"} \subseteq Buffers
  BY DEF Buffers
<1>6. CASE RawPath(h)
  <2>1. Store(t, [logits |-> x]) /\ GoTo(t, "write")
    BY <1>4, <1>6 DEF Score
  <2>2. tls'[t]["logits"] = x
    BY <1>1, <1>5, <2>1, StoreEffect
  <2>3. job'[t] = [pc |-> "write", head |-> h, query |-> q]
    BY <1>1, <1>2, <2>1, GoToEffect
  <2>4. OwnBuffers(t)'
    BY <1>3, <1>6, <2>2, <2>3 DEF OwnBuffers, Appending, AppendJob, Keys, RawPath
  <2> QED
    BY <1>2, <1>3, <2>1, <2>4, BufferStep
<1>7. CASE ~RawPath(h)
  <2>1. tls[t]["q_rot"] = q /\ tls[t]["slots"] = h
    BY <1>1, <1>2, <1>7 DEF OwnBuffers
  <2>2. Store(t, [logits |-> x, ord |-> q]) /\ GoTo(t, "weigh")
    BY <1>4, <1>7, <2>1 DEF Score
  <2>3. tls'[t]["logits"] = x /\ tls'[t]["ord"] = q /\ tls'[t]["slots"] = h
    BY <1>1, <1>5, <2>1, <2>2, StoreEffect
  <2>4. job'[t] = [pc |-> "weigh", head |-> h, query |-> q]
    BY <1>1, <1>2, <2>2, GoToEffect
  <2>5. OwnBuffers(t)'
    BY <1>3, <2>3, <2>4 DEF OwnBuffers, Appending, AppendJob, Keys, RawPath
  <2> QED
    BY <1>2, <1>3, <2>2, <2>5, BufferStep
<1> QED
  BY <1>6, <1>7

LEMMA WeighStep ==
  ASSUME ScratchInv, NEW t \in Thread, job[t] # Nothing, Weigh(t)
  PROVE  ScratchInv'
<1>1. TypeOK /\ HasBuffers /\ OwnBuffers(t)
  BY DEF ScratchInv, Buffered
<1>2. Computing(t) /\ ~Appending(t)
  BY <1>1, JobKinds DEF Weigh
<1>3. tls[t]["logits"] = [q |-> job[t].query, k |-> Keys(job[t].head)]
  BY <1>1, <1>2 DEF OwnBuffers, Weigh
<1>4. Weighted(t) = OwnOutput(job[t].head, job[t].query)
  <2>1. Listed(t) = job[t].head
    BY <1>1, <1>2, ListedIsOwn DEF Weigh
  <2>2. ~RawPath(job[t].head) => tls[t]["ord"] = job[t].query
    BY <1>1, <1>2 DEF OwnBuffers, Weigh
  <2> QED
    BY <1>3, <2>1, <2>2 DEF Weighted, OwnOutput
<1>5. /\ tls'[t]["v_accum"] = OwnOutput(job[t].head, job[t].query)
      /\ tls'[t]["logits"] = tls[t]["logits"]
      /\ job'[t] = [pc |-> "write", head |-> job[t].head, query |-> job[t].query]
      /\ cache' = cache
  <2>1. /\ Store(t, [v_accum |-> Weighted(t)]) /\ GoTo(t, "write") /\ cache' = cache
        /\ "v_accum" \in Buffers /\ "logits" \in Buffers
    BY DEF Weigh, Buffers
  <2>2. tls'[t]["v_accum"] = Weighted(t) /\ tls'[t]["logits"] = tls[t]["logits"]
    BY <1>1, <2>1, StoreEffect
  <2> QED
    BY <1>1, <1>2, <1>4, <2>1, <2>2, GoToEffect
<1>6. OwnBuffers(t)'
  <2>1. ~Appending(t)'
    BY <1>5 DEF Appending, AppendJob
  <2> QED
    BY <1>3, <1>5, <2>1 DEF OwnBuffers, OwnOutput, Keys, Values, RawPath
<1> QED
  BY <1>2, <1>6, BufferStep DEF Weigh, Buffers
-----------------------------------------------------------------------------
(* The steps that begin and end something on a head. *)

LEMMA StartAppendStep ==
  ASSUME ScratchInv, NEW t \in Thread, NEW h \in Handle, NEW tok \in Token,
         StartAppend(t, h, tok)
  PROVE  ScratchInv'
<1> DEFINE j == [pc |-> "quantize_k", head |-> h, token |-> tok]
<1>1. /\ TypeOK /\ HasBuffers /\ Exclusive /\ Buffered /\ Outstanding
      /\ PairedTokens /\ AnswersOwnQuery
  BY DEF ScratchInv
<1>2. /\ job[t] = Nothing /\ caller[h] = Nothing
      /\ \A u \in Thread : job[u] # Nothing => job[u].head # h
      /\ job' = [job EXCEPT ![t] = j]
      /\ UNCHANGED <<cache, caller, batch, outs, tls>>
  BY DEF StartAppend, Free, AtRest, Working
<1>3. j \in AppendJob /\ j \notin ComputeJob /\ j.head = h /\ j.pc = "quantize_k"
  BY DEF AppendJob, ComputeJob
<1>4. job'[t] = j /\ \A u \in Thread : u # t => job'[u] = job[u]
  BY <1>1, <1>2 DEF TypeOK
<1> HIDE DEF j
<1>5. TypeOK'
  BY <1>1, <1>2, <1>3 DEF TypeOK
<1>6. HasBuffers'
  BY <1>1, <1>2 DEF HasBuffers
<1>7. Exclusive'
  BY <1>1, <1>2, <1>3, <1>4, JobKinds DEF Exclusive, Appending, Computing
<1>8. Buffered'
  <2>1. ASSUME NEW u \in Thread, u # t
        PROVE  OwnBuffers(u)'
    BY <1>1, <1>2, <1>4, <2>1, BuffersFrame DEF Buffered
  <2>2. OwnBuffers(t)'
    BY <1>3, <1>4 DEF OwnBuffers, Appending, Computing
  <2> QED
    BY <2>1, <2>2 DEF Buffered
<1>9. Outstanding'
  <2>1. ASSUME NEW u \in Thread, Computing(u)
        PROVE  job'[u] = job[u]
    BY <1>1, <1>2, <1>4, <2>1, JobKinds
  <2> QED
    BY <1>1, <1>2, <2>1 DEF Outstanding, Computing
<1>10. PairedTokens' /\ AnswersOwnQuery'
  BY <1>1, <1>2 DEF PairedTokens, AnswersOwnQuery, Keys, Values
<1> QED
  BY <1>5, <1>6, <1>7, <1>8, <1>9, <1>10 DEF ScratchInv

LEMMA InsertStep ==
  ASSUME ScratchInv, NEW t \in Thread, job[t] # Nothing, InsertKV(t)
  PROVE  ScratchInv'
<1> DEFINE h == job[t].head
           tok == job[t].token
           e == [k |-> tls[t]["tmp_k"], v |-> tls[t]["tmp_v"]]
<1>1. /\ TypeOK /\ HasBuffers /\ Exclusive /\ Buffered /\ Outstanding
      /\ PairedTokens /\ AnswersOwnQuery
  BY DEF ScratchInv
<1>2. Appending(t) /\ ~Computing(t) /\ h \in Handle /\ tok \in Token
  BY <1>1, JobKinds DEF InsertKV
<1>3. e = [k |-> tok, v |-> tok]
  BY <1>1, <1>2 DEF Buffered, OwnBuffers, InsertKV
<1>4. /\ cache' = [cache EXCEPT ![h] = Append(@, e)]
      /\ job' = [job EXCEPT ![t] = Nothing]
      /\ UNCHANGED <<caller, batch, outs, tls>>
  BY DEF InsertKV
<1> HIDE DEF e
<1>5. job'[t] = Nothing /\ \A u \in Thread : u # t => job'[u] = job[u]
  BY <1>1, <1>4 DEF TypeOK
<1>6. caller[h] = Nothing /\ \A u \in Thread : u # t /\ job[u] # Nothing => job[u].head # h
  BY <1>1, <1>2 DEF Exclusive
<1>7. cache \in [Handle -> Seq(Pair)] /\ e \in Pair
  BY <1>1, <1>2, <1>3 DEF TypeOK, Pair
<1>8. /\ Append(cache[h], e) \in Seq(Pair)
      /\ Len(Append(cache[h], e)) = Len(cache[h]) + 1 /\ Len(cache[h]) \in Nat
      /\ \A i \in 1 .. Len(cache[h]) : Append(cache[h], e)[i] = cache[h][i]
      /\ Append(cache[h], e)[Len(cache[h]) + 1] = e
  BY <1>2, <1>7, AppendProperties
<1>9. TypeOK'
  BY <1>1, <1>2, <1>4, <1>7, <1>8 DEF TypeOK, Pair
<1>10. HasBuffers'
  BY <1>1, <1>4 DEF HasBuffers
<1>11. Exclusive'
  BY <1>1, <1>4, <1>5, NothingAssumption DEF Exclusive, Appending, Computing
<1>12. Buffered'
  <2>1. ASSUME NEW u \in Thread, u # t
        PROVE  OwnBuffers(u)'
    <3>1. Computing(u) => cache'[job[u].head] = cache[job[u].head]
      BY <1>1, <1>4, <1>6, <1>7, <2>1, JobKinds
    <3> QED
      BY <1>1, <1>4, <1>5, <2>1, <3>1, BuffersFrame DEF Buffered
  <2>2. OwnBuffers(t)'
    BY <1>5, NothingAssumption DEF OwnBuffers, Appending, Computing
  <2> QED
    BY <2>1, <2>2 DEF Buffered
<1>13. Outstanding'
  <2>1. ASSUME NEW u \in Thread, Computing(u)
        PROVE  job'[u] = job[u]
    BY <1>2, <1>5, <2>1
  <2> QED
    BY <1>1, <1>4, <2>1 DEF Outstanding, Computing
<1>14. PairedTokens'
  <2>1. ASSUME NEW g \in Handle, NEW i \in DOMAIN cache'[g]
        PROVE  cache'[g][i].k = cache'[g][i].v
    <3>1. CASE g = h /\ i = Len(cache[h]) + 1
      BY <1>2, <1>3, <1>4, <1>7, <1>8, <3>1
    <3>2. CASE g = h /\ i # Len(cache[h]) + 1
      <4>1. cache'[g] = Append(cache[h], e)
        BY <1>2, <1>4, <1>7, <3>2
      <4>2. DOMAIN cache'[g] = 1 .. Len(cache[h]) + 1
        BY <1>8, <4>1, LenProperties
      <4>3. i \in 1 .. Len(cache[h]) /\ DOMAIN cache[h] = 1 .. Len(cache[h])
        BY <1>2, <1>7, <1>8, <3>2, <4>2, LenProperties
      <4> QED
        BY <1>1, <1>2, <1>8, <4>1, <4>3 DEF PairedTokens
    <3>3. CASE g # h
      BY <1>1, <1>4, <1>7, <3>3 DEF PairedTokens
    <3> QED
      BY <3>1, <3>2, <3>3
  <2> QED
    BY <2>1 DEF PairedTokens
<1>15. AnswersOwnQuery'
  <2>1. ASSUME NEW g \in Handle, caller[g] # Nothing
        PROVE  Keys(g)' = Keys(g) /\ Values(g)' = Values(g)
    <3>1. cache'[g] = cache[g]
      BY <1>4, <1>6, <1>7, <2>1
    <3> QED
      BY <3>1 DEF Keys, Values
  <2>2. ASSUME NEW g \in Handle, NEW q \in Query, caller'[g] # Nothing, outs'[g][q] # Nothing
        PROVE  outs'[g][q] = [q |-> q, k |-> Keys(g)', v |-> Values(g)', ord |-> q]
    BY <1>1, <1>4, <2>1, <2>2 DEF AnswersOwnQuery
  <2> QED
    BY <2>2 DEF AnswersOwnQuery
<1> QED
  BY <1>9, <1>10, <1>11, <1>12, <1>13, <1>14, <1>15 DEF ScratchInv
LEMMA StartBatchStep ==
  ASSUME ScratchInv, NEW t \in Thread, NEW h \in Handle, StartBatch(t, h)
  PROVE  ScratchInv'
<1>1. /\ TypeOK /\ HasBuffers /\ Exclusive /\ Buffered /\ Outstanding
      /\ PairedTokens /\ AnswersOwnQuery
  BY DEF ScratchInv
<1>2. /\ \A u \in Thread : job[u] # Nothing => job[u].head # h
      /\ caller' = [caller EXCEPT ![h] = t]
      /\ batch' = [batch EXCEPT ![h] = Query]
      /\ outs' = [outs EXCEPT ![h] = [q \in Query |-> Nothing]]
      /\ UNCHANGED <<cache, job, tls>>
  BY DEF StartBatch, AtRest, Working
<1>3. t # Nothing
  BY NothingAssumption
<1>4. /\ caller'[h] = t /\ batch'[h] = Query /\ outs'[h] = [q \in Query |-> Nothing]
      /\ \A g \in Handle : g # h =>
           caller'[g] = caller[g] /\ batch'[g] = batch[g] /\ outs'[g] = outs[g]
  BY <1>1, <1>2 DEF TypeOK
<1>5. TypeOK'
  BY <1>1, <1>2 DEF TypeOK
<1>6. HasBuffers'
  BY <1>1, <1>2 DEF HasBuffers
<1>7. Exclusive'
  <2>1. ASSUME NEW u \in Thread, Appending(u) \/ Computing(u)
        PROVE  job[u].head \in Handle /\ job[u].head # h
    BY <1>1, <1>2, <2>1, JobKinds
  <2> QED
    BY <1>1, <1>2, <1>4, <2>1 DEF Exclusive, Appending, Computing
<1>8. Buffered'
  BY <1>1, <1>2, BuffersFrame DEF Buffered
<1>9. Outstanding'
  BY <1>1, <1>2, <1>3, <1>4 DEF Outstanding, Computing
<1>10. PairedTokens' /\ AnswersOwnQuery'
  <2>1. PairedTokens'
    BY <1>1, <1>2 DEF PairedTokens
  <2>2. ASSUME NEW g \in Handle, NEW q \in Query, caller'[g] # Nothing, outs'[g][q] # Nothing
        PROVE  outs'[g][q] = [q |-> q, k |-> Keys(g), v |-> Values(g), ord |-> q]
    BY <1>1, <1>4, <2>2 DEF AnswersOwnQuery
  <2> QED
    BY <1>2, <2>1, <2>2 DEF AnswersOwnQuery, Keys, Values
<1> QED
  BY <1>5, <1>6, <1>7, <1>8, <1>9, <1>10 DEF ScratchInv

LEMMA TakeQueryStep ==
  ASSUME ScratchInv, NEW t \in Thread, NEW h \in Handle, NEW q \in Query, TakeQuery(t, h, q)
  PROVE  ScratchInv'
<1> DEFINE j == [pc |-> IF RawPath(h) THEN "score" ELSE "rotate", head |-> h, query |-> q]
<1>1. /\ TypeOK /\ HasBuffers /\ Exclusive /\ Buffered /\ Outstanding
      /\ PairedTokens /\ AnswersOwnQuery
  BY DEF ScratchInv
<1>2. /\ job[t] = Nothing /\ q \in batch[h]
      /\ batch' = [batch EXCEPT ![h] = @ \ {q}]
      /\ job' = [job EXCEPT ![t] = j]
      /\ UNCHANGED <<cache, caller, outs, tls>>
  BY DEF TakeQuery
<1>3. /\ j \in ComputeJob /\ j \notin AppendJob /\ j.head = h /\ j.query = q
      /\ j.pc = "score" => RawPath(h)
      /\ j.pc \in {"score", "rotate"}
  BY DEF AppendJob, ComputeJob
<1>4. job'[t] = j /\ \A u \in Thread : u # t => job'[u] = job[u]
  BY <1>1, <1>2 DEF TypeOK
<1> HIDE DEF j
<1>5. caller[h] # Nothing
  BY <1>1, <1>2 DEF Outstanding
<1>6. TypeOK'
  BY <1>1, <1>2, <1>3 DEF TypeOK
<1>7. HasBuffers'
  BY <1>1, <1>2 DEF HasBuffers
<1>8. Exclusive'
  <2>1. ASSUME NEW u \in Thread, Appending(u)
        PROVE  job[u].head # h /\ u # t
    BY <1>1, <1>2, <1>5, <2>1, JobKinds DEF Exclusive
  <2>2. ASSUME NEW u \in Thread, Appending(u)'
        PROVE  /\ caller'[job'[u].head] = Nothing
               /\ \A w \in Thread : job'[w] # Nothing /\ job'[w].head = job'[u].head => w = u
    <3>1. u # t /\ Appending(u) /\ job'[u] = job[u]
      BY <1>3, <1>4, <2>2 DEF Appending
    <3>2. job'[t].head # job'[u].head
      BY <1>3, <1>4, <2>1, <3>1
    <3> QED
      BY <1>1, <1>2, <1>4, <3>1, <3>2 DEF Exclusive
  <2>3. ASSUME NEW u \in Thread, Computing(u)'
        PROVE  caller'[job'[u].head] # Nothing
    BY <1>1, <1>2, <1>3, <1>4, <1>5, <2>3 DEF Exclusive, Computing
  <2> QED
    BY <2>2, <2>3 DEF Exclusive, Appending, Computing
<1>9. Buffered'
  <2>1. ASSUME NEW u \in Thread, u # t
        PROVE  OwnBuffers(u)'
    BY <1>1, <1>2, <1>4, <2>1, BuffersFrame DEF Buffered
  <2>2. OwnBuffers(t)'
    <3>1. RawPath(h)' = RawPath(h)
      BY <1>2 DEF RawPath
    <3> QED
      BY <1>3, <1>4, <3>1 DEF OwnBuffers, Appending, Computing
  <2> QED
    BY <2>1, <2>2 DEF Buffered
<1>10. Outstanding'
  <2>1. ASSUME NEW u \in Thread, Computing(u)
        PROVE  job'[u] = job[u]
    BY <1>1, <1>2, <1>4, <2>1, JobKinds
  <2>2. /\ batch'[h] = batch[h] \ {q}
        /\ \A g \in Handle : g # h => batch'[g] = batch[g]
    BY <1>1, <1>2 DEF TypeOK
  <2>3. Computing(t)' /\ job'[t].head = h /\ job'[t].query = q
    BY <1>3, <1>4 DEF Computing
  <2>4. ASSUME NEW g \in Handle, caller'[g] # Nothing, NEW p \in Query
        PROVE  \/ outs'[g][p] # Nothing
               \/ p \in batch'[g]
               \/ \E u \in Thread : Computing(u)' /\ job'[u].head = g /\ job'[u].query = p
    <3>1. CASE g = h /\ p = q
      BY <2>3, <3>1
    <3>2. CASE ~(g = h /\ p = q)
      BY <1>1, <1>2, <2>1, <2>2, <2>4, <3>2 DEF Outstanding, Computing
    <3> QED
      BY <3>1, <3>2
  <2>5. \A g \in Handle : caller'[g] = Nothing => batch'[g] = {}
    BY <1>1, <1>2, <1>5, <2>2 DEF Outstanding
  <2> QED
    BY <2>4, <2>5 DEF Outstanding, Computing
<1>11. PairedTokens' /\ AnswersOwnQuery'
  BY <1>1, <1>2 DEF PairedTokens, AnswersOwnQuery, Keys, Values
<1> QED
  BY <1>6, <1>7, <1>8, <1>9, <1>10, <1>11 DEF ScratchInv

LEMMA WriteOutStep ==
  ASSUME ScratchInv, NEW t \in Thread, job[t] # Nothing, WriteOut(t)
  PROVE  ScratchInv'
<1> DEFINE h == job[t].head
           q == job[t].query
           x == IF RawPath(h) THEN Weighted(t) ELSE tls[t]["v_accum"]
<1>1. /\ TypeOK /\ HasBuffers /\ Exclusive /\ Buffered /\ Outstanding
      /\ PairedTokens /\ AnswersOwnQuery
  BY DEF ScratchInv
<1>2. Computing(t) /\ ~Appending(t) /\ h \in Handle /\ q \in Query /\ job[t].pc = "write"
  BY <1>1, JobKinds DEF WriteOut
<1>3. x = OwnOutput(h, q)
  <2>1. OwnBuffers(t)
    BY <1>1 DEF Buffered
  <2>2. tls[t]["logits"] = [q |-> q, k |-> Keys(h)]
    BY <1>2, <2>1 DEF OwnBuffers
  <2>3. ~RawPath(h) => tls[t]["v_accum"] = OwnOutput(h, q)
    BY <1>2, <2>1 DEF OwnBuffers
  <2>4. RawPath(h) => Weighted(t) = OwnOutput(h, q)
    BY <2>2 DEF Weighted, OwnOutput, Listed
  <2> QED
    BY <2>3, <2>4
<1>4. OwnOutput(h, q) \in Output /\ OwnOutput(h, q) # Nothing
  BY <1>1, <1>2, KeysAndValues, NothingAssumption DEF OwnOutput, Output
<1>5. /\ outs' = [outs EXCEPT ![h][q] = x]
      /\ job' = [job EXCEPT ![t] = Nothing]
      /\ UNCHANGED <<cache, caller, batch, tls>>
  BY DEF WriteOut
<1> HIDE DEF x
<1>6. job'[t] = Nothing /\ \A u \in Thread : u # t => job'[u] = job[u]
  BY <1>1, <1>5 DEF TypeOK
<1>7. /\ outs'[h][q] = OwnOutput(h, q)
      /\ \A g \in Handle, p \in Query : g # h \/ p # q => outs'[g][p] = outs[g][p]
  BY <1>1, <1>2, <1>3, <1>5 DEF TypeOK
<1>8. TypeOK'
  <2>1. outs' \in [Handle -> [Query -> Output \cup {Nothing}]]
    BY <1>1, <1>2, <1>3, <1>4, <1>5 DEF TypeOK
  <2> QED
    BY <1>1, <1>5, <2>1 DEF TypeOK
<1>9. HasBuffers'
  BY <1>1, <1>5 DEF HasBuffers
<1>10. Exclusive'
  BY <1>1, <1>5, <1>6, NothingAssumption DEF Exclusive, Appending, Computing
<1>11. Buffered'
  <2>1. ASSUME NEW u \in Thread, u # t
        PROVE  OwnBuffers(u)'
    BY <1>1, <1>5, <1>6, <2>1, BuffersFrame DEF Buffered
  <2>2. OwnBuffers(t)'
    BY <1>6, NothingAssumption DEF OwnBuffers, Appending, Computing
  <2> QED
    BY <2>1, <2>2 DEF Buffered
<1>12. Outstanding'
  <2>1. ASSUME NEW g \in Handle, caller'[g] # Nothing, NEW p \in Query
        PROVE  \/ outs'[g][p] # Nothing
               \/ p \in batch'[g]
               \/ \E u \in Thread : Computing(u)' /\ job'[u].head = g /\ job'[u].query = p
    <3>1. CASE g = h /\ p = q
      BY <1>4, <1>7, <3>1
    <3>2. CASE ~(g = h /\ p = q)
      <4>1. \A u \in Thread : Computing(u) /\ job[u].head = g /\ job[u].query = p
              => u # t /\ Computing(u)' /\ job'[u] = job[u]
        BY <1>6, <3>2 DEF Computing
      <4> QED
        BY <1>1, <1>5, <1>7, <2>1, <3>2, <4>1 DEF Outstanding
    <3> QED
      BY <3>1, <3>2
  <2>2. \A g \in Handle : caller'[g] = Nothing => batch'[g] = {}
    BY <1>1, <1>5 DEF Outstanding
  <2> QED
    BY <2>1, <2>2 DEF Outstanding, Computing
<1>13. PairedTokens'
  BY <1>1, <1>5 DEF PairedTokens
<1>14. AnswersOwnQuery'
  <2>1. ASSUME NEW g \in Handle, NEW p \in Query, caller[g] # Nothing, outs'[g][p] # Nothing
        PROVE  outs'[g][p] = [q |-> p, k |-> Keys(g), v |-> Values(g), ord |-> p]
    <3>1. CASE g = h /\ p = q
      BY <1>7, <3>1 DEF OwnOutput
    <3>2. CASE ~(g = h /\ p = q)
      BY <1>1, <1>7, <2>1, <3>2 DEF AnswersOwnQuery
    <3> QED
      BY <3>1, <3>2
  <2> QED
    BY <1>5, <2>1 DEF AnswersOwnQuery, Keys, Values
<1> QED
  BY <1>8, <1>9, <1>10, <1>11, <1>12, <1>13, <1>14 DEF ScratchInv

LEMMA ReturnBatchStep ==
  ASSUME ScratchInv, NEW h \in Handle, ReturnBatch(h)
  PROVE  ScratchInv'
<1>1. /\ TypeOK /\ HasBuffers /\ Exclusive /\ Buffered /\ Outstanding
      /\ PairedTokens /\ AnswersOwnQuery
  BY DEF ScratchInv
<1>2. /\ batch[h] = {}
      /\ \A u \in Thread : job[u] # Nothing => job[u].head # h
      /\ caller' = [caller EXCEPT ![h] = Nothing]
      /\ UNCHANGED <<cache, batch, outs, job, tls>>
  BY DEF ReturnBatch, Working
<1>3. caller'[h] = Nothing /\ \A g \in Handle : g # h => caller'[g] = caller[g]
  BY <1>1, <1>2 DEF TypeOK
<1>4. TypeOK' /\ HasBuffers'
  BY <1>1, <1>2 DEF TypeOK, HasBuffers
<1>5. Exclusive'
  <2>1. ASSUME NEW u \in Thread, Appending(u) \/ Computing(u)
        PROVE  job[u].head \in Handle /\ job[u].head # h
    BY <1>1, <1>2, <2>1, JobKinds
  <2> QED
    BY <1>1, <1>2, <1>3, <2>1 DEF Exclusive, Appending, Computing
<1>6. Buffered'
  BY <1>1, <1>2, BuffersFrame DEF Buffered
<1>7. Outstanding'
  BY <1>1, <1>2, <1>3 DEF Outstanding, Computing
<1>8. PairedTokens' /\ AnswersOwnQuery'
  BY <1>1, <1>2, <1>3 DEF PairedTokens, AnswersOwnQuery, Keys, Values
<1> QED
  BY <1>4, <1>5, <1>6, <1>7, <1>8 DEF ScratchInv
-----------------------------------------------------------------------------

LEMMA ScratchInvInit == ScratchInit => ScratchInv
<1> SUFFICES ASSUME ScratchInit
             PROVE  ScratchInv
  OBVIOUS
<1> USE DEF ScratchInit
<1>1. TypeOK
  BY DEF TypeOK
<1>2. HasBuffers
  BY DEF HasBuffers
<1>3. \A t \in Thread : ~Appending(t) /\ ~Computing(t)
  BY NothingAssumption DEF Appending, Computing
<1>4. Exclusive /\ Buffered
  BY <1>3 DEF Exclusive, Buffered, OwnBuffers
<1>5. Outstanding /\ PairedTokens /\ AnswersOwnQuery
  BY DEF Outstanding, PairedTokens, AnswersOwnQuery
<1> QED
  BY <1>1, <1>2, <1>4, <1>5 DEF ScratchInv

LEMMA ScratchInvStep == ScratchInv /\ [ScratchNext]_scratch_vars => ScratchInv'
<1> SUFFICES ASSUME ScratchInv, [ScratchNext]_scratch_vars
             PROVE  ScratchInv'
  OBVIOUS
<1>1. ASSUME NEW t \in Thread, Proceed(t)
      PROVE  ScratchInv'
  BY <1>1, QuantizeStep, InsertStep, RotateStep, ScoreStep, WeighStep, WriteOutStep DEF Proceed
<1>2. CASE UNCHANGED scratch_vars
  <2> USE DEF scratch_vars
  <2>1. (TypeOK /\ HasBuffers)'
    BY <1>2 DEF ScratchInv, TypeOK, HasBuffers
  <2>2. (Exclusive /\ Buffered)'
    BY <1>2, BuffersFrame DEF ScratchInv, Exclusive, Buffered, Appending, Computing
  <2>3. (Outstanding /\ PairedTokens /\ AnswersOwnQuery)'
    BY <1>2 DEF ScratchInv, Outstanding, PairedTokens, AnswersOwnQuery, Computing, Keys, Values
  <2> QED
    BY <2>1, <2>2, <2>3 DEF ScratchInv
<1> QED
  BY <1>1, <1>2, StartAppendStep, StartBatchStep, TakeQueryStep, ReturnBatchStep DEF ScratchNext

LEMMA ScratchInvariant == ScratchSpec => []ScratchInv
  BY ScratchInvInit, ScratchInvStep, PTL DEF ScratchSpec

(* However many threads append to other heads in between, the key and the  *)
(* value of a slot are of one token.                                       *)
THEOREM TokensArePaired == ScratchSpec => []PairedTokens
  BY ScratchInvariant, PTL DEF ScratchInv

(* However the queries of a batch are spread over threads, an output is    *)
(* that of its query alone.                                                *)
THEOREM QueriesGetTheirAnswers == ScratchSpec => []AnswersOwnQuery
  BY ScratchInvariant, PTL DEF ScratchInv

(* compute_batch does not return before the last query is answered. *)
THEOREM ReturnsAreComplete == ScratchSpec => ReturnIsComplete
<1> DEFINE Complete(h) == /\ \A q \in Query : outs[h][q] # Nothing
                          /\ \A t \in Thread : job[t] = Nothing \/ job[t].head # h
           A == \A h \in Handle : caller[h] # Nothing /\ caller'[h] = Nothing => Complete(h)
<1>1. ScratchInv /\ [ScratchNext]_scratch_vars => [A]_scratch_vars
  <2> SUFFICES ASSUME ScratchInv, ScratchNext, NEW h \in Handle,
                      caller[h] # Nothing, caller'[h] = Nothing
               PROVE  Complete(h)
    OBVIOUS
  <2>1. caller \in [Handle -> Thread \cup {Nothing}]
    BY DEF ScratchInv, TypeOK
  <2>2. ReturnBatch(h)
    <3>1. ASSUME NEW t \in Thread, Proceed(t)
          PROVE  FALSE
      BY <3>1 DEF Proceed, QuantizeK, QuantizeV, InsertKV, RotateQuery, Score, Weigh, WriteOut
    <3>2. ASSUME NEW t \in Thread, NEW g \in Handle, NEW tok \in Token, StartAppend(t, g, tok)
          PROVE  FALSE
      BY <3>2 DEF StartAppend
    <3>3. ASSUME NEW t \in Thread, NEW g \in Handle, NEW q \in Query, TakeQuery(t, g, q)
          PROVE  FALSE
      BY <3>3 DEF TakeQuery
    <3>4. ASSUME NEW t \in Thread, NEW g \in Handle, StartBatch(t, g)
          PROVE  FALSE
      BY <2>1, <3>4, NothingAssumption DEF StartBatch
    <3>5. ASSUME NEW g \in Handle, ReturnBatch(g)
          PROVE  g = h
      BY <2>1, <3>5 DEF ReturnBatch
    <3> QED
      BY <3>1, <3>2, <3>3, <3>4, <3>5 DEF ScratchNext
  <2>3. /\ batch[h] = {}
        /\ \A t \in Thread : job[t] = Nothing \/ job[t].head # h
    BY <2>2 DEF ReturnBatch, Working
  <2>4. \A t \in Thread : Computing(t) => job[t] # Nothing
    BY NothingAssumption DEF Computing
  <2> QED
    BY <2>3, <2>4 DEF ScratchInv, Outstanding
<1> QED
  BY <1>1, ScratchInvariant, PTL DEF ScratchSpec, ReturnIsComplete
=============================================================================
