------------------------------- MODULE Packing -------------------------------
(***************************************************************************)
(* Bit packing (core/quantizer.cpp) and its readers.  A vector of Padded   *)
(* codes of 2, 3 or 4 bits is packed into bytes by pack_indices and read   *)
(* by unpack_indices, by the portable kernels, byte by byte, and by the    *)
(* AVX2 kernels, eight codes at a time.  Vectors are functions from 0, as  *)
(* arrays are in the code.  Bits that do not overlap are combined with +   *)
(* where the code has |; a shift left in a byte is a product modulo 256.   *)
(***************************************************************************)
EXTENDS Vectors

Bits == 2 .. 4
Byte == 0 .. 255

codebook_size(bits) == CASE bits = 2 -> 4 [] bits = 3 -> 8 [] bits = 4 -> 16

Code(bits) == 0 .. codebook_size(bits) - 1

PackedBytes(bits) ==
  CASE bits = 2 -> Padded \div 4 [] bits = 3 -> 3 * (Padded \div 8) [] bits = 4 -> Padded \div 2

-----------------------------------------------------------------------------

pack2(idx) ==
  [b \in 0 .. PackedBytes(2) - 1 |->
     64 * idx[4 * b] + 16 * idx[4 * b + 1] + 4 * idx[4 * b + 2] + idx[4 * b + 3]]

(* Faulty: the low bit of the third code is not carried over. *)
pack3_cut(idx) ==
  [b \in 0 .. PackedBytes(3) - 1 |->
     LET s == 8 * (b \div 3)
     IN CASE b % 3 = 0 -> 32 * idx[s] + 4 * idx[s + 1] + (idx[s + 2] \div 2)
          [] b % 3 = 1 -> 16 * idx[s + 3] + 2 * idx[s + 4] + (idx[s + 5] \div 4)
          [] b % 3 = 2 -> ((64 * idx[s + 5]) % 256) + 8 * idx[s + 6] + idx[s + 7]]

(* Eight codes in three bytes: the third and the sixth are split. *)
pack3(idx) ==
  [b \in 0 .. PackedBytes(3) - 1 |->
     LET s == 8 * (b \div 3)
     IN CASE b % 3 = 0 -> 32 * idx[s] + 4 * idx[s + 1] + (idx[s + 2] \div 2)
          [] b % 3 = 1 -> ((128 * idx[s + 2]) % 256) + 16 * idx[s + 3] + 2 * idx[s + 4]
                          + (idx[s + 5] \div 4)
          [] b % 3 = 2 -> ((64 * idx[s + 5]) % 256) + 8 * idx[s + 6] + idx[s + 7]]

pack4(idx) ==
  [b \in 0 .. PackedBytes(4) - 1 |-> ((16 * idx[2 * b]) % 256) + (idx[2 * b + 1] % 16)]

pack_indices(idx, bits) ==
  CASE bits = 2 -> pack2(idx) [] bits = 3 -> pack3(idx) [] bits = 4 -> pack4(idx)

-----------------------------------------------------------------------------

unpack2(src) ==
  [i \in Position |->
     LET p == src[i \div 4]
     IN CASE i % 4 = 0 -> (p \div 64) % 4
          [] i % 4 = 1 -> (p \div 16) % 4
          [] i % 4 = 2 -> (p \div 4) % 4
          [] i % 4 = 3 -> p % 4]

unpack3(src) ==
  [i \in Position |->
     LET p == src[3 * (i \div 8)]
         q == src[3 * (i \div 8) + 1]
         r == src[3 * (i \div 8) + 2]
     IN CASE i % 8 = 0 -> (p \div 32) % 8
          [] i % 8 = 1 -> (p \div 4) % 8
          [] i % 8 = 2 -> 2 * (p % 4) + (q \div 128)
          [] i % 8 = 3 -> (q \div 16) % 8
          [] i % 8 = 4 -> (q \div 2) % 8
          [] i % 8 = 5 -> 4 * (q % 2) + (r \div 64)
          [] i % 8 = 6 -> (r \div 8) % 8
          [] i % 8 = 7 -> r % 8]

unpack4(src) ==
  [i \in Position |->
     LET p == src[i \div 2] IN IF i % 2 = 0 THEN p \div 16 ELSE p % 16]

(* unpack_indices; the loops of the portable kernels read the same way. *)
unpack_indices(src, bits) ==
  CASE bits = 2 -> unpack2(src) [] bits = 3 -> unpack3(src) [] bits = 4 -> unpack4(src)

-----------------------------------------------------------------------------
(* The AVX2 kernels load the bytes of eight codes as one integer, which is *)
(* little-endian for 2 and 4 bits and assembled by hand for 3, and shift   *)
(* it by a different amount in every lane.                                 *)

Step(bits) == bits   \* Decode<BITS>::step: bytes of eight codes

Decode2(p0, p1) ==
  LET val == p0 + 256 * p1
  IN [k \in 0 .. 7 |-> CASE k = 0 -> (val \div 64) % 4
                         [] k = 1 -> (val \div 16) % 4
                         [] k = 2 -> (val \div 4) % 4
                         [] k = 3 -> val % 4
                         [] k = 4 -> (val \div 16384) % 4
                         [] k = 5 -> (val \div 4096) % 4
                         [] k = 6 -> (val \div 1024) % 4
                         [] k = 7 -> (val \div 256) % 4]

Decode3(p0, p1, p2) ==
  LET val == 65536 * p0 + 256 * p1 + p2
  IN [k \in 0 .. 7 |-> CASE k = 0 -> (val \div 2097152) % 8
                         [] k = 1 -> (val \div 262144) % 8
                         [] k = 2 -> (val \div 32768) % 8
                         [] k = 3 -> (val \div 4096) % 8
                         [] k = 4 -> (val \div 512) % 8
                         [] k = 5 -> (val \div 64) % 8
                         [] k = 6 -> (val \div 8) % 8
                         [] k = 7 -> val % 8]

(* The high and the low nibbles of four bytes, interleaved. *)
Decode4(p) ==
  [k \in 0 .. 7 |-> IF k % 2 = 0 THEN p[k \div 2] \div 16 ELSE p[k \div 2] % 16]

(* Decode<BITS>::f at byte b. *)
Decode(src, b, bits) ==
  CASE bits = 2 -> Decode2(src[b], src[b + 1])
    [] bits = 3 -> Decode3(src[b], src[b + 1], src[b + 2])
    [] bits = 4 -> Decode4([j \in 0 .. 3 |-> src[b + j]])
=============================================================================
