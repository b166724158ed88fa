------------------------------- MODULE Codebook -------------------------------
(***************************************************************************)
(* The codebooks and the search of a code (core/codebook.cpp).  Centroids  *)
(* are in units of 1/10000, the values to quantize in units of 1/Unit,     *)
(* Centroid of them to a unit of a centroid.                               *)
(***************************************************************************)
EXTENDS Integers

Unit == 1260000
Centroid == 126   \* Unit / 10000

CB2 == [i \in 0 .. 3 |-> <<-15104, -4528, 4528, 15104>>[i + 1]]

CB3 == [i \in 0 .. 7 |-> <<-21529, -13439, -7560, -2451, 2451, 7560, 13439, 21529>>[i + 1]]

CB4 == [i \in 0 .. 15 |-> <<-27326, -20690, -15860, -11880, -8491, -5480, -2633, 0, 2633,
                            5480, 8491, 11880, 15860, 20690, 27326, 35714>>[i + 1]]

get_codebook(bits) == CASE bits = 2 -> CB2 [] bits = 3 -> CB3 [] bits = 4 -> CB4

(* THRESH2, THRESH3, THRESH4: the midpoint of centroids i and i + 1. *)
Threshold(bits, i) ==
  (Centroid \div 2) * (get_codebook(bits)[i] + get_codebook(bits)[i + 1])

(* What a step of the search adds to the code. *)
Ahead(v, bits, i, step) == IF v >= Threshold(bits, i) THEN step ELSE 0

(* Faulty: the middle of the four-bit search looks one threshold too far. *)
quantize_fast_off(v, bits) ==
  CASE bits = 4 -> LET a == Ahead(v, 4, 7, 8)
                       b == a + Ahead(v, 4, a + 3, 4)
                       c == b + Ahead(v, 4, b + 2, 2)
                   IN c + Ahead(v, 4, c, 1)
    [] bits = 3 -> LET a == Ahead(v, 3, 3, 4)
                       b == a + Ahead(v, 3, a + 1, 2)
                   IN b + Ahead(v, 3, b, 1)
    [] bits = 2 -> LET a == Ahead(v, 2, 1, 2)
                   IN a + Ahead(v, 2, a, 1)

(* A binary search over the thresholds, one bit of the code per step. *)
quantize_fast(v, bits) ==
  CASE bits = 4 -> LET a == Ahead(v, 4, 7, 8)
                       b == a + Ahead(v, 4, a + 3, 4)
                       c == b + Ahead(v, 4, b + 1, 2)
                   IN c + Ahead(v, 4, c, 1)
    [] bits = 3 -> LET a == Ahead(v, 3, 3, 4)
                       b == a + Ahead(v, 3, a + 1, 2)
                   IN b + Ahead(v, 3, b, 1)
    [] bits = 2 -> LET a == Ahead(v, 2, 1, 2)
                   IN a + Ahead(v, 2, a, 1)
=============================================================================
