------------------------------- MODULE Rotation -------------------------------
(***************************************************************************)
(* The randomized Hadamard rotation of a vector (core/fwht.cpp), in        *)
(* integers.  The code divides by the square root of Padded in either      *)
(* direction; both factors are left out, so a vector rotated there and     *)
(* back is multiplied by Padded.  Padded is a power of two already: the    *)
(* branches that pad a vector on the way are not reached.                  *)
(***************************************************************************)
EXTENDS Vectors, SequencesExt

CONSTANT D   \* the signs gen_rademacher made of the seed

ASSUME RotationAssumption ==
  /\ Dim <= Powers[Len(Powers)]
  /\ Padded = next_pow2(Dim)
  /\ D \in [Position -> {-1, 1}]

(* Faulty: the last pass, over the two halves of the vector, is left out. *)
PassesShort == [k \in {k \in DOMAIN Powers : 2 * Powers[k] < Padded} |-> Powers[k]]

(* len of the passes: 1, 2, 4, ... *)
Passes == [k \in {k \in DOMAIN Powers : Powers[k] < Padded} |-> Powers[k]]

Signed(x) == [i \in DOMAIN x |-> D[i] * x[i]]

(* One pass: in blocks of 2 * len, the sums of the two halves go to the    *)
(* lower one and their differences to the upper one.                       *)
Butterfly(x, len) ==
  [i \in DOMAIN x |->
     IF (i \div len) % 2 = 0 THEN x[i] + x[i + len] ELSE x[i - len] - x[i]]

fwht_forward(x) == FoldLeft(Butterfly, Signed(x), Passes)

fwht_inverse(y) == Signed(FoldLeft(Butterfly, y, Passes))
=============================================================================
