------------------------------- MODULE Vectors -------------------------------
(***************************************************************************)
(* The vectors of a head: Dim numbers, padded with zeros to Padded.  They  *)
(* are functions from 0, as the arrays of the code are.                    *)
(***************************************************************************)
EXTENDS Integers

CONSTANTS
  Dim,     \* length of a key, a value or a query: dim
  Padded   \* length it is padded to: padded

(* The AVX2 kernels read sixteen codes per turn of their loops: a shorter  *)
(* vector would be read beyond its end.                                    *)
ASSUME PaddedAssumption == Padded \in Nat \ {0} /\ Padded % 16 = 0 /\ Dim \in 1 .. Padded

Position == 0 .. Padded - 1

(* bound: the lengths the thread_local buffers have room for. *)
Powers == <<1, 2, 4, 8, 16, 32, 64, 128, 256, 512, 1024>>

(* The first of them that is not below n. *)
next_pow2(n) ==
  Powers[CHOOSE k \in DOMAIN Powers : n <= Powers[k] /\ \A j \in 1 .. k - 1 : Powers[j] < n]

Pad(x) == [i \in Position |-> IF i < Dim THEN x[i] ELSE 0]

Cut(x) == [i \in 0 .. Dim - 1 |-> x[i]]
=============================================================================
