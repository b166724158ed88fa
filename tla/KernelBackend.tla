----------------------------- MODULE KernelBackend -----------------------------
(***************************************************************************)
(* The two backends of include/adaptq/kernel.h over the cache of           *)
(* QuantizedAttention: ScalarKernelBackend, the reference any other must   *)
(* agree with, and AVX2KernelBackend.  Both are given the stored keys and  *)
(* values in order, and the weights of the last answer.                    *)
(***************************************************************************)
EXTENDS QuantizedAttention

(* Codes to numbers, and the two things done with them. *)
Centroids(idx) == [i \in Position |-> get_codebook(bits)[idx[i]]]
Dot(x, y) == SumFunction([i \in Position |-> x[i] * y[i]])
Plus(acc, w, y) == [i \in Position |-> acc[i] + w * y[i]]

-----------------------------------------------------------------------------
(* ScalarKernelBackend: token by token. *)

kdot_single(q_rot, packed) == Dot(q_rot, Centroids(unpack_indices(packed, bits)))

scalar_kdot_batch(q_rot, kr) ==
  [i \in DOMAIN kr |-> kdot_single(q_rot, kr[i].data) * kr[i].scale]

vaccum_single(acc, packed, scale, weight) ==
  Plus(acc, weight * scale, Centroids(unpack_indices(packed, bits)))

(* Tokens without weight are skipped. *)
scalar_vaccum_batch(vr, weights) ==
  FoldLeft(LAMBDA acc, i : IF weights[i] = 0
                             THEN acc
                             ELSE vaccum_single(acc, vr[i].data, vr[i].scale, weights[i]),
           [i \in Position |-> 0], [i \in DOMAIN vr |-> i])

-----------------------------------------------------------------------------
(* AVX2KernelBackend: four tokens at a time, then those left over. *)

kdot4_quad_avx2(q_rot, k) ==
  [t \in 1 .. 4 |-> Dot(q_rot, Centroids([i \in Position |-> Quad(k[t].data, i, bits)]))]

kdot1_avx2(q_rot, packed) ==
  Dot(q_rot, Centroids([i \in Position |-> Single(packed, i, bits)]))

(* The token the four-token loop stops at. *)
Leftover(n) == 4 * (n \div 4) + 1

avx2_kdot_batch(q_rot, kr) ==
  [i \in DOMAIN kr |->
     LET first == 4 * ((i - 1) \div 4)
     IN kr[i].scale * IF i < Leftover(Len(kr))
                        THEN kdot4_quad_avx2(q_rot, SubSeq(kr, first + 1, first + 4))[i - first]
                        ELSE kdot1_avx2(q_rot, kr[i].data)]

vaccum4_avx2(acc, v, e) ==
  LET y == [t \in 1 .. 4 |-> Centroids([i \in Position |-> Quad(v[t].data, i, bits)])]
  IN Plus(Plus(Plus(Plus(acc, e[1], y[1]), e[2], y[2]), e[3], y[3]), e[4], y[4])

vaccum1_avx2(acc, packed, ew) ==
  Plus(acc, ew, Centroids([i \in Position |-> Single(packed, i, bits)]))

(* Faulty: the tokens left over are forgotten. *)
avx2_vaccum_batch_fours(vr, weights) ==
  LET e == [i \in DOMAIN vr |-> weights[i] * vr[i].scale]
  IN FoldLeft(LAMBDA acc, g : vaccum4_avx2(acc, SubSeq(vr, 4 * g - 3, 4 * g),
                                                SubSeq(e, 4 * g - 3, 4 * g)),
              [i \in Position |-> 0], [g \in 1 .. Len(vr) \div 4 |-> g])

avx2_vaccum_batch(vr, weights) ==
  LET e == [i \in DOMAIN vr |-> weights[i] * vr[i].scale]
      fours == FoldLeft(LAMBDA acc, g : vaccum4_avx2(acc, SubSeq(vr, 4 * g - 3, 4 * g),
                                                          SubSeq(e, 4 * g - 3, 4 * g)),
                        [i \in Position |-> 0], [g \in 1 .. Len(vr) \div 4 |-> g])
  IN FoldLeft(LAMBDA acc, i : vaccum1_avx2(acc, vr[i].data, e[i]), fours,
              [j \in 1 .. Len(vr) % 4 |-> Leftover(Len(vr)) - 1 + j])

-----------------------------------------------------------------------------

(* "all other backends ... must produce results within FP32 rounding       *)
(* tolerance of this implementation on the same inputs"                    *)
(* (kernels/scalar/kdot_scalar.cpp:12): for any number of tokens, in fours *)
(* and left over, and with weights that are zero, the AVX2 backend gives   *)
(* the logits and the sums of the scalar one.  Only the AVX2 build has     *)
(* both.                                                                   *)
BackendsAgree ==
  answer.asked /\ kernel = "avx2" =>
    LET q_rot == fwht_forward(Pad(answer.q))
        kr    == [t \in DOMAIN tokens |-> tokens[t].k]
        vr    == [t \in DOMAIN tokens |-> tokens[t].v]
    IN /\ avx2_kdot_batch(q_rot, kr) = scalar_kdot_batch(q_rot, kr)
       /\ avx2_vaccum_batch(vr, answer.weights) = scalar_vaccum_batch(vr, answer.weights)
=============================================================================
