---------------------------- MODULE MCLlamaSession ----------------------------
(* LlamaSession for TLC: the calls are alike.                               *)
EXTENDS LlamaSession, TLC

CallSymmetry == Permutations(Call)
=============================================================================
