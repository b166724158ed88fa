-------------------------- MODULE MCAttentionHead --------------------------
(***************************************************************************)
(* AttentionHead for TLC.  Tokens are only ever compared for equality, and *)
(* every property checked is a safety property, so permuting them is sound.*)
(***************************************************************************)
EXTENDS AttentionHead, TLC

TokenSymmetry == Permutations(Token)
=============================================================================
