------------------------------- MODULE MCReplay -------------------------------
(* Replay for TLC: the tokens are interchangeable.                          *)
EXTENDS Replay, TLC

TokenSymmetry == Permutations(Token)
=============================================================================
