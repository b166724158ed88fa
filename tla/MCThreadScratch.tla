-------------------------- MODULE MCThreadScratch --------------------------
(* ThreadScratch for TLC: a head that has left the FP32 path with its first *)
(* token, and one that is still on it.                                      *)
EXTENDS ThreadScratch

CONSTANTS quantized, mirrored

ThreshOf == [h \in Handle |-> IF h = mirrored THEN 1 ELSE 0]
=============================================================================
