---------------------------- MODULE MCSegmentedSlab ----------------------------
(* SegmentedSlab for TLC: two formats with vectors of different sizes.      *)
EXTENDS SegmentedSlab, TLC

CONSTANTS d1, d2, narrow, wide

BytesOfTag(t) == IF t = wide THEN 2 ELSE 1
DataSymmetry == Permutations(Data)
=============================================================================
