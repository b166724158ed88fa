--------------------------- MODULE AttentionHead ---------------------------
(***************************************************************************)
(* One AttentionHead (attention/attention.cpp) as the single-head C API    *)
(* drives it: adaptq_append and adaptq_compute forward to append_kv and    *)
(* compute, adaptq_reset rewinds the ring and the mirror                   *)
(* (core/adaptq_c_api.cpp).  Calls on one handle are sequential, so each   *)
(* call is one step.                                                       *)
(***************************************************************************)
EXTENDS KVHead

VARIABLES
  cache,   \* the head: ring and FP32 mirror
  answer   \* the tokens the last computed output is made of

vars == <<cache, answer>>

Init == cache = EmptyHead /\ answer = <<>>

append_kv(t) == cache' = AppendKV(cache, t) /\ UNCHANGED answer

compute == answer' = Attended(cache) /\ UNCHANGED cache

reset == cache' = ResetHead(cache) /\ UNCHANGED answer

Next == (\E t \in Token : append_kv(t)) \/ compute \/ reset

Spec == Init /\ [][Next]_vars

-----------------------------------------------------------------------------

(* Type invariant: the head is a ring of Capacity slots and a mirror. *)
TypeOK == cache \in HeadState /\ answer \in Seq(Token)

(* Every slot the quantized path reads holds a token appended since the    *)
(* head was created: the index arithmetic of compute never reaches a slot  *)
(* that insert has not written.                                            *)
ScanIsWritten == \A i \in 1 .. cache.size : Scan(cache)[i] \in Token

(* The two paths of compute see the same tokens: whenever the FP32 path    *)
(* would be taken, the mirror is exactly the window held by the ring.      *)
PathsAgree == UsesRaw(cache) => cache.raw = Scan(cache)

(* Once the head has left the FP32 path only a reset brings it back: the   *)
(* two paths differ numerically, and a session never flips between them.   *)
NoReturnToRaw ==
  [][~UsesRaw(cache) /\ cache'.size > 0 => ~UsesRaw(cache')]_vars

(* The head implements a sliding window of its last Capacity tokens. *)
Window == INSTANCE SlidingWindow WITH window <- Scan(cache)

ImplementsWindow == Window!Spec

-----------------------------------------------------------------------------

(* How much of the stream the mirror holds: it never exceeds its threshold,*)
(* it has kept every token up to it, and while the ring is not yet full it *)
(* holds no token that the ring does not.                                  *)
MirrorLength ==
  /\ Len(cache.raw) <= HybridThresh
  /\ cache.size <= Len(cache.raw) \/ HybridThresh <= Len(cache.raw)
  /\ cache.size < Capacity => Len(cache.raw) <= cache.size

(* The inductive invariant of the ring and of the mirror's length. *)
HeadInv == TypeOK /\ ScanIsWritten /\ MirrorLength

(* What makes PathsAgree inductive when Capacity # HybridThresh: a mirror  *)
(* as long as the window is the window, whatever its length.               *)
MirrorIsWindow == Len(cache.raw) = cache.size => cache.raw = Scan(cache)
=============================================================================
