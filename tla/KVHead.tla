------------------------------- MODULE KVHead -------------------------------
(***************************************************************************)
(* The KV cache of one attention head as data: the struct AttentionHead    *)
(* (include/attention.h) with its KVFlatBuffer (include/ring_buffer.h).    *)
(*                                                                         *)
(* A token is one appended (key, value, position) triple; what it contains *)
(* is opaque.  The quantized copy of a token and its FP32 copy are the     *)
(* same token here: which copies a computation reads is what is modelled,  *)
(* not their precision.  Quantities counted in floats by the code          *)
(* (raw_kv.size(), n * 2 * dim) are counted in tokens.                     *)
(*                                                                         *)
(* The operators are functions from a head to a head, so that modules with *)
(* one head and with many heads share them.                                *)
(***************************************************************************)
EXTENDS Integers, Sequences

CONSTANTS
  Token,        \* what a caller may append
  NoToken,      \* the content of a slot never written
  Capacity,     \* kv_buf.capacity: slots of the ring
  HybridThresh  \* hybrid_thresh: tokens kept in the FP32 mirror, 0 for none

ASSUME CapacityAssumption == Capacity \in Nat \ {0}
ASSUME HybridAssumption == HybridThresh \in Nat
ASSUME NoTokenAssumption == NoToken \notin Token

Slot == 0 .. Capacity - 1

HeadState == [slots : [Slot -> Token \cup {NoToken}],
              head  : Slot,
              size  : 0 .. Capacity,
              raw   : Seq(Token)]

(* AttentionHead::init: an empty ring, an empty mirror. *)
EmptyHead == [slots |-> [s \in Slot |-> NoToken],
              head  |-> 0,
              size  |-> 0,
              raw   |-> <<>>]

(* Faulty: head is advanced without wrapping round. *)
InsertNoWrap(h, t) ==
  [slots |-> [h.slots EXCEPT ![h.head] = t],
   head  |-> h.head + 1,
   size  |-> IF h.size < Capacity THEN h.size + 1 ELSE h.size,
   raw   |-> h.raw]

(* KVFlatBuffer::insert: write at head, advance it round the ring. *)
Insert(h, t) ==
  [slots |-> [h.slots EXCEPT ![h.head] = t],
   head  |-> (h.head + 1) % Capacity,
   size  |-> IF h.size < Capacity THEN h.size + 1 ELSE h.size,
   raw   |-> h.raw]

(* The mirror raw_kv keeps the first HybridThresh tokens and no other. *)
Mirror(raw, t) == IF Len(raw) < HybridThresh THEN Append(raw, t) ELSE raw

(* AttentionHead::append_kv: insert in the ring, then extend the mirror. *)
AppendKV(h, t) == [Insert(h, t) EXCEPT !.raw = Mirror(h.raw, t)]

(* Faulty: counts from head as if the ring were always full. *)
LogicalSlotFull(h, i) == (h.head + i) % Capacity

(* The ring index of the i-th oldest token, slots[i] in compute. *)
LogicalSlot(h, i) == (h.head - h.size + Capacity + i) % Capacity

(* The tokens the quantized path reads, oldest first. *)
Scan(h) == [i \in 1 .. h.size |-> h.slots[LogicalSlot(h, i - 1)]]

(* Faulty: trusts the number of tokens and not the mirror's length. *)
UsesRawBySize(h) == HybridThresh > 0 /\ h.size <= HybridThresh

(* The test by which compute takes its FP32 path. *)
UsesRaw(h) == /\ HybridThresh > 0
              /\ h.size <= HybridThresh
              /\ Len(h.raw) = h.size

(* AttentionHead::compute: the tokens the output is made of. *)
Attended(h) == IF UsesRaw(h) THEN h.raw ELSE Scan(h)

(* Faulty: rewinds the ring and keeps the mirror. *)
ResetKeepsMirror(h) == [slots |-> h.slots, head |-> 0, size |-> 0, raw |-> h.raw]

(* adaptq_reset: the ring is rewound, its slots are not erased. *)
ResetHead(h) == [slots |-> h.slots, head |-> 0, size |-> 0, raw |-> <<>>]
=============================================================================
