----------------------------- MODULE RuntimeState -----------------------------
(***************************************************************************)
(* The state of a RuntimeContext (runtime/runtime_context.cpp) as data,    *)
(* with the operations a session and a replay apply to it.  Heads are      *)
(* numbered row by row, layer * n_heads + head, as head_idx does.  Every   *)
(* head has a ContiguousSlab of 2 * Capacity slots for its keys and values.*)
(*                                                                         *)
(* A vector is its token, which half of the pair it is, and the format its *)
(* strategy packed it in: 0xFF for fp_passthrough, the bit width for       *)
(* har_fixed.                                                              *)
(***************************************************************************)
EXTENDS ContiguousSlab, Sequences, SequencesExt

CONSTANTS
  Token,     \* what is appended: a key and a value
  NIdx,      \* n_layers * n_heads
  Capacity,  \* cfg.capacity, in tokens
  Bits,      \* cfg.bits
  LogTokens  \* cfg.log_tokens

ASSUME NIdxAssumption == NIdx \in Nat \ {0}
ASSUME CapacityAssumption == Capacity \in Nat \ {0}
ASSUME BitsAssumption == Bits \in 2 .. 4
ASSUME LogAssumption == LogTokens \in BOOLEAN

Idx == 0 .. NIdx - 1
Strategy == {"har_fixed", "fp_passthrough"}

(* The tag compress writes: FPTAG_F32 = 0xFF, or bits_to_tag(bits). *)
FP32 == 255
FormatOf(strat) == IF strat = "fp_passthrough" THEN FP32 ELSE Bits

Vector == [part : {"K", "V"}, tok : Token, fmt : (2 .. 4) \cup {FP32}]

ASSUME SlabAssumption == Payload = Vector /\ SlabCap = 2 * Capacity

LogEntry == [idx : Idx, tok : Token]

Quality == {"unknown", "exact", "estimated"}

ContextState ==
  [storages    : [Idx -> SlabState],
   cache_sizes : [Idx -> Nat],
   quality     : [Idx -> Quality],
   token_pos   : Nat,
   token_log   : Seq(LogEntry)]

(* RuntimeContext::init, which gives every slab two slots per token. *)
NewContext(capacity) ==
  [storages    |-> [i \in Idx |-> EmptySlab(2 * capacity)],
   cache_sizes |-> [i \in Idx |-> 0],
   quality     |-> [i \in Idx |-> "unknown"],
   token_pos   |-> 0,
   token_log   |-> <<>>]

InitContext == NewContext(Capacity)

(* Faulty: the storages are not reset. *)
ResetKeepsStorage(c) == [InitContext EXCEPT !.storages = c.storages]

(* RuntimeContext::reset. *)
ResetContext(c) ==
  [InitContext EXCEPT !.storages = [i \in Idx |-> ResetSlab(c.storages[i])]]

KV(part, tok, strat) == [part |-> part, tok |-> tok, fmt |-> FormatOf(strat)]

(* RuntimeContext::append with the strategy it ended up with.  Key and     *)
(* value are compressed, that is written, one after the other.  The FIFO   *)
(* eviction of both strategies may then name a slot to free, which a       *)
(* contiguous slab ignores.                                                *)
AppendContext(c, i, tok, strat) ==
  [storages    |-> [c.storages EXCEPT ![i] =
                      WriteSlab(WriteSlab(@, KV("K", tok, strat)),
                                     KV("V", tok, strat))],
   cache_sizes |-> [c.cache_sizes EXCEPT ![i] = @ + 1],
   quality     |-> c.quality,
   token_pos   |-> IF i = NIdx - 1 THEN c.token_pos + 1 ELSE c.token_pos,
   token_log   |-> IF LogTokens THEN Append(c.token_log, [idx |-> i, tok |-> tok])
                   ELSE c.token_log]

-----------------------------------------------------------------------------
(* What RuntimeContext::compute reads. *)

(* The slots of the j-th key and value of n, j from 0. *)
KeySlot(j) == j
ValueSlot(n, j) == n + j

(* A read past the slab: an assertion in a debug build, any bytes else. *)
OutOfSlab == [part |-> "none", tok |-> Zero, fmt |-> 0]
ReadStorage(c, i, s) ==
  IF s \in DOMAIN c.storages[i].data THEN ReadSlab(c.storages[i], s) ELSE OutOfSlab

PairsRead(c, i) ==
  LET n == c.cache_sizes[i]
  IN [j \in 1 .. n |-> [k |-> ReadStorage(c, i, KeySlot(j - 1)),
                        v |-> ReadStorage(c, i, ValueSlot(n, j - 1))]]

(* The path compute takes for a head whose own strategy is own: by the     *)
(* format of slot 0, then by the class of the head's strategy.             *)
PathOf(c, i, own) ==
  IF c.cache_sizes[i] = 0 THEN "empty"
  ELSE IF ReadStorage(c, i, 0).fmt = FP32 THEN "fp32"
  ELSE IF own = "har_fixed" THEN "packed"
  ELSE "unsupported"

(* The tokens whose keys and values the output is made of, if any. *)
AnswerPairs(c, i, own) ==
  IF PathOf(c, i, own) \in {"fp32", "packed"} THEN PairsRead(c, i) ELSE <<>>

(* compute records the quality of the path it took. *)
ComputeContext(c, i, own) ==
  [c EXCEPT !.quality[i] = CASE PathOf(c, i, own) = "fp32" -> "exact"
                             [] PathOf(c, i, own) = "packed" -> "estimated"
                             [] OTHER -> @]
=============================================================================
