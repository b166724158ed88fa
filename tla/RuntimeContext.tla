---------------------------- MODULE RuntimeContext ----------------------------
(***************************************************************************)
(* A RuntimeContext in use: a policy chooses the strategy of every append, *)
(* compute reads the storages back.  Any head may be appended to or        *)
(* computed at any time; the runtime is single-threaded.                   *)
(*                                                                         *)
(* Once a head holds more than Capacity tokens compute reads past its slab:*)
(* a debug build stops at an assertion, a release build goes on with any   *)
(* bytes.  The model goes on, and no property is about such an answer.     *)
(***************************************************************************)
EXTENDS RuntimeState, FiniteSets

CONSTANTS
  Own,        \* the strategy init gives every head
  Policy,     \* what select_strategy may return: strategies, or Keep
  Keep,       \* no policy, or a policy that returns null
  MaxAppends  \* bound: appends to a head since the last reset

ASSUME OwnAssumption == Own \in Strategy
ASSUME PolicyAssumption == Policy \subseteq Strategy \cup {Keep}

VARIABLES
  ctx,      \* the context
  appended  \* history: [tok, strat] of every append to a head since reset

vars == <<ctx, appended>>

Init == ctx = InitContext /\ appended = [i \in Idx |-> <<>>]

Chosen(p) == IF p = Keep THEN Own ELSE p

append(i, tok, p) ==
  /\ Len(appended[i]) < MaxAppends
  /\ ctx' = AppendContext(ctx, i, tok, Chosen(p))
  /\ appended' = [appended EXCEPT ![i] = Append(@, [tok |-> tok, strat |-> Chosen(p)])]

compute(i) == ctx' = ComputeContext(ctx, i, Own) /\ UNCHANGED appended

reset == ctx' = ResetContext(ctx) /\ appended' = [i \in Idx |-> <<>>]

Next == \/ \E i \in Idx, tok \in Token, p \in Policy : append(i, tok, p)
        \/ \E i \in Idx : compute(i)
        \/ reset

Spec == Init /\ [][Next]_vars

-----------------------------------------------------------------------------

(* Type invariant. *)
TypeOK ==
  /\ ctx \in ContextState
  /\ appended \in [Idx -> Seq([tok : Token, strat : Strategy])]

(* The slots that hold the vectors of the t-th append to a head, t from 0. *)
KeyStoredAt(t) == (2 * t) % (2 * Capacity)
ValueStoredAt(t) == (2 * t + 1) % (2 * Capacity)

(* The storage of a head holds, whatever was appended to the other heads,  *)
(* the key and the value of its last Capacity tokens, each in the format   *)
(* of the strategy that was in force: two writes per append keep in step   *)
(* round the ring and across resets.                                       *)
StorageKeepsWindow ==
  \A i \in Idx : \A t \in 0 .. Len(appended[i]) - 1 :
    t >= Len(appended[i]) - Capacity =>
      LET a == appended[i][t + 1] IN
      /\ ctx.storages[i].data[KeyStoredAt(t)] = KV("K", a.tok, a.strat)
      /\ ctx.storages[i].data[ValueStoredAt(t)] = KV("V", a.tok, a.strat)

(* The vectors given to a head since the reset, in the order they came, as *)
(* app tells it, and those compute finds, in the order of their slots.     *)
VectorsGiven(app) ==
  [s \in 1 .. 2 * Len(app) |->
     LET a == app[(s + 1) \div 2]
     IN KV(IF s % 2 = 1 THEN "K" ELSE "V", a.tok, a.strat)]
VectorsRead(i) ==
  LET pairs == PairsRead(ctx, i)
      n     == Len(pairs)
  IN [s \in 1 .. 2 * n |-> IF s <= n THEN pairs[s].k ELSE pairs[s - n].v]

(* Until a head overflows, what compute reads is what the head was given   *)
(* since the last reset, each vector once, in order and in the format of   *)
(* the strategy then in force: nothing from before the reset, nothing of   *)
(* another head, nothing never written.  How keys and values are paired is *)
(* another matter (KeysMeetTheirValues).                                   *)
NoStaleRead ==
  \A i \in Idx : Len(appended[i]) <= Capacity =>
    VectorsRead(i) = VectorsGiven(appended[i])

(* A head that only its own strategy packed is decoded in its own format:  *)
(* the format of slot 0 stands for all, across overflows and resets.       *)
OwnFormatDecoded ==
  \A i \in Idx :
    /\ appended[i] # <<>>
    /\ \A t \in DOMAIN appended[i] : appended[i][t].strat = Own
    => PathOf(ctx, i, Own) = IF Own = "fp_passthrough" THEN "fp32" ELSE "packed"

(* runtime/runtime_context.cpp:243-248: the layout is K0 .. Kn, V0 .. Vn   *)
(* and compute reads the keys at [i] and the values at [n + i].  It does   *)
(* not hold from the second token on: keys and values alternate.           *)
KeysMeetTheirValues ==
  \A i \in Idx : ctx.cache_sizes[i] <= Capacity =>
    \A j \in DOMAIN AnswerPairs(ctx, i, Own) :
      LET pair == AnswerPairs(ctx, i, Own)[j]
      IN pair.k.part = "K" /\ pair.v.part = "V" /\ pair.k.tok = pair.v.tok
=============================================================================
