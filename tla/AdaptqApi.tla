----------------------------- MODULE AdaptqApi -----------------------------
(***************************************************************************)
(* The C API (core/adaptq_c_api.cpp): single-head contexts, multi-head     *)
(* aggregates, and the thread-local error text behind adaptq_last_error.   *)
(* Threads call it in any interleaving; a handle is used by one thread at  *)
(* a time, so a call is one step.                                          *)
(*                                                                         *)
(* adaptq_create passes no threshold to AttentionHead::init, so every head *)
(* has the default one: HybridThresh is that default (hyb = 512), and the  *)
(* threshold a caller asks for is only recorded in its context.            *)
(***************************************************************************)
EXTENDS KVHead

CONSTANTS
  Thread,     \* the callers
  Ctx,        \* single-head handles
  Mha,        \* multi-head handles
  NHeads,     \* heads of an aggregate
  Threshold,  \* values of hybrid_thresh a caller may ask for
  Null        \* the null handle

ASSUME NHeadsAssumption == NHeads \in Nat \ {0}
ASSUME ThresholdAssumption == Threshold \subseteq Nat

VARIABLES
  ctx,      \* the single-head contexts behind the handles
  mha,      \* the aggregates behind the handles: a context per head
  err,      \* tl_error_buf of every thread
  outcome,  \* what the last call of every thread came to
  failure   \* history: the last error any call of the thread set

api_vars == <<ctx, mha, err, outcome, failure>>

HeadIdx == 0 .. NHeads - 1
NoError == "none"
Error == {"invalid_arg", "out_of_bounds"}

Context == [head : HeadState, hybrid_thresh : Threshold]

NewContext(thresh) == [head |-> EmptyHead, hybrid_thresh |-> thresh]

ApiInit ==
  /\ ctx = [c \in Ctx |-> Null]
  /\ mha = [m \in Mha |-> Null]
  /\ err = [t \in Thread |-> NoError]
  /\ outcome = [t \in Thread |-> "ok"]
  /\ failure = [t \in Thread |-> NoError]

-----------------------------------------------------------------------------
(* How a call leaves the error buffer. *)

(* Faulty: one error buffer for all threads. *)
FailShared(t, e) == /\ err' = [u \in Thread |-> e]
                    /\ failure' = [failure EXCEPT ![t] = e]
                    /\ outcome' = [outcome EXCEPT ![t] = "failed"]

(* set_error, on a path that returns null, -1 or nothing. *)
Fail(t, e) == /\ err' = [err EXCEPT ![t] = e]
              /\ failure' = [failure EXCEPT ![t] = e]
              /\ outcome' = [outcome EXCEPT ![t] = "failed"]

(* Faulty: clears the error text of every thread. *)
SucceedClearingAll(t) == /\ err' = [u \in Thread |-> NoError]
                         /\ outcome' = [outcome EXCEPT ![t] = "ok"]
                         /\ UNCHANGED failure

(* tl_error_buf[0] = '\0' before the work. *)
SucceedClearing(t) == /\ err' = [err EXCEPT ![t] = NoError]
                      /\ outcome' = [outcome EXCEPT ![t] = "ok"]
                      /\ UNCHANGED failure

(* A call that does not touch the error buffer. *)
Succeed(t) == /\ outcome' = [outcome EXCEPT ![t] = "ok"]
              /\ UNCHANGED <<err, failure>>

-----------------------------------------------------------------------------
(* The single-head API. *)

adaptq_create(t, c, thresh) ==
  /\ ctx[c] = Null
  /\ ctx' = [ctx EXCEPT ![c] = NewContext(thresh)]
  /\ Succeed(t)
  /\ UNCHANGED mha

(* Invalid arguments to either create function. *)
create_invalid(t) == Fail(t, "invalid_arg") /\ UNCHANGED <<ctx, mha>>

adaptq_append(t, c, tok) ==
  /\ ctx[c] # Null
  /\ ctx' = [ctx EXCEPT ![c].head = AppendKV(@, tok)]
  /\ Succeed(t)
  /\ UNCHANGED mha

(* adaptq_compute and adaptq_compute_batch read the head only. *)
adaptq_compute(t, c) == ctx[c] # Null /\ Succeed(t) /\ UNCHANGED <<ctx, mha>>

adaptq_reset(t, c) ==
  /\ ctx[c] # Null
  /\ ctx' = [ctx EXCEPT ![c].head = ResetHead(@)]
  /\ SucceedClearing(t)
  /\ UNCHANGED mha

adaptq_destroy(t, c) ==
  /\ ctx[c] # Null
  /\ ctx' = [ctx EXCEPT ![c] = Null]
  /\ Succeed(t)
  /\ UNCHANGED mha

-----------------------------------------------------------------------------
(* The multi-head API.  Its calls accept a null handle and any index, and  *)
(* reject them; reset and destroy are only called on a live handle.        *)

adaptq_mha_create(t, m, thresh) ==
  /\ mha[m] = Null
  /\ mha' = [mha EXCEPT ![m] = [i \in HeadIdx |-> NewContext(thresh)]]
  /\ Succeed(t)
  /\ UNCHANGED ctx

Accepts(m, i) == mha[m] # Null /\ i \in HeadIdx

(* Faulty: an index out of range is clamped, the error still reported. *)
adaptq_mha_append_clamped(t, m, i, tok) ==
  LET j == IF i < 0 THEN 0 ELSE IF i < NHeads THEN i ELSE NHeads - 1
  IN /\ mha' = IF mha[m] = Null THEN mha
               ELSE [mha EXCEPT ![m][j].head = AppendKV(@, tok)]
     /\ IF Accepts(m, i) THEN SucceedClearing(t) ELSE Fail(t, "out_of_bounds")
     /\ UNCHANGED ctx

adaptq_mha_append(t, m, i, tok) ==
  \/ /\ Accepts(m, i)
     /\ mha' = [mha EXCEPT ![m][i].head = AppendKV(@, tok)]
     /\ SucceedClearing(t)
     /\ UNCHANGED ctx
  \/ ~Accepts(m, i) /\ Fail(t, "out_of_bounds") /\ UNCHANGED <<ctx, mha>>

(* adaptq_mha_compute and adaptq_mha_compute_batch. *)
adaptq_mha_compute(t, m, i) ==
  /\ IF Accepts(m, i) THEN SucceedClearing(t) ELSE Fail(t, "out_of_bounds")
  /\ UNCHANGED <<ctx, mha>>

adaptq_mha_reset(t, m) ==
  /\ mha[m] # Null
  /\ mha' = [mha EXCEPT ![m] = [i \in HeadIdx |-> [@[i] EXCEPT !.head = ResetHead(@)]]]
  /\ SucceedClearing(t)
  /\ UNCHANGED ctx

adaptq_mha_destroy(t, m) ==
  /\ mha[m] # Null
  /\ mha' = [mha EXCEPT ![m] = Null]
  /\ Succeed(t)
  /\ UNCHANGED ctx

-----------------------------------------------------------------------------

SingleHeadCall(t) ==
  \/ create_invalid(t)
  \/ \E c \in Ctx : \/ \E thresh \in Threshold : adaptq_create(t, c, thresh)
                    \/ \E tok \in Token : adaptq_append(t, c, tok)
                    \/ adaptq_compute(t, c)
                    \/ adaptq_reset(t, c)
                    \/ adaptq_destroy(t, c)

MultiHeadCall(t) ==
  \E m \in Mha : \/ \E thresh \in Threshold : adaptq_mha_create(t, m, thresh)
                 \/ \E i \in -1 .. NHeads, tok \in Token : adaptq_mha_append(t, m, i, tok)
                 \/ \E i \in -1 .. NHeads : adaptq_mha_compute(t, m, i)
                 \/ adaptq_mha_reset(t, m)
                 \/ adaptq_mha_destroy(t, m)

ApiNext == \E t \in Thread : SingleHeadCall(t) \/ MultiHeadCall(t)

ApiSpec == ApiInit /\ [][ApiNext]_api_vars

-----------------------------------------------------------------------------

(* A thread whose last call failed finds the reason in adaptq_last_error,  *)
(* whatever the other threads called in between.                           *)
FailureExplained ==
  \A t \in Thread : outcome[t] = "failed" => err[t] # NoError

(* An error text a thread reads is that of its own latest failure.         *)
ErrorIsOwn ==
  \A t \in Thread : err[t] # NoError => err[t] = failure[t]

(* A call that reports an error has changed no cache: no token reaches a   *)
(* head through a null handle or an index out of range.                    *)
RejectedCallChangesNothing ==
  [][\A t \in Thread : err'[t] # err[t] /\ err'[t] # NoError
       => UNCHANGED <<ctx, mha>>]_api_vars
=============================================================================
