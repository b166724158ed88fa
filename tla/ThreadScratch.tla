--------------------------- MODULE ThreadScratch ---------------------------
(***************************************************************************)
(* Threads working on attention heads at the same time.  append_kv and     *)
(* compute (attention/attention.cpp) pass their intermediate results       *)
(* through static thread_local buffers: tmp_k, tmp_v, tl_q_rot, tl_slots,  *)
(* tl_logits, ord, tl_v_accum.  compute_batch runs compute for its queries *)
(* on the workers of an OpenMP team, all reading one head.                 *)
(*                                                                         *)
(* A handle is used by one caller at a time (include/adaptq.h:12): no      *)
(* append on a head while a batch runs on it.  Different heads are used    *)
(* concurrently.  The thread that calls compute_batch works in the team it *)
(* starts and in no other until the call returns; which thread of the team *)
(* gets which query is up to OpenMP.  Data is abstracted to where it comes *)
(* from: a key and a value to their token, a list of slots to the head, an *)
(* order to the query whose logits were sorted, an output to the query,    *)
(* the keys, the values and the order it was made of.                      *)
(***************************************************************************)
EXTENDS Integers, Sequences

CONSTANTS
  Thread,        \* threads of callers and of OpenMP teams
  Handle,        \* heads in use
  Token,         \* tokens to append
  Query,         \* queries of a batch
  HybridThresh,  \* a head with at most HybridThresh[h] tokens uses the FP32 path
  MaxTokens,     \* bound: tokens appended to one head
  Nothing        \* an idle thread, an empty buffer, an output not written

(* What a thread may be doing on a head, and an output. *)
AppendJob == [pc : {"quantize_k", "quantize_v", "insert"}, head : Handle, token : Token]
ComputeJob == [pc : {"rotate", "score", "weigh", "write"}, head : Handle, query : Query]
Output == [q : Query, k : Seq(Token), v : Seq(Token), ord : Query]

ASSUME HybridAssumption == HybridThresh \in [Handle -> Nat]
ASSUME NothingAssumption == Nothing \notin Thread \cup AppendJob \cup ComputeJob \cup Output

VARIABLES
  cache,   \* the tokens of each head: a sequence of key-value pairs
  caller,  \* the thread in compute_batch on the head, or Nothing
  batch,   \* the queries of that call no thread has taken yet
  outs,    \* what the call has written for each query
  job,     \* what each thread is doing
  tls      \* the thread_local buffers of each thread

scratch_vars == <<cache, caller, batch, outs, job, tls>>

Buffers == {"tmp_k", "tmp_v", "q_rot", "slots", "logits", "ord", "v_accum"}

ScratchInit ==
  /\ cache = [h \in Handle |-> <<>>]
  /\ caller = [h \in Handle |-> Nothing]
  /\ batch = [h \in Handle |-> {}]
  /\ outs = [h \in Handle |-> [q \in Query |-> Nothing]]
  /\ job = [t \in Thread |-> Nothing]
  /\ tls = [t \in Thread |-> [b \in Buffers |-> Nothing]]

Working(h) == \E t \in Thread : job[t] # Nothing /\ job[t].head = h
AtRest(h) == caller[h] = Nothing /\ ~Working(h)
Free(t) == job[t] = Nothing /\ \A h \in Handle : caller[h] # t

Keys(h) == [i \in DOMAIN cache[h] |-> cache[h][i].k]
Values(h) == [i \in DOMAIN cache[h] |-> cache[h][i].v]
RawPath(h) == Len(cache[h]) <= HybridThresh[h]

(* What a thread has in its buffers once it has written the new ones. *)
Overwritten(t, new) == [b \in Buffers |-> IF b \in DOMAIN new THEN new[b] ELSE tls[t][b]]

(* Faulty: static buffers that are not thread_local. *)
StoreStatic(t, new) == tls' = [u \in Thread |-> Overwritten(u, new)]

(* The thread writes some of its buffers. *)
Store(t, new) == tls' = [tls EXCEPT ![t] = Overwritten(t, new)]

(* The thread continues at pc. *)
GoTo(t, pc) == job' = [job EXCEPT ![t].pc = pc]

-----------------------------------------------------------------------------
(* append_kv: quantize the key, quantize the value, insert both. *)

StartAppend(t, h, tok) ==
  /\ Free(t) /\ AtRest(h)
  /\ Len(cache[h]) < MaxTokens  \* bound
  /\ job' = [job EXCEPT ![t] = [pc |-> "quantize_k", head |-> h, token |-> tok]]
  /\ UNCHANGED <<cache, caller, batch, outs, tls>>

QuantizeK(t) ==
  /\ job[t].pc = "quantize_k"
  /\ Store(t, [tmp_k |-> job[t].token])
  /\ GoTo(t, "quantize_v")
  /\ UNCHANGED <<cache, caller, batch, outs>>

QuantizeV(t) ==
  /\ job[t].pc = "quantize_v"
  /\ Store(t, [tmp_v |-> job[t].token])
  /\ GoTo(t, "insert")
  /\ UNCHANGED <<cache, caller, batch, outs>>

(* The mirror of the FP32 path takes the caller's floats, the ring the     *)
(* buffers; which of them a later compute reads is RawPath.                *)
InsertKV(t) ==
  /\ job[t].pc = "insert"
  /\ cache' = [cache EXCEPT ![job[t].head] =
                 Append(@, [k |-> tls[t]["tmp_k"], v |-> tls[t]["tmp_v"]])]
  /\ job' = [job EXCEPT ![t] = Nothing]
  /\ UNCHANGED <<caller, batch, outs, tls>>

-----------------------------------------------------------------------------
(* compute_batch: an empty cache is answered at once, else a team starts.  *)

StartBatch(t, h) ==
  /\ Free(t) /\ AtRest(h)
  /\ cache[h] # <<>>
  /\ caller' = [caller EXCEPT ![h] = t]
  /\ batch' = [batch EXCEPT ![h] = Query]
  /\ outs' = [outs EXCEPT ![h] = [q \in Query |-> Nothing]]
  /\ UNCHANGED <<cache, job, tls>>

(* Faulty: the loop index does not advance, the query stays to be taken. *)
TakeQueryAgain(t, h, q) ==
  /\ job[t] = Nothing /\ (caller[h] = t \/ Free(t))
  /\ q \in batch[h]
  /\ job' = [job EXCEPT ![t] = [pc    |-> IF RawPath(h) THEN "score" ELSE "rotate",
                                head  |-> h,
                                query |-> q]]
  /\ UNCHANGED <<cache, caller, batch, outs, tls>>

(* An iteration of the parallel loop goes to an idle thread of the team.   *)
TakeQuery(t, h, q) ==
  /\ job[t] = Nothing /\ (caller[h] = t \/ Free(t))
  /\ q \in batch[h]
  /\ batch' = [batch EXCEPT ![h] = @ \ {q}]
  /\ job' = [job EXCEPT ![t] = [pc    |-> IF RawPath(h) THEN "score" ELSE "rotate",
                                head  |-> h,
                                query |-> q]]
  /\ UNCHANGED <<cache, caller, outs, tls>>

(* The query is rotated and the slots of the head are listed. *)
RotateQuery(t) ==
  /\ job[t].pc = "rotate"
  /\ Store(t, [q_rot |-> job[t].query, slots |-> job[t].head])
  /\ GoTo(t, "score")
  /\ UNCHANGED <<cache, caller, batch, outs>>

(* The head whose slots are read: on the FP32 path the mirror, in order.   *)
Listed(t) == IF RawPath(job[t].head) THEN job[t].head ELSE tls[t]["slots"]

(* The logits: from q itself on the FP32 path, else from the rotated query *)
(* and sorted, so that the heaviest values come first.                     *)
Score(t) ==
  /\ job[t].pc = "score"
  /\ LET logits(q) == [q |-> q, k |-> Keys(Listed(t))]
     IN IF RawPath(job[t].head)
        THEN Store(t, [logits |-> logits(job[t].query)]) /\ GoTo(t, "write")
        ELSE /\ Store(t, [logits |-> logits(tls[t]["q_rot"]), ord |-> tls[t]["q_rot"]])
             /\ GoTo(t, "weigh")
  /\ UNCHANGED <<cache, caller, batch, outs>>

(* The values weighted by the logits, summed in tl_v_accum: which of them  *)
(* is the order's choice; on the FP32 path all, in the query's own.        *)
Weighted(t) == [q   |-> tls[t]["logits"].q,
                k   |-> tls[t]["logits"].k,
                v   |-> Values(Listed(t)),
                ord |-> IF RawPath(job[t].head) THEN job[t].query ELSE tls[t]["ord"]]

Weigh(t) ==
  /\ job[t].pc = "weigh"
  /\ Store(t, [v_accum |-> Weighted(t)])
  /\ GoTo(t, "write")
  /\ UNCHANGED <<cache, caller, batch, outs>>

(* The FP32 path sums into out directly, the other copies tl_v_accum. *)
WriteOut(t) ==
  /\ job[t].pc = "write"
  /\ LET h == job[t].head
         x == IF RawPath(h) THEN Weighted(t) ELSE tls[t]["v_accum"]
     IN outs' = [outs EXCEPT ![h][job[t].query] = x]
  /\ job' = [job EXCEPT ![t] = Nothing]
  /\ UNCHANGED <<cache, caller, batch, tls>>

(* Faulty: returns when every query is taken, not when all are answered. *)
ReturnEarly(h) ==
  /\ caller[h] # Nothing /\ job[caller[h]] = Nothing
  /\ batch[h] = {}
  /\ caller' = [caller EXCEPT ![h] = Nothing]
  /\ UNCHANGED <<cache, batch, outs, job, tls>>

(* The barrier at the end of the parallel loop, then the return. *)
ReturnBatch(h) ==
  /\ caller[h] # Nothing
  /\ batch[h] = {} /\ ~Working(h)
  /\ caller' = [caller EXCEPT ![h] = Nothing]
  /\ UNCHANGED <<cache, batch, outs, job, tls>>

-----------------------------------------------------------------------------

Proceed(t) ==
  /\ job[t] # Nothing
  /\ \/ QuantizeK(t) \/ QuantizeV(t) \/ InsertKV(t)
     \/ RotateQuery(t) \/ Score(t) \/ Weigh(t) \/ WriteOut(t)

ScratchNext ==
  \/ \E t \in Thread : Proceed(t)
  \/ \E t \in Thread, h \in Handle, tok \in Token : StartAppend(t, h, tok)
  \/ \E t \in Thread, h \in Handle, q \in Query : TakeQuery(t, h, q)
  \/ \E t \in Thread, h \in Handle : StartBatch(t, h)
  \/ \E h \in Handle : ReturnBatch(h)

(* Threads that have started a call keep running; the caller of a batch,   *)
(* which no one can take out of its team, goes on taking iterations of its *)
(* loop until none is left.                                                *)
Fairness ==
  /\ \A t \in Thread : WF_scratch_vars(Proceed(t))
  /\ \A h \in Handle : /\ WF_scratch_vars(ReturnBatch(h))
                       /\ WF_scratch_vars(\E q \in Query : caller[h] # Nothing /\ TakeQuery(caller[h], h, q))

ScratchSpec == ScratchInit /\ [][ScratchNext]_scratch_vars

FairSpec == ScratchSpec /\ Fairness

-----------------------------------------------------------------------------

(* Type invariant: who is at which step of what. *)
TypeOK ==
  /\ cache \in [Handle -> Seq([k : Token, v : Token])]
  /\ caller \in [Handle -> Thread \cup {Nothing}]
  /\ batch \in [Handle -> SUBSET Query]
  /\ outs \in [Handle -> [Query -> Output \cup {Nothing}]]
  /\ job \in [Thread -> AppendJob \cup ComputeJob \cup {Nothing}]

(* The key and the value stored in a slot are those of one token: appends  *)
(* to other heads, between the two quantizations, do not mix in.           *)
PairedTokens ==
  \A h \in Handle : \A i \in DOMAIN cache[h] : cache[h][i].k = cache[h][i].v

(* Every output of a running batch is made of its own query, of the keys   *)
(* and values of its own head and in the order of its own weights,         *)
(* whatever ran on the other threads: as a call of compute alone returns.  *)
AnswersOwnQuery ==
  \A h \in Handle, q \in Query :
    caller[h] # Nothing /\ outs[h][q] # Nothing
      => outs[h][q] = [q |-> q, k |-> Keys(h), v |-> Values(h), ord |-> q]

(* compute_batch returns with every query answered and its head at rest.   *)
ReturnIsComplete ==
  [][\A h \in Handle : caller[h] # Nothing /\ caller'[h] = Nothing
       => /\ \A q \in Query : outs[h][q] # Nothing
          /\ \A t \in Thread : job[t] = Nothing \/ job[t].head # h]_scratch_vars

(* A batch that starts returns. *)
BatchReturns == \A h \in Handle : caller[h] # Nothing ~> caller[h] = Nothing
=============================================================================
