---------------------------- MODULE AdapterSession ----------------------------
(***************************************************************************)
(* Generations on one TransformersAdapter                                  *)
(* (adaptq/runtime_py/backends/transformers_hf.py), driven by generate and *)
(* generate_streaming of its base class (adaptq/runtime_py/base.py), down  *)
(* to the Engine of every layer (adaptq/core.py).                          *)
(*                                                                         *)
(* One thread, a loaded model.  generate runs to its end; a stream is a    *)
(* generator: it runs up to a yield, and its consumer may resume it later, *)
(* start other calls first, or close it.  All calls share the adapter.     *)
(*                                                                         *)
(* The model is external: a forward pass updates the cache layer by layer  *)
(* and may fail on the way.  A token is the call that fed or sampled it    *)
(* and its place in that call, so that logits, taken to be the cache they  *)
(* were computed from, show what they depend on.                           *)
(***************************************************************************)
EXTENDS Integers, Sequences, SequencesExt

CONSTANTS
  Call,       \* calls of generate and generate_streaming, each made once
  NLayers,    \* layers of the model
  NHeads,     \* KV heads of a layer
  MaxPrompt,  \* bound: tokens of a prompt
  MaxNew,     \* max_new_tokens
  None        \* no value

ASSUME ShapeAssumption == NLayers \in Nat \ {0} /\ NHeads \in Nat \ {0}
ASSUME LimitAssumption == MaxPrompt \in Nat /\ MaxNew \in Nat \ {0}
ASSUME NoneAssumption == None \notin Call

VARIABLES
  adapter,  \* the adapter's session fields
  calls,    \* what each call is at
  running   \* the call that has control, or None

vars == <<adapter, calls, running>>

Layer == 1 .. NLayers
KVHeads == 1 .. NHeads

(* Token n of call c: its prompt comes first, what it sampled follows. *)
Tok == [call : Call, n : 1 .. MaxPrompt + MaxNew]
Toks(c, from, to) == [i \in 1 .. to - from + 1 |-> [call |-> c, n |-> from + i - 1]]

KV == [Layer -> Seq(Tok)]
EngineState == [pos : Nat, held : [KVHeads -> Nat]]

(* Without the native library (_ADAPTQ_NATIVE_AVAILABLE) there are none.   *)
EngineLayers(native) == IF native THEN Layer ELSE {}

(* An AdapTQCache: the model's own keys and values, the engine of every    *)
(* layer, _adaptq_error, and _n_tokens.                                    *)
Cache ==
  [kv : KV, engines : UNION {[EngineLayers(native) -> EngineState] : native \in BOOLEAN},
   error : BOOLEAN, n_tokens : Nat]

NewEngine == [pos |-> 0, held |-> [h \in KVHeads |-> 0]]
NewCache(native) == [kv       |-> [l \in Layer |-> <<>>],
                     engines  |-> [l \in EngineLayers(native) |-> NewEngine],
                     error    |-> FALSE,
                     n_tokens |-> 0]

AdapterState == [cache : Cache \cup {None}, last_logits : KV \cup {None},
                 generated : Seq(Tok), native : BOOLEAN]

(* prompt: tokens of the prompt.  sampled: tokens returned.  seen: the     *)
(* logits the last of them was sampled from.  fed: prefill succeeded.      *)
(* whole: no forward pass of the call failed.  alone: while the call was   *)
(* open no other began or used the cache, and the cache was not cleared.   *)
CallState ==
  [pc     : {"unused", "begun", "decode", "closing", "done"},
   kind   : {"generate", "stream"},
   prompt : 0 .. MaxPrompt, sampled : 0 .. MaxNew, seen : KV \cup {None},
   fed    : BOOLEAN, whole : BOOLEAN, alone : BOOLEAN]

Unused == [pc |-> "unused", kind |-> "generate", prompt |-> 0, sampled |-> 0,
           seen |-> None, fed |-> FALSE, whole |-> TRUE, alone |-> TRUE]

(* _last_logits does not exist before the first prefill. *)
Init ==
  /\ \E native \in BOOLEAN :
       adapter = [cache |-> None, last_logits |-> None, generated |-> <<>>, native |-> native]
  /\ calls = [c \in Call |-> Unused]
  /\ running = None

-----------------------------------------------------------------------------
(* Engine.append and AdapTQCache.update. *)

(* What becomes of the engine of a layer in a forward pass of n tokens: it *)
(* takes them all, or fails after whole of them, and after heads heads of  *)
(* the next.  The layers fail independently of each other.                 *)
NoGap == [fails |-> FALSE, whole |-> 0, heads |-> 0]
Gap(n) == {NoGap} \cup [fails : {TRUE}, whole : 0 .. n - 1, heads : 0 .. NHeads - 1]
Gaps(n) == [Layer -> Gap(n)]

(* n appends, and the first heads heads of one more that raises. *)
EngineAppend(e, n, heads) ==
  [pos  |-> e.pos + n,
   held |-> [h \in KVHeads |-> IF h <= heads THEN e.held[h] + n + 1 ELSE e.held[h] + n]]

(* The engine of layer l after a forward pass of toks. *)
EngineAfter(cache, l, toks, gap) ==
  IF gap[l].fails THEN EngineAppend(cache.engines[l], gap[l].whole, gap[l].heads)
  ELSE EngineAppend(cache.engines[l], Len(toks), 0)

(* Faulty: the exception is swallowed without a trace. *)
UpdateSilently(cache, l, toks, gap) ==
  LET kv == [cache.kv EXCEPT ![l] = @ \o toks]
      e  == EngineAfter(cache, l, toks, gap)
  IN IF l \notin DOMAIN cache.engines THEN [cache EXCEPT !.kv = kv]
     ELSE [kv       |-> kv,
           engines  |-> [cache.engines EXCEPT ![l] = e],
           error    |-> cache.error,
           n_tokens |-> IF gap[l].fails THEN cache.n_tokens ELSE e.pos]

(* AdapTQCache.update: the parent first, then the engine, if there is one, *)
(* token by token; what the engine raises is only recorded.  (A batch of   *)
(* more than one would pass the engine by as well: prefill and decode_next *)
(* make none.)                                                             *)
Update(cache, l, toks, gap) ==
  LET kv == [cache.kv EXCEPT ![l] = @ \o toks]
      e  == EngineAfter(cache, l, toks, gap)
  IN IF l \notin DOMAIN cache.engines THEN [cache EXCEPT !.kv = kv]
     ELSE [kv       |-> kv,
           engines  |-> [cache.engines EXCEPT ![l] = e],
           error    |-> cache.error \/ gap[l].fails,
           n_tokens |-> IF gap[l].fails THEN cache.n_tokens ELSE e.pos]

(* A forward pass of the model that reaches layer upto. *)
Forward(cache, toks, upto, gap) ==
  FoldLeft(LAMBDA acc, l : Update(acc, l, toks, gap), cache, [l \in 1 .. upto |-> l])

-----------------------------------------------------------------------------
(* begin_session, prefill, decode_next and end_session, as the two drivers *)
(* call them.                                                              *)

SetCall(c, state) == calls' = [calls EXCEPT ![c] = state]

IsOpen(c) == calls[c].pc \in {"begun", "decode", "closing"}

(* The cache was replaced, used or cleared: the calls still open are not   *)
(* alone with it any more.                                                 *)
Overtaken(cs) == [d \in Call |-> [cs[d] EXCEPT !.alone = @ /\ ~IsOpen(d)]]

(* A call is made: begin_session replaces the cache. *)
begin_session(c, kind, prompt) ==
  /\ running = None /\ calls[c].pc = "unused"
  /\ adapter' = [adapter EXCEPT !.cache = NewCache(adapter.native), !.generated = <<>>]
  /\ calls' = [Overtaken(calls) EXCEPT
                 ![c] = [Unused EXCEPT !.pc = "begun", !.kind = kind, !.prompt = prompt]]
  /\ running' = c

(* Faulty: generate goes on when prefill fails. *)
AfterPrefillFailureDecode(kind) == "decode"

(* generate returns an error when prefill fails; generate_streaming does   *)
(* not look at what prefill returned.                                      *)
AfterPrefillFailure(kind) == IF kind = "generate" THEN "closing" ELSE "decode"

(* An empty prompt is not prefilled. *)
skip_prefill(c) ==
  /\ running = c /\ calls[c].pc = "begun" /\ calls[c].prompt = 0
  /\ SetCall(c, [calls[c] EXCEPT !.pc = "decode"])
  /\ UNCHANGED <<adapter, running>>

prefill(c) ==
  /\ running = c /\ calls[c].pc = "begun" /\ calls[c].prompt > 0
  /\ \E gap \in Gaps(calls[c].prompt) :
       LET cache == Forward(adapter.cache, Toks(c, 1, calls[c].prompt), NLayers, gap)
       IN adapter' = [adapter EXCEPT !.cache = cache, !.last_logits = cache.kv]
  /\ SetCall(c, [calls[c] EXCEPT !.pc = "decode", !.fed = TRUE])
  /\ UNCHANGED running

(* The forward pass raises between two layers. *)
prefill_fails(c) ==
  /\ running = c /\ calls[c].pc = "begun" /\ calls[c].prompt > 0
  /\ \E upto \in 0 .. NLayers - 1, gap \in Gaps(calls[c].prompt) :
       adapter' = [adapter EXCEPT
         !.cache = Forward(@, Toks(c, 1, calls[c].prompt), upto, gap)]
  /\ SetCall(c, [calls[c] EXCEPT !.pc = AfterPrefillFailure(calls[c].kind), !.whole = FALSE])
  /\ UNCHANGED running

(* The driver's loop has control, or its generator is resumed. *)
MayDecode(c) ==
  /\ calls[c].pc = "decode"
  /\ running = c \/ (running = None /\ calls[c].kind = "stream" /\ calls[c].sampled > 0)

(* _decode_pos and _generated_ids grow together: the adapter's, which      *)
(* another session resets, and not the call's.                             *)
decode_pos == Len(adapter.generated)

CanDecode(c) == /\ MayDecode(c) /\ calls[c].sampled < MaxNew
                /\ adapter.cache # None /\ decode_pos < MaxNew

(* Faulty: every step takes the logits of the prefill. *)
FirstStepAnyTime == adapter.last_logits # None

(* The first step takes the logits of the last prefill, whosesoever. *)
FirstStep == decode_pos = 0 /\ adapter.last_logits # None

(* The token the driver gets, which a stream yields. *)
Sample(c, logits, cache) ==
  LET tok == [call |-> c, n |-> calls[c].prompt + calls[c].sampled + 1]
  IN /\ adapter' = [adapter EXCEPT !.cache = cache, !.generated = Append(@, tok)]
     /\ calls' = [Overtaken(calls) EXCEPT
                    ![c] = [calls[c] EXCEPT !.sampled = @ + 1, !.seen = logits]]
     /\ running' = IF calls[c].kind = "stream" THEN None ELSE c

(* decode_next returns None: the loop ends. *)
Stop(c, cache, whole) ==
  /\ adapter' = [adapter EXCEPT !.cache = cache]
  /\ calls' = [(IF cache = adapter.cache THEN calls ELSE Overtaken(calls)) EXCEPT
                 ![c] = [calls[c] EXCEPT !.pc = "closing", !.whole = @ /\ whole]]
  /\ running' = c

(* The argmax is any token, the end of sequence included. *)
SampleOrEOS(c, logits, cache) == Sample(c, logits, cache) \/ Stop(c, cache, TRUE)

decode_first(c) ==
  /\ CanDecode(c) /\ FirstStep
  /\ SampleOrEOS(c, adapter.last_logits, adapter.cache)

decode_next(c) ==
  /\ CanDecode(c) /\ ~FirstStep /\ adapter.generated # <<>>
  /\ \E gap \in Gaps(1) :
       LET cache == Forward(adapter.cache, <<Last(adapter.generated)>>, NLayers, gap)
       IN SampleOrEOS(c, cache.kv, cache)

decode_fails(c) ==
  /\ CanDecode(c) /\ ~FirstStep /\ adapter.generated # <<>>
  /\ \E upto \in 0 .. NLayers - 1, gap \in Gaps(1) :
       Stop(c, Forward(adapter.cache, <<Last(adapter.generated)>>, upto, gap), FALSE)

(* No logits and no token to feed: the IndexError is caught. *)
decode_nothing(c) ==
  /\ CanDecode(c) /\ ~FirstStep /\ adapter.generated = <<>>
  /\ Stop(c, adapter.cache, TRUE)

(* A limit is reached, or the cache was cleared. *)
decode_limit(c) ==
  /\ MayDecode(c)
  /\ calls[c].sampled = MaxNew \/ adapter.cache = None \/ decode_pos >= MaxNew
  /\ Stop(c, adapter.cache, TRUE)

(* end_session leaves the cache, the logits and the tokens as they are. *)
end_session(c) ==
  /\ running = c /\ calls[c].pc = "closing"
  /\ SetCall(c, [calls[c] EXCEPT !.pc = "done"])
  /\ running' = None
  /\ UNCHANGED adapter

(* The consumer closes a stream at a yield: its finally ends the session.  *)
close(c) ==
  /\ running = None /\ calls[c].pc = "decode"
  /\ SetCall(c, [calls[c] EXCEPT !.pc = "done"])
  /\ UNCHANGED <<adapter, running>>

clear_kv_cache ==
  /\ running = None /\ adapter.cache # None
  /\ adapter' = [adapter EXCEPT !.cache = None]
  /\ calls' = Overtaken(calls)
  /\ UNCHANGED running

Next ==
  \/ \E c \in Call, kind \in {"generate", "stream"}, prompt \in 0 .. MaxPrompt :
       begin_session(c, kind, prompt)
  \/ \E c \in Call :
       \/ skip_prefill(c) \/ prefill(c) \/ prefill_fails(c)
       \/ decode_first(c) \/ decode_next(c) \/ decode_fails(c)
       \/ decode_nothing(c) \/ decode_limit(c)
       \/ end_session(c) \/ close(c)
  \/ clear_kv_cache

Spec == Init /\ [][Next]_vars

-----------------------------------------------------------------------------

(* The first n tokens of a call, in every layer. *)
Own(c, n) == [l \in Layer |-> Toks(c, 1, n)]

(* Every token a call returns is sampled from its own prompt and its own   *)
(* earlier tokens, whatever ran on the adapter before it: a generate whose *)
(* prefill fails returns none, a stream has no such protection, and a call *)
(* that shared the adapter with another is lost.                           *)
OwnContext ==
  \A c \in Call :
    /\ calls[c].sampled > 0 /\ calls[c].alone
    /\ calls[c].fed \/ (calls[c].kind = "generate" /\ calls[c].prompt > 0)
    => calls[c].seen = Own(c, calls[c].prompt + calls[c].sampled - 1)

(* While a call is open the cache is its transcript: the prompt and every  *)
(* token returned but the last, each fed once, in order, to every layer.   *)
CacheIsTranscript ==
  \A c \in Call :
    /\ calls[c].pc = "decode" /\ calls[c].alone /\ calls[c].fed /\ calls[c].whole
    /\ adapter.cache # None
    => adapter.cache.kv =
         Own(c, calls[c].prompt + (IF calls[c].sampled > 0 THEN calls[c].sampled - 1 ELSE 0))

(* An engine that misses tokens of its layer is never silent about it, and *)
(* an error is never reported for engines that hold them all; no head of   *)
(* an engine misses a token the engine counts.                             *)
GapIsReported ==
  LET c == adapter.cache IN
  c # None =>
    /\ c.error <=> \E l \in DOMAIN c.engines : c.engines[l].pos < Len(c.kv[l])
    /\ \A l \in DOMAIN c.engines, h \in KVHeads : c.engines[l].pos <= c.engines[l].held[h]
=============================================================================
