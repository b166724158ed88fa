----------------------------- MODULE LlamaSession -----------------------------
(***************************************************************************)
(* The generations of AdapterSession on either of two adapters: the        *)
(* Transformers one, as there, or LlamaCppPythonAdapter                    *)
(* (adaptq/runtime_py/backends/llama_cpp_python.py), under the same        *)
(* drivers.  An adapter is chosen once.                                    *)
(*                                                                         *)
(* The llama-cpp-python adapter keeps the cache in the model: a context of *)
(* tokens, and the logits of its last evaluation, which resetting the      *)
(* context does not erase.  It evaluates a token as soon as it is sampled. *)
(* Its engines are reset and never fed: no state of theirs is modelled.    *)
(***************************************************************************)
EXTENDS AdapterSession

VARIABLES
  backend,  \* the adapter in use
  llama     \* the fields of the llama-cpp-python adapter and of its model

session_vars == <<adapter, calls, running, backend, llama>>

(* ctx, logits: of the model.  prompt: len(_prompt_tokens).  generated:    *)
(* _generated_ids.  done: _done.  stat: the tokens _kv_bytes_fp16 is for.  *)
(* meta: the metadata load() found tells the layers, heads and dimension.  *)
LlamaState == [ctx : Seq(Tok), logits : KV \cup {None}, prompt : 0 .. MaxPrompt,
               generated : Seq(Tok), done : BOOLEAN, stat : Nat, meta : BOOLEAN]

SessionInit ==
  /\ Init
  /\ backend \in {"transformers", "llama_cpp_python"}
  /\ \E meta \in BOOLEAN :
       llama = [ctx |-> <<>>, logits |-> None, prompt |-> 0, generated |-> <<>>,
                done |-> FALSE, stat |-> 0, meta |-> meta]

(* Logits are the tokens they depend on, in every layer. *)
LogitsOf(ctx) == [l \in Layer |-> ctx]

(* A successful evaluation of toks after ctx. *)
Evaluated(fields, ctx, toks) ==
  [fields EXCEPT !.ctx = ctx \o toks, !.logits = LogitsOf(ctx \o toks)]

-----------------------------------------------------------------------------

(* Faulty: the end of the last session is remembered. *)
BegunStillDone == [llama EXCEPT !.prompt = 0, !.generated = <<>>]

(* begin_session clears the session's fields; neither the context of the   *)
(* model nor the byte counts are among them.                               *)
Begun == [llama EXCEPT !.prompt = 0, !.generated = <<>>, !.done = FALSE]

(* The tokenizer adds a token of its own: no prompt is empty. *)
llama_begin_session(c, kind, prompt) ==
  /\ running = None /\ calls[c].pc = "unused" /\ prompt > 0
  /\ llama' = Begun
  /\ calls' = [Overtaken(calls) EXCEPT
                 ![c] = [Unused EXCEPT !.pc = "begun", !.kind = kind, !.prompt = prompt]]
  /\ running' = c
  /\ UNCHANGED adapter

(* Faulty: the context is not reset. *)
llama_prefill_on_top(c) ==
  /\ running = c /\ calls[c].pc = "begun"
  /\ llama' = [Evaluated(llama, llama.ctx, Toks(c, 1, calls[c].prompt))
                 EXCEPT !.prompt = calls[c].prompt]
  /\ SetCall(c, [calls[c] EXCEPT !.pc = "decode", !.fed = TRUE])
  /\ UNCHANGED <<adapter, running>>

(* prefill resets the context and evaluates the prompt in one go. *)
llama_prefill(c) ==
  /\ running = c /\ calls[c].pc = "begun"
  /\ llama' = [Evaluated(llama, <<>>, Toks(c, 1, calls[c].prompt))
                 EXCEPT !.prompt = calls[c].prompt]
  /\ SetCall(c, [calls[c] EXCEPT !.pc = "decode", !.fed = TRUE])
  /\ UNCHANGED <<adapter, running>>

(* The evaluation raises after some of the prompt, or before any of it:    *)
(* then the logits are still those of the session before.                  *)
llama_prefill_fails(c) ==
  /\ running = c /\ calls[c].pc = "begun"
  /\ \E upto \in 0 .. calls[c].prompt - 1 :
       llama' = [(IF upto = 0 THEN [llama EXCEPT !.ctx = <<>>]
                  ELSE Evaluated(llama, <<>>, Toks(c, 1, upto)))
                   EXCEPT !.prompt = calls[c].prompt]
  /\ SetCall(c, [calls[c] EXCEPT !.pc = AfterPrefillFailure(calls[c].kind), !.whole = FALSE])
  /\ UNCHANGED <<adapter, running>>

LlamaCanDecode(c) == MayDecode(c) /\ calls[c].sampled < MaxNew /\ ~llama.done

(* The driver stops: its call got None. *)
LlamaStop(c, whole) ==
  /\ SetCall(c, [calls[c] EXCEPT !.pc = "closing", !.whole = @ /\ whole])
  /\ running' = c
  /\ UNCHANGED adapter

(* Faulty: a failure leaves the counts as they are. *)
TrackedStale(fields) ==
  {fields} \cup
  (IF fields.meta THEN {[fields EXCEPT !.stat = fields.prompt + Len(fields.generated)]} ELSE {})

(* _update_adaptq_tracking: save_state may raise, which zeroes the counts; *)
(* without metadata they stay as they are.                                 *)
Tracked(fields) ==
  {[fields EXCEPT !.stat = 0],
   IF fields.meta THEN [fields EXCEPT !.stat = fields.prompt + Len(fields.generated)]
   ELSE fields}

(* Sampled from the logits at hand, evaluated, counted and returned. *)
llama_decode_next(c) ==
  /\ LlamaCanDecode(c)
  /\ LET tok == [call |-> c, n |-> calls[c].prompt + calls[c].sampled + 1]
     IN llama' \in Tracked([Evaluated(llama, llama.ctx, <<tok>>)
                              EXCEPT !.generated = Append(@, tok)])
  /\ calls' = [Overtaken(calls) EXCEPT
                 ![c] = [calls[c] EXCEPT !.sampled = @ + 1, !.seen = llama.logits]]
  /\ running' = IF calls[c].kind = "stream" THEN None ELSE c
  /\ UNCHANGED adapter

(* The end of the sequence is the adapter's, not the call's. *)
llama_decode_eos(c) ==
  /\ LlamaCanDecode(c)
  /\ llama' = [llama EXCEPT !.done = TRUE]
  /\ calls' = [Overtaken(calls) EXCEPT ![c] = [calls[c] EXCEPT !.pc = "closing"]]
  /\ running' = c
  /\ UNCHANGED adapter

(* The evaluation of the token raises: it is dropped. *)
llama_decode_fails(c) == LlamaCanDecode(c) /\ LlamaStop(c, FALSE) /\ UNCHANGED llama

(* The limit is reached, or some call met the end of its sequence. *)
llama_decode_limit(c) ==
  /\ MayDecode(c)
  /\ calls[c].sampled = MaxNew \/ llama.done
  /\ LlamaStop(c, TRUE)
  /\ UNCHANGED llama

llama_clear_kv_cache ==
  /\ running = None /\ llama.ctx # <<>>
  /\ llama' = [llama EXCEPT !.ctx = <<>>]
  /\ calls' = Overtaken(calls)
  /\ UNCHANGED <<adapter, running>>

LlamaNext ==
  \/ \E c \in Call, kind \in {"generate", "stream"}, prompt \in 1 .. MaxPrompt :
       llama_begin_session(c, kind, prompt)
  \/ \E c \in Call :
       \/ llama_prefill(c) \/ llama_prefill_fails(c)
       \/ llama_decode_next(c) \/ llama_decode_eos(c)
       \/ llama_decode_fails(c) \/ llama_decode_limit(c)
       \/ (end_session(c) \/ close(c)) /\ UNCHANGED llama
  \/ llama_clear_kv_cache

SessionNext ==
  \/ backend = "transformers" /\ Next /\ UNCHANGED <<backend, llama>>
  \/ backend = "llama_cpp_python" /\ LlamaNext /\ UNCHANGED backend

SessionSpec == SessionInit /\ [][SessionNext]_session_vars

-----------------------------------------------------------------------------

(* As CacheIsTranscript, for the context of the model: it holds the last   *)
(* token returned as well, and the logits the next one will be sampled     *)
(* from are of all of it.  A call that failed half-way has stopped.        *)
LlamaCacheIsTranscript ==
  \A c \in Call :
    /\ backend = "llama_cpp_python"
    /\ calls[c].pc = "decode" /\ calls[c].alone /\ calls[c].fed
    => /\ llama.ctx = Toks(c, 1, calls[c].prompt + calls[c].sampled)
       /\ llama.logits = LogitsOf(llama.ctx)

(* The byte counts a call alone with the adapter reports, once it has      *)
(* returned a token, are of its own tokens, all of them, or zero, when the *)
(* state could not be read or there is no metadata; they are never of      *)
(* fewer tokens or of another session, although the counts outlive a       *)
(* session and begin_session leaves them alone.  The number of tokens      *)
(* reported next to them is the call's own.                                *)
StatsAreOwn ==
  \A c \in Call :
    /\ backend = "llama_cpp_python"
    /\ calls[c].pc \in {"decode", "closing"} /\ calls[c].alone /\ calls[c].sampled > 0
    => /\ llama.stat \in {0, calls[c].prompt + calls[c].sampled}
       /\ ~llama.meta => llama.stat = 0
       /\ llama.prompt + Len(llama.generated) = calls[c].prompt + calls[c].sampled

(* The end of the sequence one call met does not cut another short that    *)
(* has the adapter to itself.                                              *)
NotCutShort ==
  \A c \in Call :
    backend = "llama_cpp_python" /\ calls[c].pc = "decode" /\ calls[c].alone => ~llama.done
=============================================================================
