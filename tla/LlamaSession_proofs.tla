------------------------- MODULE LlamaSession_proofs -------------------------
(***************************************************************************)
(* Proofs about the generations on either adapter, for any number of       *)
(* calls, prompt and answer length, model shape, failure of the model or   *)
(* of an engine, and order in which streams are resumed.                   *)
(*                                                                         *)
(* The argument: a call that has begun has control, and no other open call *)
(* is alone with the adapter (Begins); hence whatever a session left in    *)
(* the fields or in the model, those of a call that is alone are what its  *)
(* own steps made of them (InStep for llama-cpp-python, Transcripts for    *)
(* Transformers).  A forward pass is a fold over the layers: what it makes *)
(* of a cache is shown by induction on them (ForwardValue).                *)
(***************************************************************************)
EXTENDS LlamaSession, Facts, SequenceTheorems, TLAPS

-----------------------------------------------------------------------------
(* Tokens of a call. *)

LEMMA ToksValue ==
  ASSUME NEW c \in Call, NEW n \in 0 .. MaxPrompt + MaxNew
  PROVE  /\ Toks(c, 1, n) \in Seq(Tok)
         /\ Len(Toks(c, 1, n)) = n
         /\ \A i \in 1 .. n : Toks(c, 1, n)[i] = [call |-> c, n |-> i]
<1> DEFINE f == [i \in 1 .. n |-> [call |-> c, n |-> i]]
<1>1. n \in Nat
  BY LimitAssumption
<1>2. Toks(c, 1, n) = f
  <2>1. n - 1 + 1 = n /\ \A i \in 1 .. n : 1 + i - 1 = i
    BY <1>1
  <2> QED
    BY <2>1 DEF Toks
<1>3. f \in [1 .. n -> Tok]
  BY LimitAssumption DEF Tok
<1>4. \A i \in 1 .. n : f[i] = [call |-> c, n |-> i]
  OBVIOUS
<1> HIDE DEF f
<1>5. f \in Seq(Tok)
  BY <1>1, <1>3, SeqDef
<1>6. Len(f) = n
  BY <1>1, <1>3, <1>5, LenProperties
<1> QED
  BY <1>2, <1>4, <1>5, <1>6

(* The next token of a call makes the next of its transcripts. *)
LEMMA ToksNext ==
  ASSUME NEW c \in Call, NEW n \in 0 .. MaxPrompt + MaxNew - 1
  PROVE  Toks(c, 1, n) \o << [call |-> c, n |-> n + 1] >> = Toks(c, 1, n + 1)
<1> DEFINE e == [call |-> c, n |-> n + 1]
           s == Toks(c, 1, n)
           t == Toks(c, 1, n + 1)
<1>1. n \in 0 .. MaxPrompt + MaxNew /\ n + 1 \in 0 .. MaxPrompt + MaxNew /\ n \in Nat
  BY LimitAssumption
<1>2. s \in Seq(Tok) /\ Len(s) = n /\ \A i \in 1 .. n : s[i] = [call |-> c, n |-> i]
  BY <1>1, ToksValue
<1>3. t \in Seq(Tok) /\ Len(t) = n + 1 /\ \A i \in 1 .. n + 1 : t[i] = [call |-> c, n |-> i]
  BY <1>1, ToksValue
<1>4. e \in Tok
  BY <1>1, LimitAssumption DEF Tok
<1>5. <<e>> \in Seq(Tok) /\ Len(<<e>>) = 1 /\ <<e>>[1] = e
  BY <1>4
<1> DEFINE u == <<e>>
<1>6. u \in Seq(Tok) /\ Len(u) = 1 /\ u[1] = [call |-> c, n |-> n + 1]
  BY <1>5
<1> HIDE DEF e, s, t, u
<1>7. /\ s \o u \in Seq(Tok) /\ Len(s \o u) = n + 1
      /\ \A i \in 1 .. n + 1 : (s \o u)[i] = IF i <= n THEN s[i] ELSE u[i - n]
  <2>1. /\ s \o u \in Seq(Tok) /\ Len(s \o u) = Len(s) + Len(u)
        /\ \A i \in 1 .. Len(s) + Len(u) :
             (s \o u)[i] = IF i <= Len(s) THEN s[i] ELSE u[i - Len(s)]
    BY <1>2, <1>6, ConcatProperties
  <2> QED
    BY <1>2, <1>6, <2>1
<1>8. ASSUME NEW i \in 1 .. n + 1
      PROVE  (s \o u)[i] = t[i]
  <2>1. CASE i <= n
    BY <1>1, <1>2, <1>3, <1>7, <2>1
  <2>2. CASE i = n + 1
    <3>1. i - n = 1 /\ ~(i <= n)
      BY <1>1, <2>2
    <3> QED
      BY <1>3, <1>6, <1>7, <2>2, <3>1
  <2>3. i <= n \/ i = n + 1
    BY <1>1
  <2> QED
    BY <2>1, <2>2, <2>3
<1>9. s \o u = t
  BY <1>3, <1>7, <1>8, SeqEqual
<1> QED
  BY <1>9 DEF s, t, u, e

-----------------------------------------------------------------------------
(* The invariant. *)

Typed ==
  /\ calls \in [Call -> CallState]
  /\ running \in Call \cup {None}
  /\ llama \in LlamaState
  /\ ~llama.meta => llama.stat = 0

Lone(c) == IsOpen(c) /\ calls[c].alone

(* A call that has begun has control, and the adapter to itself. *)
Begins ==
  \A c \in Call : calls[c].pc = "begun" =>
    /\ running = c
    /\ calls[c].sampled = 0 /\ ~calls[c].fed
    /\ \A d \in Call : Lone(d) => d = c

(* The fields of the adapter and of the model are those of a call that is  *)
(* alone.                                                                  *)
OwnFields(c) ==
  /\ calls[c].pc # "closing" => ~llama.done
  /\ Len(llama.generated) = calls[c].sampled
  /\ calls[c].pc # "begun" => llama.prompt = calls[c].prompt
  /\ calls[c].sampled > 0 => llama.stat \in {0, calls[c].prompt + calls[c].sampled}
  /\ calls[c].pc = "decode" /\ calls[c].fed =>
       /\ llama.ctx = Toks(c, 1, calls[c].prompt + calls[c].sampled)
       /\ llama.logits = LogitsOf(llama.ctx)

InStep == \A c \in Call : Lone(c) => OwnFields(c)

LlamaInv == Typed /\ Begins /\ InStep

(* What the engines of a cache say of themselves. *)
NoSilentGap(cache) ==
  /\ cache.error <=> \E l \in DOMAIN cache.engines : cache.engines[l].pos < Len(cache.kv[l])
  /\ \A l \in DOMAIN cache.engines : cache.engines[l].pos <= Len(cache.kv[l])
  /\ \A l \in DOMAIN cache.engines, h \in KVHeads : cache.engines[l].pos <= cache.engines[l].held[h]

AdapterInv ==
  /\ adapter \in AdapterState
  /\ adapter.cache # None => NoSilentGap(adapter.cache)

(* A call that has begun finds what begin_session made. *)
Fresh ==
  \A c \in Call : calls[c].pc = "begun" =>
    /\ adapter.cache \in Cache /\ NoSilentGap(adapter.cache)
    /\ adapter.cache.kv = Own(c, 0)
    /\ adapter.generated = <<>>

(* The tokens of call c a cache holds: all but the last it returned. *)
Fed(c) == calls[c].prompt + (IF calls[c].sampled > 0 THEN calls[c].sampled - 1 ELSE 0)

(* The fields of the Transformers adapter are those of a call alone. *)
OwnCache(c) ==
  /\ Len(adapter.generated) = calls[c].sampled
  /\ calls[c].sampled > 0 =>
       adapter.generated[calls[c].sampled]
         = [call |-> c, n |-> calls[c].prompt + calls[c].sampled]
  /\ calls[c].pc = "decode" /\ calls[c].fed =>
       /\ adapter.cache \in Cache /\ adapter.cache.kv = Own(c, Fed(c))
       /\ calls[c].sampled = 0 => adapter.last_logits = Own(c, Fed(c))

Transcripts == \A c \in Call : Lone(c) => OwnCache(c)

(* OwnContext, and what keeps a generate from answering without a prefill. *)
Answered ==
  /\ OwnContext
  /\ \A c \in Call :
       calls[c].pc = "decode" /\ calls[c].kind = "generate" /\ calls[c].prompt > 0
       => calls[c].fed

TransformersInv == Typed /\ Begins /\ Answered /\ AdapterInv /\ Fresh /\ Transcripts

SessionInv ==
  /\ Typed /\ Begins /\ Answered /\ AdapterInv
  /\ backend \in {"transformers", "llama_cpp_python"}
  /\ backend = "llama_cpp_python" => InStep /\ adapter.cache = None
  /\ backend = "transformers" => Fresh /\ Transcripts

-----------------------------------------------------------------------------
(* What the steps do to the calls and to the fields. *)

(* A step of call c that overtakes the others leaves none of them alone. *)
LEMMA Overtakes ==
  ASSUME Typed, NEW c \in Call, NEW r \in CallState,
         calls' = [Overtaken(calls) EXCEPT ![c] = r]
  PROVE  /\ calls' \in [Call -> CallState] /\ calls'[c] = r
         /\ \A d \in Call : d # c => ~Lone(d)' /\ calls'[d].pc = calls[d].pc
<1>1. ASSUME NEW d \in Call
      PROVE  /\ Overtaken(calls)[d] \in CallState
             /\ Overtaken(calls)[d].pc = calls[d].pc
             /\ IsOpen(d) => ~Overtaken(calls)[d].alone
  BY DEF Typed, Overtaken, CallState, IsOpen
<1>2. Overtaken(calls) \in [Call -> CallState]
  <2>1. Overtaken(calls) = [d \in Call |-> Overtaken(calls)[d]]
    BY DEF Overtaken
  <2> QED
    BY <1>1, <2>1
<1>3. calls' \in [Call -> CallState] /\ calls'[c] = r
      /\ \A d \in Call : d # c => calls'[d] = Overtaken(calls)[d]
  BY <1>2
<1> QED
  BY <1>1, <1>3 DEF Lone, IsOpen

(* Overtaken by all, no call is alone. *)
LEMMA OvertakesAll ==
  ASSUME calls \in [Call -> CallState], calls' = Overtaken(calls)
  PROVE  \A d \in Call :
           calls'[d] \in CallState /\ calls'[d].pc = calls[d].pc /\ ~Lone(d)'
<1> TAKE d \in Call
<1> DEFINE s == calls[d]
           b == s.alone /\ ~IsOpen(d)
<1>1. s \in CallState /\ b \in BOOLEAN
  BY DEF CallState
<1>2. calls'[d] = [s EXCEPT !.alone = b]
  BY DEF Overtaken
<1>3. IsOpen(d)' <=> calls'[d].pc \in {"begun", "decode", "closing"}
  BY DEF IsOpen
<1>4. b => ~(s.pc \in {"begun", "decode", "closing"})
  BY DEF IsOpen
<1> HIDE DEF s, b
<1>5. calls'[d] \in CallState /\ calls'[d].pc = s.pc /\ calls'[d].alone = b
  BY <1>1, <1>2 DEF CallState
<1>6. ~Lone(d)'
  BY <1>3, <1>4, <1>5 DEF Lone
<1> QED
  BY <1>5, <1>6 DEF s

LEMMA SetsCall ==
  ASSUME Typed, NEW c \in Call, NEW r \in CallState, SetCall(c, r)
  PROVE  /\ calls' \in [Call -> CallState] /\ calls'[c] = r
         /\ \A d \in Call : d # c => calls'[d] = calls[d]
  BY DEF Typed, SetCall

LEMMA EvaluatedValue ==
  ASSUME NEW f \in LlamaState, NEW ctx \in Seq(Tok), NEW toks \in Seq(Tok)
  PROVE  /\ Evaluated(f, ctx, toks) \in LlamaState
         /\ Evaluated(f, ctx, toks).ctx = ctx \o toks
         /\ Evaluated(f, ctx, toks).logits = LogitsOf(ctx \o toks)
         /\ Evaluated(f, ctx, toks).prompt = f.prompt
         /\ Evaluated(f, ctx, toks).generated = f.generated
         /\ Evaluated(f, ctx, toks).done = f.done
         /\ Evaluated(f, ctx, toks).stat = f.stat
         /\ Evaluated(f, ctx, toks).meta = f.meta
<1>1. ctx \o toks \in Seq(Tok)
  BY ConcatProperties
<1> DEFINE x == ctx \o toks
<1> HIDE DEF x
<1>2. LogitsOf(x) \in KV
  BY <1>1 DEF x, LogitsOf, KV
<1> QED
  BY <1>1, <1>2 DEF x, Evaluated, LlamaState

(* No call has begun while another may decode, or while none has control. *)
LEMMA NoneBegun ==
  ASSUME Typed, Begins, running = None \/ \E c \in Call : MayDecode(c)
  PROVE  \A d \in Call : calls[d].pc # "begun"
  BY NoneAssumption DEF Begins, MayDecode

-----------------------------------------------------------------------------
(* The steps on the llama-cpp-python adapter. *)

LEMMA BeginStep ==
  ASSUME LlamaInv, NEW c \in Call, NEW kind \in {"generate", "stream"},
         NEW prompt \in 1 .. MaxPrompt, llama_begin_session(c, kind, prompt)
  PROVE  LlamaInv'
<1> DEFINE r == [Unused EXCEPT !.pc = "begun", !.kind = kind, !.prompt = prompt]
<1>1. Typed /\ Begins
  BY DEF LlamaInv
<1>2. /\ running = None /\ running' = c
      /\ llama' = [llama EXCEPT !.prompt = 0, !.generated = <<>>, !.done = FALSE]
      /\ calls' = [Overtaken(calls) EXCEPT ![c] = r]
  BY DEF llama_begin_session, Begun
<1>3. /\ r \in CallState
      /\ r.pc = "begun" /\ r.sampled = 0 /\ r.fed = FALSE
  <2>1. /\ 0 \in 0 .. MaxPrompt /\ prompt \in 0 .. MaxPrompt /\ 0 \in 0 .. MaxNew
    BY LimitAssumption
  <2>2. Unused \in CallState /\ Unused.sampled = 0 /\ Unused.fed = FALSE
    BY <2>1 DEF CallState, Unused
  <2> QED
    BY <2>1, <2>2 DEF CallState
<1> HIDE DEF r
<1>4. /\ calls' \in [Call -> CallState] /\ calls'[c] = r
      /\ \A d \in Call : d # c => ~Lone(d)' /\ calls'[d].pc = calls[d].pc
  BY <1>1, <1>2, <1>3, Overtakes
<1>5. /\ llama' \in LlamaState /\ ~llama'.done /\ llama'.generated = <<>>
      /\ llama'.stat = llama.stat /\ llama'.meta = llama.meta
  <2>1. llama \in LlamaState /\ 0 \in 0 .. MaxPrompt /\ <<>> \in Seq(Tok)
    BY <1>1, LimitAssumption DEF Typed
  <2> QED
    BY <1>2, <2>1 DEF LlamaState
<1>6. Typed'
  BY <1>1, <1>2, <1>4, <1>5 DEF Typed
<1>7. Begins'
  BY <1>1, <1>2, <1>3, <1>4, NoneBegun DEF Begins, Lone
<1>8. InStep'
  <2>1. OwnFields(c)'
    BY <1>3, <1>4, <1>5 DEF OwnFields
  <2> QED
    BY <1>4, <2>1 DEF InStep
<1> QED
  BY <1>6, <1>7, <1>8 DEF LlamaInv

(* What both outcomes of a prefill have in common. *)
LEMMA PrefillStep ==
  ASSUME LlamaInv, NEW c \in Call, running = c, calls[c].pc = "begun", running' = running,
         NEW r \in CallState, SetCall(c, r),
         r.pc \in {"decode", "closing"}, r.sampled = 0, r.prompt = calls[c].prompt,
         r.alone = calls[c].alone,
         llama' \in LlamaState, llama'.done = llama.done,
         llama'.generated = llama.generated, llama'.prompt = calls[c].prompt,
         llama'.stat = llama.stat, llama'.meta = llama.meta,
         r.fed => /\ llama'.ctx = Toks(c, 1, calls[c].prompt)
                  /\ llama'.logits = LogitsOf(llama'.ctx)
  PROVE  LlamaInv'
<1>1. Typed /\ Begins /\ InStep
  BY DEF LlamaInv
<1>2. /\ calls' \in [Call -> CallState] /\ calls'[c] = r
      /\ \A d \in Call : d # c => calls'[d] = calls[d]
  BY <1>1, SetsCall
<1>3. Typed'
  BY <1>1, <1>2 DEF Typed
<1>4. Begins'
  BY <1>1, <1>2 DEF Begins
<1>5. calls[c].sampled = 0 /\ calls[c].prompt \in Nat
  BY <1>1 DEF Begins, Typed, CallState
<1>6. ASSUME NEW d \in Call, Lone(d)'
      PROVE  OwnFields(d)'
  <2>1. d = c
    BY <1>1, <1>2, <1>6 DEF Begins, Lone, IsOpen
  <2>2. OwnFields(c)
    BY <1>1, <1>2, <1>6, <2>1 DEF InStep, Lone, IsOpen
  <2>3. calls[c].prompt + 0 = calls[c].prompt
    BY <1>5
  <2> QED
    BY <1>2, <1>5, <2>1, <2>2, <2>3 DEF OwnFields
<1> QED
  BY <1>3, <1>4, <1>6 DEF LlamaInv, InStep

LEMMA PrefillSucceeds ==
  ASSUME LlamaInv, NEW c \in Call, llama_prefill(c)
  PROVE  LlamaInv'
<1> DEFINE r == [calls[c] EXCEPT !.pc = "decode", !.fed = TRUE]
           n == calls[c].prompt
           e == Evaluated(llama, <<>>, Toks(c, 1, n))
<1>1. Typed /\ Begins
  BY DEF LlamaInv
<1>2. /\ running = c /\ calls[c].pc = "begun" /\ running' = running /\ SetCall(c, r)
      /\ llama' = [e EXCEPT !.prompt = n]
  BY DEF llama_prefill
<1>3. /\ calls[c] \in CallState /\ n \in 0 .. MaxPrompt /\ llama \in LlamaState
  BY <1>1 DEF Typed, CallState
<1>4. /\ r \in CallState /\ r.pc = "decode" /\ r.sampled = 0 /\ r.prompt = n
      /\ r.alone = calls[c].alone
  BY <1>1, <1>2, <1>3 DEF CallState, Begins
<1>5. Toks(c, 1, n) \in Seq(Tok) /\ <<>> \o Toks(c, 1, n) = Toks(c, 1, n)
  <2>1. n \in 0 .. MaxPrompt + MaxNew
    BY <1>3, LimitAssumption
  <2>2. Toks(c, 1, n) \in Seq(Tok)
    BY <2>1, ToksValue
  <2> QED
    BY <2>2, ConcatEmptySeq
<1>6. /\ e \in LlamaState
      /\ e.ctx = Toks(c, 1, n) /\ e.logits = LogitsOf(Toks(c, 1, n))
      /\ e.generated = llama.generated /\ e.done = llama.done
      /\ e.stat = llama.stat /\ e.meta = llama.meta
  <2> DEFINE x == Toks(c, 1, n)
  <2>1. <<>> \in Seq(Tok) /\ x \in Seq(Tok) /\ <<>> \o x = x /\ llama \in LlamaState
    BY <1>3, <1>5
  <2>2. e = Evaluated(llama, <<>>, x)
    OBVIOUS
  <2> HIDE DEF x, e
  <2>3. /\ e \in LlamaState
        /\ e.ctx = <<>> \o x /\ e.logits = LogitsOf(<<>> \o x)
        /\ e.generated = llama.generated /\ e.done = llama.done
        /\ e.stat = llama.stat /\ e.meta = llama.meta
    BY <2>1, <2>2, EvaluatedValue
  <2>4. e.ctx = x /\ e.logits = LogitsOf(x)
    BY <2>1, <2>3
  <2> QED
    BY <2>3, <2>4 DEF x
<1> HIDE DEF e
<1>7. /\ llama' \in LlamaState /\ llama'.done = llama.done
      /\ llama'.generated = llama.generated /\ llama'.prompt = n
      /\ llama'.stat = llama.stat /\ llama'.meta = llama.meta
      /\ llama'.ctx = Toks(c, 1, n) /\ llama'.logits = LogitsOf(llama'.ctx)
  BY <1>2, <1>3, <1>6 DEF LlamaState
<1> HIDE DEF r
<1> QED
  BY <1>2, <1>4, <1>7, PrefillStep

LEMMA PrefillFails ==
  ASSUME LlamaInv, NEW c \in Call, llama_prefill_fails(c)
  PROVE  LlamaInv'
<1> DEFINE r == [calls[c] EXCEPT !.pc = AfterPrefillFailure(calls[c].kind), !.whole = FALSE]
           n == calls[c].prompt
           f(m) == IF m = 0 THEN [llama EXCEPT !.ctx = <<>>]
                   ELSE Evaluated(llama, <<>>, Toks(c, 1, m))
<1>1. Typed /\ Begins
  BY DEF LlamaInv
<1>2. /\ running = c /\ calls[c].pc = "begun" /\ running' = running /\ SetCall(c, r)
  BY DEF llama_prefill_fails
<1>3. PICK m \in 0 .. n - 1 : llama' = [f(m) EXCEPT !.prompt = n]
  BY DEF llama_prefill_fails
<1>4. calls[c] \in CallState /\ n \in 0 .. MaxPrompt /\ llama \in LlamaState
  BY <1>1 DEF Typed, CallState
<1>5. /\ r \in CallState /\ r.pc \in {"decode", "closing"} /\ r.sampled = 0 /\ r.prompt = n
      /\ r.alone = calls[c].alone /\ ~r.fed
  BY <1>1, <1>2, <1>4 DEF CallState, Begins, AfterPrefillFailure
<1>6. /\ f(m) \in LlamaState
      /\ f(m).generated = llama.generated /\ f(m).done = llama.done
      /\ f(m).stat = llama.stat /\ f(m).meta = llama.meta
  <2>1. <<>> \in Seq(Tok)
    OBVIOUS
  <2>2. CASE m = 0
    BY <1>4, <2>1, <2>2 DEF LlamaState
  <2>3. CASE m # 0
    <3>1. m \in 0 .. MaxPrompt + MaxNew
      BY <1>3, <1>4, LimitAssumption
    <3>2. Toks(c, 1, m) \in Seq(Tok)
      BY <3>1, ToksValue
    <3>3. f(m) = Evaluated(llama, <<>>, Toks(c, 1, m))
      BY <2>3
    <3> DEFINE x == Toks(c, 1, m)
               g == f(m)
    <3>4. x \in Seq(Tok) /\ g = Evaluated(llama, <<>>, x)
      BY <3>2, <3>3
    <3> HIDE DEF x, g, f
    <3>5. /\ g \in LlamaState
          /\ g.generated = llama.generated /\ g.done = llama.done
          /\ g.stat = llama.stat /\ g.meta = llama.meta
      BY <1>4, <2>1, <3>4, EvaluatedValue
    <3> QED
      BY <3>5 DEF g
  <2> QED
    BY <2>2, <2>3
<1> DEFINE e == f(m)
<1>7. e \in LlamaState /\ e.generated = llama.generated /\ e.done = llama.done
      /\ e.stat = llama.stat /\ e.meta = llama.meta
      /\ llama' = [e EXCEPT !.prompt = n]
  BY <1>3, <1>6
<1> HIDE DEF e, f
<1>8. /\ llama' \in LlamaState /\ llama'.done = llama.done
      /\ llama'.generated = llama.generated /\ llama'.prompt = n
      /\ llama'.stat = llama.stat /\ llama'.meta = llama.meta
  BY <1>4, <1>7 DEF LlamaState
<1> HIDE DEF r
<1> QED
  BY <1>2, <1>5, <1>8, PrefillStep

(* A token is sampled, evaluated, counted and returned. *)
LEMMA DecodeStep ==
  ASSUME LlamaInv, NEW c \in Call, llama_decode_next(c)
  PROVE  LlamaInv'
<1> DEFINE n == calls[c].prompt + calls[c].sampled
           tok == [call |-> c, n |-> n + 1]
           r == [calls[c] EXCEPT !.sampled = @ + 1, !.seen = llama.logits]
           e == Evaluated(llama, llama.ctx, <<tok>>)
           g == [e EXCEPT !.generated = Append(@, tok)]
<1>1. Typed /\ Begins /\ InStep
  BY DEF LlamaInv
<1>2. /\ MayDecode(c) /\ calls[c].sampled < MaxNew /\ ~llama.done
      /\ llama' \in Tracked(g)
      /\ calls' = [Overtaken(calls) EXCEPT ![c] = r]
      /\ running' = IF calls[c].kind = "stream" THEN None ELSE c
  BY DEF llama_decode_next, LlamaCanDecode
<1>3. /\ calls[c] \in CallState /\ llama \in LlamaState
      /\ calls[c].prompt \in 0 .. MaxPrompt /\ calls[c].sampled \in 0 .. MaxNew
      /\ calls[c].pc = "decode"
  BY <1>1, <1>2 DEF Typed, CallState, MayDecode
<1>4. /\ n \in 0 .. MaxPrompt + MaxNew - 1 /\ calls[c].sampled + 1 \in 1 .. MaxNew
      /\ calls[c].prompt + (calls[c].sampled + 1) = n + 1
  <2> DEFINE p == calls[c].prompt
             k == calls[c].sampled
  <2>1. /\ MaxPrompt \in Nat /\ MaxNew \in Nat
        /\ p \in 0 .. MaxPrompt /\ k \in 0 .. MaxNew /\ k < MaxNew
    BY <1>2, <1>3, LimitAssumption
  <2> HIDE DEF p, k
  <2>2. p + k \in 0 .. MaxPrompt + MaxNew - 1 /\ k + 1 \in 1 .. MaxNew /\ p + (k + 1) = (p + k) + 1
    BY <2>1
  <2> QED
    BY <2>2 DEF p, k
<1>5. tok \in Tok /\ <<tok>> \in Seq(Tok)
  <2>1. n + 1 \in 1 .. MaxPrompt + MaxNew
    BY <1>4, LimitAssumption
  <2> QED
    BY <2>1 DEF Tok
<1>6. /\ r \in CallState /\ r.pc = "decode" /\ r.sampled = calls[c].sampled + 1
      /\ r.prompt = calls[c].prompt /\ r.alone = calls[c].alone /\ r.fed = calls[c].fed
  <2>1. calls[c].sampled + 1 \in 0 .. MaxNew /\ llama.logits \in KV \cup {None}
    BY <1>3, <1>4 DEF LlamaState
  <2> QED
    BY <1>3, <2>1 DEF CallState
<1>7. /\ e \in LlamaState
      /\ e.ctx = llama.ctx \o <<tok>> /\ e.logits = LogitsOf(llama.ctx \o <<tok>>)
      /\ e.prompt = llama.prompt /\ e.generated = llama.generated /\ e.done = llama.done
      /\ e.stat = llama.stat /\ e.meta = llama.meta
  <2>1. llama.ctx \in Seq(Tok)
    BY <1>3 DEF LlamaState
  <2> HIDE DEF tok
  <2> QED
    BY <1>3, <1>5, <2>1, EvaluatedValue
<1>8. /\ llama.generated \in Seq(Tok) /\ llama.prompt \in 0 .. MaxPrompt
      /\ Append(llama.generated, tok) \in Seq(Tok)
      /\ Len(Append(llama.generated, tok)) = Len(llama.generated) + 1
  <2>1. llama.generated \in Seq(Tok) /\ llama.prompt \in 0 .. MaxPrompt
    BY <1>3 DEF LlamaState
  <2> HIDE DEF tok
  <2> QED
    BY <1>5, <2>1, AppendProperties
<1> HIDE DEF tok, e
<1>9. /\ g \in LlamaState /\ g.ctx = llama.ctx \o <<tok>> /\ g.logits = LogitsOf(g.ctx)
      /\ g.prompt = llama.prompt /\ g.generated = Append(llama.generated, tok)
      /\ g.done = FALSE /\ g.stat = llama.stat /\ g.meta = llama.meta
  BY <1>2, <1>3, <1>7, <1>8 DEF LlamaState
<1> HIDE DEF g
<1>10. /\ llama' \in LlamaState /\ llama'.ctx = llama.ctx \o <<tok>>
       /\ llama'.logits = LogitsOf(llama'.ctx)
       /\ llama'.prompt = llama.prompt /\ ~llama'.done
       /\ llama'.generated = Append(llama.generated, tok)
       /\ llama'.stat \in {0, llama.prompt + (Len(llama.generated) + 1)}
       /\ ~llama'.meta => llama'.stat = 0
  <2>1. Len(llama.generated) \in Nat /\ llama.prompt \in Nat
    BY <1>8, LenProperties, LimitAssumption
  <2>2. g.prompt + Len(g.generated) = llama.prompt + (Len(llama.generated) + 1)
    BY <1>8, <1>9
  <2>3. llama.prompt + (Len(llama.generated) + 1) \in Nat
    BY <2>1
  <2>4. CASE llama' = [g EXCEPT !.stat = 0]
    BY <1>9, <2>4 DEF LlamaState
  <2>5. CASE g.meta /\ llama' = [g EXCEPT !.stat = g.prompt + Len(g.generated)]
    BY <1>9, <2>2, <2>3, <2>5 DEF LlamaState
  <2>6. CASE ~g.meta /\ llama' = g
    BY <1>1, <1>9, <2>6 DEF Typed
  <2> QED
    BY <1>2, <2>4, <2>5, <2>6 DEF Tracked
<1> HIDE DEF r
<1>11. /\ calls' \in [Call -> CallState] /\ calls'[c] = r
       /\ \A d \in Call : d # c => ~Lone(d)' /\ calls'[d].pc = calls[d].pc
  BY <1>1, <1>2, <1>6, Overtakes
<1>12. Typed'
  BY <1>2, <1>10, <1>11 DEF Typed
<1>13. Begins'
  BY <1>1, <1>2, <1>6, <1>11, NoneBegun DEF Begins
<1>14. ASSUME NEW d \in Call, Lone(d)'
       PROVE  OwnFields(d)'
  <2>1. d = c
    BY <1>11, <1>14
  <2>2. OwnFields(c)
    BY <1>1, <1>3, <1>6, <1>11, <1>14, <2>1 DEF InStep, Lone, IsOpen
  <2>3. /\ Len(llama.generated) = calls[c].sampled /\ llama.prompt = calls[c].prompt
    BY <1>3, <2>2 DEF OwnFields
  <2>4. /\ llama'.stat \in {0, calls[c].prompt + r.sampled}
        /\ Len(llama'.generated) = r.sampled
    BY <1>6, <1>8, <1>10, <2>3
  <2>5. calls[c].fed => llama'.ctx = Toks(c, 1, calls[c].prompt + r.sampled)
    <3>1. SUFFICES ASSUME calls[c].fed
                   PROVE  llama'.ctx = Toks(c, 1, n + 1)
      BY <1>4, <1>6
    <3>2. llama.ctx = Toks(c, 1, n)
      BY <1>3, <2>2, <3>1 DEF OwnFields
    <3>3. Toks(c, 1, n) \o <<tok>> = Toks(c, 1, n + 1)
      <4> HIDE DEF n
      <4> QED
        BY <1>4, ToksNext DEF tok
    <3> QED
      BY <1>10, <3>2, <3>3
  <2> QED
    BY <1>6, <1>10, <1>11, <2>1, <2>3, <2>4, <2>5 DEF OwnFields
<1> QED
  BY <1>12, <1>13, <1>14 DEF LlamaInv, InStep

(* The end of the sequence: the adapter is done, and so is the call. *)
LEMMA EndOfSequenceStep ==
  ASSUME LlamaInv, NEW c \in Call, llama_decode_eos(c)
  PROVE  LlamaInv'
<1> DEFINE r == [calls[c] EXCEPT !.pc = "closing"]
<1>1. Typed /\ Begins /\ InStep
  BY DEF LlamaInv
<1>2. /\ MayDecode(c) /\ llama' = [llama EXCEPT !.done = TRUE] /\ running' = c
      /\ calls' = [Overtaken(calls) EXCEPT ![c] = r]
  BY DEF llama_decode_eos, LlamaCanDecode
<1>3. calls[c] \in CallState /\ llama \in LlamaState /\ calls[c].pc = "decode"
  BY <1>1, <1>2 DEF Typed, MayDecode
<1>4. /\ r \in CallState /\ r.pc = "closing" /\ r.sampled = calls[c].sampled
      /\ r.prompt = calls[c].prompt /\ r.alone = calls[c].alone
  BY <1>3 DEF CallState
<1>5. /\ llama' \in LlamaState /\ llama'.generated = llama.generated
      /\ llama'.prompt = llama.prompt /\ llama'.stat = llama.stat /\ llama'.meta = llama.meta
  BY <1>2, <1>3 DEF LlamaState
<1> HIDE DEF r
<1>6. /\ calls' \in [Call -> CallState] /\ calls'[c] = r
      /\ \A d \in Call : d # c => ~Lone(d)' /\ calls'[d].pc = calls[d].pc
  BY <1>1, <1>2, <1>4, Overtakes
<1>7. Typed'
  BY <1>1, <1>2, <1>5, <1>6 DEF Typed
<1>8. Begins'
  BY <1>1, <1>2, <1>4, <1>6, NoneBegun DEF Begins
<1>9. ASSUME NEW d \in Call, Lone(d)'
      PROVE  OwnFields(d)'
  <2>1. d = c
    BY <1>6, <1>9
  <2>2. OwnFields(c)
    BY <1>1, <1>3, <1>4, <1>6, <1>9, <2>1 DEF InStep, Lone, IsOpen
  <2> QED
    BY <1>3, <1>4, <1>5, <1>6, <2>1, <2>2 DEF OwnFields
<1> QED
  BY <1>7, <1>8, <1>9 DEF LlamaInv, InStep

(* A call ends, or is about to, and leaves the adapter as it is. *)
LEMMA LeaveStep ==
  ASSUME LlamaInv, NEW c \in Call, NEW r \in CallState, SetCall(c, r),
         r.pc \in {"closing", "done"}, r.sampled = calls[c].sampled,
         r.prompt = calls[c].prompt, r.alone = calls[c].alone,
         llama' = llama, running' \in {c, None},
         calls[c].pc \in {"decode", "closing"}, running \in {c, None}
  PROVE  LlamaInv'
<1>1. Typed /\ Begins /\ InStep
  BY DEF LlamaInv
<1>2. /\ calls' \in [Call -> CallState] /\ calls'[c] = r
      /\ \A d \in Call : d # c => calls'[d] = calls[d]
  BY <1>1, SetsCall
<1>3. Typed'
  BY <1>1, <1>2 DEF Typed
<1>4. ASSUME NEW d \in Call
      PROVE  calls[d].pc # "begun" /\ calls'[d].pc # "begun"
  BY <1>1, <1>2, NoneAssumption DEF Begins
<1>5. Begins'
  BY <1>4 DEF Begins
<1>6. ASSUME NEW d \in Call, Lone(d)'
      PROVE  OwnFields(d)'
  <2>1. CASE d # c
    BY <1>1, <1>2, <1>6, <2>1 DEF InStep, OwnFields, Lone, IsOpen
  <2>2. CASE d = c
    <3>1. OwnFields(c)
      BY <1>1, <1>2, <1>6, <2>2 DEF InStep, Lone, IsOpen
    <3>2. calls'[c].pc = "closing"
      BY <1>2, <1>6, <2>2 DEF Lone, IsOpen
    <3> QED
      BY <1>2, <2>2, <3>1, <3>2 DEF OwnFields
  <2> QED
    BY <2>1, <2>2
<1> QED
  BY <1>3, <1>5, <1>6 DEF LlamaInv, InStep

(* The context is cleared between two steps: no open call is alone. *)
LEMMA ClearStep ==
  ASSUME LlamaInv, llama_clear_kv_cache
  PROVE  LlamaInv'
<1>1. Typed /\ Begins
  BY DEF LlamaInv
<1>2. /\ running = None /\ running' = running /\ llama' = [llama EXCEPT !.ctx = <<>>]
      /\ calls' = Overtaken(calls)
  BY DEF llama_clear_kv_cache
<1>3. ASSUME NEW d \in Call
      PROVE  calls'[d] \in CallState /\ calls'[d].pc = calls[d].pc /\ ~Lone(d)'
  BY <1>1, <1>2, OvertakesAll DEF Typed
<1>4. calls' \in [Call -> CallState]
  <2>1. calls' = [d \in Call |-> calls'[d]]
    BY <1>2 DEF Overtaken
  <2> QED
    BY <1>3, <2>1
<1>5. llama' \in LlamaState /\ llama'.stat = llama.stat /\ llama'.meta = llama.meta
  <2>1. llama \in LlamaState /\ <<>> \in Seq(Tok)
    BY <1>1 DEF Typed
  <2> QED
    BY <1>2, <2>1 DEF LlamaState
<1>6. Typed'
  BY <1>1, <1>2, <1>4, <1>5 DEF Typed
<1>7. Begins'
  BY <1>1, <1>2, <1>3, NoneBegun DEF Begins
<1> QED
  BY <1>3, <1>6, <1>7 DEF LlamaInv, InStep

LEMMA LlamaInvStep ==
  ASSUME LlamaInv, LlamaNext
  PROVE  LlamaInv'
<1>1. ASSUME NEW c \in Call, NEW kind \in {"generate", "stream"},
             NEW prompt \in 1 .. MaxPrompt, llama_begin_session(c, kind, prompt)
      PROVE  LlamaInv'
  BY <1>1, BeginStep
<1>2. ASSUME NEW c \in Call, llama_prefill(c)
      PROVE  LlamaInv'
  BY <1>2, PrefillSucceeds
<1>3. ASSUME NEW c \in Call, llama_prefill_fails(c)
      PROVE  LlamaInv'
  BY <1>3, PrefillFails
<1>4. ASSUME NEW c \in Call, llama_decode_next(c)
      PROVE  LlamaInv'
  BY <1>4, DecodeStep
<1>5. ASSUME NEW c \in Call, llama_decode_eos(c)
      PROVE  LlamaInv'
  BY <1>5, EndOfSequenceStep
<1>6. ASSUME NEW c \in Call, NEW whole \in BOOLEAN, MayDecode(c), LlamaStop(c, whole),
             UNCHANGED llama
      PROVE  LlamaInv'
  <2> DEFINE r == [calls[c] EXCEPT !.pc = "closing", !.whole = @ /\ whole]
  <2>1. calls[c] \in CallState
    BY DEF LlamaInv, Typed
  <2>2. /\ r \in CallState /\ r.pc = "closing" /\ r.sampled = calls[c].sampled
        /\ r.prompt = calls[c].prompt /\ r.alone = calls[c].alone
    <3>1. (calls[c].whole /\ whole) \in BOOLEAN
      OBVIOUS
    <3> QED
      BY <2>1, <3>1 DEF CallState
  <2>3. SetCall(c, r) /\ running' = c /\ llama' = llama
    BY <1>6 DEF LlamaStop
  <2>4. calls[c].pc = "decode" /\ running \in {c, None}
    BY <1>6 DEF MayDecode
  <2> HIDE DEF r
  <2> QED
    BY <2>2, <2>3, <2>4, LeaveStep
<1>7. ASSUME NEW c \in Call, llama_decode_fails(c) \/ llama_decode_limit(c)
      PROVE  LlamaInv'
  BY <1>6, <1>7 DEF llama_decode_fails, llama_decode_limit, LlamaCanDecode
<1>8. ASSUME NEW c \in Call, end_session(c) \/ close(c), UNCHANGED llama
      PROVE  LlamaInv'
  <2> DEFINE r == [calls[c] EXCEPT !.pc = "done"]
  <2>1. calls[c] \in CallState
    BY DEF LlamaInv, Typed
  <2>2. /\ r \in CallState /\ r.pc = "done" /\ r.sampled = calls[c].sampled
        /\ r.prompt = calls[c].prompt /\ r.alone = calls[c].alone
    BY <2>1 DEF CallState
  <2>3. /\ SetCall(c, r) /\ running' \in {c, None} /\ running \in {c, None}
        /\ calls[c].pc \in {"decode", "closing"} /\ llama' = llama
    BY <1>8 DEF end_session, close
  <2> HIDE DEF r
  <2> QED
    BY <2>2, <2>3, LeaveStep
<1>9. ASSUME llama_clear_kv_cache
      PROVE  LlamaInv'
  BY <1>9, ClearStep
<1> QED
  BY <1>1, <1>2, <1>3, <1>4, <1>5, <1>7, <1>8, <1>9 DEF LlamaNext

-----------------------------------------------------------------------------
(* What a step of one call does to what the calls have returned. *)

Keeps(d) ==
  /\ calls'[d].kind = calls[d].kind /\ calls'[d].prompt = calls[d].prompt
  /\ calls'[d].sampled = calls[d].sampled /\ calls'[d].seen = calls[d].seen
  /\ calls'[d].fed = calls[d].fed
  /\ calls'[d].alone => calls[d].alone

Changes(c, r) ==
  /\ calls' \in [Call -> CallState] /\ calls'[c] = r
  /\ \A d \in Call : d # c => Keeps(d) /\ calls'[d].pc = calls[d].pc

LEMMA Changed ==
  ASSUME Typed, NEW c \in Call, NEW r \in CallState,
         calls' = [Overtaken(calls) EXCEPT ![c] = r] \/ SetCall(c, r)
  PROVE  Changes(c, r)
<1>1. CASE SetCall(c, r)
  BY <1>1, SetsCall DEF Changes, Keeps
<1>2. CASE calls' = [Overtaken(calls) EXCEPT ![c] = r]
  <2>1. /\ calls' \in [Call -> CallState] /\ calls'[c] = r
        /\ \A d \in Call : d # c => calls'[d].pc = calls[d].pc
    BY <1>2, Overtakes
  <2>2. \A d \in Call : d # c => calls'[d] = [calls[d] EXCEPT !.alone = @ /\ ~IsOpen(d)]
    BY <1>2 DEF Overtaken
  <2>3. ASSUME NEW d \in Call, d # c
        PROVE  Keeps(d)
    <3>1. calls[d] \in CallState
      BY DEF Typed
    <3> QED
      BY <2>2, <2>3, <3>1 DEF Keeps, CallState
  <2> QED
    BY <2>1, <2>3 DEF Changes
<1> QED
  BY <1>1, <1>2

LEMMA AnsweredStep ==
  ASSUME Answered, NEW c \in Call, NEW r, Changes(c, r),
         r.sampled > 0 /\ r.alone /\ (r.fed \/ (r.kind = "generate" /\ r.prompt > 0))
           => r.seen = Own(c, r.prompt + r.sampled - 1),
         r.pc = "decode" /\ r.kind = "generate" /\ r.prompt > 0 => r.fed
  PROVE  Answered'
<1>1. ASSUME NEW d \in Call,
             calls'[d].sampled > 0, calls'[d].alone,
             calls'[d].fed \/ (calls'[d].kind = "generate" /\ calls'[d].prompt > 0)
      PROVE  calls'[d].seen = Own(d, calls'[d].prompt + calls'[d].sampled - 1)
  <2>1. CASE d = c
    BY <1>1, <2>1 DEF Changes
  <2>2. CASE d # c
    <3>1. Keeps(d)
      BY <2>2 DEF Changes
    <3>2. calls[d].seen = Own(d, calls[d].prompt + calls[d].sampled - 1)
      BY <1>1, <3>1 DEF Answered, OwnContext, Keeps
    <3> QED
      BY <3>1, <3>2 DEF Keeps
  <2> QED
    BY <2>1, <2>2
<1>2. OwnContext'
  BY <1>1 DEF OwnContext, Own
<1>3. ASSUME NEW d \in Call,
             calls'[d].pc = "decode", calls'[d].kind = "generate", calls'[d].prompt > 0
      PROVE  calls'[d].fed
  BY <1>3 DEF Answered, Changes, Keeps
<1> QED
  BY <1>2, <1>3 DEF Answered

(* A step at which call c returns nothing. *)
LEMMA AnsweredBySilentStep ==
  ASSUME Answered, NEW c \in Call, NEW r, Changes(c, r),
         \/ r.sampled = 0 
         \/ /\ r.sampled = calls[c].sampled /\ r.seen = calls[c].seen
            /\ r.kind = calls[c].kind /\ r.prompt = calls[c].prompt
            /\ r.alone => calls[c].alone
            /\ r.fed => calls[c].fed,
         r.pc = "decode" /\ r.kind = "generate" /\ r.prompt > 0 => r.fed
  PROVE  Answered'
<1>1. CASE r.sampled = 0
  BY <1>1, AnsweredStep
<1>2. CASE /\ r.sampled = calls[c].sampled /\ r.seen = calls[c].seen
           /\ r.kind = calls[c].kind /\ r.prompt = calls[c].prompt
           /\ r.alone => calls[c].alone
           /\ r.fed => calls[c].fed
  <2>1. r.sampled > 0 /\ r.alone /\ (r.fed \/ (r.kind = "generate" /\ r.prompt > 0))
          => r.seen = Own(c, r.prompt + r.sampled - 1)
    BY <1>2 DEF Answered, OwnContext
  <2> QED
    BY <2>1, AnsweredStep
<1> QED
  BY <1>1, <1>2

LEMMA AnsweredOvertaken ==
  ASSUME Typed, Answered, calls' = Overtaken(calls)
  PROVE  Answered'
<1>1. ASSUME NEW d \in Call
      PROVE  Keeps(d) /\ calls'[d].pc = calls[d].pc
  BY DEF Typed, Overtaken, CallState, Keeps
<1>2. ASSUME NEW d \in Call,
             calls'[d].sampled > 0, calls'[d].alone,
             calls'[d].fed \/ (calls'[d].kind = "generate" /\ calls'[d].prompt > 0)
      PROVE  calls'[d].seen = Own(d, calls'[d].prompt + calls'[d].sampled - 1)
  <2>1. Keeps(d)
    BY <1>1
  <2>2. calls[d].seen = Own(d, calls[d].prompt + calls[d].sampled - 1)
    BY <1>2, <2>1 DEF Answered, OwnContext, Keeps
  <2> QED
    BY <2>1, <2>2 DEF Keeps
<1>3. OwnContext'
  BY <1>2 DEF OwnContext, Own
<1> QED
  BY <1>1, <1>3 DEF Answered, Keeps
-----------------------------------------------------------------------------
(* What the calls have returned on the llama-cpp-python adapter. *)

LEMMA LlamaAnswered ==
  ASSUME LlamaInv, Answered, LlamaNext
  PROVE  Answered'
<1>1. Typed /\ Begins /\ InStep
  BY DEF LlamaInv
<1>2. ASSUME NEW c \in Call
      PROVE  calls[c] \in CallState
  BY <1>1 DEF Typed
<1>3. ASSUME NEW c \in Call, NEW kind \in {"generate", "stream"},
             NEW prompt \in 1 .. MaxPrompt, llama_begin_session(c, kind, prompt)
      PROVE  Answered'
  <2> DEFINE r == [Unused EXCEPT !.pc = "begun", !.kind = kind, !.prompt = prompt]
  <2>1. r \in CallState /\ r.pc = "begun" /\ r.sampled = 0
    <3>1. /\ 0 \in 0 .. MaxPrompt /\ prompt \in 0 .. MaxPrompt /\ 0 \in 0 .. MaxNew
      BY LimitAssumption
    <3>2. Unused \in CallState /\ Unused.sampled = 0
      BY <3>1 DEF CallState, Unused
    <3> QED
      BY <3>1, <3>2 DEF CallState
  <2>2. calls' = [Overtaken(calls) EXCEPT ![c] = r]
    BY <1>3 DEF llama_begin_session
  <2> HIDE DEF r
  <2> QED
    BY <1>1, <2>1, <2>2, Changed, AnsweredBySilentStep
<1>4. ASSUME NEW c \in Call, llama_prefill(c)
      PROVE  Answered'
  <2> DEFINE r == [calls[c] EXCEPT !.pc = "decode", !.fed = TRUE]
  <2>0. calls[c] \in CallState /\ calls[c].sampled = 0 /\ SetCall(c, r)
    BY <1>1, <1>2, <1>4 DEF llama_prefill, Begins
  <2>1. r \in CallState /\ r.sampled = 0 /\ r.fed = TRUE /\ SetCall(c, r)
    BY <2>0 DEF CallState
  <2> HIDE DEF r
  <2> QED
    BY <1>1, <2>1, Changed, AnsweredBySilentStep
<1>5. ASSUME NEW c \in Call, llama_prefill_fails(c)
      PROVE  Answered'
  <2> DEFINE r == [calls[c] EXCEPT !.pc = AfterPrefillFailure(calls[c].kind), !.whole = FALSE]
  <2>1. /\ r \in CallState /\ r.sampled = 0 /\ SetCall(c, r)
        /\ r.kind = "generate" => r.pc # "decode"
    BY <1>1, <1>2, <1>5 DEF llama_prefill_fails, Begins, CallState, AfterPrefillFailure
  <2> HIDE DEF r
  <2> QED
    BY <1>1, <2>1, Changed, AnsweredBySilentStep
<1>6. ASSUME NEW c \in Call, llama_decode_next(c)
      PROVE  Answered'
  <2> DEFINE r == [calls[c] EXCEPT !.sampled = @ + 1, !.seen = llama.logits]
  <2>1. /\ calls[c].pc = "decode" /\ calls[c].sampled < MaxNew
        /\ calls' = [Overtaken(calls) EXCEPT ![c] = r]
    BY <1>6 DEF llama_decode_next, LlamaCanDecode, MayDecode
  <2>2. /\ calls[c].sampled + 1 \in 0 .. MaxNew
        /\ calls[c].prompt + (calls[c].sampled + 1) - 1 = calls[c].prompt + calls[c].sampled
    BY <1>2, <2>1, LimitAssumption DEF CallState
  <2>3. llama.logits \in KV \cup {None}
    BY <1>1 DEF Typed, LlamaState
  <2>4. /\ r \in CallState /\ r.pc = "decode" /\ r.sampled = calls[c].sampled + 1
        /\ r.prompt = calls[c].prompt /\ r.kind = calls[c].kind
        /\ r.alone = calls[c].alone /\ r.fed = calls[c].fed /\ r.seen = llama.logits
    BY <1>2, <2>1, <2>2, <2>3 DEF CallState
  <2> HIDE DEF r
  <2>5. Changes(c, r)
    BY <1>1, <2>1, <2>4, Changed
  <2>6. calls[c].kind = "generate" /\ calls[c].prompt > 0 => calls[c].fed
    BY <2>1 DEF Answered
  <2>7. ASSUME r.alone, r.fed \/ (r.kind = "generate" /\ r.prompt > 0)
        PROVE  r.seen = Own(c, r.prompt + r.sampled - 1)
    <3>1. Lone(c) /\ calls[c].fed
      BY <2>1, <2>4, <2>6, <2>7 DEF Lone, IsOpen
    <3>2. llama.logits = LogitsOf(Toks(c, 1, calls[c].prompt + calls[c].sampled))
      BY <1>1, <2>1, <3>1 DEF InStep, OwnFields
    <3>3. llama.logits = Own(c, calls[c].prompt + calls[c].sampled)
      BY <3>2 DEF LogitsOf, Own
    <3> QED
      BY <2>2, <2>4, <3>3
  <2>8. r.pc = "decode" /\ r.kind = "generate" /\ r.prompt > 0 => r.fed
    BY <2>4, <2>6
  <2> QED
    BY <2>5, <2>7, <2>8, AnsweredStep
<1>7. ASSUME NEW c \in Call, NEW r \in CallState,
             calls' = [Overtaken(calls) EXCEPT ![c] = r] \/ SetCall(c, r),
             r.pc \in {"closing", "done"},
             /\ r.sampled = calls[c].sampled /\ r.seen = calls[c].seen
             /\ r.kind = calls[c].kind /\ r.prompt = calls[c].prompt
             /\ r.alone = calls[c].alone /\ r.fed = calls[c].fed
      PROVE  Answered'
  <2>1. Changes(c, r) /\ r.pc # "decode"
    BY <1>1, <1>7, Changed
  <2> QED
    BY <1>7, <2>1, AnsweredBySilentStep
<1>8. ASSUME NEW c \in Call, llama_decode_eos(c)
      PROVE  Answered'
  <2> DEFINE r == [calls[c] EXCEPT !.pc = "closing"]
  <2>1. /\ r \in CallState /\ r.pc = "closing"
        /\ r.sampled = calls[c].sampled /\ r.seen = calls[c].seen
        /\ r.kind = calls[c].kind /\ r.prompt = calls[c].prompt
        /\ r.alone = calls[c].alone /\ r.fed = calls[c].fed
    BY <1>2 DEF CallState
  <2>2. calls' = [Overtaken(calls) EXCEPT ![c] = r]
    BY <1>8 DEF llama_decode_eos
  <2> HIDE DEF r
  <2> QED
    BY <1>7, <2>1, <2>2
<1>9. ASSUME NEW c \in Call, NEW whole \in BOOLEAN, LlamaStop(c, whole)
      PROVE  Answered'
  <2> DEFINE r == [calls[c] EXCEPT !.pc = "closing", !.whole = @ /\ whole]
  <2>1. /\ r \in CallState /\ r.pc = "closing"
        /\ r.sampled = calls[c].sampled /\ r.seen = calls[c].seen
        /\ r.kind = calls[c].kind /\ r.prompt = calls[c].prompt
        /\ r.alone = calls[c].alone /\ r.fed = calls[c].fed
    <3>1. (calls[c].whole /\ whole) \in BOOLEAN
      OBVIOUS
    <3> QED
      BY <1>2, <3>1 DEF CallState
  <2>2. SetCall(c, r)
    BY <1>9 DEF LlamaStop
  <2> HIDE DEF r
  <2> QED
    BY <1>7, <2>1, <2>2
<1>10. ASSUME NEW c \in Call, llama_decode_fails(c) \/ llama_decode_limit(c)
       PROVE  Answered'
  BY <1>9, <1>10 DEF llama_decode_fails, llama_decode_limit
<1>11. ASSUME NEW c \in Call, end_session(c) \/ close(c)
       PROVE  Answered'
  <2> DEFINE r == [calls[c] EXCEPT !.pc = "done"]
  <2>1. /\ r \in CallState /\ r.pc = "done"
        /\ r.sampled = calls[c].sampled /\ r.seen = calls[c].seen
        /\ r.kind = calls[c].kind /\ r.prompt = calls[c].prompt
        /\ r.alone = calls[c].alone /\ r.fed = calls[c].fed
    BY <1>2 DEF CallState
  <2>2. SetCall(c, r)
    BY <1>11 DEF end_session, close
  <2> HIDE DEF r
  <2> QED
    BY <1>7, <2>1, <2>2
<1>12. ASSUME llama_clear_kv_cache
       PROVE  Answered'
  BY <1>1, <1>12, AnsweredOvertaken DEF llama_clear_kv_cache
<1> QED
  BY <1>3, <1>4, <1>5, <1>6, <1>8, <1>10, <1>11, <1>12 DEF LlamaNext

LEMMA LlamaLeavesAdapter ==
  ASSUME LlamaNext
  PROVE  adapter' = adapter
BY DEF LlamaNext, llama_begin_session, llama_prefill, llama_prefill_fails, llama_decode_next,
       llama_decode_eos, llama_decode_fails, llama_decode_limit, LlamaStop, end_session, close,
       llama_clear_kv_cache

-----------------------------------------------------------------------------
(* A forward pass: what it does to a cache. *)

LEMMA EngineAppendValue ==
  ASSUME NEW e \in EngineState, NEW n \in Nat, NEW heads \in Nat
  PROVE  /\ EngineAppend(e, n, heads) \in EngineState
         /\ EngineAppend(e, n, heads).pos = e.pos + n
         /\ \A h \in KVHeads : EngineAppend(e, n, heads).held[h] >= e.held[h] + n
<1>1. e.pos \in Nat /\ e.held \in [KVHeads -> Nat]
  BY DEF EngineState
<1>2. \A h \in KVHeads : h \in Nat /\ e.held[h] \in Nat
  BY <1>1, ShapeAssumption DEF KVHeads
<1> DEFINE f == [h \in KVHeads |-> IF h <= heads THEN e.held[h] + n + 1 ELSE e.held[h] + n]
<1>3. f \in [KVHeads -> Nat] /\ \A h \in KVHeads : f[h] >= e.held[h] + n
  BY <1>2
<1>4. EngineAppend(e, n, heads) = [pos |-> e.pos + n, held |-> f]
  BY DEF EngineAppend
<1> HIDE DEF f
<1> QED
  BY <1>1, <1>3, <1>4 DEF EngineState

(* What every cache is made of. *)
LEMMA CacheParts ==
  ASSUME NEW cache \in Cache
  PROVE  /\ cache.kv \in KV /\ cache.error \in BOOLEAN /\ cache.n_tokens \in Nat
         /\ \A i \in Layer : cache.kv[i] \in Seq(Tok) /\ Len(cache.kv[i]) \in Nat
         /\ DOMAIN cache.engines \subseteq Layer
         /\ \E native \in BOOLEAN : cache.engines \in [EngineLayers(native) -> EngineState]
<1>1. /\ cache.kv \in KV /\ cache.error \in BOOLEAN /\ cache.n_tokens \in Nat
      /\ cache.engines \in UNION {[EngineLayers(native) -> EngineState] : native \in BOOLEAN}
  BY DEF Cache
<1>2. PICK native \in BOOLEAN : cache.engines \in [EngineLayers(native) -> EngineState]
  BY <1>1
<1>3. EngineLayers(native) \subseteq Layer /\ DOMAIN cache.engines = EngineLayers(native)
  BY <1>2 DEF EngineLayers
<1>4. \A i \in Layer : cache.kv[i] \in Seq(Tok) /\ Len(cache.kv[i]) \in Nat
  BY <1>1, LenProperties DEF KV
<1> QED
  BY <1>1, <1>2, <1>3, <1>4

(* A layer with an engine: its keys grow by the tokens, and its engine by  *)
(* as many or, if it fails, by fewer and with a trace.                     *)
LEMMA UpdateWithEngine ==
  ASSUME NEW cache \in Cache, NEW l \in DOMAIN cache.engines, NEW toks \in Seq(Tok),
         NEW gap \in Gaps(Len(toks))
  PROVE  /\ Update(cache, l, toks, gap) \in Cache
         /\ Update(cache, l, toks, gap).kv = [cache.kv EXCEPT ![l] = @ \o toks]
         /\ NoSilentGap(cache) => NoSilentGap(Update(cache, l, toks, gap))
<1> DEFINE ok == ~gap[l].fails
           n == IF ok THEN Len(toks) ELSE gap[l].whole
           k == IF ok THEN 0 ELSE gap[l].heads
           e == EngineAppend(cache.engines[l], n, k)
           u == Update(cache, l, toks, gap)
           kv == [cache.kv EXCEPT ![l] = @ \o toks]
           engines == [cache.engines EXCEPT ![l] = e]
           D == DOMAIN cache.engines
<1>0. PICK native \in BOOLEAN : cache.engines \in [EngineLayers(native) -> EngineState]
  BY CacheParts
<1>1. /\ cache.kv \in KV /\ cache.engines \in [D -> EngineState]
      /\ cache.error \in BOOLEAN /\ cache.n_tokens \in Nat
      /\ D = DOMAIN cache.engines /\ D = EngineLayers(native)
      /\ D \subseteq Layer /\ l \in D /\ l \in Layer
  BY <1>0, CacheParts
<1>2. Len(toks) \in Nat /\ \A i \in Layer : cache.kv[i] \in Seq(Tok) /\ Len(cache.kv[i]) \in Nat
  BY CacheParts, LenProperties
<1>3. /\ n \in Nat /\ k \in Nat
      /\ ok => n = Len(toks)
      /\ ~ok => n < Len(toks)
  <2>1. gap[l] \in Gap(Len(toks))
    BY <1>1 DEF Gaps
  <2> DEFINE g == gap[l]
  <2>2. g = NoGap \/ g \in [fails : {TRUE}, whole : 0 .. Len(toks) - 1, heads : 0 .. NHeads - 1]
    BY <2>1 DEF Gap
  <2> HIDE DEF g
  <2>3. ~g.fails \/ (g.whole \in 0 .. Len(toks) - 1 /\ g.heads \in 0 .. NHeads - 1)
    <3>1. CASE g = NoGap
      BY <3>1 DEF NoGap
    <3>2. CASE g \in [fails : {TRUE}, whole : 0 .. Len(toks) - 1, heads : 0 .. NHeads - 1]
      BY <3>2
    <3> QED
      BY <2>2, <3>1, <3>2
  <2> QED
    BY <1>2, <2>3, ShapeAssumption DEF g
<1>4. /\ e \in EngineState /\ e.pos = cache.engines[l].pos + n
      /\ \A h \in KVHeads : e.held[h] >= cache.engines[l].held[h] + n
  <2>1. cache.engines[l] \in EngineState
    BY <1>1
  <2> HIDE DEF n, k
  <2> QED
    BY <1>3, <2>1, EngineAppendValue
<1>5. /\ cache.kv[l] \o toks \in Seq(Tok)
      /\ Len(cache.kv[l] \o toks) = Len(cache.kv[l]) + Len(toks)
  <2>1. cache.kv[l] \in Seq(Tok)
    BY <1>1, <1>2
  <2> QED
    BY <2>1, ConcatProperties
<1>6. /\ kv \in KV /\ kv[l] = cache.kv[l] \o toks
      /\ \A i \in D : i # l => kv[i] = cache.kv[i]
  BY <1>1, <1>5 DEF KV
<1>7. u = [kv |-> kv, engines |-> engines, error |-> cache.error \/ ~ok,
           n_tokens |-> IF ok THEN e.pos ELSE cache.n_tokens]
  <2>1. EngineAfter(cache, l, toks, gap) = e
    BY DEF EngineAfter
  <2>2. /\ l \in D
        /\ (IF ok THEN e.pos ELSE cache.n_tokens)
             = IF gap[l].fails THEN cache.n_tokens ELSE e.pos
    BY <1>1
  <2> QED
    BY <2>1, <2>2 DEF Update
<1> HIDE DEF kv, u
<1>8. /\ engines \in [D -> EngineState] /\ engines[l] = e /\ DOMAIN engines = D
      /\ \A i \in D : i # l => engines[i] = cache.engines[i]
  BY <1>1, <1>4
<1>9. e.pos \in Nat
  BY <1>4 DEF EngineState
<1> HIDE DEF e, engines, D
<1>10. u \in Cache
  <2>1. (cache.error \/ ~ok) \in BOOLEAN
    OBVIOUS
  <2>2. (IF ok THEN e.pos ELSE cache.n_tokens) \in Nat
    BY <1>1, <1>9
  <2>3. engines \in UNION {[EngineLayers(b) -> EngineState] : b \in BOOLEAN}
    BY <1>1, <1>8
  <2> HIDE DEF ok
  <2> QED
    BY <1>6, <1>7, <2>1, <2>2, <2>3 DEF Cache
<1>11. u.kv = kv /\ u.engines = engines /\ (u.error <=> cache.error \/ ~ok)
  BY <1>7
<1>12. DOMAIN u.engines = D
  BY <1>8, <1>11
<1>13. ASSUME NoSilentGap(cache)
       PROVE  NoSilentGap(u)
  <2>1. /\ cache.error <=> \E i \in D : cache.engines[i].pos < Len(cache.kv[i])
        /\ \A i \in D : cache.engines[i].pos <= Len(cache.kv[i])
        /\ \A i \in D, h \in KVHeads : cache.engines[i].pos <= cache.engines[i].held[h]
    BY <1>1, <1>13 DEF NoSilentGap
  <2>2. cache.engines[l] \in EngineState
    BY <1>1
  <2>3. /\ e.pos <= Len(kv[l])
        /\ ok => (e.pos < Len(kv[l]) <=> cache.engines[l].pos < Len(cache.kv[l]))
        /\ ~ok => e.pos < Len(kv[l])
    <3>1. cache.engines[l].pos \in Nat /\ cache.engines[l].pos <= Len(cache.kv[l])
      BY <1>1, <2>1, <2>2 DEF EngineState
    <3>2. e.pos = cache.engines[l].pos + n /\ Len(kv[l]) = Len(cache.kv[l]) + Len(toks)
      BY <1>4, <1>5, <1>6
    <3>3. Len(toks) \in Nat /\ Len(cache.kv[l]) \in Nat
      BY <1>2
    <3>4. PICK p \in Nat, q \in Nat, m \in Nat, d \in Nat :
            p = cache.engines[l].pos /\ q = Len(cache.kv[l]) /\ m = Len(toks) /\ d = n
      BY <1>3, <3>1, <3>3
    <3>5. p <= q /\ e.pos = p + d /\ Len(kv[l]) = q + m
      BY <3>1, <3>2, <3>4
    <3>6. CASE ok
      <4>1. d = m
        BY <1>3, <3>4, <3>6
      <4>2. cache.engines[l].pos = p /\ Len(cache.kv[l]) = q
        BY <3>4
      <4>3. p + d <= q + m /\ (p + d < q + m <=> p < q)
        BY <3>5, <4>1
      <4> HIDE DEF ok, n
      <4> QED
        BY <3>5, <3>6, <4>2, <4>3
    <3>7. CASE ~ok
      <4>1. d < m
        BY <1>3, <3>4, <3>7
      <4> QED
        BY <3>5, <3>7, <4>1
    <3> QED
      BY <3>6, <3>7
  <2>4. \A i \in D : u.engines[i].pos <= Len(u.kv[i])
    BY <1>6, <1>8, <1>11, <2>1, <2>3
  <2>5. \A i \in D, h \in KVHeads : u.engines[i].pos <= u.engines[i].held[h]
    <3> TAKE i \in D, h \in KVHeads
    <3>1. CASE i # l
      BY <1>8, <1>11, <2>1, <3>1
    <3>2. CASE i = l
      <4>1. cache.engines[l].pos <= cache.engines[l].held[h]
        BY <1>1, <2>1
      <4>2. cache.engines[l].pos \in Nat /\ cache.engines[l].held[h] \in Nat /\ e.held[h] \in Nat
        BY <2>2, <1>4 DEF EngineState
      <4>3. e.pos <= e.held[h]
        BY <1>3, <1>4, <4>1, <4>2
      <4> QED
        BY <1>8, <1>11, <3>2, <4>3
    <3> QED
      BY <3>1, <3>2
  <2>6. u.error <=> \E i \in D : u.engines[i].pos < Len(u.kv[i])
    <3>1. CASE ok
      <4>1. \A i \in D : u.engines[i].pos < Len(u.kv[i])
                             <=> cache.engines[i].pos < Len(cache.kv[i])
        BY <1>6, <1>8, <1>11, <2>3, <3>1
      <4> QED
        BY <1>11, <2>1, <3>1, <4>1
    <3>2. CASE ~ok
      <4>1. u.engines[l].pos < Len(u.kv[l])
        BY <1>8, <1>11, <2>3, <3>2
      <4> QED
        BY <1>1, <1>11, <3>2, <4>1
    <3> QED
      BY <3>1, <3>2
  <2> QED
    BY <1>12, <2>4, <2>5, <2>6 DEF NoSilentGap
<1> QED
  BY <1>10, <1>11, <1>13 DEF u, kv

(* A layer without: only its keys grow. *)
LEMMA UpdateWithoutEngine ==
  ASSUME NEW cache \in Cache, NEW l \in Layer, NEW toks \in Seq(Tok),
         NEW gap \in Gaps(Len(toks)), l \notin DOMAIN cache.engines
  PROVE  /\ Update(cache, l, toks, gap) \in Cache
         /\ Update(cache, l, toks, gap).kv = [cache.kv EXCEPT ![l] = @ \o toks]
         /\ NoSilentGap(cache) => NoSilentGap(Update(cache, l, toks, gap))
<1> DEFINE u == Update(cache, l, toks, gap)
           kv == [cache.kv EXCEPT ![l] = @ \o toks]
<1>1. cache.kv \in KV /\ cache.kv[l] \in Seq(Tok) /\ DOMAIN cache.engines \subseteq Layer
  BY CacheParts
<1>2. cache.kv[l] \o toks \in Seq(Tok)
  BY <1>1, ConcatProperties
<1>3. kv \in KV /\ \A i \in DOMAIN cache.engines : kv[i] = cache.kv[i]
  BY <1>1, <1>2 DEF KV
<1>4. u = [cache EXCEPT !.kv = kv]
  BY DEF Update
<1> HIDE DEF u, kv
<1>5. u \in Cache /\ u.kv = kv /\ u.engines = cache.engines /\ u.error = cache.error
  BY <1>3, <1>4 DEF Cache
<1>6. NoSilentGap(cache) => NoSilentGap(u)
  BY <1>3, <1>5 DEF NoSilentGap
<1> QED
  BY <1>5, <1>6 DEF u, kv

LEMMA UpdateValue ==
  ASSUME NEW cache \in Cache, NEW l \in Layer, NEW toks \in Seq(Tok),
         NEW gap \in Gaps(Len(toks))
  PROVE  /\ Update(cache, l, toks, gap) \in Cache
         /\ Update(cache, l, toks, gap).kv = [cache.kv EXCEPT ![l] = @ \o toks]
         /\ NoSilentGap(cache) => NoSilentGap(Update(cache, l, toks, gap))
  BY UpdateWithEngine, UpdateWithoutEngine

(* The layers up to a given one, by induction on it. *)
LEMMA ForwardValue ==
  ASSUME NEW cache \in Cache, NEW toks \in Seq(Tok), NEW upto \in 0 .. NLayers,
         NEW gap \in Gaps(Len(toks))
  PROVE  /\ Forward(cache, toks, upto, gap) \in Cache
         /\ \A l \in Layer : Forward(cache, toks, upto, gap).kv[l]
                               = IF l <= upto THEN cache.kv[l] \o toks ELSE cache.kv[l]
         /\ NoSilentGap(cache) => NoSilentGap(Forward(cache, toks, upto, gap))
<1> DEFINE seq == [l \in 1 .. upto |-> l]
           Chosen(f) == f = [s \in SUBSET (DOMAIN seq) |->
             IF s = {} THEN cache ELSE Update(f[s \ {Max(s)}], seq[Max(s)], toks, gap)]
           iter == CHOOSE f : Chosen(f)
           F == [p \in Cache \X (1 .. upto) |-> Update(p[1], p[2], toks, gap)]
<1>1. Forward(cache, toks, upto, gap) = iter[DOMAIN seq]
  <2> HIDE DEF seq
  <2> QED
    BY Zenon DEF Forward, FoldLeft, MapThenFoldSet, seq
<1>2. upto \in Nat /\ 1 .. upto \subseteq Layer /\ DOMAIN seq = 1 .. upto
  BY ShapeAssumption DEF Layer
<1>3. F \in [Cache \X (1 .. upto) -> Cache]
  BY <1>2, UpdateValue
<1>4. PICK f \in [SUBSET (1 .. upto) -> Cache] : Folding(f, upto, cache, F)
  <2> HIDE DEF F
  <2> QED
    BY <1>2, <1>3, FoldExists
<1>5. ASSUME NEW s \in SUBSET (1 .. upto), s # {}
      PROVE  /\ Max(s) \in 1 .. upto
             /\ F[<<f[s \ {Max(s)}], Max(s)>>] = Update(f[s \ {Max(s)}], seq[Max(s)], toks, gap)
  <2>1. Max(s) \in s
    BY <1>2, <1>5, MaxIsLast
  <2>2. Max(s) \in 1 .. upto
    BY <2>1
  <2>3. s \ {Max(s)} \in SUBSET (1 .. upto)
    OBVIOUS
  <2>4. seq[Max(s)] = Max(s)
    BY <2>2
  <2>5. <<f[s \ {Max(s)}], Max(s)>> \in Cache \X (1 .. upto)
    BY <1>4, <2>2, <2>3
  <2> QED
    BY <2>2, <2>4, <2>5
<1>6. Chosen(f)
  <2> HIDE DEF seq, F
  <2>1. f = [s \in SUBSET (1 .. upto) |-> f[s]]
    BY <1>4
  <2> QED
    BY <1>2, <1>4, <1>5, <2>1 DEF Folding
<1>7. Chosen(iter)
  <2> HIDE DEF Chosen
  <2> QED
    BY <1>6
<1>8. /\ iter[1 .. 0] = cache
      /\ \A k \in 0 .. upto - 1 : iter[1 .. k + 1] = Update(iter[1 .. k], k + 1, toks, gap)
  <2> HIDE DEF iter
  <2>1. \A s \in SUBSET (1 .. upto) : iter[s]
          = IF s = {} THEN cache ELSE Update(iter[s \ {Max(s)}], seq[Max(s)], toks, gap)
    <3> HIDE DEF seq
    <3>1. Chosen(iter)
      BY <1>7
    <3> QED
      BY <1>2, <3>1
  <2>2. iter[1 .. 0] = cache
    <3>1. 1 .. 0 = {} /\ {} \in SUBSET (1 .. upto)
      OBVIOUS
    <3>2. iter[{}] = cache
      BY <2>1, <3>1
    <3> QED
      BY <3>1, <3>2
  <2>3. ASSUME NEW k \in 0 .. upto - 1
        PROVE  iter[1 .. k + 1] = Update(iter[1 .. k], k + 1, toks, gap)
    <3>0. k \in Nat
      BY <1>2
    <3>1. /\ 1 .. k + 1 # {} /\ Max(1 .. k + 1) = k + 1
          /\ (1 .. k + 1) \ {k + 1} = 1 .. k
      BY <3>0, Initial
    <3>2. 1 .. k + 1 \in SUBSET (1 .. upto) /\ seq[k + 1] = k + 1
      BY <1>2
    <3> QED
      BY <2>1, <3>1, <3>2
  <2> QED
    BY <2>2, <2>3
<1> DEFINE T == {k \in 0 .. upto :
             /\ iter[1 .. k] \in Cache
             /\ \A l \in Layer : iter[1 .. k].kv[l]
                                   = IF l <= k THEN cache.kv[l] \o toks ELSE cache.kv[l]
             /\ NoSilentGap(cache) => NoSilentGap(iter[1 .. k])}
<1> HIDE DEF iter
<1>9. 0 \in T
  <2>1. 0 \in 0 .. upto /\ \A l \in Layer : ~(l <= 0)
    BY <1>2, ShapeAssumption DEF Layer
  <2> QED
    BY <1>8, <2>1
<1>10. ASSUME NEW k \in 0 .. upto - 1, k \in T
       PROVE  k + 1 \in T
  <2> DEFINE a == iter[1 .. k]
             b == iter[1 .. k + 1]
  <2>1. /\ a \in Cache
        /\ \A l \in Layer : a.kv[l] = IF l <= k THEN cache.kv[l] \o toks ELSE cache.kv[l]
        /\ NoSilentGap(cache) => NoSilentGap(a)
        /\ b = Update(a, k + 1, toks, gap)
    BY <1>8, <1>10
  <2>2. k + 1 \in Layer /\ k + 1 \in 0 .. upto
    BY <1>2
  <2> HIDE DEF a, b
  <2>3. /\ b \in Cache /\ b.kv = [a.kv EXCEPT ![k + 1] = @ \o toks]
        /\ NoSilentGap(cache) => NoSilentGap(b)
    <3>1. a \in Cache /\ k + 1 \in Layer /\ toks \in Seq(Tok) /\ gap \in Gaps(Len(toks))
      BY <2>1, <2>2
    <3>2. /\ Update(a, k + 1, toks, gap) \in Cache
          /\ Update(a, k + 1, toks, gap).kv = [a.kv EXCEPT ![k + 1] = @ \o toks]
          /\ NoSilentGap(a) => NoSilentGap(Update(a, k + 1, toks, gap))
      BY ONLY <3>1, UpdateValue
    <3> QED
      BY <2>1, <3>2
  <2>4. a.kv \in [Layer -> Seq(Tok)]
    BY <2>1 DEF Cache, KV
  <2>5. ASSUME NEW l \in Layer
        PROVE  b.kv[l] = IF l <= k + 1 THEN cache.kv[l] \o toks ELSE cache.kv[l]
    <3>1. k \in Int /\ l \in Int
      BY ShapeAssumption DEF Layer
    <3>2. CASE l = k + 1
      <4>1. a.kv[k + 1] = cache.kv[k + 1]
        BY <2>1, <2>2, <3>1, <3>2
      <4>2. b.kv[k + 1] = a.kv[k + 1] \o toks
        BY <2>2, <2>3, <2>4
      <4> QED
        BY <3>1, <3>2, <4>1, <4>2
    <3>3. CASE l # k + 1
      BY <2>1, <2>3, <2>4, <3>1, <3>3
    <3> QED
      BY <3>2, <3>3
  <2> QED
    BY <2>2, <2>3, <2>5 DEF b
<1>11. upto \in T
  <2> HIDE DEF T
  <2> QED
    BY <1>2, <1>9, <1>10, UpTo
<1> QED
  BY <1>1, <1>2, <1>11

-----------------------------------------------------------------------------
(* The steps on the Transformers adapter. *)

LEMMA OwnValue ==
  ASSUME NEW c \in Call, NEW n \in 0 .. MaxPrompt + MaxNew
  PROVE  /\ Own(c, n) \in KV
         /\ \A l \in Layer : Own(c, n)[l] = Toks(c, 1, n)
         /\ n = 0 => Own(c, n) = [l \in Layer |-> <<>>]
<1>1. Toks(c, 1, n) \in Seq(Tok) /\ Len(Toks(c, 1, n)) = n
  BY ToksValue
<1>2. n = 0 => Toks(c, 1, n) = <<>>
  <2> DEFINE s == Toks(c, 1, n)
  <2>1. s \in Seq(Tok) /\ Len(s) = n
    BY <1>1
  <2> HIDE DEF s
  <2>2. n = 0 => s = <<>>
    BY <2>1, EmptySeq
  <2> QED
    BY <2>2 DEF s
<1> QED
  BY <1>1, <1>2 DEF Own, KV

LEMMA NewCacheValue ==
  ASSUME NEW native \in BOOLEAN
  PROVE  /\ NewCache(native) \in Cache /\ NoSilentGap(NewCache(native))
         /\ NewCache(native).kv = [l \in Layer |-> <<>>]
<1> DEFINE D == EngineLayers(native)
           kv == [l \in Layer |-> <<>>]
           engines == [l \in D |-> NewEngine]
           c == NewCache(native)
<1>1. /\ NewEngine \in EngineState /\ NewEngine.pos = 0
      /\ \A h \in KVHeads : NewEngine.held[h] = 0
  BY DEF EngineState, NewEngine
<1>2. kv \in KV /\ \A l \in Layer : Len(kv[l]) = 0
  <2>1. <<>> \in Seq(Tok) /\ Len(<<>>) = 0
    OBVIOUS
  <2> QED
    BY <2>1 DEF KV
<1>3. c = [kv |-> kv, engines |-> engines, error |-> FALSE, n_tokens |-> 0]
  BY DEF NewCache
<1>4. /\ engines \in [D -> EngineState] /\ DOMAIN engines = D
      /\ \A l \in D : engines[l] = NewEngine
  BY <1>1
<1>5. D \subseteq Layer
  BY DEF EngineLayers
<1>6. [D -> EngineState] \in {[EngineLayers(b) -> EngineState] : b \in BOOLEAN}
  OBVIOUS
<1> HIDE DEF kv, engines, c, D
<1>7. c \in Cache
  BY <1>2, <1>3, <1>4, <1>6 DEF Cache
<1>8. c.kv = kv /\ c.engines = engines /\ c.error = FALSE
  BY <1>3
<1>9. NoSilentGap(c)
  BY <1>1, <1>2, <1>4, <1>5, <1>8 DEF NoSilentGap
<1> QED
  BY <1>7, <1>8, <1>9 DEF kv, c

LEMMA TransformersBegin ==
  ASSUME TransformersInv, NEW c \in Call, NEW kind \in {"generate", "stream"},
         NEW prompt \in 0 .. MaxPrompt, begin_session(c, kind, prompt), llama' = llama
  PROVE  TransformersInv'
<1> DEFINE r == [Unused EXCEPT !.pc = "begun", !.kind = kind, !.prompt = prompt]
<1>1. Typed /\ Begins /\ Answered /\ AdapterInv
  BY DEF TransformersInv
<1>2. /\ running = None /\ running' = c
      /\ adapter' = [adapter EXCEPT !.cache = NewCache(adapter.native), !.generated = <<>>]
      /\ calls' = [Overtaken(calls) EXCEPT ![c] = r]
  BY DEF begin_session
<1>3. /\ r \in CallState
      /\ r.pc = "begun" /\ r.sampled = 0 /\ r.fed = FALSE
  <2>1. 0 \in 0 .. MaxPrompt /\ 0 \in 0 .. MaxNew
    BY LimitAssumption
  <2>2. Unused \in CallState /\ Unused.sampled = 0 /\ Unused.fed = FALSE
    BY <2>1 DEF CallState, Unused
  <2> QED
    BY <2>1, <2>2 DEF CallState
<1> HIDE DEF r
<1>4. /\ calls' \in [Call -> CallState] /\ calls'[c] = r
      /\ \A d \in Call : d # c => ~Lone(d)' /\ calls'[d].pc = calls[d].pc
  BY <1>1, <1>2, <1>3, Overtakes
<1> DEFINE made == NewCache(adapter.native)
<1>0. made \in Cache /\ NoSilentGap(made) /\ made.kv = [l \in Layer |-> <<>>]
  <2>1. adapter.native \in BOOLEAN
    BY <1>1 DEF AdapterInv, AdapterState
  <2> QED
    BY <2>1, NewCacheValue
<1>5. /\ adapter'.cache = made /\ adapter'.generated = <<>>
      /\ adapter' \in AdapterState
  <2>1. <<>> \in Seq(Tok)
    OBVIOUS
  <2> QED
    BY <1>0, <1>1, <1>2, <2>1 DEF AdapterInv, AdapterState
<1> HIDE DEF made
<1>6. Typed'
  BY <1>1, <1>2, <1>4 DEF Typed
<1>7. Begins'
  BY <1>1, <1>2, <1>3, <1>4, NoneBegun DEF Begins, Lone
<1>8. Answered'
  BY <1>1, <1>2, <1>3, Changed, AnsweredBySilentStep
<1>9. AdapterInv'
  BY <1>0, <1>5 DEF AdapterInv, NoSilentGap
<1>10. Fresh'
  <2>1. 0 \in 0 .. MaxPrompt + MaxNew
    BY LimitAssumption
  <2>2. \A d \in Call : calls'[d].pc = "begun" => d = c
    BY <1>1, <1>2, <1>4, NoneBegun
  <2>3. adapter'.cache.kv = Own(c, 0)
    BY <1>0, <1>5, <2>1, OwnValue
  <2> QED
    BY <1>0, <1>5, <2>2, <2>3 DEF Fresh, NoSilentGap, Own
<1>11. Transcripts'
  <2>1. OwnCache(c)'
    BY <1>3, <1>4, <1>5 DEF OwnCache
  <2> QED
    BY <1>4, <2>1 DEF Transcripts
<1> QED
  BY <1>6, <1>7, <1>8, <1>9, <1>10, <1>11 DEF TransformersInv

(* What the outcomes of a prefill have in common. *)
LEMMA TransformersAfterPrefill ==
  ASSUME TransformersInv, NEW c \in Call, running = c, calls[c].pc = "begun",
         running' = running, llama' = llama, NEW r \in CallState, SetCall(c, r),
         r.pc \in {"decode", "closing"}, r.sampled = 0, r.prompt = calls[c].prompt,
         r.alone = calls[c].alone,
         r.pc = "decode" /\ r.kind = "generate" /\ r.prompt > 0 => r.fed,
         NEW cache \in Cache, NoSilentGap(cache), NEW logits \in KV \cup {None},
         adapter' = [adapter EXCEPT !.cache = cache, !.last_logits = logits],
         r.fed => cache.kv = Own(c, calls[c].prompt) /\ logits = cache.kv
  PROVE  TransformersInv'
<1>1. Typed /\ Begins /\ Answered /\ AdapterInv /\ Fresh /\ Transcripts
  BY DEF TransformersInv
<1>2. /\ calls' \in [Call -> CallState] /\ calls'[c] = r
      /\ \A d \in Call : d # c => calls'[d] = calls[d]
  BY <1>1, SetsCall
<1>3. /\ adapter'.cache = cache /\ adapter'.last_logits = logits
      /\ adapter'.generated = adapter.generated
      /\ adapter' \in AdapterState
  BY <1>1 DEF AdapterInv, AdapterState
<1>4. Typed'
  BY <1>1, <1>2 DEF Typed
<1>5. \A d \in Call : calls'[d].pc # "begun"
  BY <1>1, <1>2 DEF Begins
<1>6. Begins' /\ Fresh'
  BY <1>5 DEF Begins, Fresh
<1>7. Answered'
  BY <1>1, Changed, AnsweredBySilentStep
<1>8. AdapterInv'
  BY <1>3 DEF AdapterInv, NoSilentGap
<1>9. adapter'.generated = <<>> /\ calls[c].prompt \in Nat
  BY <1>1, <1>3, LimitAssumption DEF Fresh, Typed, CallState
<1>10. ASSUME NEW d \in Call, Lone(d)'
       PROVE  OwnCache(d)'
  <2>1. d = c
    BY <1>1, <1>2, <1>10 DEF Begins, Lone, IsOpen
  <2>2. Fed(c)' = calls[c].prompt
    BY <1>2, <1>9 DEF Fed
  <2>3. Own(c, Fed(c))' = Own(c, calls[c].prompt)
    BY <2>2 DEF Own
  <2>4. Len(adapter'.generated) = r.sampled /\ ~(r.sampled > 0)
    BY <1>9
  <2> QED
    BY <1>2, <1>3, <2>1, <2>3, <2>4 DEF OwnCache
<1> QED
  BY <1>1, <1>4, <1>6, <1>7, <1>8, <1>10 DEF TransformersInv, Transcripts

(* A forward pass over the whole prompt of a call that has begun. *)
LEMMA PromptForward ==
  ASSUME TransformersInv, NEW c \in Call, calls[c].pc = "begun",
         NEW upto \in 0 .. NLayers, NEW gap \in Gaps(calls[c].prompt)
  PROVE  LET cache == Forward(adapter.cache, Toks(c, 1, calls[c].prompt), upto, gap)
         IN /\ cache \in Cache /\ NoSilentGap(cache)
            /\ upto = NLayers => cache.kv = Own(c, calls[c].prompt)
<1> DEFINE n == calls[c].prompt
           toks == Toks(c, 1, n)
           cache == Forward(adapter.cache, toks, upto, gap)
<1>1. /\ n \in 0 .. MaxPrompt + MaxNew /\ 0 \in 0 .. MaxPrompt + MaxNew
  <2>1. calls[c] \in CallState
    BY DEF TransformersInv, Typed
  <2> QED
    BY <2>1, LimitAssumption DEF CallState
<1>2. toks \in Seq(Tok) /\ Len(toks) = n
  BY <1>1, ToksValue
<1>3. /\ adapter.cache \in Cache /\ NoSilentGap(adapter.cache)
      /\ adapter.cache.kv = Own(c, 0)
  BY DEF TransformersInv, Fresh
<1>4. \A l \in Layer : adapter.cache.kv[l] = <<>>
  BY <1>1, <1>3, OwnValue
<1>5. \A l \in Layer : Own(c, n) \in KV /\ Own(c, n)[l] = toks
  <2> HIDE DEF n
  <2> QED
    BY <1>1, OwnValue
<1> HIDE DEF toks, cache
<1>6. gap \in Gaps(Len(toks))
  BY <1>2
<1> HIDE DEF n
<1>7. /\ cache \in Cache /\ NoSilentGap(cache)
      /\ \A l \in Layer : cache.kv[l] = IF l <= upto THEN adapter.cache.kv[l] \o toks
                                        ELSE adapter.cache.kv[l]
  BY <1>2, <1>3, <1>6, ForwardValue DEF cache
<1>8. ASSUME upto = NLayers
      PROVE  cache.kv = Own(c, n)
  <2>1. \A l \in Layer : l <= upto
    BY <1>8, ShapeAssumption DEF Layer
  <2>2. <<>> \o toks = toks
    BY <1>2, ConcatEmptySeq
  <2>3. \A l \in Layer : cache.kv[l] = toks
    BY <1>4, <1>7, <2>1, <2>2
  <2>4. cache.kv \in KV
    BY <1>7 DEF Cache
  <2>5. \A l \in Layer : cache.kv[l] = Own(c, n)[l]
    BY <1>5, <2>3
  <2>6. Own(c, n) = [l \in Layer |-> Own(c, n)[l]]
    BY DEF Own
  <2> QED
    BY <2>4, <2>5, <2>6 DEF KV
<1> QED
  BY <1>7, <1>8 DEF cache, toks, n

LEMMA TransformersPrefill ==
  ASSUME TransformersInv, NEW c \in Call, llama' = llama,
         skip_prefill(c) \/ prefill(c) \/ prefill_fails(c)
  PROVE  TransformersInv'
<1>1. Typed /\ Begins /\ AdapterInv /\ Fresh
  BY DEF TransformersInv
<1>2. /\ calls[c].pc = "begun" /\ running = c /\ running' = running
  BY DEF skip_prefill, prefill, prefill_fails
<1>3. /\ calls[c] \in CallState /\ calls[c].sampled = 0 /\ calls[c].fed = FALSE
      /\ calls[c].prompt \in Nat /\ calls[c].pc = "begun"
  <2>1. calls[c] \in CallState /\ calls[c].sampled = 0 /\ ~calls[c].fed
    BY <1>1, <1>2 DEF Typed, Begins
  <2> QED
    BY <1>2, <2>1, LimitAssumption DEF CallState
<1>4. /\ adapter.cache \in Cache /\ NoSilentGap(adapter.cache)
      /\ adapter.last_logits \in KV \cup {None}
  BY <1>1, <1>2 DEF Fresh, AdapterInv, AdapterState
<1>5. CASE skip_prefill(c)
  <2> DEFINE r == [calls[c] EXCEPT !.pc = "decode"]
  <2>1. /\ r \in CallState /\ r.pc = "decode" /\ r.sampled = 0 /\ r.prompt = calls[c].prompt
        /\ r.alone = calls[c].alone /\ r.fed = FALSE
    BY <1>3 DEF CallState
  <2>2. SetCall(c, r) /\ adapter' = adapter /\ r.prompt = 0
    BY <1>3, <1>5, <2>1 DEF skip_prefill
  <2>3. PICK cache \in Cache, logits \in KV \cup {None} :
          cache = adapter.cache /\ logits = adapter.last_logits
    BY <1>4
  <2>4. adapter' = [adapter EXCEPT !.cache = cache, !.last_logits = logits]
    BY <1>1, <2>2, <2>3 DEF AdapterInv, AdapterState
  <2>5. NoSilentGap(cache)
    BY <1>4, <2>3
  <2>6. r.pc \in {"decode", "closing"} /\ ~(r.prompt > 0) /\ ~r.fed
    BY <2>1, <2>2
  <2> HIDE DEF r
  <2> QED
    BY <1>2, <2>1, <2>2, <2>4, <2>5, <2>6, TransformersAfterPrefill
<1>6. CASE prefill(c)
  <2> DEFINE r == [calls[c] EXCEPT !.pc = "decode", !.fed = TRUE]
             cache(gap) == Forward(adapter.cache, Toks(c, 1, calls[c].prompt), NLayers, gap)
  <2>1. /\ r \in CallState /\ r.pc = "decode" /\ r.sampled = 0 /\ r.prompt = calls[c].prompt
        /\ r.alone = calls[c].alone /\ r.fed = TRUE
    BY <1>3 DEF CallState
  <2>2. PICK gap \in Gaps(calls[c].prompt) :
          adapter' = [adapter EXCEPT !.cache = cache(gap), !.last_logits = cache(gap).kv]
    BY <1>6 DEF prefill
  <2>3. SetCall(c, r)
    BY <1>6 DEF prefill
  <2>4. NLayers \in 0 .. NLayers
    BY ShapeAssumption
  <2>5. /\ cache(gap) \in Cache /\ NoSilentGap(cache(gap))
        /\ cache(gap).kv = Own(c, calls[c].prompt)
    BY <1>2, <2>4, PromptForward
  <2> DEFINE made == cache(gap)
  <2>6. /\ made \in Cache /\ NoSilentGap(made) /\ made.kv = Own(c, calls[c].prompt)
        /\ adapter' = [adapter EXCEPT !.cache = made, !.last_logits = made.kv]
    BY <2>2, <2>5
  <2> HIDE DEF r, cache, made
  <2>7. PICK logits \in KV \cup {None} : logits = made.kv
    BY <2>6 DEF Cache
  <2>8. adapter' = [adapter EXCEPT !.cache = made, !.last_logits = logits]
    BY <2>6, <2>7
  <2> QED
    BY <1>2, <2>1, <2>3, <2>6, <2>7, <2>8, TransformersAfterPrefill
<1>7. CASE prefill_fails(c)
  <2> DEFINE r == [calls[c] EXCEPT !.pc = AfterPrefillFailure(calls[c].kind), !.whole = FALSE]
             cache(upto, gap) == Forward(adapter.cache, Toks(c, 1, calls[c].prompt), upto, gap)
  <2>1. /\ r \in CallState /\ r.pc \in {"decode", "closing"} /\ r.sampled = 0
        /\ r.prompt = calls[c].prompt /\ r.alone = calls[c].alone /\ r.fed = FALSE
        /\ r.kind = "generate" => r.pc # "decode"
    BY <1>3 DEF CallState, AfterPrefillFailure
  <2>2. PICK upto \in 0 .. NLayers - 1, gap \in Gaps(calls[c].prompt) :
          adapter' = [adapter EXCEPT !.cache = cache(upto, gap)]
    BY <1>7 DEF prefill_fails
  <2>3. SetCall(c, r)
    BY <1>7 DEF prefill_fails
  <2>4. upto \in 0 .. NLayers
    BY ShapeAssumption
  <2>5. cache(upto, gap) \in Cache /\ NoSilentGap(cache(upto, gap))
    BY <1>2, <2>4, PromptForward
  <2> DEFINE made == cache(upto, gap)
  <2>6. adapter' = [adapter EXCEPT !.cache = made, !.last_logits = adapter.last_logits]
    <3>1. made \in Cache /\ adapter' = [adapter EXCEPT !.cache = made]
      BY <2>2, <2>5
    <3> HIDE DEF made
    <3> QED
      BY <1>1, <3>1 DEF AdapterInv, AdapterState
  <2>7. made \in Cache /\ NoSilentGap(made)
    BY <2>5
  <2> HIDE DEF r, made, cache
  <2> QED
    BY <1>2, <1>4, <2>1, <2>3, <2>6, <2>7, TransformersAfterPrefill
<1> QED
  BY <1>5, <1>6, <1>7

(* A token is returned: the logits at hand and the cache they came with    *)
(* are of the whole transcript, if the call is alone and was prefilled.    *)
LEMMA TransformersSample ==
  ASSUME TransformersInv, NEW c \in Call, MayDecode(c), calls[c].sampled < MaxNew,
         llama' = llama,
         NEW cache \in Cache, NoSilentGap(cache), NEW logits \in KV \cup {None},
         Sample(c, logits, cache),
         Lone(c) /\ calls[c].fed =>
           /\ logits = Own(c, calls[c].prompt + calls[c].sampled)
           /\ cache.kv = Own(c, calls[c].prompt + calls[c].sampled)
  PROVE  TransformersInv'
<1> DEFINE n == calls[c].prompt + calls[c].sampled
           tok == [call |-> c, n |-> calls[c].prompt + calls[c].sampled + 1]
           r == [calls[c] EXCEPT !.sampled = @ + 1, !.seen = logits]
<1>1. Typed /\ Begins /\ Answered /\ AdapterInv /\ Transcripts
  BY DEF TransformersInv
<1>2. /\ adapter' = [adapter EXCEPT !.cache = cache, !.generated = Append(@, tok)]
      /\ calls' = [Overtaken(calls) EXCEPT ![c] = r]
      /\ running' = IF calls[c].kind = "stream" THEN None ELSE c
  BY DEF Sample
<1>3. /\ calls[c] \in CallState /\ calls[c].pc = "decode"
      /\ calls[c].prompt \in 0 .. MaxPrompt /\ calls[c].sampled \in 0 .. MaxNew
  BY <1>1 DEF Typed, CallState, MayDecode
<1>4. /\ calls[c].sampled \in Nat /\ calls[c].prompt \in Nat
      /\ calls[c].sampled + 1 \in 1 .. MaxNew
      /\ calls[c].prompt + (calls[c].sampled + 1) - 1 = n
      /\ calls[c].prompt + (calls[c].sampled + 1) = n + 1
      /\ n + 1 \in 1 .. MaxPrompt + MaxNew
  BY <1>3, LimitAssumption
<1>5. tok \in Tok /\ tok = [call |-> c, n |-> n + 1]
  BY <1>4 DEF Tok
<1>6. /\ r \in CallState /\ r.pc = "decode" /\ r.sampled = calls[c].sampled + 1
      /\ r.prompt = calls[c].prompt /\ r.kind = calls[c].kind
      /\ r.alone = calls[c].alone /\ r.fed = calls[c].fed /\ r.seen = logits
  <2>1. calls[c].sampled + 1 \in 0 .. MaxNew
    BY <1>4
  <2> QED
    BY <1>3, <2>1 DEF CallState
<1>7. /\ adapter.generated \in Seq(Tok)
      /\ Append(adapter.generated, tok) \in Seq(Tok)
      /\ Len(Append(adapter.generated, tok)) = Len(adapter.generated) + 1
      /\ Append(adapter.generated, tok)[Len(adapter.generated) + 1] = tok
  <2>1. adapter.generated \in Seq(Tok)
    BY <1>1 DEF AdapterInv, AdapterState
  <2> HIDE DEF tok
  <2> QED
    BY <1>5, <2>1, AppendProperties
<1> HIDE DEF tok, r
<1>8. /\ adapter'.cache = cache /\ adapter'.generated = Append(adapter.generated, tok)
      /\ adapter' \in AdapterState
  BY <1>1, <1>2, <1>7 DEF AdapterInv, AdapterState
<1>9. /\ calls' \in [Call -> CallState] /\ calls'[c] = r
      /\ \A d \in Call : d # c => ~Lone(d)' /\ calls'[d].pc = calls[d].pc
  BY <1>1, <1>2, <1>6, Overtakes
<1>10. \A d \in Call : calls'[d].pc # "begun"
  BY <1>1, <1>6, <1>9, NoneBegun
<1>11. Typed'
  BY <1>1, <1>2, <1>9 DEF Typed
<1>12. Begins' /\ Fresh'
  BY <1>10 DEF Begins, Fresh
<1>13. Answered'
  <2>1. Changes(c, r)
    BY <1>1, <1>2, <1>6, Changed
  <2>2. calls[c].kind = "generate" /\ calls[c].prompt > 0 => calls[c].fed
    BY <1>1, <1>3 DEF Answered
  <2>3. ASSUME r.alone, r.fed \/ (r.kind = "generate" /\ r.prompt > 0)
        PROVE  r.seen = Own(c, r.prompt + r.sampled - 1)
    <3>1. Lone(c) /\ calls[c].fed
      BY <1>3, <1>6, <2>2, <2>3 DEF Lone, IsOpen
    <3>2. r.prompt + r.sampled - 1 = n
      BY <1>4, <1>6
    <3> QED
      BY <1>6, <3>1, <3>2
  <2>4. r.pc = "decode" /\ r.kind = "generate" /\ r.prompt > 0 => r.fed
    BY <1>6, <2>2
  <2> QED
    BY <1>1, <2>1, <2>3, <2>4, AnsweredStep
<1>14. AdapterInv'
  BY <1>8 DEF AdapterInv, NoSilentGap
<1>15. ASSUME NEW d \in Call, Lone(d)'
       PROVE  OwnCache(d)'
  <2>1. d = c
    BY <1>9, <1>15
  <2>2. OwnCache(c) /\ Lone(c)
    BY <1>1, <1>3, <1>6, <1>9, <1>15, <2>1 DEF Transcripts, Lone, IsOpen
  <2>3. /\ Len(adapter'.generated) = r.sampled
        /\ adapter'.generated[r.sampled] = [call |-> c, n |-> r.prompt + r.sampled]
    BY <1>4, <1>5, <1>6, <1>7, <1>8, <2>2 DEF OwnCache
  <2>4. Fed(c)' = n
    BY <1>4, <1>6, <1>9 DEF Fed
  <2>5. Own(c, Fed(c))' = Own(c, n)
    BY <2>4 DEF Own
  <2>6. r.sampled # 0
    BY <1>4, <1>6
  <2> QED
    BY <1>6, <1>8, <1>9, <2>1, <2>2, <2>3, <2>5, <2>6 DEF OwnCache
<1> QED
  BY <1>11, <1>12, <1>13, <1>14, <1>15 DEF TransformersInv, Transcripts

(* decode_next returns no token. *)
LEMMA TransformersStop ==
  ASSUME TransformersInv, NEW c \in Call, MayDecode(c), llama' = llama,
         NEW cache \in Cache \cup {None}, cache # None => NoSilentGap(cache),
         NEW whole \in BOOLEAN, Stop(c, cache, whole)
  PROVE  TransformersInv'
<1> DEFINE r == [calls[c] EXCEPT !.pc = "closing", !.whole = @ /\ whole]
<1>1. Typed /\ Begins /\ Answered /\ AdapterInv /\ Transcripts
  BY DEF TransformersInv
<1>2. /\ adapter' = [adapter EXCEPT !.cache = cache]
      /\ calls' = [Overtaken(calls) EXCEPT ![c] = r] \/ (SetCall(c, r) /\ cache = adapter.cache)
      /\ running' = c
  <2>1. CASE cache = adapter.cache
    BY <2>1 DEF Stop, SetCall
  <2>2. CASE cache # adapter.cache
    BY <2>2 DEF Stop
  <2> QED
    BY <2>1, <2>2
<1>3. calls[c] \in CallState /\ calls[c].pc = "decode"
  BY <1>1 DEF Typed, MayDecode
<1>4. /\ r \in CallState /\ r.pc = "closing" /\ r.sampled = calls[c].sampled
      /\ r.prompt = calls[c].prompt /\ r.kind = calls[c].kind
      /\ r.alone = calls[c].alone /\ r.fed = calls[c].fed /\ r.seen = calls[c].seen
  <2>1. (calls[c].whole /\ whole) \in BOOLEAN
    OBVIOUS
  <2> QED
    BY <1>3, <2>1 DEF CallState
<1> HIDE DEF r
<1>5. /\ adapter'.cache = cache /\ adapter'.generated = adapter.generated
      /\ adapter' \in AdapterState
      /\ cache = adapter.cache => adapter' = adapter
  BY <1>1, <1>2 DEF AdapterInv, AdapterState
<1>6. /\ calls' \in [Call -> CallState] /\ calls'[c] = r
      /\ \A d \in Call : d # c => calls'[d].pc = calls[d].pc
      /\ \A d \in Call : d # c /\ Lone(d)' => calls'[d] = calls[d] /\ adapter' = adapter
  <2>1. CASE calls' = [Overtaken(calls) EXCEPT ![c] = r]
    BY <1>1, <1>4, <2>1, Overtakes
  <2>2. CASE SetCall(c, r) /\ cache = adapter.cache
    BY <1>1, <1>4, <1>5, <2>2, SetsCall
  <2> QED
    BY <1>2, <2>1, <2>2
<1>7. \A d \in Call : calls'[d].pc # "begun"
  BY <1>1, <1>4, <1>6, NoneBegun
<1>8. Typed'
  BY <1>1, <1>2, <1>6 DEF Typed
<1>9. Begins' /\ Fresh'
  BY <1>7 DEF Begins, Fresh
<1>10. Answered'
  <2>1. Changes(c, r)
    BY <1>1, <1>2, <1>4, Changed
  <2> QED
    BY <1>1, <1>4, <2>1, AnsweredBySilentStep
<1>11. AdapterInv'
  BY <1>5 DEF AdapterInv, NoSilentGap
<1>12. ASSUME NEW d \in Call, Lone(d)'
       PROVE  OwnCache(d)'
  <2>1. CASE d = c
    <3>1. OwnCache(c)
      BY <1>1, <1>3, <1>4, <1>6, <1>12, <2>1 DEF Transcripts, Lone, IsOpen
    <3> QED
      BY <1>4, <1>5, <1>6, <2>1, <3>1 DEF OwnCache
  <2>2. CASE d # c
    <3>1. calls'[d] = calls[d] /\ adapter' = adapter
      BY <1>6, <1>12, <2>2
    <3>2. OwnCache(d)
      BY <1>1, <1>12, <3>1 DEF Transcripts, Lone, IsOpen
    <3>3. Own(d, Fed(d))' = Own(d, Fed(d))
      BY <3>1 DEF Own, Fed
    <3> QED
      BY <3>1, <3>2, <3>3 DEF OwnCache
  <2> QED
    BY <2>1, <2>2
<1> QED
  BY <1>8, <1>9, <1>10, <1>11, <1>12 DEF TransformersInv, Transcripts

(* The forward pass over the last token returned: it makes the transcript  *)
(* of a call that is alone whole.                                          *)
LEMMA DecodeForward ==
  ASSUME TransformersInv, NEW c \in Call, CanDecode(c), adapter.generated # <<>>,
         NEW upto \in 0 .. NLayers, NEW gap \in Gaps(1)
  PROVE  LET cache == Forward(adapter.cache, <<Last(adapter.generated)>>, upto, gap)
         IN /\ cache \in Cache /\ NoSilentGap(cache)
            /\ upto = NLayers /\ Lone(c) /\ calls[c].fed
               => cache.kv = Own(c, calls[c].prompt + calls[c].sampled)
<1> DEFINE tok == Last(adapter.generated)
           toks == <<tok>>
           cache == Forward(adapter.cache, toks, upto, gap)
           n == calls[c].prompt + calls[c].sampled
<1>1. Typed /\ AdapterInv /\ Transcripts /\ calls[c].pc = "decode"
      /\ calls[c].sampled < MaxNew
  BY DEF TransformersInv, CanDecode, MayDecode
<1>2. adapter.cache \in Cache /\ NoSilentGap(adapter.cache)
  BY <1>1 DEF AdapterInv, AdapterState, CanDecode
<1>3. /\ adapter.generated \in Seq(Tok) /\ Len(adapter.generated) \in Nat \ {0}
      /\ tok = adapter.generated[Len(adapter.generated)]
  <2>1. adapter.generated \in Seq(Tok)
    BY <1>1 DEF AdapterInv, AdapterState
  <2>2. Len(adapter.generated) \in Nat \ {0}
    BY <2>1, EmptySeq, LenProperties
  <2> QED
    BY <2>1, <2>2 DEF Last
<1>4. tok \in Tok
  <2>1. Len(adapter.generated) \in 1 .. Len(adapter.generated)
    BY <1>3
  <2> HIDE DEF tok
  <2> QED
    BY <1>3, <2>1, ElementOfSeq
<1>5. toks \in Seq(Tok) /\ Len(toks) = 1
  <2> HIDE DEF tok
  <2> QED
    BY <1>4
<1> HIDE DEF tok
<1>6. toks \in Seq(Tok) /\ gap \in Gaps(Len(toks)) /\ toks = <<tok>>
  BY <1>5
<1> HIDE DEF cache, toks
<1>7. /\ cache \in Cache /\ NoSilentGap(cache)
      /\ \A l \in Layer : cache.kv[l] = IF l <= upto THEN adapter.cache.kv[l] \o toks
                                        ELSE adapter.cache.kv[l]
  BY <1>2, <1>6, ForwardValue DEF cache
<1>8. ASSUME upto = NLayers, Lone(c), calls[c].fed
      PROVE  cache.kv = Own(c, n)
  <2>1. OwnCache(c)
    BY <1>1, <1>8 DEF Transcripts
  <2>2. /\ calls[c].sampled \in 1 .. MaxNew /\ calls[c].prompt \in 0 .. MaxPrompt
    <3>1. calls[c] \in CallState
      BY <1>1 DEF Typed
    <3> QED
      BY <1>3, <2>1, <3>1, LimitAssumption DEF CallState, OwnCache
  <2>3. /\ Fed(c) = n - 1 /\ n - 1 + 1 = n
        /\ n - 1 \in 0 .. MaxPrompt + MaxNew - 1
        /\ n - 1 \in 0 .. MaxPrompt + MaxNew /\ n \in 0 .. MaxPrompt + MaxNew
    <3>1. PICK p \in 0 .. MaxPrompt, m \in 1 .. MaxNew : p = calls[c].prompt /\ m = calls[c].sampled
      BY <2>2
    <3>2. Fed(c) = p + (m - 1) /\ n = p + m
      BY <3>1, LimitAssumption DEF Fed
    <3>3. /\ p \in Int /\ m \in Int /\ 0 <= p /\ p <= MaxPrompt /\ 1 <= m /\ m <= MaxNew
          /\ MaxPrompt \in Int /\ MaxNew \in Int
      BY LimitAssumption
    <3> HIDE DEF n
    <3>4. n \in Int /\ Fed(c) = n - 1 /\ 1 <= n /\ n <= MaxPrompt + MaxNew
      BY <3>2, <3>3
    <3> QED
      BY <3>3, <3>4
  <2>4. tok = [call |-> c, n |-> n]
    BY <1>3, <2>1, <2>2 DEF OwnCache
  <2>5. adapter.cache.kv = Own(c, n - 1)
    BY <1>1, <1>8, <2>1, <2>3 DEF OwnCache
  <2> HIDE DEF n
  <2>6. \A l \in Layer : adapter.cache.kv[l] = Toks(c, 1, n - 1)
    BY <2>3, <2>5, OwnValue
  <2>7. Toks(c, 1, n - 1) \o toks = Toks(c, 1, n)
    <3>1. n - 1 \in 0 .. MaxPrompt + MaxNew - 1 /\ n - 1 + 1 = n /\ toks = << [call |-> c, n |-> n] >>
      BY <1>6, <2>3, <2>4
    <3> DEFINE m == n - 1
    <3>2. m \in 0 .. MaxPrompt + MaxNew - 1 /\ m + 1 = n
      BY <3>1
    <3> HIDE DEF m
    <3>3. Toks(c, 1, m) \o << [call |-> c, n |-> m + 1] >> = Toks(c, 1, m + 1)
      BY <3>2, ToksNext
    <3> QED
      BY <3>1, <3>2, <3>3 DEF m
  <2>8. \A l \in Layer : l <= upto
    BY <1>8, ShapeAssumption DEF Layer
  <2>9. \A l \in Layer : cache.kv[l] = Toks(c, 1, n)
    BY <1>7, <2>6, <2>7, <2>8
  <2>10. cache.kv \in [Layer -> Seq(Tok)]
    BY <1>7 DEF Cache, KV
  <2> QED
    BY <2>9, <2>10 DEF Own
<1> QED
  BY <1>7, <1>8 DEF cache, toks, tok

LEMMA TransformersDecode ==
  ASSUME TransformersInv, NEW c \in Call, llama' = llama,
         decode_first(c) \/ decode_next(c) \/ decode_fails(c)
           \/ decode_nothing(c) \/ decode_limit(c)
  PROVE  TransformersInv'
<1>1. Typed /\ AdapterInv /\ Transcripts
  BY DEF TransformersInv
<1>2. MayDecode(c) /\ calls[c].pc = "decode"
  BY DEF decode_first, decode_next, decode_fails, decode_nothing, decode_limit, CanDecode,
         MayDecode
<1>3. /\ adapter.cache \in Cache \cup {None}
      /\ adapter.cache # None => NoSilentGap(adapter.cache)
      /\ adapter.last_logits \in KV \cup {None}
  BY <1>1 DEF AdapterInv, AdapterState
<1>4. ASSUME Stop(c, adapter.cache, TRUE)
      PROVE  TransformersInv'
  <2> DEFINE cache == adapter.cache
  <2>1. /\ cache \in Cache \cup {None} /\ Stop(c, cache, TRUE)
        /\ cache # None => NoSilentGap(cache)
    BY <1>3, <1>4
  <2> HIDE DEF cache
  <2> QED
    BY <1>2, <2>1, TransformersStop
<1>5. CASE decode_first(c)
  <2>1. /\ adapter.cache \in Cache /\ NoSilentGap(adapter.cache)
        /\ calls[c].sampled < MaxNew /\ Len(adapter.generated) = 0
    BY <1>3, <1>5 DEF decode_first, CanDecode, FirstStep, decode_pos
  <2>2. ASSUME Lone(c), calls[c].fed
        PROVE  /\ adapter.last_logits = Own(c, calls[c].prompt + calls[c].sampled)
               /\ adapter.cache.kv = Own(c, calls[c].prompt + calls[c].sampled)
    <3>1. OwnCache(c)
      BY <1>1, <2>2 DEF Transcripts
    <3>2. calls[c].sampled = 0
      BY <2>1, <3>1 DEF OwnCache
    <3>3. Fed(c) = calls[c].prompt + calls[c].sampled
      BY <3>2 DEF Fed
    <3> QED
      BY <1>2, <2>2, <3>1, <3>2, <3>3 DEF OwnCache
  <2>3. CASE Sample(c, adapter.last_logits, adapter.cache)
    BY <1>2, <1>3, <2>1, <2>2, <2>3, TransformersSample
  <2> QED
    BY <1>4, <1>5, <2>3 DEF decode_first, SampleOrEOS
<1>6. CASE decode_next(c)
  <2> DEFINE cache(gap) == Forward(adapter.cache, <<Last(adapter.generated)>>, NLayers, gap)
  <2>1. PICK gap \in Gaps(1) : SampleOrEOS(c, cache(gap).kv, cache(gap))
    BY <1>6 DEF decode_next
  <2>2. CanDecode(c) /\ adapter.generated # <<>> /\ calls[c].sampled < MaxNew
    BY <1>6 DEF decode_next, CanDecode
  <2>3. NLayers \in 0 .. NLayers
    BY ShapeAssumption
  <2>4. /\ cache(gap) \in Cache /\ NoSilentGap(cache(gap))
        /\ Lone(c) /\ calls[c].fed
           => cache(gap).kv = Own(c, calls[c].prompt + calls[c].sampled)
    BY <2>2, <2>3, DecodeForward
  <2> DEFINE made == cache(gap)
  <2>5. /\ made \in Cache /\ NoSilentGap(made)
        /\ Lone(c) /\ calls[c].fed => made.kv = Own(c, calls[c].prompt + calls[c].sampled)
        /\ Sample(c, made.kv, made) \/ Stop(c, made, TRUE)
    BY <2>1, <2>4 DEF SampleOrEOS
  <2> HIDE DEF made, cache
  <2>6. made.kv \in KV \cup {None}
    BY <2>5 DEF Cache
  <2>7. CASE Sample(c, made.kv, made)
    BY <1>2, <2>2, <2>5, <2>6, <2>7, TransformersSample
  <2>8. CASE Stop(c, made, TRUE)
    BY <1>2, <2>5, <2>8, TransformersStop
  <2> QED
    BY <2>5, <2>7, <2>8
<1>7. CASE decode_fails(c)
  <2> DEFINE cache(upto, gap) ==
               Forward(adapter.cache, <<Last(adapter.generated)>>, upto, gap)
  <2>1. PICK upto \in 0 .. NLayers - 1, gap \in Gaps(1) : Stop(c, cache(upto, gap), FALSE)
    BY <1>7 DEF decode_fails
  <2>2. CanDecode(c) /\ adapter.generated # <<>> /\ upto \in 0 .. NLayers
    BY <1>7, ShapeAssumption DEF decode_fails
  <2>3. cache(upto, gap) \in Cache /\ NoSilentGap(cache(upto, gap))
    BY <2>2, DecodeForward
  <2> DEFINE made == cache(upto, gap)
  <2>4. made \in Cache /\ NoSilentGap(made) /\ Stop(c, made, FALSE)
    BY <2>1, <2>3
  <2> HIDE DEF made, cache
  <2> QED
    BY <1>2, <2>4, TransformersStop
<1>8. CASE decode_nothing(c) \/ decode_limit(c)
  BY <1>4, <1>8 DEF decode_nothing, decode_limit
<1> QED
  BY <1>5, <1>6, <1>7, <1>8

(* The session ends, or its consumer closes the stream. *)
LEMMA TransformersLeave ==
  ASSUME TransformersInv, NEW c \in Call, llama' = llama, end_session(c) \/ close(c)
  PROVE  TransformersInv'
<1> DEFINE r == [calls[c] EXCEPT !.pc = "done"]
<1>1. Typed /\ Begins /\ Answered /\ AdapterInv /\ Transcripts
  BY DEF TransformersInv
<1>2. /\ SetCall(c, r) /\ running' \in Call \cup {None} /\ adapter' = adapter
      /\ calls[c].pc \in {"closing", "decode"}
      /\ running \in {c, None}
  BY DEF end_session, close
<1>3. /\ r \in CallState /\ r.pc = "done" /\ r.sampled = calls[c].sampled
      /\ r.prompt = calls[c].prompt /\ r.kind = calls[c].kind
      /\ r.alone = calls[c].alone /\ r.fed = calls[c].fed /\ r.seen = calls[c].seen
  <2>1. calls[c] \in CallState
    BY <1>1 DEF Typed
  <2> QED
    BY <2>1 DEF CallState
<1> HIDE DEF r
<1>4. /\ calls' \in [Call -> CallState] /\ calls'[c] = r
      /\ \A d \in Call : d # c => calls'[d] = calls[d]
  BY <1>1, <1>2, <1>3, SetsCall
<1>5. \A d \in Call : calls[d].pc # "begun"
  BY <1>1, <1>2, NoneAssumption DEF Begins
<1>6. \A d \in Call : calls'[d].pc # "begun"
  BY <1>3, <1>4, <1>5
<1>7. Typed'
  BY <1>1, <1>2, <1>4 DEF Typed
<1>8. Begins' /\ Fresh'
  BY <1>6 DEF Begins, Fresh
<1>9. Answered'
  <2>1. Changes(c, r)
    BY <1>1, <1>2, <1>3, Changed
  <2> QED
    BY <1>1, <1>3, <2>1, AnsweredBySilentStep
<1>10. AdapterInv'
  BY <1>1, <1>2 DEF AdapterInv, NoSilentGap
<1>11. ASSUME NEW d \in Call, Lone(d)'
       PROVE  OwnCache(d)'
  <2>1. calls'[d] = calls[d]
    BY <1>3, <1>4, <1>11 DEF Lone, IsOpen
  <2>2. OwnCache(d)
    BY <1>1, <1>11, <2>1 DEF Transcripts, Lone, IsOpen
  <2>3. Own(d, Fed(d))' = Own(d, Fed(d))
    BY <2>1 DEF Own, Fed
  <2> QED
    BY <1>2, <2>1, <2>2, <2>3 DEF OwnCache
<1> QED
  BY <1>7, <1>8, <1>9, <1>10, <1>11 DEF TransformersInv, Transcripts

LEMMA TransformersClear ==
  ASSUME TransformersInv, clear_kv_cache, llama' = llama
  PROVE  TransformersInv'
<1>1. Typed /\ Begins /\ Answered /\ AdapterInv
  BY DEF TransformersInv
<1>2. /\ running = None /\ running' = running /\ adapter' = [adapter EXCEPT !.cache = None]
      /\ calls' = Overtaken(calls)
  BY DEF clear_kv_cache
<1>3. ASSUME NEW d \in Call
      PROVE  calls'[d] \in CallState /\ calls'[d].pc = calls[d].pc /\ ~Lone(d)'
  BY <1>1, <1>2, OvertakesAll DEF Typed
<1>4. calls' \in [Call -> CallState]
  <2>1. calls' = [d \in Call |-> calls'[d]]
    BY <1>2 DEF Overtaken
  <2> QED
    BY <1>3, <2>1
<1>5. Typed'
  BY <1>1, <1>2, <1>4 DEF Typed
<1>6. Begins' /\ Fresh'
  BY <1>1, <1>2, <1>3, NoneBegun DEF Begins, Fresh
<1>7. Answered'
  BY <1>1, <1>2, AnsweredOvertaken
<1>8. AdapterInv'
  BY <1>1, <1>2 DEF AdapterInv, AdapterState
<1> QED
  BY <1>3, <1>5, <1>6, <1>7, <1>8 DEF TransformersInv, Transcripts

LEMMA TransformersStep ==
  ASSUME TransformersInv, Next, llama' = llama
  PROVE  TransformersInv'
BY TransformersBegin, TransformersPrefill, TransformersDecode, TransformersLeave,
   TransformersClear DEF Next

-----------------------------------------------------------------------------

LEMMA SessionInvInit == SessionInit => SessionInv
<1> SUFFICES ASSUME SessionInit
             PROVE  SessionInv
  OBVIOUS
<1>1. /\ calls = [c \in Call |-> Unused] /\ running = None
      /\ \E native \in BOOLEAN :
           adapter = [cache |-> None, last_logits |-> None, generated |-> <<>>,
                      native |-> native]
      /\ \E meta \in BOOLEAN :
           llama = [ctx |-> <<>>, logits |-> None, prompt |-> 0, generated |-> <<>>,
                    done |-> FALSE, stat |-> 0, meta |-> meta]
  BY DEF SessionInit, Init
<1>2. 0 \in 0 .. MaxPrompt /\ 0 \in 0 .. MaxNew /\ <<>> \in Seq(Tok)
  BY LimitAssumption
<1>3. Unused \in CallState /\ Unused.pc = "unused" /\ Unused.sampled = 0
  BY <1>2 DEF CallState, Unused
<1>4. Typed
  <2>1. llama \in LlamaState /\ llama.stat = 0
    BY <1>1, <1>2 DEF LlamaState
  <2>2. calls \in [Call -> CallState]
    BY <1>1, <1>3
  <2> QED
    BY <1>1, <2>1, <2>2 DEF Typed
<1>5. \A c \in Call : calls[c].pc = "unused" /\ calls[c].sampled = 0
  BY <1>1, <1>3
<1>6. Begins /\ Fresh /\ InStep /\ Transcripts
  BY <1>5 DEF Begins, Fresh, InStep, Transcripts, Lone, IsOpen
<1>7. Answered
  BY <1>5 DEF Answered, OwnContext
<1>8. AdapterInv /\ adapter.cache = None
  BY <1>1, <1>2 DEF AdapterInv, AdapterState
<1>9. backend \in {"transformers", "llama_cpp_python"}
  BY DEF SessionInit
<1> QED
  BY <1>4, <1>6, <1>7, <1>8, <1>9 DEF SessionInv

LEMMA SessionInvStep == SessionInv /\ [SessionNext]_session_vars => SessionInv'
<1> SUFFICES ASSUME SessionInv, [SessionNext]_session_vars
             PROVE  SessionInv'
  OBVIOUS
<1>1. CASE backend = "transformers" /\ Next /\ UNCHANGED <<backend, llama>>
  <2>1. TransformersInv
    BY <1>1 DEF SessionInv, TransformersInv
  <2>2. TransformersInv'
    BY <1>1, <2>1, TransformersStep
  <2> QED
    BY <1>1, <2>2 DEF SessionInv, TransformersInv
<1>2. CASE backend = "llama_cpp_python" /\ LlamaNext /\ UNCHANGED backend
  <2>1. LlamaInv /\ Answered /\ AdapterInv /\ adapter.cache = None
    BY <1>2 DEF SessionInv, LlamaInv
  <2>2. LlamaInv' /\ Answered' /\ adapter' = adapter
    BY <1>2, <2>1, LlamaInvStep, LlamaAnswered, LlamaLeavesAdapter
  <2>3. AdapterInv'
    BY <2>1, <2>2 DEF AdapterInv, AdapterState
  <2> QED
    BY <1>2, <2>1, <2>2, <2>3 DEF SessionInv, LlamaInv
<1>3. CASE UNCHANGED session_vars
  <2>1. Typed' /\ Begins' /\ Answered'
    BY <1>3 DEF SessionInv, session_vars, Typed, Begins, Answered, OwnContext, Own, Lone, IsOpen
  <2>2. AdapterInv' /\ (backend = "transformers" => Fresh)'
    BY <1>3 DEF SessionInv, session_vars, AdapterInv, Fresh, NoSilentGap, Own
  <2>3. (backend = "llama_cpp_python" => InStep /\ adapter.cache = None)'
    BY <1>3 DEF SessionInv, session_vars, InStep, OwnFields, Lone, IsOpen
  <2>4. (backend = "transformers" => Transcripts)'
    <3>1. ASSUME backend = "transformers", NEW c \in Call, Lone(c)
          PROVE  OwnCache(c)'
      <4>1. OwnCache(c)
        BY <3>1 DEF SessionInv, Transcripts
      <4>2. calls'[c] = calls[c] /\ adapter' = adapter
        BY <1>3 DEF session_vars
      <4>3. Own(c, Fed(c))' = Own(c, Fed(c))
        BY <4>2 DEF Own, Fed
      <4> QED
        BY <4>1, <4>2, <4>3 DEF OwnCache
    <3> QED
      BY <1>3, <3>1 DEF session_vars, Transcripts, Lone, IsOpen
  <2>5. backend' \in {"transformers", "llama_cpp_python"}
    BY <1>3 DEF SessionInv, session_vars
  <2> QED
    BY <2>1, <2>2, <2>3, <2>4, <2>5 DEF SessionInv
<1> QED
  BY <1>1, <1>2, <1>3 DEF SessionNext

(* The invariant holds of every session, whichever adapter was chosen. *)
THEOREM SessionInvariant == SessionSpec => []SessionInv
<1> QED
  BY SessionInvInit, SessionInvStep, PTL DEF SessionSpec

(* prefill and decode_next of the llama-cpp-python adapter: while a call   *)
(* is alone with the adapter, the context of the model is its prompt and   *)
(* everything it returned, and the logits at hand are of all of it.        *)
THEOREM ContextIsTranscript == SessionSpec => []LlamaCacheIsTranscript
<1>1. SessionInv => LlamaCacheIsTranscript
  BY DEF SessionInv, InStep, OwnFields, Lone, IsOpen, LlamaCacheIsTranscript
<1> QED
  BY <1>1, SessionInvariant, PTL

(* _update_adaptq_tracking: the byte counts a call alone with the adapter  *)
(* reports with a token are of all its own tokens, or zero; the number of  *)
(* tokens reported with them is always its own.                            *)
THEOREM CountsAreOfTheCall == SessionSpec => []StatsAreOwn
<1>1. ASSUME SessionInv, backend = "llama_cpp_python", NEW c \in Call,
             calls[c].pc \in {"decode", "closing"}, calls[c].alone, calls[c].sampled > 0
      PROVE  /\ llama.stat \in {0, calls[c].prompt + calls[c].sampled}
             /\ ~llama.meta => llama.stat = 0
             /\ llama.prompt + Len(llama.generated) = calls[c].prompt + calls[c].sampled
  <2>1. OwnFields(c) /\ calls[c].pc # "begun"
    BY <1>1 DEF SessionInv, InStep, Lone, IsOpen
  <2> QED
    BY <1>1, <2>1 DEF OwnFields, SessionInv, Typed
<1>2. SessionInv => StatsAreOwn
  BY <1>1 DEF StatsAreOwn
<1> QED
  BY <1>2, SessionInvariant, PTL

(* _done is the adapter's: the end of a sequence that one call met never   *)
(* ends another that has the adapter to itself.                            *)
THEOREM NoneIsCutShort == SessionSpec => []NotCutShort
<1>1. SessionInv => NotCutShort
  BY DEF SessionInv, InStep, OwnFields, Lone, IsOpen, NotCutShort
<1> QED
  BY <1>1, SessionInvariant, PTL

(* sample of both adapters: every token a call returns while it is alone   *)
(* with the adapter is sampled from its own prompt and its own earlier     *)
(* tokens, whatever failed before or was left by another session.          *)
THEOREM ContextIsOwn == SessionSpec => []OwnContext
<1>1. SessionInv => OwnContext
  BY DEF SessionInv, Answered
<1> QED
  BY <1>1, SessionInvariant, PTL

(* prefill and decode_next of the Transformers adapter: the cache of a     *)
(* call alone with it is its transcript, each token fed once and in order  *)
(* to every layer.                                                         *)
THEOREM TranscriptIsCached == SessionSpec => []CacheIsTranscript
<1>1. ASSUME SessionInv, NEW c \in Call,
             calls[c].pc = "decode", calls[c].alone, calls[c].fed, adapter.cache # None
      PROVE  adapter.cache.kv = Own(c, Fed(c))
  <2>1. backend = "transformers" => OwnCache(c)
    BY <1>1 DEF SessionInv, Transcripts, Lone, IsOpen
  <2>2. backend # "llama_cpp_python"
    BY <1>1 DEF SessionInv
  <2> QED
    BY <1>1, <2>1, <2>2 DEF OwnCache, SessionInv
<1>2. SessionInv => CacheIsTranscript
  BY <1>1 DEF CacheIsTranscript, Fed
<1> QED
  BY <1>2, SessionInvariant, PTL

(* AdapTQCache.update: whichever engine raises, on whichever head, layer   *)
(* and token, the cache has recorded an error exactly if some engine is    *)
(* behind its layer, and no head misses a token its engine counts.         *)
THEOREM GapsAreReported == SessionSpec => []GapIsReported
<1>1. SessionInv => GapIsReported
  BY DEF SessionInv, AdapterInv, NoSilentGap, GapIsReported
<1> QED
  BY <1>1, SessionInvariant, PTL
=============================================================================
