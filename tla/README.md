# AdapTQ in TLA+

AdapTQ compresses the key/value cache of transformer attention: every appended
key and value is quantized and stored in a ring of fixed capacity, and
attention is computed from the compressed vectors. This directory models two
things. Most modules are about *which* vectors an answer is made of (rings, mirrors,
buffers, resets, snapshots, replays and sessions): there a token is an opaque value,
and its quantized and FP32 copies are the same token. `QuantizedAttention` is about
*what* is computed of them: rotation, codes, packing, dot products and the choice of
values, in exact integer arithmetic.

Paths are relative to `src/`.

## The system

| Component | State | Operations | Interacts with |
|---|---|---|---|
| `KVFlatBuffer` (cache/ring_buffer.cpp) | slots, `head`, `size`, `capacity` | init, insert | one per AttentionHead |
| `AttentionHead` (attention/attention.cpp) | ring, FP32 mirror `raw_kv`, static thread_local scratch | init, append_kv, compute, compute_batch (OpenMP) | C API |
| C API (core/adaptq_c_api.cpp) | contexts, multi-head aggregates, one error text per thread | create, append, compute, reset, destroy, `adaptq_mha_*` | Python binding, llama.cpp patch |
| Storage backends (storage/*.h) | a ring of slots, or one ring per format tag, byte counters | init, write, read, free_slot, reset | strategies write, RuntimeContext and snapshots read |
| Strategies (strategies/*.cpp) | version marker | compress, on_append (eviction), compute_full | storage, RuntimeContext |
| Policy (policies/uniform_policy.cpp) | none | select_strategy, on_metrics | RuntimeContext |
| `RuntimeContext` (runtime/runtime_context.cpp) | a storage, a token count and a quality per head, token position, token log | init, append, compute, reset | all of the above |
| `SessionSnapshot` (replay/session_snapshot.cpp) | copies of the slabs, token log | capture, save, load | RuntimeContext, file system |
| `ReplayEngine` (replay/replay_engine.cpp) | none | replay, branch, replay_with | snapshot, another RuntimeContext |
| Command line (cli/cmd_replay.cpp, cli/cmd_compare.cpp) | none that outlives a command | replay, compare | snapshot file, ReplayEngine, the reader of its report |
| Python replay interface (adaptq/replay.py) | a temporary file and a child process per call | replay, compare, snapshot_info | command line |
| Transformers adapter (adaptq/runtime_py, adaptq/core.py) | cache with an engine per layer, last logits, generated tokens | begin_session, prefill, decode_next, end_session, generate, generate_streaming | model library, C API |
| llama-cpp-python adapter | prompt, generated tokens, end flag, byte counts; context and logits are the model's | the same | model library |
| Quantizer, codebooks, FWHT (core/*.cpp) | the signs of the rotation | quantize_into, dequantize_raw, pack_indices, fwht_forward, fwht_inverse | AttentionHead, HARFixedStrategy |
| Kernels (attention.cpp, kernels/) | none | kdot and vaccum, for four tokens and for one, AVX2 and portable; the batch operations of both backends | read the packed vectors |
| Cost optimizer, C++ adapters | see *Not modelled* | | |

What is hard here, and what makes each part correct:

* **Two copies of one cache.** A head answers from its FP32 mirror or from the
  ring, and only sizes tell which. Correct: both always hold the same window.
* **Ring arithmetic across resets.** reset rewinds indices and erases nothing.
  Correct: no slot is read that was not written since the reset.
* **Threads.** Scratch buffers are static; `compute_batch` runs `compute` on a
  team. Correct: a result depends on its own query and head only, and the batch
  returns, complete.
* **Two writes per token.** RuntimeContext writes a key and a value into one
  ring and reads them back by position, in the format of slot 0.
* **Replaying.** A snapshot may be taken at any moment, of a session that goes
  on; a target may have held anything. Correct: replay and branch reproduce what
  the session held at the token asked for.
* **Several readers of one format.** Codes of 2, 3 and 4 bits are packed once and
  unpacked in four different ways. Correct: an answer is the one the dequantized
  keys and values give, whoever reads them, and sparse V covers its mass; two
  backends give the same sums.
* **Crashes and full disks** during save, and saves during a load. Correct: a load
  that no save got in the way of returns a whole snapshot or throws.
* **A report through a child process**: the command may refuse, be killed, or run
  out of disk and still exit with 0. Correct: a call ends, in an exception or in the
  whole report of one snapshot.
* **Sessions sharing an adapter**: blocking and streamed generations, closed or
  resumed in any order, with model and engine failures on the way, over fields of
  the adapter and of the model that outlive a session. Correct: a call that has the
  adapter to itself samples from its own transcript, counts its own bytes and is not
  cut short by the end of another.

`PROJECT.json` lists every hazard at its line with the properties that cover it.

## Modules

| Module | Models | Checked by |
|---|---|---|
| `KVHead` | the ring and mirror of a head as data, operators from head to head | used by the next two |
| `SlidingWindow` | abstract: a cache holds its last Capacity tokens | refined by AttentionHead |
| `AttentionHead` | a head behind adaptq_append / compute / reset | `head`, `head_stale`, proofs |
| `AdaptqApi` | threads calling the whole C API, handles, error texts | `api`, proofs |
| `ThreadScratch` | the steps inside append_kv, compute and compute_batch on several threads | `scratch`, proofs |
| `StorageBackend` | abstract: what IStorageBackend promises | refined by both slabs |
| `ContiguousSlab` | ContiguousSlabStorage as data | used by the next and by RuntimeState |
| `ContiguousStore` | a contiguous slab in use | proofs |
| `SegmentedSlab` | SegmentedSlabStorage: a ring per format tag | `segmented`, `segmented_bytes`, proofs |
| `RuntimeState` | the state of a RuntimeContext and what its operations do to it | used by RuntimeContext and ReplayEngine, proofs |
| `RuntimeContext` | a runtime under a switching policy | `runtime`, `runtime_pairing`, proofs |
| `ReplayEngine` | feed_token, replay, branch and replay_with as operators on a context | used by the next, for two shapes of context |
| `Replay` | composes a session, its snapshots, a second context replayed into, and the contexts of the commands | `replay`, proofs |
| `SnapshotFile` | save and load of an .aqss file, by two processes, field by field | used by the next |
| `ReplayCommand` | composes the snapshot file, the command that reads it and the Python call that waits for the command | `command`, proofs |
| `AdapterSession` | generations sharing a Transformers adapter, down to `Engine.append` | used by the next, proofs |
| `LlamaSession` | the same drivers over that adapter or over the llama-cpp-python one | `session`, proofs |
| `Vectors`, `Rotation`, `Codebook`, `Packing` | padding, FWHT, the search of a code, packing and its readers, as operators | used by the next |
| `QuantizedAttention` | a cache of packed vectors and compute, in its three readers | `codec`, proofs |
| `KernelBackend` | the batch operations of the scalar and the AVX2 backend over the same cache | `codec`, proofs |
| `Facts` | induction, folds and sums: lemmas every other proof rests on | tlapm |
| `CApi_proofs`, `Attention_proofs`, `Storage_proofs`, `RuntimeState_proofs`, `RuntimeContext_proofs`, `Replay_proofs`, `LlamaSession_proofs` | theorems | tlapm |
| `MC...` | constants and symmetry sets for TLC | |

State and actions carry the names of the code where possible. Some choices
that are not obvious:

* `KVHead` counts in tokens what the code counts in floats (`raw_kv.size()`
  against `n * 2 * dim`); `Insert` keeps the contents of old slots and
  `ResetHead` does not erase them, as in the code.
* `ThreadScratch` abstracts data to its origin: a buffer holds the token, query or
  head it was computed from (the list of slots is that of a head, the order of the
  values that of a query's weights), so mixing threads up shows as a wrong origin. A step
  fills one or two buffers, and later steps read them. The thread that calls
  `compute_batch` belongs to its team until the call returns; other idle threads may help.
  A head has one caller at a time, as include/adaptq.h:12 demands. The threshold is a field
  of each head, so one run has a head on either path.
* `SegmentedSlab` has two history variables: the slots freed and not written again
  (`released`), and whether one of them has been written again (`reused`). free_slot is
  called on slots that hold a vector and once for each, which is what
  include/adaptq/storage.h:59-60 says it is for.
* `RuntimeContext` remembers what was appended to each head since the reset.
  `NoStaleRead` looks at the vectors that compute's slots hold, and says that they are
  those of that history. A read past the slab, which a head with more tokens than its
  capacity makes, gives a vector that no one wrote (`OutOfSlab`): a debug build stops at an
  assertion, a release build takes any bytes.
* `AdapterSession` has an engine per layer, any of which may fail in a pass, or none
  when the native library is missing (`native`). It takes logits to *be* the cache they
  were computed from. A token is named by the call that fed or sampled it and its place in
  that call. `alone` is a history variable: it is lost when another call begins, or when
  one uses or clears the cache. `LlamaSession` adds the adapter in use as a variable that
  never changes, so that one run, and one next-state relation, covers both under the same
  drivers; and whether the model's metadata tells its layers, heads and dimension (`meta`),
  without which bytes are not counted. `Tracked` is a set of outcomes, since reading the
  state of the model may raise, which zeroes the counts.
* `SnapshotFile` has a number for every field: a count or a flag where load acts on
  it, else the snapshot it was written for. A field shows once it is on disk; when it
  went to the stream buffer makes no difference to any reader. `reader.torn` records
  that a save was under way while the load was: a torn load may return a mixture, and
  the properties are about the others. A save throws when it cannot open the file, which
  then stays as it was, or when a write failed before it looked (`SaveThrows`); else it
  returns, and what is left in the buffer may or may not reach the disk.
* `ReplayCommand` takes a report to be its numbers and a closing bracket, which is
  what a JSON parser needs to see: `Closing` is -1, which no number of a report is. The
  command is killed at any point; whatever kills it, the exit status is not 0.
* `Replay` instantiates `ReplayEngine` a second time with the default capacity and
  width, which is what the commands give their contexts whatever the session had.
  `cmd_replay` and `cmd_compare` are operators and not actions: their contexts die
  with the command, so `CommandReproduces` evaluates all of them when a snapshot is
  taken.
* `QuantizedAttention` works on integers. Vectors have an integral norm, so
  normalising them is exact; centroids are in units of 1/10000 and clipped
  coordinates in units of 1/Unit, which every 3 * norm divides. The factors
  1/sqrt(dim) and 1/padded, the same for all tokens, are left out on both sides of
  every comparison. softmax is any assignment of weights that sum to 1 in the
  order of the logits: which weights, no property depends on. `Orders` is what
  `std::sort` may make of them: it is not stable, so equal weights come in any order.
  The readers are the
  AVX2 build and the portable build of `AttentionHead::compute` and
  `HARFixedStrategy::compute_full`. `Padded` is a multiple of 16: the AVX2 loops read
  sixteen codes per turn and would read past the end of a shorter vector.

A definition commented *Faulty* is a plausible bug of the definition below it.
No specification uses these; `PROJECT.json` names, for every property of a
passing run, one that the property catches.

## Runs

Bounds are constants of the cfg files or named `bound` at the guard.

| Run | Bounds | Distinct states | Shows |
|---|---|---|---|
| `head` | ring of 3, mirror of 2, 3 tokens, up to renaming | 5,482 | the head is a sliding window; both paths give the same tokens; no return to the FP32 path without a reset |
| `head_stale` | ring of 3, mirror of 3 | - | *violation*: with capacity = threshold the mirror answers for ever with the first tokens |
| `api` | 2 threads, a handle of either kind, 2 heads | 14,553 | failures are explained to the right thread; rejected calls change nothing |
| `scratch` | 2 threads, 2 heads (one on either path), 2 tokens, 2 queries | 347,359 | no mixing between calls; batches return, complete |
| `segmented` | 2 tags of different sizes, 2 slots each | 22,029 | a ring per tag; the byte counter is the bytes held and not freed until a freed slot is written again |
| `segmented_bytes` | the same | - | *violation*: after that, the counter falls short of the bytes held |
| `runtime` | 2 heads, 2 tokens of capacity, 3 appends per head, 2 strategies | 64,009 | storages keep the window, the slots read hold what was appended since the reset, formats are decoded |
| `runtime_pairing` | 1 head, 2 tokens of capacity | - | *violation*: keys and values are paired wrongly from the second token on |
| `replay` | 2 heads, capacity of 1 token (the commands: 2), width of 3 bits (the commands: 4), 2 tokens, session and target in different formats | 25,138 | replay, branch and the commands reproduce the session |
| `command` | 2 snapshots of one head and up to 1 log entry, all flags; every operation of the Python interface | 490,403 | load returns a whole snapshot or throws; a write error that save reports leaves no file that loads; a Python call ends, with a whole report or an exception |
| `session` | 2 calls, 2 layers, 2 heads, prompts of 0 to 2, 3 new tokens, either adapter, calls up to renaming | 2,979,628 | a call alone samples from its own transcript, counts its own bytes or none and is not cut short; engine gaps are reported |
| `codec` | 12 numbers padded to 16, 2 to 4 bits, 3 readers, one of 6 vectors first and four more after it, one query, weights in quarters, sparse V off, at 3/4 and at 1 | 5,103 | every reader recovers what was packed; codes are nearest; answers are those of the dequantized cache; sparse V covers its mass; the kernel backends agree |

Why these are enough: a ring of 2 or 3 slots fills, turns and is reset within a
few steps, and every further turn repeats a state up to the identity of its
tokens; with 2 or 3 distinct tokens every wrong slot is visible. Two threads and
two heads show every pairwise interference through a buffer. Two heads tell a
per-head count from a shared one, and a token from its position in the log.
Five tokens are one turn of the four-token kernels and one token left over, 16
numbers one turn of the sixteen-code loops; the vectors include the zero vector, one
whose rotation is clipped, its opposite, and others with coordinates in between; every
assignment of quarters that follows the logits is tried, and every order of equal ones. In
`command` two identifiers tell a mixture from a whole snapshot, and a field after every
optional part tells whether load found its end: a second head or entry would only repeat
a field (a run with both, over the file alone, showed nothing else). The commands of
`replay` have more capacity than the session, so that tokens the session has dropped
have to come from the log. `head`, `api`, `segmented` and `session` have no bound on the
length of a behaviour other than the finite state itself (`segmented` bounds by
`MaxDrift` how far below zero the byte counter is followed); `session` stops when
both calls are done, and is the one run that does not check for deadlock.
In `scratch` two
threads take queries of one batch at the same time, which shows a shared rotated query,
list of logits or order; a list of slots shared by two heads on the compressed path is a
case of the proof. Symmetry is used for tokens and calls that are only compared for
equality, in runs without liveness.

The violations are disagreements of the code with its own comments, quoted in
`PROJECT.json` under `findings`. Others were met while modelling, are visible in
the models, and have no run of their own:

* `adaptq_create` ignores the `hybrid_thresh` of its caller (adaptq_c_api.cpp:51)
  and does not clear an old error text (adaptq_c_api.cpp:48); nor does it reject a
  capacity of 0 (:44), by which insert then divides: the models assume a positive one.
* `SegmentedSlab` encodes slots without checking that the capacity fits
  (segmented_slab.h:64): `ImplementsRings` assumes Capacity <= Encode.
* RuntimeContext counts tokens beyond its capacity (runtime_context.cpp:258), so that
  compute on an overflowing head reads past the slab, which contiguous_slab.h:59 asserts
  it does not (`OutOfSlab`). It also decodes a head in the format of slot 0 after a policy has switched
  strategies (:342), does not report a compute on an empty head (:310) and asks the FIFO
  eviction for a slot that is not the oldest (fp_passthrough.cpp:77).
* A snapshot does not record the strategy it was taken with, although
  replay_engine.h:51 says replay uses it: replays are in the target's format,
  which is how `ReplayReproduces` states it.
* A session of the Transformers adapter whose prompt has no tokens, or a stream whose
  prefill failed, takes its first token from the logits an earlier session left
  behind (transformers_hf.py:335): `OwnContext` has to except both.
* The range the quantizer clips to is not that of the codebooks, whatever
  core/quantizer.cpp:80 says ("now in [-1, 1] matching codebook range"): with 3 and 4 bits the
  outer codes are never chosen, and a coordinate at the clip takes code 5 of 0 to 7, or 10 of
  0 to 15.
* The loop over V of a build without AVX2 fills eight entries with the sixteen of the
  4-bit codebook (attention.cpp:523), so that the portable reader is modelled for 2
  and 3 bits only.
* `save` tests its stream before flushing it (session_snapshot.cpp:224), so it can
  return after a write that failed, whatever session_snapshot.h:96 says of errors (`finish`).
* `load`, which keeps reading a file that a save truncates and rewrites, can return the
  beginning of one snapshot and the end of another (`reader.torn` excepts this in
  `LoadIsWhole` and `ResultIsReport`).
* `adaptq replay` without `--strategy` uses har_fixed, whereas cmd_replay.cpp:24 has
  "the same strategy configuration as the snapshot" and adaptq/replay.py:205 "the
  strategy embedded in the snapshot config"; there is none. Nor has it the session's
  capacity and width: `CommandReproduces` says what is replayed all the same.
* A negative `--from-token` replays everything (cmd_replay.cpp), and a report cut off
  by a full disk leaves exit status 0 (:237): only the JSON parser notices.
* `replay` in adaptq/replay.py takes an `output_path` and never writes to it;
  `snapshot_info` documents keys `has_token_log` and `has_strategy_state` that it does
  not return, and loads the whole snapshot where it says "the snapshot header only"
  (adaptq/replay.py:314).
* The byte statistics of the llama-cpp-python adapter are attributes that only
  `decode_next` sets (llama_cpp_python.py:269): a session that ends before its first
  token reports those of the one before. `StatsAreOwn` starts at the first token; from
  there on the counts are of the call's own tokens or zero, never of others.

## Fairness

Two runs check liveness.

`scratch`: a thread inside a call keeps running (weak
fairness of its steps); the caller of a batch, which nothing takes out of its team,
keeps taking iterations; and a batch whose queries are all answered returns, which
is the implicit barrier of `#pragma omp parallel for`. Nothing is assumed of the
threads that merely might help, nor that anyone ever starts a call.

`command`: the child process keeps running (weak fairness of its steps taken together)
and the Python caller, once the child has exited, returns or raises. Nothing is assumed
of the process that saves: it may rewrite the file for ever while the child reads it,
which is why `CallEnds` is not obvious. A load ends because every read of it takes at
least one more field, and what it has read bounds what it still wants. `subprocess.run`
has no timeout; a child that is stopped for good is outside the assumption.

## Proofs

The eight proof modules are checked by tlapm from nothing, for all constants that meet the
assumptions of the modules they are about; TLC evaluates these assumptions on the run of
each module. They are:

* capacities, numbers of heads and layers, and `Encode` are positive; thresholds, bounds of a
  run and masses are natural numbers; at most as many format tags as there is room for slabs;
* a marker (an unwritten slot, no call, no job) is no regular value;
* `PaddedAssumption` and `RotationAssumption`: the padded length is the next power of two,
  a multiple of 16 and at most 1024, the last of `Powers`; the signs are 1 and -1;
* `VectorAssumption`: vectors are of integers and have an integral norm, as *Modules* says.

Every invariant and every action property of the passing runs is proved, by one theorem each
(`theorems` in `PROJECT.json`). What follows is the argument of each module.

**Facts.** The folds of the community modules, `FoldLeft` and `SumFunctionOnSet` among them,
are the value at a set of a function on its subsets that is *chosen* to satisfy an equation.
`FoldExists` and `SumExists` build a solution by induction, and `FoldSolved` and
`SumIsSolution` say that any solution agrees with the one chosen. Induction is over sets
(`NatInduct`, `UpTo`, `SetInduct`: a set that holds 0 and successors holds every number),
which the provers can instantiate where they cannot instantiate a predicate. From these come
the laws of sums: linear (`SumPlus`, `SumTimes`), in any order (`SumRemove`, `SumMoved`), in
two parts or in fours (`SumSplit`, `SumInFours`).

**CApi_proofs.** For a head, `HeadInv` = types, every slot in the window written, and
`MirrorLength`. The last is what makes the others inductive: it relates the length of the
mirror to the size of the ring, before and after the ring is full. Lemmas describe `Scan`
after an insert into a ring with room (it appends) and into a full one (it drops the
oldest). `PathsAlwaysAgree` and `HeadImplementsWindow` need more: `MirrorIsWindow` (a mirror
as long as the ring holds the same tokens, an invariant of use to the proof only), and the
assumption Capacity # HybridThresh. Without it they are false, which `head_stale` shows. For
the API, every action ends in one of three ways (`CallEnds`): it fails, it succeeds and
clears the error text, or it succeeds and leaves the text alone.

**Storage_proofs.** A slab is filled in order, and its head stays at 0 until it is full
(`SlabInv`); `FillAppends` and `TurnReplaces` say what a write does to the live vectors
before and after the ring turns, and `SlabImplementsRing` maps init, reset and both kinds of
write to a step of `StorageBackend`. A segmented slab is a ring per tag (`WriteFills`,
`WriteTurns`), no two slabs have the same tag or share a slot (`SoundSlabs`, `CodesApart`).
`SlabImplementsRings` assumes Capacity <= Encode, which init does not check; without it two
slabs may share a slot. `CounterExact` is about a sum over the slots in use and not freed: a write
adds one term, and with an eviction takes the evicted one away (`CounterInv`, which says as
well that only slots in use are freed).

**RuntimeState_proofs, RuntimeContext_proofs.** The first says what a head holds after a
sequence of pairs has been appended to it, for any capacity (`Filled`, `Fed`): the writes of
an append go to slots 2m and 2m + 1 modulo 2 * Capacity, and no slot of a token still in the
window is among them. In the second, `RuntimeInv` = types and `HeadsInStep`, which relates
each storage to the history of its head; the three properties of the run follow.
`NothingStaleIsRead` takes the slots compute reads and shows what each holds: its place in
the history decides which write was the last to reach it.

**Replay_proofs.** *Replay.* `ReplayInv`: a session, and the one a snapshot was taken of, is
where feeding its own log to an empty context leaves one, and so it was at every token
boundary it has passed (`SessionAt`). Types alone say nothing here: a replay reproduces the
session because log and storages grew together. `feed_token` is a fold over the heads of a
token and `replay` one over the tokens; `TokenFoldKeeps` and `TokensFoldKeeps` show by
induction on both that they leave what `Fed` says, which depends on the log, the capacity
and the format only. So `ReplaysReproduce`, `BranchesReproduce` and
`EveryCommandReproduces`, where the capacities of the two contexts differ.
`SnapshotsHoldWindow`: the entries of the log the property asks for are the places of the
last Capacity tokens of the head (`RecentTokens`, by counting). *The file.* `FileInv`: on
disk is always the beginning of one snapshot, and what a save in progress has left to write
completes it; a load that no save got in the way of has
read a beginning of the file. A
beginning that is not all of the fields is one load refuses (`PartEnds`), and all of them
load as what was captured (`LoadsItsOwn`). A write that failed has left a beginning that
is not all (`WriteErrorIsRefused`). *The command.* `CommandInv` carries that
through the child process: what it loaded, what it accepted, and that an exit status of 0
leaves a beginning of the report in the temporary file; only the whole report ends in
`Closing`.

**LlamaSession_proofs.** A call that has begun has control, and no other open call is alone
with the adapter (`Begins`); so whatever a session left behind, the fields of a call alone
are what its own steps made of them: `InStep` for llama-cpp-python, `Fresh` and
`Transcripts` for Transformers. `OwnContext` is inductive only together with these. A
forward pass is a fold over the layers, and the update of an engine one over its heads;
`ForwardValue` is the induction on them: every layer of the cache has the tokens fed, whether
its engine failed or not or is not fed at all, and the cache says error exactly when some
engine has fewer
(`NoSilentGap`). For the counts (`CountsAreOfTheCall`) the invariant keeps that they are
zero without metadata, and that a step of a call writes them from fields that are its own.

**Attention_proofs, the numbers.** `TokensStored` (a token holds what `quantize_into` made of
its vectors) and `AnswerInv` (an answer is right for the tokens it was made of) are the
invariants; the rest is about the operators.
`EveryReaderRecovers`: one argument per format, from lemmas on the digits of a byte and of the
integers the AVX2 kernels load. `RotationsRoundTrip`: each pass of `fwht` is over pairs of
places; passes of different lengths commute, and a pass done twice doubles the vector, so all
of them done twice multiply it by the padded length. `SearchFindsNearest`: the codebooks rise,
`quantize_fast` counts thresholds that are middles of neighbours, and so a number lies in the
bracket of its code (`BracketIsNearest`). `AnswersAttend`: a pass is symmetric for the dot
product and linear, so a score against the rotated codes is one against the dequantized key
(`DotKey`), and the weighted sum may be rotated back at the end (`OutValue`).
`MassIsCovered`: a place at which the loop stops has the mass, and the places before it hold
the heaviest tokens, whatever the order of equal ones. `BackendsDoAgree`: the batch operations
are folds; each is its base and a sum of terms (`Added`), token by token in the scalar backend,
by fours and then one by one in the other (`ScalarAdds`, `FoursAdd`, `RestAdds`), and the
two sums are the same (`AddedInFours`).

**Attention_proofs, the threads.** `ScratchInv` says who is at work where (`Exclusive`), what
the buffers of a thread hold when its next step reads them (`Buffered`), and that every query
of a running batch is answered, in the works or still to be taken (`Outstanding`).
`Buffered` is what makes the two properties of results inductive: that a buffer belongs to a
thread is used in every step of it. `ReturnIsComplete` follows from `Outstanding`.

Only model-checked, and why: `BatchReturns` and `CallEnds` are liveness under fairness, which
needs ENABLED and is out of reach of the provers. The violations are counterexamples.

## Not modelled

* Rounding: vectors of any norm, the 1e-12 terms, the order in which the lanes of a
  sum are added; the values of softmax; how the codebooks and the signs of the rotation
  came about; heads whose padded length is below 16; the loop over V of a portable build
  with 4 bits, whose behaviour is undefined; the loads of sixteen floats from codebooks of
  four and eight entries (attention.cpp:307, kernels/avx2/kdot_avx2.cpp:181 and :209), which read
  past their ends into lanes that no code selects.
* The cost optimizer and the quality oracle: floating-point formulas without state that
  nothing in the program calls for a decision. C++ adapter glue and the backend vtable,
  which forward; the legacy `RingBuffer`, which only its test uses.
* main.cpp without a command: a demonstration and benchmark that prints. The generator
  of source text behind `create-strategy`; the layout of reports (json but for its
  numbers, csv, md, tex) and the parsing of arguments.
* The Ollama adapter, which keeps nothing between two calls (a stream of its server that
  ends early is returned as a complete text); stubs of other adapters; callbacks that
  re-enter an adapter from `on_token`; the engines of the llama-cpp-python adapter, which
  are never fed.
* The pairing of keys and values in `QuantizedAttention`: its 'har' reader takes a value
  from the token itself, where compute_full reads slot n + i (har_fixed.cpp:233, :244).
  Which vectors are paired is what `runtime_pairing` is about.
* A token log whose rows are in another order than that of the heads; `cached` updates of a
  batch of more than one sequence, which the adapter leaves to the model (they would make
  every layer like one without an engine).
* Metrics, and the state of strategies, which is a version marker for both.
* Allocation failure. Calls with a null handle are modelled where the code checks
  for them.

## Plan

1. Core (done): KVHead, AttentionHead, AdaptqApi, ThreadScratch, with proofs.
2. Storage (done, with proofs): both slabs against one abstract backend.
3. Runtime (done, with proofs): RuntimeContext; next, a runtime over a segmented slab,
   where `free_slot` acts.
4. Snapshot, replay, file, commands and the Python interface (done, with proofs).
5. Sessions (done, with proofs, for both adapters that have a state).
6. Quantized attention and kernel backends (done, with proofs); next, the choice of the
   cost optimizer against its definition.
7. Proofs next: that a batch makes progress as a safety property (while a batch is not
   complete, some thread of its team has a step), from which its liveness is one fairness
   argument away; and the refinement from the steps of `ThreadScratch` to the operations of
   `AttentionHead`.
