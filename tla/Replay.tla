-------------------------------- MODULE Replay --------------------------------
(***************************************************************************)
(* A session, its snapshots and their replay: RuntimeContext driven token  *)
(* by token over all heads, SessionSnapshot::capture at any point, and     *)
(* ReplayEngine::replay, branch and replay_with on another context.        *)
(*                                                                         *)
(* The session appends in the order the token log is indexed by: all heads *)
(* of a token, row by row, before the next token.  It may be captured in   *)
(* the middle of a token.                                                  *)
(***************************************************************************)
EXTENDS ReplayEngine, FiniteSets

CONSTANTS
  Own,       \* the strategy of the session's heads
  DefaultCapacity, \* capacity of a RuntimeContextConfig nobody set
  Target,    \* the strategy of the context a snapshot is replayed into
  NoSnap,    \* no snapshot taken yet
  MaxTokens  \* bound: tokens of a session between two resets

ASSUME StrategiesAssumption == {Own, Target} \subseteq Strategy
ASSUME LoggingAssumption == LogTokens
ASSUME DefaultCapacityAssumption == DefaultCapacity \in Nat \ {0}

VARIABLES
  ctx,       \* the session
  snap,      \* the last snapshot
  target,    \* the context replayed into
  past,      \* history: what the session held at every token boundary
  snap_past  \* history: past as it was when snap was taken

vars == <<ctx, snap, target, past, snap_past>>

(* What an answer can depend on: the vectors in use, head by head. *)
Held(c) ==
  [i \in Idx |-> [size |-> c.storages[i].size,
                  head |-> c.storages[i].head,
                  used |-> [s \in 0 .. c.storages[i].size - 1 |-> c.storages[i].data[s]],
                  n    |-> c.cache_sizes[i]]]

Init == /\ ctx = InitContext
        /\ snap = NoSnap
        /\ target = InitContext
        /\ past = <<Held(InitContext)>>
        /\ snap_past = <<>>

-----------------------------------------------------------------------------
(* The session. *)

(* The head whose turn it is within the current token. *)
Turn == Len(ctx.token_log) % NIdx

append(tok) ==
  /\ ctx.token_pos < MaxTokens
  /\ ctx' = AppendContext(ctx, Turn, tok, Own)
  /\ past' = IF Turn = NIdx - 1 THEN Append(past, Held(ctx')) ELSE past
  /\ UNCHANGED <<snap, target, snap_past>>

reset ==
  /\ ctx' = ResetContext(ctx)
  /\ past' = <<Held(ResetContext(ctx))>>
  /\ UNCHANGED <<snap, target, snap_past>>

-----------------------------------------------------------------------------
(* SessionSnapshot::capture. *)

(* Faulty: takes the number of pairs for the number of slots. *)
CaptureHeadHalf(c, i) ==
  LET pairs == c.storages[i].size \div 2
  IN [cache_size   |-> pairs,
      storage_data |-> [s \in 1 .. pairs |-> c.storages[i].data[s - 1]]]

CaptureHead(c, i) ==
  LET pairs == c.storages[i].size \div 2
  IN [cache_size   |-> pairs,
      storage_data |-> [s \in 1 .. 2 * pairs |-> c.storages[i].data[s - 1]]]

(* capture records this width whatever the session's. *)
RecordedBits == 4

Capture(c) == [bits      |-> RecordedBits,
               n_tokens  |-> c.token_pos,
               heads     |-> [i \in Idx |-> CaptureHead(c, i)],
               token_log |-> c.token_log]

capture ==
  /\ snap' = Capture(ctx)
  /\ snap_past' = past
  /\ UNCHANGED <<ctx, target, past>>

-----------------------------------------------------------------------------
(* ReplayEngine. *)

HasTokenLog(s) == s # NoSnap /\ s.token_log # <<>>

(* Faulty: replays on top of what the context holds. *)
replay_no_reset ==
  /\ HasTokenLog(snap)
  /\ UNCHANGED <<ctx, snap, past, snap_past>>
  /\ target' = FeedTokens(target, snap, snap.n_tokens, Target, FALSE)

replay ==
  /\ HasTokenLog(snap)
  /\ UNCHANGED <<ctx, snap, past, snap_past>>
  /\ \E metrics \in BOOLEAN : target' = ReplayInto(target, snap, Target, metrics)

branch(from_token) ==
  /\ HasTokenLog(snap)
  /\ from_token \in 0 .. snap.n_tokens
  /\ UNCHANGED <<ctx, snap, past, snap_past>>
  /\ target' = BranchInto(target, snap, from_token, Target)

-----------------------------------------------------------------------------
(* The command line.  The contexts of `replay` and `compare` are sized by  *)
(* the snapshot, which knows nothing of the capacity and the width the     *)
(* session had: the capacity is the default of RuntimeContextConfig, the   *)
(* width the one capture always records.                                   *)

Cli == INSTANCE ReplayEngine
         WITH Capacity <- DefaultCapacity, SlabCap <- 2 * DefaultCapacity, Bits <- RecordedBits

(* Faulty: the branch stops a token early. *)
cmd_replay_early(s, strat, from_token, metrics) ==
  Cli!BranchInto(Cli!NewContext(DefaultCapacity), s,
                 IF from_token = 0 THEN 0 ELSE from_token - 1, strat)

(* The context cmd_replay ends up with, by the name of a strategy or, if   *)
(* none is given, har_fixed: a branch if a token is given, else a full     *)
(* replay; -1 is no --from-token, and so is every negative number.  It     *)
(* dies with the command: no action has to keep it.                        *)
cmd_replay(s, strat, from_token, metrics) ==
  IF from_token >= 0 THEN Cli!BranchInto(Cli!NewContext(DefaultCapacity), s, from_token, strat)
  ELSE Cli!ReplayInto(Cli!NewContext(DefaultCapacity), s, strat, metrics)

(* The context of one strategy of cmd_compare. *)
cmd_compare(s, strat) == Cli!replay_with(s, strat, TRUE)

Next == \/ \E tok \in Token : append(tok)
        \/ reset
        \/ capture
        \/ replay
        \/ \E k \in 0 .. MaxTokens : branch(k)

Spec == Init /\ [][Next]_vars

-----------------------------------------------------------------------------

(* What a context would hold, had a strategy packed everything in it. *)
Repacked(held, strat) ==
  [i \in Idx |-> [held[i] EXCEPT !.used =
                    [s \in DOMAIN @ |-> KV(@[s].part, @[s].tok, strat)]]]

(* Replay is deterministic and complete: however often the target was used *)
(* before and whatever the session did since the capture, it ends up       *)
(* holding what the session held after the last whole token captured, in   *)
(* the target's own format.                                                *)
ReplayReproduces ==
  [][replay => Held(target') = Repacked(snap_past[snap.n_tokens + 1], Target)]_vars

(* A branch to token k holds what the session held after k tokens.         *)
BranchReproduces ==
  [][\A k \in 0 .. MaxTokens :
       branch(k) => Held(target') = Repacked(snap_past[k + 1], Target)]_vars

(* c has been fed the first n tokens, packed by strat; held is what the    *)
(* session held at every token boundary.                                   *)
HoldsTokens(c, held, n, strat) ==
  \A i \in Idx :
    /\ c.cache_sizes[i] = n
    /\ \A w \in 0 .. 2 * n - 1 : w \div 2 >= n - DefaultCapacity =>
         LET v == held[w \div 2 + 2][i].used[w % (2 * Capacity)]
         IN c.storages[i].data[w % (2 * DefaultCapacity)] = Cli!KV(v.part, v.tok, strat)

(* Every answer measured since the last reset was of the path of strat. *)
MeasuredAs(c, n, strat) ==
  n > 0 => \A i \in Idx :
             c.quality[i] = IF strat = "fp_passthrough" THEN "exact" ELSE "estimated"

CommandsReproduce(s, held) ==
  \A strat \in Strategy :
    /\ \A k \in 0 .. s.n_tokens : HoldsTokens(cmd_replay(s, strat, k, FALSE), held, k, strat)
    /\ \A c \in {cmd_replay(s, strat, -1, TRUE), cmd_compare(s, strat)} :
         HoldsTokens(c, held, s.n_tokens, strat) /\ MeasuredAs(c, s.n_tokens, strat)

(* Whatever the capacity and the width of the session were, a command that *)
(* replays n tokens ends up with every token its own context has room for, *)
(* in the slots and with the vectors the session itself had the moment the *)
(* token was complete, packed anew; and an answer it measured on the way   *)
(* was computed in the format of the strategy asked for.  Stated when the  *)
(* snapshot is taken, which is all a command knows of the session.         *)
CommandReproduces ==
  [][capture => CommandsReproduce(Capture(ctx), past)]_vars

(* The entries of a log that are among the last Capacity of their head.    *)
RecentEntries(log, i) ==
  {j \in DOMAIN log :
     /\ log[j].idx = i
     /\ Cardinality({k \in DOMAIN log : k > j /\ log[k].idx = i}) < Capacity}

(* The rings of a snapshot hold exactly the vectors of the last Capacity   *)
(* tokens its log has for the head, in the middle of a token too.          *)
SnapshotHoldsWindow ==
  snap # NoSnap =>
    \A i \in Idx :
      LET data == snap.heads[i].storage_data
      IN \A part \in {"K", "V"} :
           {data[s].tok : s \in {r \in DOMAIN data : data[r].part = part}}
             = {snap.token_log[j].tok : j \in RecentEntries(snap.token_log, i)}
=============================================================================
