----------------------------- MODULE ReplayEngine -----------------------------
(***************************************************************************)
(* What ReplayEngine (replay/replay_engine.cpp) makes of a context and a   *)
(* token log, as operators.  They are in a module of their own because a   *)
(* log is fed to contexts of two shapes: one the caller sized, and one the *)
(* command line sizes by default.                                          *)
(***************************************************************************)
EXTENDS RuntimeState

(* Faulty: every token is fed from the start of the log. *)
FeedTokenFirst(c, log, t, strat, metrics) ==
  FoldLeft(LAMBDA acc, i : IF i < Len(log)
                           THEN AppendContext(acc, i, log[i + 1].tok, strat) ELSE acc,
           c, [h \in 1 .. NIdx |-> h - 1])

(* An entry of the log, and a compute of the same head when metrics are    *)
(* collected.                                                              *)
FeedEntry(c, i, tok, strat, metrics) ==
  LET fed == AppendContext(c, i, tok, strat)
  IN IF metrics THEN ComputeContext(fed, i, strat) ELSE fed

(* feed_token: the entries of token t go to the heads in order, whatever   *)
(* head they were logged for; it returns at the end of the log.            *)
FeedToken(c, log, t, strat, metrics) ==
  FoldLeft(LAMBDA acc, i :
             IF t * NIdx + i < Len(log)
             THEN FeedEntry(acc, i, log[t * NIdx + i + 1].tok, strat, metrics)
             ELSE acc,
           c, [h \in 1 .. NIdx |-> h - 1])

FeedTokens(c, s, n, strat, metrics) ==
  FoldLeft(LAMBDA acc, t : FeedToken(acc, s.token_log, t - 1, strat, metrics),
           c, [t \in 1 .. n |-> t])

(* replay into c. *)
ReplayInto(c, s, strat, metrics) ==
  FeedTokens(ResetContext(c), s, s.n_tokens, strat, metrics)

(* Cross-strategy replay, into a context of its own that is then dropped. *)
replay_with(s, strat, metrics) ==
  FeedTokens(NewContext(Capacity), s, s.n_tokens, strat, metrics)

(* branch: no metrics.  The strategy state restored afterwards is a        *)
(* version marker for both strategies: nothing is restored.                *)
BranchInto(c, s, from_token, strat) ==
  FeedTokens(ResetContext(c), s, from_token, strat, FALSE)
=============================================================================
