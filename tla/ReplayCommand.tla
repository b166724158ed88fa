---------------------------- MODULE ReplayCommand ----------------------------
(***************************************************************************)
(* adaptq.replay (Python) over the adaptq binary over a snapshot file:     *)
(* ReplayEngine.replay and compare and snapshot_info make a temporary file,*)
(* run `adaptq replay` or `adaptq compare` with it as --output, look at    *)
(* the exit status and parse it.  The command loads the snapshot, piece by *)
(* piece, while a session may save it again; it opens its output last and  *)
(* never asks whether it could be written.                                 *)
(*                                                                         *)
(* A report is the numbers in it and a closing bracket.  A snapshot has as *)
(* many tokens as its identifier says.  What the replays compute is in     *)
(* Replay.                                                                 *)
(***************************************************************************)
EXTENDS SnapshotFile, Integers

CONSTANTS
  NoFile  \* no temporary file

VARIABLES
  call,    \* what the Python caller is waiting for
  temp,    \* the temporary file: what is in it
  command  \* the child process

python_vars == <<call, temp, command>>
command_vars == <<file, writer, reader, outcome, call, temp, command>>

(* Names of strategies, one of which the registry does not know. *)
Known == {"har_fixed", "fp_passthrough"}
Unknown == "unknown"

(* from is -1 if no --from-token is given.  snapshot_info is a replay of   *)
(* no tokens.                                                              *)
Calls ==
  {[op |-> "replay", names |-> <<>>, from |-> 0]} \cup
  {[op |-> "replay", names |-> names, from |-> k] :
     names \in {<<>>, <<Unknown>>}, k \in {-1, 2}}
  \cup {[op |-> "compare", names |-> names, from |-> -1] :
          names \in {<<>>, <<"har_fixed", "fp_passthrough">>, <<"har_fixed", Unknown>>}}

NoCall == [op |-> "none", names |-> <<>>, from |-> -1]
NoCommand == [at |-> "none", code |-> 0, torn |-> FALSE]

CommandInit ==
  /\ FileInit
  /\ call = NoCall /\ temp = NoFile /\ command = NoCommand

-----------------------------------------------------------------------------
(* The command. *)

Closing == -1  \* no count

(* The rest is refused with exit status 1: a file that does not load, one  *)
(* without a log, a name the registry does not know, a token the snapshot  *)
(* does not have.  compare has replayed with the names before by then, and *)
(* printed nothing.                                                        *)
Accepts(c, o) ==
  /\ o # Throws
  /\ o.log # <<>>
  /\ \A j \in DOMAIN c.names : c.names[j] \in Known
  /\ c.from <= o.shape

(* format_json: tokens replayed and tokens of the snapshot; cmp_json: a    *)
(* row per strategy with the tokens replayed.                              *)
Report(c, o) ==
  IF c.op = "compare" THEN Repeat(o.shape, Len(c.names)) \o <<Closing>>
  ELSE <<IF c.from >= 0 THEN c.from ELSE o.shape, o.shape, Closing>>

Exit(code) == command' = [command EXCEPT !.at = "exited", !.code = code]

child_open ==
  /\ command.at = "started"
  /\ load_open
  /\ command' = [command EXCEPT !.at = IF reader'.loading THEN "loading" ELSE "loaded"]
  /\ UNCHANGED <<call, temp>>

child_read == command.at = "loading" /\ load_read /\ UNCHANGED python_vars

child_loaded ==
  /\ command.at = "loading"
  /\ load_end
  /\ command' = [command EXCEPT !.at = "loaded", !.torn = reader.torn]
  /\ UNCHANGED <<call, temp>>

child_refuses ==
  /\ command.at = "loaded" /\ ~Accepts(call, outcome)
  /\ Exit(1)
  /\ UNCHANGED <<file_vars, call, temp>>

(* Opening the output empties it, or fails. *)
child_output ==
  /\ command.at = "loaded" /\ Accepts(call, outcome)
  /\ \/ temp' = <<>> /\ command' = [command EXCEPT !.at = "writing"]
     \/ Exit(1) /\ UNCHANGED temp
  /\ UNCHANGED <<file_vars, call>>

(* The whole report is in the file, or what a full disk left of it: the    *)
(* stream is not looked at.                                                *)
child_prints ==
  /\ command.at = "writing"
  /\ \E n \in 0 .. Len(Report(call, outcome)) : temp' = SubSeq(Report(call, outcome), 1, n)
  /\ Exit(0)
  /\ UNCHANGED <<file_vars, call>>

(* A signal, an assertion or an uncaught exception: a status that is not 0. *)
child_killed ==
  /\ command.at \in {"started", "loading", "loaded", "writing"}
  /\ IF command.at = "writing"
     THEN \E n \in 0 .. Len(Report(call, outcome)) : temp' = SubSeq(Report(call, outcome), 1, n)
     ELSE UNCHANGED temp
  /\ Exit(137)
  /\ reader' = IdleReader /\ outcome' = Throws
  /\ UNCHANGED <<file, writer, call>>

-----------------------------------------------------------------------------
(* The Python caller. *)

(* compare refuses an empty list, and every call a missing binary, before  *)
(* there is a file or a process to look after.                             *)
python_call(c) ==
  /\ call = NoCall
  /\ c.op = "compare" => c.names # <<>>
  /\ call' = c
  /\ temp' = <<>>
  /\ command' = [NoCommand EXCEPT !.at = "started"]
  /\ UNCHANGED file_vars

(* Faulty: what the file holds is taken for a report if it holds anything. *)
ParsesAny(t) == t # <<>>

(* json.load: text cut off before the last bracket is no JSON. *)
Parses(t) == t # <<>> /\ t[Len(t)] = Closing

(* Whether it ends in a result or in an exception, the file is removed. *)
CallOver == /\ temp' = NoFile /\ call' = NoCall /\ command' = NoCommand
            /\ outcome' = Throws /\ UNCHANGED <<file, writer, reader>>

python_returns ==
  /\ command.at = "exited" /\ command.code = 0 /\ Parses(temp)
  /\ CallOver

(* Faulty: a command that fails is called again. *)
python_retries ==
  /\ command.at = "exited" /\ (command.code = 0 => ~Parses(temp))
  /\ temp' = <<>> /\ command' = [NoCommand EXCEPT !.at = "started"]
  /\ UNCHANGED <<file_vars, call>>

python_raises ==
  /\ command.at = "exited" /\ (command.code = 0 => ~Parses(temp))
  /\ CallOver

-----------------------------------------------------------------------------

CommandStep == \/ child_open \/ child_read \/ child_loaded
               \/ child_refuses \/ child_output \/ child_prints

CommandNext ==
  \/ SaveNext /\ UNCHANGED python_vars
  \/ CommandStep
  \/ child_killed
  \/ \E c \in Calls : python_call(c)
  \/ python_returns
  \/ python_raises

(* The processes of a call are scheduled; nothing is assumed of the saves. *)
CommandSpec ==
  /\ CommandInit /\ [][CommandNext]_command_vars
  /\ WF_command_vars(CommandStep) /\ WF_command_vars(python_returns \/ python_raises)

-----------------------------------------------------------------------------

(* What a call promises of a snapshot s: one row for every strategy asked  *)
(* for, or the tokens asked for, all of them if none are named.            *)
Promised(c, s, r) ==
  /\ HasLog(s)
  /\ IF c.op = "compare" THEN Len(r) = Len(c.names) + 1 /\ \A j \in DOMAIN c.names : r[j] = s.id
     ELSE Len(r) = 3 /\ r[2] = s.id /\ r[1] \in 0 .. s.id /\ r[1] = (IF c.from < 0 THEN s.id ELSE c.from)

(* A call that returns, returns the report of one whole snapshot, for all  *)
(* it was asked for: not the beginning of one that met a full disk, which  *)
(* leaves exit status 0, nor one for some of its strategies, nor one of a  *)
(* command that was killed.  Not so if a save rewrote the snapshot while   *)
(* the command was reading it.                                             *)
ResultIsReport ==
  [][python_returns /\ ~command.torn =>
       \E s \in Snapshot : outcome = Content(s) /\ Promised(call, s, temp)]_command_vars

(* Every call ends, although the snapshot may be saved over and over while *)
(* the command reads it.                                                   *)
CallEnds == call # NoCall ~> call = NoCall
=============================================================================
