----------------------------- MODULE SnapshotFile -----------------------------
(***************************************************************************)
(* A .aqss file (replay/session_snapshot.cpp): save truncates the file and *)
(* writes it field by field, in place, through the buffer of an ofstream.  *)
(* The buffer goes to the disk whenever the stream likes, at the latest    *)
(* when it is destroyed; the disk may fill up, the process may die.  A     *)
(* field shows once it is on the disk, so the model does not say when it   *)
(* went to the buffer.  load reads the same file in another process, piece *)
(* by piece, and nothing keeps a save from truncating and rewriting it in  *)
(* between.                                                                *)
(*                                                                         *)
(* A field is a number: a count or a flag where load acts on it, else an   *)
(* identifier of the snapshot it was written for, so that a field loaded   *)
(* as part of the wrong thing shows.                                       *)
(***************************************************************************)
EXTENDS Naturals, Sequences, SequencesExt

CONSTANTS
  Id,        \* identifiers of snapshots, numbers
  MaxHeads,  \* bound: heads of a snapshot
  MaxLog     \* bound: entries of a token log

ASSUME IdAssumption == Id \subseteq Nat \ {0}
ASSUME BoundsAssumption == MaxHeads \in Nat /\ MaxLog \in Nat

VARIABLES
  file,     \* the fields on disk
  writer,   \* the save in progress: fields not on disk yet, badbit
  reader,   \* the load in progress: the fields it has read; torn: a save got in its way
  outcome   \* what the last load returned, or Throws

file_vars == <<file, writer, reader, outcome>>

(* A snapshot as capture makes it: a head at least, the flag of the log    *)
(* only if it has entries, a state if any head has one.                    *)
Snapshot == [id        : Id,
             n_heads   : 1 .. MaxHeads,
             has_state : BOOLEAN,
             n_entries : 0 .. MaxLog]

HasLog(s) == s.n_entries > 0

Throws == [thrown |-> TRUE]
IdleWriter == [saving |-> FALSE, failed |-> FALSE, rest |-> <<>>]
IdleReader == [loading |-> FALSE, got |-> <<>>, torn |-> FALSE]

Repeat(x, n) == [i \in 1 .. n |-> x]

Flags(s) == (IF HasLog(s) THEN 1 ELSE 0) + (IF s.has_state THEN 2 ELSE 0)

(* Magic and version, the shape, the number of heads, the flags. *)
Header(s) == <<s.id, s.n_heads, Flags(s)>>

(* Of every head the storage bytes, scales and tags, with their lengths. *)
HeadBlocks(s) == Repeat(s.id, s.n_heads)

States(s) == IF s.has_state THEN Repeat(10 * s.id, s.n_heads) ELSE <<>>

TokenLog(s) ==
  IF HasLog(s) THEN <<s.n_entries>> \o Repeat(100 * s.id, s.n_entries) ELSE <<>>

(* Faulty: the token log is written before the strategy states. *)
FieldsSwapped(s) == Header(s) \o HeadBlocks(s) \o TokenLog(s) \o States(s)

(* SessionSnapshot::save: the fields in the order they are written. *)
Fields(s) == Header(s) \o HeadBlocks(s) \o States(s) \o TokenLog(s)

-----------------------------------------------------------------------------
(* SessionSnapshot::load: where each part ends, from the fields before it. *)

HeadsEnd(f) == 3 + f[2]
StatesEnd(f) == HeadsEnd(f) + (IF f[3] \in {2, 3} THEN f[2] ELSE 0)
LogEnd(f) ==
  IF f[3] \in {0, 2} THEN StatesEnd(f)
  ELSE StatesEnd(f) + 1 + (IF Len(f) > StatesEnd(f) THEN f[StatesEnd(f) + 1] ELSE 0)

(* Every read that hits the end of the file throws. *)
Whole(f) == Len(f) >= 3 /\ Len(f) >= LogEnd(f)

(* Faulty: reads of the token log are not checked. *)
LoadedUnchecked(f) ==
  IF Len(f) < 3 \/ Len(f) < StatesEnd(f) THEN Throws
  ELSE [shape  |-> f[1],
        heads  |-> SubSeq(f, 4, HeadsEnd(f)),
        states |-> SubSeq(f, HeadsEnd(f) + 1, StatesEnd(f)),
        log    |-> SubSeq(f, StatesEnd(f) + 2, Len(f))]

Loaded(f) ==
  IF ~Whole(f) THEN Throws
  ELSE [shape  |-> f[1],
        heads  |-> SubSeq(f, 4, HeadsEnd(f)),
        states |-> SubSeq(f, HeadsEnd(f) + 1, StatesEnd(f)),
        log    |-> SubSeq(f, StatesEnd(f) + 2, LogEnd(f))]

-----------------------------------------------------------------------------
(* save. *)

FileInit == file = <<>> /\ writer = IdleWriter /\ reader = IdleReader /\ outcome = Throws

(* A load under way is torn from the moment a save empties its file. *)
Disturbed == [reader EXCEPT !.torn = @ \/ reader.loading]

(* Opening the file for writing empties it. *)
open(s) ==
  /\ ~writer.saving
  /\ file' = <<>>
  /\ writer' = [saving |-> TRUE, failed |-> FALSE, rest |-> Fields(s)]
  /\ reader' = Disturbed
  /\ UNCHANGED outcome

(* It cannot be opened: save throws, and what was there stays.             *)
open_fails == ~writer.saving /\ UNCHANGED file_vars

(* The file once the next n fields have reached it. *)
Flushed(n) == file \o SubSeq(writer.rest, 1, n)

(* The stream writes out what it has buffered so far, or runs out of disk  *)
(* on the way; then it ignores every field to come.                        *)
flush ==
  /\ writer.saving /\ ~writer.failed
  /\ \E n \in 0 .. Len(writer.rest), failed \in BOOLEAN :
       /\ n < Len(writer.rest) \/ ~failed
       /\ n > 0 \/ failed
       /\ file' = Flushed(n)
       /\ writer' = [writer EXCEPT !.rest = SubSeq(@, n + 1, Len(@)), !.failed = failed]
  /\ UNCHANGED <<reader, outcome>>

(* Every field has been written to the stream.  save looks at it, and      *)
(* throws or returns; only then does its destructor write the rest of the  *)
(* buffer out, and no one hears whether it could.                          *)
finish ==
  /\ writer.saving
  /\ IF writer.failed THEN UNCHANGED file
     ELSE \E n \in 0 .. Len(writer.rest) : file' = Flushed(n)
  /\ writer' = IdleWriter
  /\ UNCHANGED <<reader, outcome>>

SaveThrows == open_fails \/ (finish /\ writer.failed)

(* The process dies: what is in the buffer is lost. *)
crash == writer.saving /\ writer' = IdleWriter /\ UNCHANGED <<file, reader, outcome>>

SaveNext == (\E s \in Snapshot : open(s)) \/ open_fails \/ flush \/ finish \/ crash

-----------------------------------------------------------------------------
(* load. *)

(* It opens the file and asks for its size: up to the number of heads, a   *)
(* header takes 32 bytes, and a shorter file is refused at once.  A file   *)
(* that is not there is refused as well.                                   *)
load_open ==
  /\ ~reader.loading
  /\ IF Len(file) < 2
     THEN outcome' = Throws /\ UNCHANGED reader
     ELSE reader' = [loading |-> TRUE, got |-> <<>>, torn |-> writer.saving] /\ UNCHANGED outcome
  /\ UNCHANGED <<file, writer>>

(* The file buffer takes the next fields, as many as it likes, from where  *)
(* it stands in the file as it now is. *)
load_read ==
  /\ reader.loading /\ ~Whole(reader.got)
  /\ \E n \in Len(reader.got) + 1 .. Len(file) :
       reader' = [reader EXCEPT !.got = @ \o SubSeq(file, Len(@) + 1, n)]
  /\ UNCHANGED <<file, writer, outcome>>

(* All fields are there, or the file has no more of them. *)
load_end ==
  /\ reader.loading
  /\ Whole(reader.got) \/ Len(file) <= Len(reader.got)
  /\ outcome' = Loaded(reader.got)
  /\ reader' = IdleReader
  /\ UNCHANGED <<file, writer>>

-----------------------------------------------------------------------------

(* What a caller that loads the file of s should get. *)
Content(s) == [shape  |-> s.id,
               heads  |-> HeadBlocks(s),
               states |-> States(s),
               log    |-> Repeat(100 * s.id, s.n_entries)]

(* A load no save got in the way of never returns part of a snapshot:      *)
(* whatever a crash or a full disk left in the file, it throws unless      *)
(* every field save had to write is there, and then returns what was       *)
(* captured.                                                               *)
LoadIsWhole ==
  [][load_end /\ ~reader.torn =>
       \/ outcome' = Throws
       \/ \E s \in Snapshot : file = Fields(s) /\ outcome' = Content(s)]_file_vars

(* A save whose fields have all reached the file can be loaded: its order  *)
(* of fields is the one load expects, with and without the optional parts. *)
SavedLoads ==
  writer.saving /\ writer.rest = <<>> =>
    \E s \in Snapshot : Loaded(file) = Content(s)

(* A save that throws because a write failed has left a file that load     *)
(* refuses: no write error is reported for a file that then loads.  (A     *)
(* save that could not open the file throws as well; it has written        *)
(* nothing, and a snapshot saved there before still loads.)                *)
WriteErrorIsUnloadable ==
  [][SaveThrows /\ writer.saving => Loaded(file') = Throws]_file_vars
=============================================================================
