---------------------------- MODULE StorageBackend ----------------------------
(***************************************************************************)
(* What a storage backend promises (IStorageBackend,                       *)
(* include/adaptq/storage.h): a vector written can be read back from the   *)
(* slot write returned until ClassCap later vectors of its class have been *)
(* written; slots in use are never handed out twice.  A contiguous slab    *)
(* has one class; a segmented one has a class per format tag.              *)
(***************************************************************************)
EXTENDS Naturals, Sequences

CONSTANTS
  Payload,      \* what is written: packed bytes, scale and format tag
  Class,        \* the independent rings of the backend
  ClassOf(_),   \* the ring a payload goes to
  ClassCap,     \* slots of a ring
  SlotName      \* what write may return

VARIABLE live   \* per class, the readable vectors, the oldest first

Entry == [slot : SlotName, data : Payload]

InUse == UNION {{live[c][i].slot : i \in DOMAIN live[c]} : c \in Class}

Init == live = [c \in Class |-> <<>>]

(* A new slot while the ring has room, else the slot of its oldest vector. *)
Write(p) ==
  LET c == ClassOf(p)
  IN \/ /\ Len(live[c]) < ClassCap
        /\ \E s \in SlotName \ InUse :
             live' = [live EXCEPT ![c] = Append(@, [slot |-> s, data |-> p])]
     \/ /\ Len(live[c]) = ClassCap
        /\ live' = [live EXCEPT ![c] =
                      Append(Tail(@), [slot |-> @[1].slot, data |-> p])]

Reset == live' = [c \in Class |-> <<>>]

Next == Reset \/ \E p \in Payload : Write(p)

Spec == Init /\ [][Next]_live
=============================================================================
