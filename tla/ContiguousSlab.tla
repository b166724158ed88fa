---------------------------- MODULE ContiguousSlab ----------------------------
(***************************************************************************)
(* ContiguousSlabStorage (storage/contiguous_slab.h) as data: one ring of  *)
(* SlabCap slots, filled in order, then overwritten from the oldest on.    *)
(* A payload stands for the bytes of a slot (the zeroed tail included),    *)
(* its scale and its format tag, which write stores together.  The         *)
(* operators are shared by ContiguousStore, RuntimeState and Replay.       *)
(***************************************************************************)
EXTENDS Integers

CONSTANTS
  Payload,   \* what a slot may hold
  Zero,      \* a slot as init leaves it
  SlabCap    \* capacity_

ASSUME SlabCapAssumption == SlabCap \in Nat \ {0}
ASSUME ZeroAssumption == Zero \notin Payload

SlabSlot == 0 .. SlabCap - 1

SlabState == [data      : [SlabSlot -> Payload \cup {Zero}],
              size      : 0 .. SlabCap,
              head      : SlabSlot,
              next_slot : 0 .. SlabCap]

(* init. *)
EmptySlab(capacity) ==
  [data |-> [s \in 0 .. capacity - 1 |-> Zero], size |-> 0, head |-> 0, next_slot |-> 0]
InitSlab == EmptySlab(SlabCap)

(* Faulty: forgets to rewind next_slot. *)
ResetSlabKeepsNext(st) ==
  [data |-> st.data, size |-> 0, head |-> 0, next_slot |-> st.next_slot]

(* reset: the slab is rewound, its slots are not erased. *)
ResetSlab(st) == [data |-> st.data, size |-> 0, head |-> 0, next_slot |-> 0]

(* The slot the next write takes. *)
WriteSlot(st) == IF st.size < SlabCap THEN st.next_slot ELSE st.head

(* write: the slab after it. *)
WriteSlab(st, p) ==
  [data      |-> [st.data EXCEPT ![WriteSlot(st)] = p],
   size      |-> IF st.size < SlabCap THEN st.size + 1 ELSE st.size,
   head      |-> IF st.size < SlabCap THEN st.head ELSE (st.head + 1) % SlabCap,
   next_slot |-> IF st.size < SlabCap THEN st.next_slot + 1 ELSE st.next_slot]

(* read: its assertion only bounds the slot. *)
ReadSlab(st, s) == st.data[s]
=============================================================================
