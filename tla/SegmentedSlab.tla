---------------------------- MODULE SegmentedSlab ----------------------------
(***************************************************************************)
(* SegmentedSlabStorage (storage/segmented_slab.h): a slab per format tag, *)
(* created by the first write with the tag, each a ring of Capacity slots. *)
(* A slot is slab_id * Encode + local index.  The machine runs any         *)
(* sequence of write, free_slot and reset after the one init a backend     *)
(* gets; read changes nothing.                                             *)
(*                                                                         *)
(* A strategy packs all vectors of a tag into the same number of bytes, so *)
(* the bytes of a slot are a function of its tag.                          *)
(***************************************************************************)
EXTENDS Integers, Sequences, FiniteSets, Functions

CONSTANTS
  Data,          \* packed bytes and scale
  Tag,           \* format tags
  SlotBytes(_),  \* packed bytes of a vector with a tag
  Blank,         \* a slot never written
  Capacity,      \* capacity_
  Encode,        \* SS_ENCODE = SS_MAX_CAP
  MaxSlabs,      \* SS_MAX_SLABS
  MaxDrift       \* bound: how far below zero the byte counter is followed

ASSUME CapacityAssumption == Capacity \in Nat \ {0}
ASSUME EncodeAssumption == Encode \in Nat \ {0}
(* A write that needs one slab more than MaxSlabs fails an assertion.      *)
ASSUME TagsFit == IsFiniteSet(Tag) /\ MaxSlabs \in Nat /\ Cardinality(Tag) <= MaxSlabs
ASSUME BytesAssumption == \A t \in Tag : SlotBytes(t) \in Nat \ {0}

VARIABLES
  slabs,       \* slabs_[0 .. n_slabs_ - 1], as a sequence
  total_used,  \* total_used_
  released,    \* history: the slots freed and not written again
  reused       \* history: a freed slot was written again since the reset

vars == <<slabs, total_used, released, reused>>

Tagged == [data : Data, tag : Tag]
Local == 0 .. Capacity - 1
SlotName == 0 .. MaxSlabs * Encode + Capacity

Slab == [tag       : Tag,
         data      : [Local -> Data \cup {Blank}],
         size      : 0 .. Capacity,
         head      : Local,
         next_slot : 0 .. Capacity]

NewSlab(tag) ==
  [tag |-> tag, data |-> [i \in Local |-> Blank], size |-> 0, head |-> 0, next_slot |-> 0]

Init == slabs = <<>> /\ total_used = 0 /\ released = {} /\ reused = FALSE

-----------------------------------------------------------------------------

(* get_or_create_slab: the slabs among which tag has one. *)
get_or_create_slab(tag) ==
  IF \E k \in DOMAIN slabs : slabs[k].tag = tag THEN slabs
  ELSE Append(slabs, NewSlab(tag))

SlabOf(ss, tag) == CHOOSE k \in DOMAIN ss : ss[k].tag = tag

Full(sl) == sl.size >= Capacity

LocalOf(sl) == IF Full(sl) THEN sl.head ELSE sl.next_slot

(* Faulty: slab_id is not scaled. *)
SlotCodeUnscaled(k, local) == k - 1 + local

(* What write returns for a local index of the k-th slab. *)
SlotCode(k, local) == (k - 1) * Encode + local

(* Faulty: the counter keeps the bytes of an overwritten vector. *)
write_leaks(p) ==
  LET ss == get_or_create_slab(p.tag)
      k  == SlabOf(ss, p.tag)
      sl == ss[k]
  IN /\ slabs' = [ss EXCEPT ![k] =
           [tag       |-> sl.tag,
            data      |-> [sl.data EXCEPT ![LocalOf(sl)] = p.data],
            size      |-> IF Full(sl) THEN sl.size ELSE sl.size + 1,
            head      |-> IF Full(sl) THEN (sl.head + 1) % Capacity ELSE sl.head,
            next_slot |-> IF Full(sl) THEN sl.next_slot ELSE sl.next_slot + 1]]
     /\ total_used' = total_used + SlotBytes(p.tag)
     /\ released' = released \ {SlotCode(k, LocalOf(sl))}
     /\ reused' = (reused \/ SlotCode(k, LocalOf(sl)) \in released)

write(p) ==
  LET ss == get_or_create_slab(p.tag)
      k  == SlabOf(ss, p.tag)
      sl == ss[k]
  IN /\ slabs' = [ss EXCEPT ![k] =
           [tag       |-> sl.tag,
            data      |-> [sl.data EXCEPT ![LocalOf(sl)] = p.data],
            size      |-> IF Full(sl) THEN sl.size ELSE sl.size + 1,
            head      |-> IF Full(sl) THEN (sl.head + 1) % Capacity ELSE sl.head,
            next_slot |-> IF Full(sl) THEN sl.next_slot ELSE sl.next_slot + 1]]
     /\ total_used' = total_used + SlotBytes(p.tag)
                      - (IF Full(sl) THEN SlotBytes(sl.tag) ELSE 0)
     /\ released' = released \ {SlotCode(k, LocalOf(sl))}
     /\ reused' = (reused \/ SlotCode(k, LocalOf(sl)) \in released)

(* Only the byte counter changes.  The code accepts any slot; a caller     *)
(* releases a slot that holds a vector, and a vector once.                 *)
free_slot(slot) ==
  /\ slot \div Encode < Len(slabs)
  /\ slot % Encode < slabs[slot \div Encode + 1].size
  /\ slot \notin released
  /\ LET bytes == SlotBytes(slabs[slot \div Encode + 1].tag)
     IN /\ total_used - bytes >= -MaxDrift
        /\ total_used' = total_used - bytes
  /\ released' = released \cup {slot}
  /\ UNCHANGED <<slabs, reused>>

(* The slabs keep their tags and their bytes. *)
reset ==
  /\ slabs' = [k \in DOMAIN slabs |->
                 [tag |-> slabs[k].tag, data |-> slabs[k].data,
                  size |-> 0, head |-> 0, next_slot |-> 0]]
  /\ total_used' = 0
  /\ released' = {}
  /\ reused' = FALSE

Next == \/ \E p \in Tagged : write(p)
        \/ \E slot \in SlotName : free_slot(slot)
        \/ reset

Spec == Init /\ [][Next]_vars

-----------------------------------------------------------------------------

(* Whether read finds the slab and the local index of a slot. *)
Readable(slot) ==
  slot \div Encode < Len(slabs) /\ slot % Encode < Capacity

(* read: decode the slot, then look it up. *)
ReadBack(slot) ==
  IF Readable(slot)
  THEN LET sl == slabs[slot \div Encode + 1]
       IN [data |-> sl.data[slot % Encode], tag |-> sl.tag]
  ELSE Blank

(* The i-th oldest vector of slab k, by the slot its write returned. *)
OldestCode(k, i) == SlotCode(k, (slabs[k].head + i - 1) % Capacity)

Live(tag) ==
  IF \E k \in DOMAIN slabs : slabs[k].tag = tag
  THEN LET k == SlabOf(slabs, tag)
       IN [i \in 1 .. slabs[k].size |->
             [slot |-> OldestCode(k, i), data |-> ReadBack(OldestCode(k, i))]]
  ELSE <<>>

Rings == INSTANCE StorageBackend
           WITH Payload <- Tagged, Class <- Tag, ClassOf <- LAMBDA p : p.tag,
                ClassCap <- Capacity, live <- [t \in Tag |-> Live(t)]

(* Every format tag has a ring of its own: vectors of one tag neither      *)
(* evict nor overwrite those of another, and every slot reads back what    *)
(* was written to it, in the order and for as long as a ring promises.     *)
(* This takes Capacity <= Encode, which the code does not check.           *)
ImplementsRings == Rings!Spec

(* The slots that hold a vector, and the bytes of those not freed.         *)
HeldSlots ==
  UNION {{SlotCode(k, i) : i \in 0 .. slabs[k].size - 1} : k \in DOMAIN slabs}
BytesAt(slot) == SlotBytes(slabs[slot \div Encode + 1].tag)
BytesOccupied == SumFunction([slot \in HeldSlots \ released |-> BytesAt(slot)])

(* The byte counter, kept by increments, is the number of bytes occupied,  *)
(* as long as the ring has not turned over a slot that was freed: a write, *)
(* an eviction, a reset or the release of a vector never lets it drift.    *)
CounterIsExact == ~reused => total_used = BytesOccupied

(* What storage.h:63 says of bytes_used, "Bytes currently occupied by      *)
(* compressed data".  An eviction takes the bytes of a freed vector off a  *)
(* second time: free_slot neither reuses the slot nor marks it.            *)
BytesUsedAreOccupied == total_used = BytesOccupied
=============================================================================
