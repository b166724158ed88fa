---------------------------- MODULE ContiguousStore ----------------------------
(***************************************************************************)
(* A ContiguousSlabStorage in use: any sequence of write, reset and init.  *)
(* read and free_slot change nothing and have no action: the refinement    *)
(* mapping is what read returns.                                           *)
(***************************************************************************)
EXTENDS ContiguousSlab, Sequences

VARIABLE store

StoreInit == store = InitSlab

store_write(p) == store' = WriteSlab(store, p)

store_reset == store' = ResetSlab(store)

(* init called again frees the slab and starts over. *)
store_init == store' = InitSlab

StoreNext == store_reset \/ store_init \/ \E p \in Payload : store_write(p)

StoreSpec == StoreInit /\ [][StoreNext]_store

-----------------------------------------------------------------------------

(* Type invariant. *)
StoreTypeOK == store \in SlabState

(* The slot of the i-th oldest vector. *)
SlotAt(st, i) == (st.head + i - 1) % SlabCap

(* What read returns for every slot in use, from the oldest vector on. *)
LiveSlots(st) ==
  [i \in 1 .. st.size |-> [slot |-> SlotAt(st, i), data |-> ReadSlab(st, SlotAt(st, i))]]

Ring == INSTANCE StorageBackend
          WITH Class <- {"all"}, ClassOf <- LAMBDA p : "all", ClassCap <- SlabCap,
               SlotName <- SlabSlot, live <- [c \in {"all"} |-> LiveSlots(store)]

(* The slab keeps the promise of IStorageBackend: every vector reads back  *)
(* from its slot until SlabCap later ones have been written, across any    *)
(* number of turns of the ring and of resets.                              *)
ImplementsRing == Ring!Spec

(* Filling and turning: the ring starts to turn only when it is full, and  *)
(* next_slot, which is never reset in between, is then out of use.         *)
SlabInv == store.next_slot = store.size /\ (store.size < SlabCap => store.head = 0)
=============================================================================
