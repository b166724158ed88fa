---------------------------- MODULE Storage_proofs ----------------------------
(***************************************************************************)
(* Proofs about the two storage backends, for every capacity and every set *)
(* of payloads and of format tags: a contiguous slab implements one ring   *)
(* StorageBackend promises, a segmented one a ring per format tag, for any *)
(* capacity a slot has room for: Capacity <= Encode, which init does not   *)
(* check; and its byte counter is the sum over its slabs.                  *)
(*                                                                         *)
(* The argument for the segmented slab has two halves: a slab of its own   *)
(* is a ring, as the contiguous one is (WriteFills, WriteTurns); and no    *)
(* two slabs share a slot (CodesApart) or a tag (SoundSlabs).              *)
(***************************************************************************)
EXTENDS ContiguousStore, SegmentedSlab, Facts, SequenceTheorems, FiniteSetTheorems, TLAPS

-----------------------------------------------------------------------------
(* The contiguous slab. *)

(* The invariant the proofs share. *)
StoreInv == StoreTypeOK /\ SlabInv

(* A write keeps a well-formed slab well-formed. *)
LEMMA WriteType ==
  ASSUME NEW st \in SlabState, NEW p \in Payload,
         st.next_slot = st.size, st.size < SlabCap => st.head = 0
  PROVE  LET w == WriteSlab(st, p)
         IN /\ w \in SlabState
            /\ w.next_slot = w.size
            /\ w.size < SlabCap => w.head = 0
<1>1. WriteSlot(st) \in SlabSlot
  BY SlabCapAssumption DEF WriteSlot, SlabState, SlabSlot
<1>2. [st.data EXCEPT ![WriteSlot(st)] = p] \in [SlabSlot -> Payload \cup {Zero}]
  BY <1>1 DEF SlabState
<1>3. (st.head + 1) % SlabCap \in SlabSlot
  BY SlabCapAssumption DEF SlabState, SlabSlot
<1> QED
  BY <1>2, <1>3, SlabCapAssumption DEF WriteSlab, SlabState, SlabSlot

(* init and reset leave a well-formed slab. *)
LEMMA RewoundType ==
  /\ InitSlab \in SlabState
  /\ \A st \in SlabState : ResetSlab(st) \in SlabState
  BY SlabCapAssumption DEF InitSlab, EmptySlab, ResetSlab, SlabState, SlabSlot

LEMMA StoreInvInit == StoreInit => StoreInv
  BY RewoundType, SlabCapAssumption DEF StoreInit, StoreInv, StoreTypeOK, SlabInv, InitSlab, EmptySlab

LEMMA StoreInvStep == StoreInv /\ [StoreNext]_store => StoreInv'
<1> SUFFICES ASSUME StoreInv, [StoreNext]_store
             PROVE  StoreInv'
  OBVIOUS
<1> USE DEF StoreInv, StoreTypeOK, SlabInv
<1>1. CASE store_reset
  BY <1>1, RewoundType DEF store_reset, ResetSlab
<1>2. CASE store_init
  BY <1>2, RewoundType DEF store_init, InitSlab, EmptySlab
<1>3. ASSUME NEW p \in Payload, store_write(p)
      PROVE  StoreInv'
  BY <1>3, WriteType DEF store_write
<1>4. CASE UNCHANGED store
  BY <1>4
<1> QED
  BY <1>1, <1>2, <1>3, <1>4 DEF StoreNext

THEOREM StoreInvariant == StoreSpec => []StoreInv
  BY StoreInvInit, StoreInvStep, PTL DEF StoreSpec

(* The slab keeps its type through any sequence of writes, resets and      *)
(* inits: no index leaves the slab.                                        *)
THEOREM StoreTypeCorrect == StoreSpec => []StoreTypeOK
  BY StoreInvariant, PTL DEF StoreInv

(* The ring turns only when it is full, and next_slot counts its slots.    *)
THEOREM FillsBeforeTurning == StoreSpec => []SlabInv
  BY StoreInvariant, PTL DEF StoreInv

-----------------------------------------------------------------------------
(* Refinement of the ring. *)

(* A slab that a sequence of writes and resets can leave. *)
Sound(st) ==
  /\ st \in SlabState
  /\ st.next_slot = st.size
  /\ st.size < SlabCap => st.head = 0

RingEntry == [slot : SlabSlot, data : Payload \cup {Zero}]

(* The slots in use, as a sequence. *)
LEMMA LiveValue ==
  ASSUME NEW st, Sound(st)
  PROVE  /\ LiveSlots(st) \in Seq(RingEntry)
         /\ Len(LiveSlots(st)) = st.size
         /\ \A i \in 1 .. st.size :
              /\ SlotAt(st, i) \in SlabSlot
              /\ LiveSlots(st)[i] = [slot |-> SlotAt(st, i), data |-> st.data[SlotAt(st, i)]]
<1>1. /\ st.size \in 0 .. SlabCap /\ st.head \in 0 .. SlabCap - 1
      /\ st.data \in [SlabSlot -> Payload \cup {Zero}]
  BY DEF Sound, SlabState, SlabSlot
<1>2. ASSUME NEW i \in 1 .. st.size
      PROVE  SlotAt(st, i) \in SlabSlot
  <2>1. i \in 1 .. SlabCap
    BY <1>1, SlabCapAssumption
  <2>2. (st.head + i - 1) % SlabCap \in 0 .. SlabCap - 1
    BY <1>1, <2>1, SlabCapAssumption
  <2> QED
    BY <2>2 DEF SlotAt, SlabSlot
<1> DEFINE f == [i \in 1 .. st.size |->
                   [slot |-> SlotAt(st, i), data |-> st.data[SlotAt(st, i)]]]
<1>3. LiveSlots(st) = f
  BY DEF LiveSlots, ReadSlab
<1>4. f \in [1 .. st.size -> RingEntry]
  <2>1. ASSUME NEW i \in 1 .. st.size
        PROVE  [slot |-> SlotAt(st, i), data |-> st.data[SlotAt(st, i)]] \in RingEntry
    BY <1>1, <1>2 DEF RingEntry
  <2> QED
    BY <2>1
<1>5. st.size \in Nat
  BY <1>1, SlabCapAssumption
<1> HIDE DEF f
<1>6. f \in Seq(RingEntry)
  BY <1>4, <1>5, SeqDef
<1>7. Len(f) = st.size
  BY <1>4, <1>5, <1>6, LenProperties
<1>8. \A i \in 1 .. st.size : f[i] = [slot |-> SlotAt(st, i), data |-> st.data[SlotAt(st, i)]]
  BY DEF f
<1> QED
  BY <1>2, <1>3, <1>6, <1>7, <1>8

(* A write into a slab with room appends the vector, in a slot not in use. *)
LEMMA FillAppends ==
  ASSUME NEW st, Sound(st), NEW p \in Payload, st.size < SlabCap
  PROVE  /\ st.next_slot \in SlabSlot
         /\ \A i \in 1 .. st.size : LiveSlots(st)[i].slot # st.next_slot
         /\ LiveSlots(WriteSlab(st, p)) =
              Append(LiveSlots(st), [slot |-> st.next_slot, data |-> p])
<1> DEFINE w == WriteSlab(st, p)
           e == [slot |-> st.next_slot, data |-> p]
<1>1. /\ st.head = 0 /\ st.next_slot = st.size
      /\ st.size \in 0 .. SlabCap - 1
      /\ st.data \in [SlabSlot -> Payload \cup {Zero}]
  BY SlabCapAssumption DEF Sound, SlabState
<1>2. /\ w.head = 0 /\ w.size = st.size + 1
      /\ w.data = [st.data EXCEPT ![st.size] = p]
  BY <1>1 DEF WriteSlab, WriteSlot
<1>3. Sound(w)
  BY WriteType DEF Sound
<1>4. ASSUME NEW i \in 1 .. st.size + 1
      PROVE  SlotAt(st, i) = i - 1 /\ SlotAt(w, i) = i - 1
  <2>1. (0 + i - 1) % SlabCap = i - 1
    BY <1>1, SlabCapAssumption
  <2> QED
    BY <1>1, <1>2, <2>1 DEF SlotAt
<1> HIDE DEF w
<1>5. /\ LiveSlots(st) \in Seq(RingEntry) /\ Len(LiveSlots(st)) = st.size
      /\ \A i \in 1 .. st.size : LiveSlots(st)[i] = [slot |-> i - 1, data |-> st.data[i - 1]]
  BY <1>1, <1>4, LiveValue
<1>6. /\ LiveSlots(w) \in Seq(RingEntry) /\ Len(LiveSlots(w)) = st.size + 1
      /\ \A i \in 1 .. st.size + 1 : LiveSlots(w)[i] = [slot |-> i - 1, data |-> w.data[i - 1]]
  <2>1. /\ LiveSlots(w) \in Seq(RingEntry) /\ Len(LiveSlots(w)) = w.size
        /\ \A i \in 1 .. w.size :
             LiveSlots(w)[i] = [slot |-> SlotAt(w, i), data |-> w.data[SlotAt(w, i)]]
    BY <1>3, LiveValue
  <2> QED
    BY <1>2, <1>4, <2>1
<1>7. e \in RingEntry /\ st.next_slot \in SlabSlot
  BY <1>1, SlabCapAssumption DEF RingEntry, SlabSlot
<1>8. /\ Append(LiveSlots(st), e) \in Seq(RingEntry)
      /\ Len(Append(LiveSlots(st), e)) = st.size + 1
      /\ \A i \in 1 .. st.size : Append(LiveSlots(st), e)[i] = LiveSlots(st)[i]
      /\ Append(LiveSlots(st), e)[st.size + 1] = e
  <2> HIDE DEF e
  <2> QED
    BY <1>5, <1>7, AppendProperties
<1>9. ASSUME NEW i \in 1 .. st.size + 1
      PROVE  LiveSlots(w)[i] = Append(LiveSlots(st), e)[i]
  <2>1. CASE i = st.size + 1
    <3>1. w.data[i - 1] = p
      BY <1>1, <1>2, <1>7, <2>1
    <3> QED
      BY <1>1, <1>6, <1>8, <2>1, <3>1
  <2>2. CASE i # st.size + 1
    <3>1. i \in 1 .. st.size /\ i - 1 # st.size /\ i - 1 \in SlabSlot
      BY <1>1, <2>2, SlabCapAssumption DEF SlabSlot
    <3>2. w.data[i - 1] = st.data[i - 1]
      BY <1>1, <1>2, <3>1
    <3> QED
      BY <1>5, <1>6, <1>8, <3>1, <3>2
  <2> QED
    BY <2>1, <2>2
<1>10. LiveSlots(w) = Append(LiveSlots(st), e)
  <2> HIDE DEF e
  <2> QED
    BY <1>1, <1>6, <1>8, <1>9, SeqEqual
<1>11. \A i \in 1 .. st.size : LiveSlots(st)[i].slot # st.next_slot
  <2>1. ASSUME NEW i \in 1 .. st.size
        PROVE  LiveSlots(st)[i].slot # st.size
    <3>1. st.size \in Nat /\ i \in Int /\ i - 1 # st.size
      BY <1>1, SlabCapAssumption
    <3>2. LiveSlots(st)[i] = [slot |-> i - 1, data |-> st.data[i - 1]]
      BY <1>5
    <3> QED
      BY <3>1, <3>2
  <2> QED
    BY <1>1, <2>1
<1> QED
  BY <1>7, <1>10, <1>11 DEF w

(* A write into a full slab replaces the oldest vector, in its slot. *)
LEMMA TurnReplaces ==
  ASSUME NEW st, Sound(st), NEW p \in Payload, ~(st.size < SlabCap)
  PROVE  LiveSlots(WriteSlab(st, p)) =
           Append(Tail(LiveSlots(st)), [slot |-> LiveSlots(st)[1].slot, data |-> p])
<1> DEFINE w == WriteSlab(st, p)
           e == [slot |-> LiveSlots(st)[1].slot, data |-> p]
<1>1. /\ st.head \in 0 .. SlabCap - 1 /\ st.size = SlabCap
      /\ SlabCap \in Nat \ {0}
      /\ st.data \in [SlabSlot -> Payload \cup {Zero}]
  BY SlabCapAssumption DEF Sound, SlabState, SlabSlot
<1>2. /\ w.head = (st.head + 1) % SlabCap /\ w.size = SlabCap
      /\ w.data = [st.data EXCEPT ![st.head] = p]
  BY <1>1 DEF WriteSlab, WriteSlot
<1>3. Sound(w)
  BY WriteType DEF Sound
<1> HIDE DEF w
<1>4. SlotAt(st, 1) = st.head
  <2>1. /\ 1 \in 1 .. SlabCap /\ st.head + 1 - 1 = st.head
        /\ st.head % SlabCap = st.head
    BY <1>1
  <2> QED
    BY <2>1 DEF SlotAt
<1>5. ASSUME NEW i \in 1 .. SlabCap
      PROVE  SlotAt(w, i) = IF i = SlabCap THEN st.head ELSE SlotAt(st, i + 1)
  <2>1. w.head = IF st.head + 1 < SlabCap THEN st.head + 1 ELSE 0
    BY <1>1, <1>2
  <2>2. w.head \in 0 .. SlabCap - 1
    BY <1>1, <2>1
  <2>3. SlotAt(w, i) = IF w.head + i - 1 < SlabCap THEN w.head + i - 1
                                                  ELSE w.head + i - 1 - SlabCap
    BY <1>1, <2>2, TurnIndex DEF SlotAt
  <2>4. CASE i = SlabCap
    BY <1>1, <2>1, <2>3, <2>4
  <2>5. CASE i # SlabCap
    <3>1. i + 1 \in 1 .. SlabCap
      BY <1>1, <2>5
    <3>2. SlotAt(st, i + 1) = IF st.head + (i + 1) - 1 < SlabCap
                              THEN st.head + (i + 1) - 1 ELSE st.head + (i + 1) - 1 - SlabCap
      BY <1>1, <3>1, TurnIndex DEF SlotAt
    <3> QED
      BY <1>1, <2>1, <2>3, <2>5, <3>2
  <2> QED
    BY <2>4, <2>5
<1>6. ASSUME NEW i \in 2 .. SlabCap
      PROVE  SlotAt(st, i) # st.head
  <2>1. SlotAt(st, i) = IF st.head + i - 1 < SlabCap THEN st.head + i - 1
                                                    ELSE st.head + i - 1 - SlabCap
    BY <1>1, TurnIndex DEF SlotAt
  <2> QED
    BY <1>1, <2>1
<1>7. /\ LiveSlots(st) \in Seq(RingEntry) /\ Len(LiveSlots(st)) = SlabCap
      /\ \A i \in 1 .. SlabCap :
           /\ SlotAt(st, i) \in SlabSlot
           /\ LiveSlots(st)[i] = [slot |-> SlotAt(st, i), data |-> st.data[SlotAt(st, i)]]
  BY <1>1, LiveValue
<1>8. /\ LiveSlots(w) \in Seq(RingEntry) /\ Len(LiveSlots(w)) = SlabCap
      /\ \A i \in 1 .. SlabCap :
           LiveSlots(w)[i] = [slot |-> SlotAt(w, i), data |-> w.data[SlotAt(w, i)]]
  <2>1. /\ LiveSlots(w) \in Seq(RingEntry) /\ Len(LiveSlots(w)) = w.size
        /\ \A i \in 1 .. w.size :
             LiveSlots(w)[i] = [slot |-> SlotAt(w, i), data |-> w.data[SlotAt(w, i)]]
    BY <1>3, LiveValue
  <2> QED
    BY <1>2, <2>1
<1>9. e = [slot |-> st.head, data |-> p] /\ e \in RingEntry
  BY <1>1, <1>4, <1>7 DEF RingEntry, SlabSlot
<1> DEFINE t == Tail(LiveSlots(st))
<1>10. /\ t \in Seq(RingEntry) /\ Len(t) = SlabCap - 1
       /\ \A i \in 1 .. SlabCap - 1 : t[i] = LiveSlots(st)[i + 1]
  <2>1. LiveSlots(st) # <<>>
    BY <1>1, <1>7
  <2> QED
    BY <1>1, <1>7, <2>1, HeadTailProperties
<1> HIDE DEF e, t
<1>11. /\ Append(t, e) \in Seq(RingEntry) /\ Len(Append(t, e)) = SlabCap
       /\ \A i \in 1 .. SlabCap - 1 : Append(t, e)[i] = LiveSlots(st)[i + 1]
       /\ Append(t, e)[SlabCap] = e
  BY <1>1, <1>9, <1>10, AppendProperties
<1>12. ASSUME NEW i \in 1 .. SlabCap
       PROVE  LiveSlots(w)[i] = Append(t, e)[i]
  <2>1. CASE i = SlabCap
    <3>1. SlotAt(w, i) = st.head /\ w.data[st.head] = p
      BY <1>1, <1>2, <1>5, <2>1 DEF SlabSlot
    <3> QED
      BY <1>8, <1>9, <1>11, <2>1, <3>1
  <2>2. CASE i # SlabCap
    <3>1. i \in 1 .. SlabCap - 1 /\ i + 1 \in 1 .. SlabCap /\ i + 1 \in 2 .. SlabCap
      BY <1>1, <2>2
    <3>2. SlotAt(w, i) = SlotAt(st, i + 1)
      BY <1>5, <2>2
    <3>3. w.data[SlotAt(st, i + 1)] = st.data[SlotAt(st, i + 1)]
      BY <1>1, <1>2, <1>6, <1>7, <3>1
    <3> QED
      BY <1>7, <1>8, <1>11, <3>1, <3>2, <3>3
  <2> QED
    BY <2>1, <2>2
<1>13. LiveSlots(w) = Append(t, e)
  BY <1>1, <1>8, <1>11, <1>12, SeqEqual
<1> QED
  BY <1>13 DEF w, t, e

(* The slab implements the ring of IStorageBackend: every step of it is a  *)
(* write, a reset or a stutter of the ring.                                *)
THEOREM SlabImplementsRing == StoreSpec => ImplementsRing
<1> DEFINE L == [c \in {"all"} |-> LiveSlots(store)]
<1>1. StoreInit => Ring!Init
  <2>1. ASSUME store.size = 0
        PROVE  LiveSlots(store) = <<>>
    BY <2>1 DEF LiveSlots
  <2> QED
    BY <2>1 DEF StoreInit, Ring!Init, InitSlab, EmptySlab
<1>2. StoreInv /\ StoreInv' /\ [StoreNext]_store => [Ring!Next]_L
  <2>1. ASSUME store_reset \/ store_init
        PROVE  Ring!Reset
    <3>1. store'.size = 0
      BY <2>1 DEF store_reset, store_init, ResetSlab, InitSlab, EmptySlab
    <3>2. LiveSlots(store') = <<>>
      BY <3>1 DEF LiveSlots
    <3> QED
      BY <3>2 DEF Ring!Reset
  <2>2. ASSUME StoreInv, NEW p \in Payload, store_write(p)
        PROVE  Ring!Write(p)
    <3>1. Sound(store) /\ store' = WriteSlab(store, p)
      BY <2>2 DEF StoreInv, StoreTypeOK, SlabInv, Sound, store_write
    <3>2. Len(LiveSlots(store)) = store.size /\ store.size \in 0 .. SlabCap
      BY <3>1, LiveValue DEF Sound, SlabState
    <3>3. CASE store.size < SlabCap
      <4>1. /\ store.next_slot \in SlabSlot
            /\ \A i \in 1 .. store.size : LiveSlots(store)[i].slot # store.next_slot
            /\ LiveSlots(store') = Append(LiveSlots(store), [slot |-> store.next_slot, data |-> p])
        BY <3>1, <3>3, FillAppends
      <4>2. DOMAIN LiveSlots(store) = 1 .. store.size
        BY DEF LiveSlots
      <4>3. store.next_slot \in SlabSlot \ Ring!InUse
        BY <4>1, <4>2 DEF Ring!InUse
      <4> QED
        BY <3>2, <3>3, <4>1, <4>3 DEF Ring!Write
    <3>4. CASE ~(store.size < SlabCap)
      <4>1. LiveSlots(store') =
              Append(Tail(LiveSlots(store)), [slot |-> LiveSlots(store)[1].slot, data |-> p])
        BY <3>1, <3>4, TurnReplaces
      <4>2. Len(LiveSlots(store)) = SlabCap
        BY <3>2, <3>4, SlabCapAssumption
      <4> QED
        BY <4>1, <4>2 DEF Ring!Write
    <3> QED
      BY <3>3, <3>4
  <2>3. ASSUME UNCHANGED store
        PROVE  UNCHANGED L
    BY <2>3
  <2> QED
    BY <2>1, <2>2, <2>3 DEF StoreNext, Ring!Next
<1> QED
  BY <1>1, <1>2, StoreInvariant, PTL DEF StoreSpec, ImplementsRing, Ring!Spec
-----------------------------------------------------------------------------

-----------------------------------------------------------------------------
(* The segmented slab. *)

Fits == Capacity <= Encode

-----------------------------------------------------------------------------
(* Slots. *)

(* read finds the slab and the index a slot was made of. *)
LEMMA CodeDecodes ==
  ASSUME Fits, NEW k \in Nat \ {0}, NEW l \in Local
  PROVE  /\ SlotCode(k, l) \in Nat
         /\ SlotCode(k, l) \div Encode = k - 1
         /\ SlotCode(k, l) % Encode = l
<1> DEFINE x == SlotCode(k, l)
<1>1. Encode \in Nat \ {0} /\ l \in 0 .. Encode - 1 /\ k - 1 \in Nat
  BY EncodeAssumption, CapacityAssumption DEF Fits, Local
<1>2. x = Encode * (k - 1) + l
  BY <1>1 DEF SlotCode
<1>3. Encode * (k - 1) \in Nat
  BY <1>1
<1> HIDE DEF x
<1>4. x \in Nat
  BY <1>1, <1>2, <1>3
<1>5. x \div Encode = k - 1 /\ x % Encode = l
  BY <1>1, <1>2, <1>4, DivUnique
<1> QED
  BY <1>4, <1>5 DEF x

LEMMA CodesApart ==
  ASSUME Fits, NEW j \in Nat \ {0}, NEW k \in Nat \ {0}, NEW a \in Local, NEW b \in Local,
         SlotCode(j, a) = SlotCode(k, b)
  PROVE  j = k /\ a = b
<1>1. j - 1 = k - 1 /\ a = b
  BY CodeDecodes
<1> QED
  BY <1>1

LEMMA CodeIsName ==
  ASSUME Fits, NEW k \in 1 .. MaxSlabs, NEW l \in Local
  PROVE  SlotCode(k, l) \in SlotName
<1>1. /\ MaxSlabs \in Nat /\ Encode \in Nat /\ Capacity \in Nat /\ l <= Capacity
      /\ k \in Nat \ {0} /\ MaxSlabs - (k - 1) \in Nat
  BY TagsFit, EncodeAssumption, CapacityAssumption DEF Local
<1>2. SlotCode(k, l) \in Nat
  BY <1>1, CodeDecodes
<1>3. MaxSlabs * Encode = (k - 1) * Encode + (MaxSlabs - (k - 1)) * Encode
  BY <1>1
<1>4. (MaxSlabs - (k - 1)) * Encode \in Nat /\ (k - 1) * Encode \in Nat /\ l \in Nat
  BY <1>1 DEF Local
<1>5. SlotCode(k, l) <= MaxSlabs * Encode + Capacity
  BY <1>1, <1>3, <1>4 DEF SlotCode
<1>6. MaxSlabs * Encode + Capacity \in Nat
  BY <1>1
<1> QED
  BY <1>2, <1>5, <1>6 DEF SlotName

-----------------------------------------------------------------------------
(* One slab. *)

Stored == [data : Data \cup {Blank}, tag : Tag]
TaggedEntry == [slot : Nat, data : Stored]

SoundSlab(sl) ==
  /\ sl \in Slab
  /\ sl.next_slot = sl.size
  /\ sl.size < Capacity => sl.head = 0

LocalAt(sl, i) == (sl.head + i - 1) % Capacity

(* The live vectors of a slab that is the k-th. *)
LiveOf(k, sl) ==
  [i \in 1 .. sl.size |->
     [slot |-> SlotCode(k, LocalAt(sl, i)),
      data |-> [data |-> sl.data[LocalAt(sl, i)], tag |-> sl.tag]]]

(* The slab after a write. *)
Written(sl, d) ==
  [tag       |-> sl.tag,
   data      |-> [sl.data EXCEPT ![LocalOf(sl)] = d],
   size      |-> IF Full(sl) THEN sl.size ELSE sl.size + 1,
   head      |-> IF Full(sl) THEN (sl.head + 1) % Capacity ELSE sl.head,
   next_slot |-> IF Full(sl) THEN sl.next_slot ELSE sl.next_slot + 1]

LEMMA SlabFields ==
  ASSUME NEW sl, SoundSlab(sl)
  PROVE  /\ sl.tag \in Tag /\ sl.data \in [Local -> Data \cup {Blank}]
         /\ sl.size \in 0 .. Capacity /\ sl.head \in Local /\ sl.next_slot = sl.size
         /\ Capacity \in Nat \ {0}
         /\ Full(sl) <=> sl.size = Capacity
         /\ ~Full(sl) => sl.head = 0 /\ sl.size \in Local
  BY CapacityAssumption DEF SoundSlab, Slab, Full, Local

LEMMA WrittenSound ==
  ASSUME NEW sl, SoundSlab(sl), NEW d \in Data
  PROVE  SoundSlab(Written(sl, d))
<1> DEFINE w == Written(sl, d)
<1>1. /\ sl.tag \in Tag /\ sl.data \in [Local -> Data \cup {Blank}]
      /\ sl.size \in 0 .. Capacity /\ sl.head \in Local /\ sl.next_slot = sl.size
      /\ Capacity \in Nat \ {0}
      /\ Full(sl) <=> sl.size = Capacity
      /\ ~Full(sl) => sl.head = 0 /\ sl.size \in Local
  BY SlabFields
<1>2. LocalOf(sl) \in Local
  BY <1>1 DEF LocalOf
<1>3. [sl.data EXCEPT ![LocalOf(sl)] = d] \in [Local -> Data \cup {Blank}]
  BY <1>1, <1>2
<1>4. (sl.head + 1) % Capacity \in Local
  BY <1>1 DEF Local
<1>5. CASE Full(sl)
  BY <1>1, <1>3, <1>4, <1>5 DEF Written, SoundSlab, Slab
<1>6. CASE ~Full(sl)
  <2>1. sl.size + 1 \in 0 .. Capacity
    BY <1>1, <1>6 DEF Local
  <2> QED
    BY <1>1, <1>3, <1>6, <2>1 DEF Written, SoundSlab, Slab
<1> QED
  BY <1>5, <1>6

LEMMA LiveOfValue ==
  ASSUME Fits, NEW k \in Nat \ {0}, NEW sl, SoundSlab(sl)
  PROVE  /\ LiveOf(k, sl) \in Seq(TaggedEntry)
         /\ Len(LiveOf(k, sl)) = sl.size /\ DOMAIN LiveOf(k, sl) = 1 .. sl.size
         /\ \A i \in 1 .. sl.size :
              /\ LocalAt(sl, i) \in Local
              /\ LiveOf(k, sl)[i] = [slot |-> SlotCode(k, LocalAt(sl, i)),
                                     data |-> [data |-> sl.data[LocalAt(sl, i)],
                                               tag  |-> sl.tag]]
<1>1. /\ sl.tag \in Tag /\ sl.data \in [Local -> Data \cup {Blank}]
      /\ sl.size \in 0 .. Capacity /\ sl.head \in 0 .. Capacity - 1
      /\ Capacity \in Nat \ {0}
  BY SlabFields DEF Local
<1> DEFINE e(i) == [slot |-> SlotCode(k, LocalAt(sl, i)),
                    data |-> [data |-> sl.data[LocalAt(sl, i)], tag |-> sl.tag]]
           f == [i \in 1 .. sl.size |-> e(i)]
<1>2. ASSUME NEW i \in 1 .. sl.size
      PROVE  LocalAt(sl, i) \in Local /\ e(i) \in TaggedEntry
  <2>1. i \in 1 .. Capacity
    BY <1>1
  <2>2. LocalAt(sl, i) \in Local
    BY <1>1, <2>1, TurnIndex DEF LocalAt, Local
  <2>3. SlotCode(k, LocalAt(sl, i)) \in Nat
    BY <2>2, CodeDecodes
  <2>4. [data |-> sl.data[LocalAt(sl, i)], tag |-> sl.tag] \in Stored
    BY <1>1, <2>2 DEF Stored
  <2> QED
    BY <2>2, <2>3, <2>4 DEF TaggedEntry
<1>3. LiveOf(k, sl) = f
  BY DEF LiveOf
<1>4. \A i \in 1 .. sl.size : f[i] = e(i)
  OBVIOUS
<1> HIDE DEF e
<1>5. f \in [1 .. sl.size -> TaggedEntry]
  BY <1>2
<1>6. sl.size \in Nat
  BY <1>1
<1> HIDE DEF f
<1>7. f \in Seq(TaggedEntry)
  BY <1>5, <1>6, SeqDef
<1>8. Len(f) = sl.size
  BY <1>5, <1>6, <1>7, LenProperties
<1> QED
  BY <1>2, <1>3, <1>4, <1>5, <1>7, <1>8 DEF e

(* While a slab has room its vectors are in its first slots. *)
LEMMA FreshIndex ==
  ASSUME NEW sl, SoundSlab(sl), ~Full(sl), NEW i \in 1 .. sl.size
  PROVE  LocalAt(sl, i) = i - 1 /\ LocalAt(sl, i) # sl.size
<1>1. sl.head = 0 /\ Capacity \in Nat \ {0} /\ sl.size \in 0 .. Capacity - 1
  BY SlabFields DEF Local
<1>2. (0 + i - 1) % Capacity = i - 1
  BY <1>1
<1> QED
  BY <1>1, <1>2 DEF LocalAt

(* A write into a slab with room appends the vector. *)
LEMMA WriteFills ==
  ASSUME Fits, NEW k \in Nat \ {0}, NEW sl, SoundSlab(sl), NEW d \in Data, ~Full(sl)
  PROVE  /\ sl.size \in Local /\ sl.size < Capacity
         /\ LiveOf(k, Written(sl, d)) =
              Append(LiveOf(k, sl), [slot |-> SlotCode(k, sl.size),
                                     data |-> [data |-> d, tag |-> sl.tag]])
<1> DEFINE w == Written(sl, d)
           e == [slot |-> SlotCode(k, sl.size), data |-> [data |-> d, tag |-> sl.tag]]
           s == LiveOf(k, sl)
           t == LiveOf(k, w)
<1>1. /\ sl.tag \in Tag /\ sl.data \in [Local -> Data \cup {Blank}]
      /\ sl.head = 0 /\ sl.next_slot = sl.size
      /\ Capacity \in Nat \ {0} /\ sl.size \in 0 .. Capacity - 1
  BY SlabFields DEF Local
<1>2. /\ w.head = 0 /\ w.size = sl.size + 1 /\ w.tag = sl.tag
      /\ w.data = [sl.data EXCEPT ![sl.size] = d]
  BY <1>1 DEF Written, LocalOf
<1>3. SoundSlab(w)
  BY WrittenSound
<1>4. ASSUME NEW i \in 1 .. sl.size + 1
      PROVE  LocalAt(sl, i) = i - 1 /\ LocalAt(w, i) = i - 1
  <2>1. (0 + i - 1) % Capacity = i - 1
    BY <1>1
  <2> QED
    BY <1>1, <1>2, <2>1 DEF LocalAt
<1> HIDE DEF w
<1>5. /\ s \in Seq(TaggedEntry) /\ Len(s) = sl.size
      /\ \A i \in 1 .. sl.size :
           s[i] = [slot |-> SlotCode(k, i - 1), data |-> [data |-> sl.data[i - 1], tag |-> sl.tag]]
  <2>1. \A i \in 1 .. sl.size : LocalAt(sl, i) = i - 1
    BY <1>1, <1>4
  <2> QED
    BY <2>1, LiveOfValue
<1>6. /\ t \in Seq(TaggedEntry) /\ Len(t) = sl.size + 1
      /\ \A i \in 1 .. sl.size + 1 :
           t[i] = [slot |-> SlotCode(k, i - 1), data |-> [data |-> w.data[i - 1], tag |-> sl.tag]]
  <2>1. /\ t \in Seq(TaggedEntry) /\ Len(t) = w.size
        /\ \A i \in 1 .. w.size :
             t[i] = [slot |-> SlotCode(k, LocalAt(w, i)),
                     data |-> [data |-> w.data[LocalAt(w, i)], tag |-> w.tag]]
    BY <1>3, LiveOfValue
  <2> QED
    BY <1>2, <1>4, <2>1
<1>7. e \in TaggedEntry
  <2>1. sl.size \in Local
    BY <1>1 DEF Local
  <2>2. SlotCode(k, sl.size) \in Nat
    BY <2>1, CodeDecodes
  <2> QED
    BY <1>1, <2>2 DEF TaggedEntry, Stored
<1>8. e.slot = SlotCode(k, sl.size) /\ e.data = [data |-> d, tag |-> sl.tag]
      /\ e = [slot |-> SlotCode(k, sl.size), data |-> [data |-> d, tag |-> sl.tag]]
  OBVIOUS
<1> HIDE DEF e, s, t
<1>9. /\ Append(s, e) \in Seq(TaggedEntry) /\ Len(Append(s, e)) = sl.size + 1
      /\ \A i \in 1 .. sl.size : Append(s, e)[i] = s[i]
      /\ Append(s, e)[sl.size + 1] = e
  BY <1>5, <1>7, AppendProperties
<1>10. ASSUME NEW i \in 1 .. sl.size + 1
       PROVE  t[i] = Append(s, e)[i]
  <2>1. CASE i = sl.size + 1
    <3>1. i - 1 = sl.size /\ w.data[sl.size] = d
      BY <1>1, <1>2, <2>1 DEF Local
    <3> QED
      BY <1>6, <1>8, <1>9, <2>1, <3>1
  <2>2. CASE i # sl.size + 1
    <3>1. i \in 1 .. sl.size /\ i - 1 # sl.size /\ i - 1 \in Local
      BY <1>1, <2>2 DEF Local
    <3>2. w.data[i - 1] = sl.data[i - 1]
      BY <1>1, <1>2, <3>1
    <3> QED
      BY <1>5, <1>6, <1>9, <3>1, <3>2
  <2> QED
    BY <2>1, <2>2
<1>11. t = Append(s, e)
  <2>1. /\ t \in Seq(TaggedEntry) /\ Append(s, e) \in Seq(TaggedEntry)
        /\ Len(t) = Len(Append(s, e))
        /\ \A i \in 1 .. Len(t) : t[i] = Append(s, e)[i]
    BY <1>6, <1>9, <1>10
  <2> QED
    BY ONLY <2>1, SeqEqual
<1> QED
  BY <1>1, <1>11 DEF e, s, t, w, Local

(* A write into a full slab replaces the oldest vector, in its slot. *)
LEMMA WriteTurns ==
  ASSUME Fits, NEW k \in Nat \ {0}, NEW sl, SoundSlab(sl), NEW d \in Data, Full(sl)
  PROVE  /\ sl.size = Capacity
         /\ LiveOf(k, Written(sl, d)) =
              Append(Tail(LiveOf(k, sl)), [slot |-> LiveOf(k, sl)[1].slot,
                                           data |-> [data |-> d, tag |-> sl.tag]])
<1> DEFINE w == Written(sl, d)
           s == LiveOf(k, sl)
           t == LiveOf(k, w)
           e == [slot |-> s[1].slot, data |-> [data |-> d, tag |-> sl.tag]]
<1>1. /\ sl.tag \in Tag /\ sl.data \in [Local -> Data \cup {Blank}]
      /\ sl.head \in 0 .. Capacity - 1 /\ sl.size = Capacity
      /\ Capacity \in Nat \ {0}
  BY SlabFields DEF Local
<1>2. /\ w.head = (sl.head + 1) % Capacity /\ w.size = Capacity /\ w.tag = sl.tag
      /\ w.data = [sl.data EXCEPT ![sl.head] = d]
  BY <1>1 DEF Written, LocalOf
<1>3. SoundSlab(w)
  BY WrittenSound
<1> HIDE DEF w
<1>4. LocalAt(sl, 1) = sl.head
  <2>1. sl.head + 1 - 1 = sl.head /\ sl.head % Capacity = sl.head
    BY <1>1
  <2> QED
    BY <2>1 DEF LocalAt
<1>5. ASSUME NEW i \in 1 .. Capacity
      PROVE  LocalAt(w, i) = IF i = Capacity THEN sl.head ELSE LocalAt(sl, i + 1)
  <2>1. w.head = IF sl.head + 1 < Capacity THEN sl.head + 1 ELSE 0
    BY <1>1, <1>2
  <2>2. w.head \in 0 .. Capacity - 1
    BY <1>1, <2>1
  <2>3. LocalAt(w, i) = IF w.head + i - 1 < Capacity THEN w.head + i - 1
                                                    ELSE w.head + i - 1 - Capacity
    BY <1>1, <2>2, TurnIndex DEF LocalAt
  <2>4. CASE i = Capacity
    BY <1>1, <2>1, <2>3, <2>4
  <2>5. CASE i # Capacity
    <3>1. i + 1 \in 1 .. Capacity
      BY <1>1, <2>5
    <3>2. LocalAt(sl, i + 1) = IF sl.head + (i + 1) - 1 < Capacity
                               THEN sl.head + (i + 1) - 1 ELSE sl.head + (i + 1) - 1 - Capacity
      BY <1>1, <3>1, TurnIndex DEF LocalAt
    <3> QED
      BY <1>1, <2>1, <2>3, <2>5, <3>2
  <2> QED
    BY <2>4, <2>5
<1>6. ASSUME NEW i \in 2 .. Capacity
      PROVE  LocalAt(sl, i) # sl.head
  <2>1. LocalAt(sl, i) = IF sl.head + i - 1 < Capacity THEN sl.head + i - 1
                                                      ELSE sl.head + i - 1 - Capacity
    <3>1. i \in 1 .. Capacity
      BY <1>1
    <3> QED
      BY <1>1, <3>1, TurnIndex DEF LocalAt
  <2> QED
    BY <1>1, <2>1
<1>7. /\ s \in Seq(TaggedEntry) /\ Len(s) = Capacity
      /\ \A i \in 1 .. Capacity :
           /\ LocalAt(sl, i) \in Local
           /\ s[i] = [slot |-> SlotCode(k, LocalAt(sl, i)),
                      data |-> [data |-> sl.data[LocalAt(sl, i)], tag |-> sl.tag]]
  BY <1>1, LiveOfValue
<1>8. /\ t \in Seq(TaggedEntry) /\ Len(t) = Capacity
      /\ \A i \in 1 .. Capacity :
           t[i] = [slot |-> SlotCode(k, LocalAt(w, i)),
                   data |-> [data |-> w.data[LocalAt(w, i)], tag |-> sl.tag]]
  <2>1. /\ t \in Seq(TaggedEntry) /\ Len(t) = w.size
        /\ \A i \in 1 .. w.size :
             t[i] = [slot |-> SlotCode(k, LocalAt(w, i)),
                     data |-> [data |-> w.data[LocalAt(w, i)], tag |-> w.tag]]
    BY <1>3, LiveOfValue
  <2> QED
    BY <1>2, <2>1
<1>9. e = [slot |-> SlotCode(k, sl.head), data |-> [data |-> d, tag |-> sl.tag]] /\ e \in TaggedEntry
  <2>1. sl.head \in Local /\ 1 \in 1 .. Capacity
    BY <1>1 DEF Local
  <2>2. s[1].slot = SlotCode(k, sl.head)
    BY <1>4, <1>7, <2>1
  <2>3. SlotCode(k, sl.head) \in Nat
    BY <2>1, CodeDecodes
  <2> QED
    BY <1>1, <2>2, <2>3 DEF TaggedEntry, Stored
<1> DEFINE u == Tail(s)
<1>10. /\ u \in Seq(TaggedEntry) /\ Len(u) = Capacity - 1
       /\ \A i \in 1 .. Capacity - 1 : u[i] = s[i + 1]
  <2> HIDE DEF s
  <2>1. s # <<>>
    BY <1>1, <1>7
  <2> QED
    BY <1>1, <1>7, <2>1, HeadTailProperties
<1> HIDE DEF e, s, t, u
<1>11. /\ Append(u, e) \in Seq(TaggedEntry) /\ Len(Append(u, e)) = Capacity
       /\ \A i \in 1 .. Capacity - 1 : Append(u, e)[i] = s[i + 1]
       /\ Append(u, e)[Capacity] = e
  BY <1>1, <1>9, <1>10, AppendProperties
<1>12. ASSUME NEW i \in 1 .. Capacity
       PROVE  t[i] = Append(u, e)[i]
  <2>1. CASE i = Capacity
    <3>1. LocalAt(w, i) = sl.head /\ w.data[sl.head] = d
      BY <1>1, <1>2, <1>5, <2>1 DEF Local
    <3> QED
      BY <1>8, <1>9, <1>11, <2>1, <3>1
  <2>2. CASE i # Capacity
    <3>1. i \in 1 .. Capacity - 1 /\ i + 1 \in 1 .. Capacity /\ i + 1 \in 2 .. Capacity
      BY <1>1, <2>2
    <3>2. LocalAt(w, i) = LocalAt(sl, i + 1)
      BY <1>5, <2>2
    <3>3. w.data[LocalAt(sl, i + 1)] = sl.data[LocalAt(sl, i + 1)]
      BY <1>1, <1>2, <1>6, <1>7, <3>1
    <3> QED
      BY <1>7, <1>8, <1>11, <3>1, <3>2, <3>3
  <2> QED
    BY <2>1, <2>2
<1>13. t = Append(u, e)
  BY <1>1, <1>8, <1>11, <1>12, SeqEqual
<1> QED
  BY <1>1, <1>13 DEF w, t, u, e, s

-----------------------------------------------------------------------------
(* The slabs. *)

SoundSlabs(ss) ==
  /\ ss \in Seq(Slab)
  /\ \A k \in DOMAIN ss : SoundSlab(ss[k])
  /\ \A j, k \in DOMAIN ss : ss[j].tag = ss[k].tag => j = k

SlabsInv == SoundSlabs(slabs)

LEMMA SlabsFields ==
  ASSUME NEW ss, SoundSlabs(ss)
  PROVE  /\ Len(ss) \in Nat /\ DOMAIN ss = 1 .. Len(ss)
         /\ \A k \in DOMAIN ss : k \in Nat \ {0} /\ ss[k].tag \in Tag
  BY LenProperties, SlabFields DEF SoundSlabs

(* There is a slab per tag at most. *)
LEMMA FewSlabs ==
  ASSUME NEW ss, SoundSlabs(ss)
  PROVE  Len(ss) <= MaxSlabs
<1> DEFINE f == [k \in 1 .. Len(ss) |-> ss[k].tag]
<1>1. Len(ss) \in Nat /\ DOMAIN ss = 1 .. Len(ss)
  BY SlabsFields
<1>2. f \in Injection(1 .. Len(ss), Tag)
  <2>1. \A k \in 1 .. Len(ss) : ss[k].tag \in Tag
    BY <1>1, SlabsFields
  <2>2. \A j, k \in 1 .. Len(ss) : ss[j].tag = ss[k].tag => j = k
    BY <1>1 DEF SoundSlabs
  <2> QED
    BY <2>1, <2>2 DEF Injection, IsInjective
<1>3. Cardinality(1 .. Len(ss)) <= Cardinality(Tag)
  BY <1>2, TagsFit, FS_Injection
<1>4. Cardinality(1 .. Len(ss)) = Len(ss)
  <2>1. Cardinality(1 .. Len(ss)) = IF 1 > Len(ss) THEN 0 ELSE Len(ss) - 1 + 1
    BY <1>1, FS_Interval
  <2> QED
    BY <1>1, <2>1
<1>5. Cardinality(Tag) \in Nat
  BY TagsFit, FS_CardinalityType
<1> QED
  BY <1>1, <1>3, <1>4, <1>5, TagsFit

(* The slab of a tag is the only one that has it. *)
LEMMA FoundSlab ==
  ASSUME NEW ss, SoundSlabs(ss), NEW k \in DOMAIN ss
  PROVE  SlabOf(ss, ss[k].tag) = k
<1>1. \E j \in DOMAIN ss : ss[j].tag = ss[k].tag
  OBVIOUS
<1>2. /\ SlabOf(ss, ss[k].tag) \in DOMAIN ss
      /\ ss[SlabOf(ss, ss[k].tag)].tag = ss[k].tag
  BY <1>1 DEF SlabOf
<1> QED
  BY <1>2 DEF SoundSlabs

(* The live vectors of a tag in any slabs. *)
LiveIn(ss, tag) ==
  IF \E k \in DOMAIN ss : ss[k].tag = tag
  THEN LiveOf(SlabOf(ss, tag), ss[SlabOf(ss, tag)])
  ELSE <<>>

LEMMA LiveOfSlab ==
  ASSUME NEW ss, SoundSlabs(ss), NEW k \in DOMAIN ss
  PROVE  LiveIn(ss, ss[k].tag) = LiveOf(k, ss[k])
  BY FoundSlab DEF LiveIn

(* What read returns for the slots in use. *)
LEMMA LiveRead ==
  ASSUME Fits, SlabsInv, NEW tag \in Tag
  PROVE  Live(tag) = LiveIn(slabs, tag)
<1>1. CASE ~\E k \in DOMAIN slabs : slabs[k].tag = tag
  BY <1>1 DEF Live, LiveIn
<1>2. ASSUME NEW k \in DOMAIN slabs, slabs[k].tag = tag
      PROVE  Live(tag) = LiveIn(slabs, tag)
  <2>1. SoundSlabs(slabs) /\ SoundSlab(slabs[k])
    BY DEF SlabsInv, SoundSlabs
  <2>2. SlabOf(slabs, tag) = k
    BY <1>2, <2>1, FoundSlab
  <2>3. k \in 1 .. Len(slabs) /\ Len(slabs) \in Nat /\ k \in Nat \ {0}
    BY <2>1, SlabsFields
  <2> DEFINE sl == slabs[k]
  <2>4. ASSUME NEW i \in 1 .. sl.size
        PROVE  /\ OldestCode(k, i) = SlotCode(k, LocalAt(sl, i))
               /\ ReadBack(OldestCode(k, i)) =
                    [data |-> sl.data[LocalAt(sl, i)], tag |-> sl.tag]
    <3>1. LocalAt(sl, i) \in Local
      BY <2>1, <2>3, LiveOfValue
    <3>2. OldestCode(k, i) = SlotCode(k, LocalAt(sl, i))
      BY DEF OldestCode, LocalAt
    <3>3. /\ OldestCode(k, i) \div Encode = k - 1
          /\ OldestCode(k, i) % Encode = LocalAt(sl, i)
      BY <2>3, <3>1, <3>2, CodeDecodes
    <3>4. k - 1 < Len(slabs) /\ k - 1 + 1 = k /\ LocalAt(sl, i) < Capacity
      BY <2>3, <3>1, CapacityAssumption DEF Local
    <3> QED
      BY <3>2, <3>3, <3>4 DEF ReadBack, Readable
  <2>5. Live(tag) = [i \in 1 .. sl.size |-> [slot |-> OldestCode(k, i),
                                             data |-> ReadBack(OldestCode(k, i))]]
    BY <1>2, <2>2 DEF Live
  <2>6. LiveIn(slabs, tag) = LiveOf(k, sl)
    BY <1>2, <2>1, LiveOfSlab
  <2> QED
    BY <2>4, <2>5, <2>6 DEF LiveOf
<1> QED
  BY <1>1, <1>2

LiveIsRead == \A t \in Tag : Live(t) = LiveIn(slabs, t)

LEMMA LiveReadNext == ASSUME Fits PROVE SlabsInv' => LiveIsRead'
<1>1. SlabsInv => LiveIsRead
  BY LiveRead DEF LiveIsRead
<1> QED
  BY <1>1, PTL

(* A slab created by a write is empty, and changes nothing that is live. *)
LEMMA CreatedSlab ==
  ASSUME SlabsInv, NEW tag \in Tag
  PROVE  /\ SoundSlabs(get_or_create_slab(tag))
         /\ \E k \in DOMAIN get_or_create_slab(tag) : get_or_create_slab(tag)[k].tag = tag
         /\ \A t \in Tag : LiveIn(get_or_create_slab(tag), t) = LiveIn(slabs, t)
<1> DEFINE g == get_or_create_slab(tag)
           new == NewSlab(tag)
<1>1. CASE \E k \in DOMAIN slabs : slabs[k].tag = tag
  BY <1>1 DEF get_or_create_slab, SlabsInv
<1>2. CASE ~\E k \in DOMAIN slabs : slabs[k].tag = tag
  <2> DEFINE n == Len(slabs)
  <2>1. g = Append(slabs, new)
    BY <1>2 DEF get_or_create_slab
  <2>2. SoundSlab(new) /\ new.tag = tag /\ new.size = 0
    <3>1. [i \in Local |-> Blank] \in [Local -> Data \cup {Blank}]
      OBVIOUS
    <3>2. 0 \in 0 .. Capacity /\ 0 \in Local
      BY CapacityAssumption DEF Local
    <3> QED
      BY <3>1, <3>2 DEF NewSlab, SoundSlab, Slab
  <2>3. new \in Slab
    BY <2>2 DEF SoundSlab
  <2>4. slabs \in Seq(Slab) /\ n \in Nat /\ DOMAIN slabs = 1 .. n
    BY SlabsFields DEF SlabsInv, SoundSlabs
  <2> HIDE DEF g, new
  <2>5. /\ g \in Seq(Slab) /\ Len(g) = n + 1
        /\ \A i \in 1 .. n : g[i] = slabs[i]
        /\ g[n + 1] = new
    BY <2>1, <2>3, <2>4, AppendProperties
  <2>6. DOMAIN g = 1 .. n + 1
    BY <2>4, <2>5, LenProperties
  <2>7. \A k \in DOMAIN g : k = n + 1 \/ k \in DOMAIN slabs
    BY <2>4, <2>6
  <2>8. SoundSlabs(g)
    <3>1. \A k \in DOMAIN g : SoundSlab(g[k])
      BY <2>2, <2>4, <2>5, <2>7 DEF SlabsInv, SoundSlabs
    <3>2. ASSUME NEW j \in DOMAIN g, NEW k \in DOMAIN g, g[j].tag = g[k].tag
          PROVE  j = k
      BY <1>2, <2>2, <2>4, <2>5, <2>7, <3>2 DEF SlabsInv, SoundSlabs
    <3> QED
      BY <2>5, <3>1, <3>2 DEF SoundSlabs
  <2>9. n + 1 \in DOMAIN g /\ g[n + 1].tag = tag
    BY <2>2, <2>4, <2>5, <2>6
  <2>10. ASSUME NEW t \in Tag
         PROVE  LiveIn(g, t) = LiveIn(slabs, t)
    <3>1. CASE t = tag
      <4>1. LiveIn(g, t) = LiveOf(n + 1, new)
        BY <2>5, <2>8, <2>9, <3>1, LiveOfSlab
      <4>2. LiveOf(n + 1, new) = <<>>
        BY <2>2 DEF LiveOf
      <4> QED
        BY <1>2, <3>1, <4>1, <4>2 DEF LiveIn
    <3>2. ASSUME NEW k \in DOMAIN slabs, slabs[k].tag = t
          PROVE  LiveIn(g, t) = LiveIn(slabs, t)
      <4>1. k \in DOMAIN g /\ g[k] = slabs[k]
        BY <2>4, <2>5, <2>6
      <4>2. LiveIn(g, t) = LiveOf(k, slabs[k])
        BY <2>8, <3>2, <4>1, LiveOfSlab
      <4> QED
        BY <3>2, <4>2, LiveOfSlab DEF SlabsInv
    <3>3. CASE t # tag /\ ~\E k \in DOMAIN slabs : slabs[k].tag = t
      <4>1. ~\E k \in DOMAIN g : g[k].tag = t
        BY <2>2, <2>4, <2>5, <2>7, <3>3
      <4> QED
        BY <3>3, <4>1 DEF LiveIn
    <3> QED
      BY <3>1, <3>2, <3>3
  <2> QED
    BY <2>8, <2>9, <2>10 DEF g
<1> QED
  BY <1>1, <1>2

-----------------------------------------------------------------------------
(* The steps. *)

(* A write replaces the slab of its tag, among those there are then. *)
LEMMA WriteStep ==
  ASSUME SlabsInv, NEW p \in Tagged, write(p)
  PROVE  \E g, k :
           /\ SoundSlabs(g) /\ k \in DOMAIN g /\ g[k].tag = p.tag
           /\ \A t \in Tag : LiveIn(g, t) = LiveIn(slabs, t)
           /\ slabs' = [g EXCEPT ![k] = Written(g[k], p.data)]
<1> DEFINE g == get_or_create_slab(p.tag)
           k == SlabOf(g, p.tag)
<1>1. p.tag \in Tag
  BY DEF Tagged
<1>2. /\ SoundSlabs(g) /\ \A t \in Tag : LiveIn(g, t) = LiveIn(slabs, t)
      /\ \E j \in DOMAIN g : g[j].tag = p.tag
  BY <1>1, CreatedSlab
<1>3. k \in DOMAIN g /\ g[k].tag = p.tag
  BY <1>2 DEF SlabOf
<1>4. slabs' = [g EXCEPT ![k] = Written(g[k], p.data)]
  BY DEF write, Written
<1> HIDE DEF g, k
<1> QED
  BY <1>2, <1>3, <1>4

(* A slab may be replaced by a sound one with its tag. *)
LEMMA ReplacedSlab ==
  ASSUME NEW g, SoundSlabs(g), NEW k \in DOMAIN g,
         NEW w, SoundSlab(w), w.tag = g[k].tag
  PROVE  /\ SoundSlabs([g EXCEPT ![k] = w])
         /\ LiveIn([g EXCEPT ![k] = w], g[k].tag) = LiveOf(k, w)
         /\ \A t \in Tag : t # g[k].tag => LiveIn([g EXCEPT ![k] = w], t) = LiveIn(g, t)
<1> DEFINE h == [g EXCEPT ![k] = w]
<1>1. g \in Seq(Slab) /\ w \in Slab
  BY DEF SoundSlabs, SoundSlab
<1>2. h \in Seq(Slab) /\ DOMAIN h = DOMAIN g
  BY <1>1, ExceptSeq
<1>3. h[k] = w /\ \A j \in DOMAIN g : j # k => h[j] = g[j]
  OBVIOUS
<1> HIDE DEF h
<1>4. \A j \in DOMAIN g : h[j].tag = g[j].tag
  BY <1>3
<1>5. SoundSlabs(h)
  BY <1>2, <1>3, <1>4 DEF SoundSlabs
<1>6. LiveIn(h, g[k].tag) = LiveOf(k, w)
  <2>1. LiveIn(h, h[k].tag) = LiveOf(k, h[k])
    BY <1>2, <1>5, LiveOfSlab
  <2> QED
    BY <1>3, <2>1
<1>7. ASSUME NEW t \in Tag, t # g[k].tag
      PROVE  LiveIn(h, t) = LiveIn(g, t)
  <2>1. CASE ~\E j \in DOMAIN g : g[j].tag = t
    <3>1. ~\E j \in DOMAIN h : h[j].tag = t
      BY <1>2, <1>4, <2>1
    <3> QED
      BY <2>1, <3>1 DEF LiveIn
  <2>2. ASSUME NEW j \in DOMAIN g, g[j].tag = t
        PROVE  LiveIn(h, t) = LiveIn(g, t)
    <3>1. j # k /\ h[j] = g[j] /\ j \in DOMAIN h
      BY <1>2, <1>3, <1>7, <2>2
    <3>2. LiveIn(g, t) = LiveOf(j, g[j])
      BY <2>2, LiveOfSlab
    <3>3. LiveIn(h, h[j].tag) = LiveOf(j, h[j])
      BY <1>5, <3>1, LiveOfSlab
    <3> QED
      BY <2>2, <3>1, <3>2, <3>3
  <2> QED
    BY <2>1, <2>2
<1> QED
  BY <1>5, <1>6, <1>7 DEF h

LEMMA RewoundSlabs ==
  ASSUME SlabsInv, reset
  PROVE  /\ SlabsInv'
         /\ \A k \in DOMAIN slabs' : slabs'[k].size = 0
<1>1. /\ slabs \in Seq(Slab) /\ Len(slabs) \in Nat /\ DOMAIN slabs = 1 .. Len(slabs)
  BY SlabsFields DEF SlabsInv, SoundSlabs
<1>2. slabs' = [k \in DOMAIN slabs |->
                  [tag |-> slabs[k].tag, data |-> slabs[k].data,
                   size |-> 0, head |-> 0, next_slot |-> 0]]
  BY DEF reset
<1>3. ASSUME NEW k \in DOMAIN slabs
      PROVE  /\ SoundSlab(slabs'[k]) /\ slabs'[k].size = 0 /\ slabs'[k].tag = slabs[k].tag
  <2>1. SoundSlab(slabs[k])
    BY DEF SlabsInv, SoundSlabs
  <2>2. slabs[k].tag \in Tag /\ slabs[k].data \in [Local -> Data \cup {Blank}]
    BY <2>1, SlabFields
  <2>3. 0 \in 0 .. Capacity /\ 0 \in Local
    BY CapacityAssumption DEF Local
  <2>4. slabs'[k] = [tag |-> slabs[k].tag, data |-> slabs[k].data,
                     size |-> 0, head |-> 0, next_slot |-> 0]
    BY <1>2
  <2> QED
    BY <2>2, <2>3, <2>4 DEF SoundSlab, Slab
<1>4. slabs' \in [1 .. Len(slabs) -> Slab]
  BY <1>1, <1>2, <1>3 DEF SoundSlab
<1>5. slabs' \in Seq(Slab)
  BY <1>1, <1>4, SeqDef
<1>6. DOMAIN slabs' = DOMAIN slabs
  BY <1>2
<1> QED
  BY <1>3, <1>5, <1>6 DEF SlabsInv, SoundSlabs

LEMMA SlabsInvInit == Init => SlabsInv
<1> SUFFICES ASSUME slabs = <<>>
             PROVE  SlabsInv
  BY DEF Init
<1>1. slabs \in Seq(Slab) /\ DOMAIN slabs = {}
  OBVIOUS
<1> QED
  BY <1>1 DEF SlabsInv, SoundSlabs

LEMMA SlabsInvStep == SlabsInv /\ [Next]_vars => SlabsInv'
<1> SUFFICES ASSUME SlabsInv, [Next]_vars
             PROVE  SlabsInv'
  OBVIOUS
<1>1. ASSUME NEW p \in Tagged, write(p)
      PROVE  SlabsInv'
  <2>1. PICK g, k : /\ SoundSlabs(g) /\ k \in DOMAIN g /\ g[k].tag = p.tag
                    /\ slabs' = [g EXCEPT ![k] = Written(g[k], p.data)]
    BY <1>1, WriteStep
  <2>2. SoundSlab(Written(g[k], p.data)) /\ Written(g[k], p.data).tag = g[k].tag
    <3>1. SoundSlab(g[k]) /\ p.data \in Data
      BY <2>1 DEF SoundSlabs, Tagged
    <3> QED
      BY <3>1, WrittenSound DEF Written
  <2>3. SoundSlabs([g EXCEPT ![k] = Written(g[k], p.data)])
    BY <2>1, <2>2, ReplacedSlab
  <2> QED
    BY <2>1, <2>3 DEF SlabsInv
<1>2. CASE reset
  BY <1>2, RewoundSlabs
<1>3. CASE UNCHANGED slabs
  BY <1>3 DEF SlabsInv
<1> QED
  BY <1>1, <1>2, <1>3 DEF Next, vars, free_slot

(* Every tag has one slab at most, filled in order before its ring turns.  *)
THEOREM SlabsInvariant == Spec => []SlabsInv
<1> QED
  BY SlabsInvInit, SlabsInvStep, PTL DEF Spec

-----------------------------------------------------------------------------
(* Refinement of the rings. *)

(* No vector in use is in the slot a write into a slab with room returns. *)
LEMMA FreshCode ==
  ASSUME Fits, SlabsInv, NEW g, SoundSlabs(g), NEW k \in DOMAIN g, ~Full(g[k]),
         \A t \in Tag : LiveIn(g, t) = Live(t)
  PROVE  SlotCode(k, g[k].size) \in SlotName \ Rings!InUse
<1>1. /\ k \in Nat \ {0} /\ k \in 1 .. Len(g) /\ Len(g) \in Nat
      /\ SoundSlab(g[k]) /\ g[k].size \in Local
  BY SlabsFields, SlabFields DEF SoundSlabs
<1>2. SlotCode(k, g[k].size) \in SlotName
  <2>1. k \in 1 .. MaxSlabs
    BY <1>1, FewSlabs, TagsFit
  <2> QED
    BY <1>1, <2>1, CodeIsName
<1>3. ASSUME NEW t \in Tag, NEW i \in DOMAIN Live(t)
      PROVE  Live(t)[i].slot # SlotCode(k, g[k].size)
  <2>1. PICK j \in DOMAIN g : g[j].tag = t
    <3>1. Live(t) # <<>>
      BY <1>3
    <3>2. LiveIn(g, t) # <<>>
      BY <3>1
    <3> QED
      BY <3>2 DEF LiveIn
  <2>2. Live(t) = LiveOf(j, g[j])
    BY <2>1, LiveOfSlab
  <2>3. j \in Nat \ {0} /\ SoundSlab(g[j])
    BY SlabsFields DEF SoundSlabs
  <2>4. /\ i \in 1 .. g[j].size /\ LocalAt(g[j], i) \in Local
        /\ Live(t)[i].slot = SlotCode(j, LocalAt(g[j], i))
    <3> DEFINE sl == g[j]
               s == LiveOf(j, sl)
    <3>1. SoundSlab(sl)
      BY <2>3
    <3> HIDE DEF sl
    <3>2. /\ DOMAIN s = 1 .. sl.size
          /\ \A n \in 1 .. sl.size :
               /\ LocalAt(sl, n) \in Local
               /\ s[n] = [slot |-> SlotCode(j, LocalAt(sl, n)),
                          data |-> [data |-> sl.data[LocalAt(sl, n)], tag |-> sl.tag]]
      <4>1. j \in Nat \ {0}
        BY <2>3
      <4> QED
        BY <3>1, <4>1, LiveOfValue
    <3>3. Live(t) = s
      BY <2>2 DEF sl
    <3> HIDE DEF s
    <3>4. i \in 1 .. sl.size
      BY <1>3, <3>2, <3>3
    <3>5. LocalAt(sl, i) \in Local /\ s[i].slot = SlotCode(j, LocalAt(sl, i))
      <4> DEFINE d == [data |-> sl.data[LocalAt(sl, i)], tag |-> sl.tag]
      <4>1. LocalAt(sl, i) \in Local /\ s[i] = [slot |-> SlotCode(j, LocalAt(sl, i)), data |-> d]
        BY <3>2, <3>4
      <4> HIDE DEF d
      <4> QED
        BY <4>1
    <3> QED
      BY <3>3, <3>4, <3>5 DEF sl
  <2>5. CASE j # k
    BY <1>1, <2>3, <2>4, <2>5, CodesApart
  <2>6. CASE j = k
    <3>1. LocalAt(g[k], i) # g[k].size
      BY <1>1, <2>4, <2>6, FreshIndex
    <3> QED
      BY <1>1, <2>3, <2>4, <2>6, <3>1, CodesApart
  <2> QED
    BY <2>5, <2>6
<1> QED
  BY <1>2, <1>3 DEF Rings!InUse

(* A write of the slab is a write of the rings. *)
LEMMA WriteRefines ==
  ASSUME Fits, SlabsInv, SlabsInv', NEW p \in Tagged, write(p)
  PROVE  Rings!Write(p)
<1> DEFINE L == [t \in Tag |-> Live(t)]
           c == p.tag
<1>1. PICK g, k : /\ SoundSlabs(g) /\ k \in DOMAIN g /\ g[k].tag = c
                  /\ \A t \in Tag : LiveIn(g, t) = LiveIn(slabs, t)
                  /\ slabs' = [g EXCEPT ![k] = Written(g[k], p.data)]
  BY WriteStep
<1> DEFINE sl == g[k]
           w == Written(sl, p.data)
           s == LiveOf(k, sl)
<1>2. c \in Tag /\ p.data \in Data /\ p = [data |-> p.data, tag |-> c]
  BY DEF Tagged
<1>3. k \in Nat \ {0} /\ SoundSlab(sl)
  BY <1>1, SlabsFields DEF SoundSlabs
<1>4. SoundSlab(w) /\ w.tag = c
  BY <1>1, <1>2, <1>3, WrittenSound DEF Written
<1>5. \A t \in Tag : LiveIn(g, t) = Live(t)
  BY <1>1, LiveRead
<1>6. Live(c) = s
  BY <1>1, <1>2, <1>5, LiveOfSlab
<1>7. ASSUME NEW t \in Tag
      PROVE  Live(t)' = IF t = c THEN LiveOf(k, w) ELSE Live(t)
  <2>1. Live(t)' = LiveIn(slabs', t)
    BY LiveReadNext DEF LiveIsRead
  <2> DEFINE h == [g EXCEPT ![k] = w]
  <2>2. slabs' = h
    BY <1>1
  <2> HIDE DEF w
  <2>3. /\ LiveIn(h, g[k].tag) = LiveOf(k, w)
        /\ \A u \in Tag : u # g[k].tag => LiveIn(h, u) = LiveIn(g, u)
    <3>1. SoundSlabs(g) /\ k \in DOMAIN g /\ SoundSlab(w) /\ w.tag = g[k].tag
      BY <1>1, <1>4
    <3>2. LiveIn([g EXCEPT ![k] = w], g[k].tag) = LiveOf(k, w)
      BY <3>1, ReplacedSlab
    <3>3. \A u \in Tag : u # g[k].tag => LiveIn([g EXCEPT ![k] = w], u) = LiveIn(g, u)
      BY <3>1, ReplacedSlab
    <3> QED
      BY <3>2, <3>3
  <2> QED
    BY <1>1, <1>5, <2>1, <2>2, <2>3
<1>8. \A e : LiveOf(k, w) = e => L' = [L EXCEPT ![c] = e]
  <2> HIDE DEF w
  <2> QED
    BY <1>2, <1>7
<1>9. CASE ~Full(sl)
  <2> DEFINE x == SlotCode(k, sl.size)
  <2>1. sl.size < Capacity /\ LiveOf(k, w) = Append(s, [slot |-> x, data |-> p])
    BY <1>1, <1>2, <1>3, <1>9, WriteFills
  <2>2. Len(s) = sl.size
    BY <1>3, LiveOfValue
  <2>3. x \in SlotName \ Rings!InUse
    BY <1>1, <1>5, <1>9, FreshCode
  <2>4. L[c] = s
    BY <1>2, <1>6
  <2>5. L' = [L EXCEPT ![c] = Append(L[c], [slot |-> x, data |-> p])]
    BY <1>8, <2>1, <2>4
  <2>6. Len(L[c]) < Capacity
    BY <2>1, <2>2, <2>4
  <2> HIDE DEF x, s, w, sl
  <2> QED
    BY <2>3, <2>5, <2>6 DEF Rings!Write
<1>10. CASE Full(sl)
  <2>1. /\ sl.size = Capacity
        /\ LiveOf(k, w) = Append(Tail(s), [slot |-> s[1].slot, data |-> p])
    BY <1>1, <1>2, <1>3, <1>10, WriteTurns
  <2>2. Len(s) = sl.size
    BY <1>3, LiveOfValue
  <2>3. L[c] = s
    BY <1>2, <1>6
  <2>4. L' = [L EXCEPT ![c] = Append(Tail(L[c]), [slot |-> L[c][1].slot, data |-> p])]
    BY <1>8, <2>1, <2>3
  <2>5. Len(L[c]) = Capacity
    BY <2>1, <2>2, <2>3
  <2> HIDE DEF s, w, sl
  <2> QED
    BY <2>4, <2>5 DEF Rings!Write
<1> QED
  BY <1>9, <1>10

(* SegmentedSlabStorage keeps the promise of IStorageBackend, for any      *)
(* formats in any order, as long as the local index of a slot fits beside  *)
(* the number of its slab: vectors of one format neither evict nor         *)
(* overwrite those of another.                                             *)
THEOREM SlabImplementsRings == ASSUME Fits PROVE Spec => ImplementsRings
<1> DEFINE L == [t \in Tag |-> Live(t)]
<1>1. Init => Rings!Init
  <2>1. ASSUME slabs = <<>>, NEW t \in Tag
        PROVE  Live(t) = <<>>
    BY <2>1 DEF Live
  <2> QED
    BY <2>1 DEF Init, Rings!Init
<1>2. SlabsInv /\ SlabsInv' /\ [Next]_vars => [Rings!Next]_L
  <2> SUFFICES ASSUME SlabsInv, SlabsInv', [Next]_vars
               PROVE  [Rings!Next]_L
    OBVIOUS
  <2>1. ASSUME NEW p \in Tagged, write(p)
        PROVE  Rings!Next
    BY <2>1, WriteRefines DEF Rings!Next
  <2>2. CASE reset
    <3>1. \A k \in DOMAIN slabs' : slabs'[k].size = 0
      BY <2>2, RewoundSlabs
    <3>2. ASSUME NEW t \in Tag
          PROVE  Live(t)' = <<>>
      <4>1. Live(t)' = LiveIn(slabs', t)
        BY LiveReadNext DEF LiveIsRead
      <4>2. ASSUME NEW k \in DOMAIN slabs', slabs'[k].tag = t
            PROVE  LiveIn(slabs', t) = <<>>
        <5>1. LiveIn(slabs', t) = LiveOf(k, slabs'[k])
          BY <4>2, LiveOfSlab DEF SlabsInv
        <5> QED
          BY <3>1, <5>1 DEF LiveOf
      <4> QED
        BY <4>1, <4>2 DEF LiveIn
    <3> QED
      BY <3>2 DEF Rings!Next, Rings!Reset
  <2>3. CASE UNCHANGED slabs
    <3>1. \A t \in Tag : Live(t)' = Live(t)
      BY <2>3 DEF Live, SlabOf, OldestCode, ReadBack, Readable
    <3> QED
      BY <3>1
  <2> QED
    BY <2>1, <2>2, <2>3 DEF Next, vars, free_slot
<1> QED
  BY <1>1, <1>2, SlabsInvariant, PTL DEF Spec, ImplementsRings, Rings!Spec

-----------------------------------------------------------------------------
(* The byte counter. *)

(* The slots of any slabs that hold a vector, and the bytes of some slots. *)
SlotsOf(ss) == UNION {{SlotCode(k, i) : i \in 0 .. ss[k].size - 1} : k \in DOMAIN ss}
ByteAt(ss, slot) == SlotBytes(ss[slot \div Encode + 1].tag)
BytesOn(ss, D) == SumFunction([slot \in D |-> ByteAt(ss, slot)])

LEMMA SlotValue ==
  ASSUME Fits, NEW ss, SoundSlabs(ss), NEW x \in SlotsOf(ss)
  PROVE  /\ \E k \in DOMAIN ss : \E i \in Local :
              /\ x = SlotCode(k, i) /\ i < ss[k].size
              /\ ByteAt(ss, x) = SlotBytes(ss[k].tag)
         /\ ByteAt(ss, x) \in Int /\ x \in SlotName
<1>1. PICK k \in DOMAIN ss : x \in {SlotCode(k, i) : i \in 0 .. ss[k].size - 1}
  BY DEF SlotsOf
<1>2. PICK i \in 0 .. ss[k].size - 1 : x = SlotCode(k, i)
  BY <1>1
<1>3. k \in Nat \ {0} /\ k \in 1 .. Len(ss) /\ Len(ss) \in Nat /\ SoundSlab(ss[k])
  BY SlabsFields DEF SoundSlabs
<1>4. ss[k].size \in 0 .. Capacity /\ Capacity \in Nat \ {0} /\ ss[k].tag \in Tag
  BY <1>3, SlabFields
<1>5. i \in Local /\ i < ss[k].size
  BY <1>4 DEF Local
<1>6. x \div Encode = k - 1
  BY <1>2, <1>3, <1>5, CodeDecodes
<1>7. k - 1 + 1 = k
  BY <1>3
<1>8. ByteAt(ss, x) = SlotBytes(ss[k].tag)
  BY <1>6, <1>7 DEF ByteAt
<1>9. x \in SlotName
  <2>1. k \in 1 .. MaxSlabs
    BY <1>3, FewSlabs, TagsFit
  <2> QED
    BY <1>2, <1>5, <2>1, CodeIsName
<1>10. SlotBytes(ss[k].tag) \in Int
  BY <1>4, BytesAssumption
<1> QED
  BY <1>2, <1>5, <1>8, <1>9, <1>10

(* A slot is in use when its index is below the size of its slab. *)
LEMMA SlotInUse ==
  ASSUME Fits, NEW ss, SoundSlabs(ss), NEW k \in DOMAIN ss, NEW i \in Local
  PROVE  SlotCode(k, i) \in SlotsOf(ss) <=> i < ss[k].size
<1>1. k \in Nat \ {0} /\ SoundSlab(ss[k])
  BY SlabsFields DEF SoundSlabs
<1>2. ss[k].size \in 0 .. Capacity /\ Capacity \in Nat \ {0}
  BY <1>1, SlabFields
<1>3. ASSUME i < ss[k].size
      PROVE  SlotCode(k, i) \in SlotsOf(ss)
  <2>1. i \in 0 .. ss[k].size - 1
    BY <1>2, <1>3 DEF Local
  <2> QED
    BY <2>1 DEF SlotsOf
<1>4. ASSUME SlotCode(k, i) \in SlotsOf(ss)
      PROVE  i < ss[k].size
  <2>1. PICK j \in DOMAIN ss : \E l \in Local : SlotCode(k, i) = SlotCode(j, l) /\ l < ss[j].size
    BY <1>4, SlotValue
  <2>2. PICK l \in Local : SlotCode(k, i) = SlotCode(j, l) /\ l < ss[j].size
    BY <2>1
  <2>3. j \in Nat \ {0}
    BY SlabsFields
  <2>4. k = j /\ i = l
    BY <1>1, <2>2, <2>3, CodesApart
  <2> QED
    BY <2>2, <2>4
<1> QED
  BY <1>3, <1>4

LEMMA SlotsFinite ==
  ASSUME Fits, NEW ss, SoundSlabs(ss), NEW D, D \subseteq SlotsOf(ss)
  PROVE  IsFiniteSet(D)
<1>1. D \subseteq SlotName
  BY SlotValue
<1>2. MaxSlabs * Encode + Capacity \in Int
  BY TagsFit, EncodeAssumption, CapacityAssumption
<1>3. IsFiniteSet(SlotName)
  BY <1>2, FS_Interval DEF SlotName
<1> QED
  BY <1>1, <1>3, FS_Subset

(* One slot more is its bytes more. *)
LEMMA BytesAdded ==
  ASSUME NEW ss, NEW D, IsFiniteSet(D), NEW x, x \notin D,
         \A y \in D \cup {x} : ByteAt(ss, y) \in Int
  PROVE  /\ BytesOn(ss, D) \in Int
         /\ BytesOn(ss, D \cup {x}) = ByteAt(ss, x) + BytesOn(ss, D)
<1> DEFINE E == D \cup {x}
           f == [y \in E |-> ByteAt(ss, y)]
           d == [y \in D |-> ByteAt(ss, y)]
<1>1. IsFiniteSet(E)
  BY FS_AddElement
<1>2. \A y \in E : f[y] \in Int
  OBVIOUS
<1>3. x \in E /\ E \ {x} = D /\ f[x] = ByteAt(ss, x) /\ DOMAIN f = E /\ DOMAIN d = D
  OBVIOUS
<1>4. \A y \in D : d[y] \in Int /\ f[y] = d[y]
  OBVIOUS
<1>5. BytesOn(ss, E) = SumFunctionOnSet(f, E) /\ BytesOn(ss, D) = SumFunctionOnSet(d, D)
  BY <1>3, Zenon DEF BytesOn, SumFunction
<1> HIDE DEF f, d, E
<1>6. SumFunctionOnSet(f, E) = f[x] + SumFunctionOnSet(f, E \ {x})
  BY <1>1, <1>2, <1>3, SumRemove
<1>7. SumFunctionOnSet(f, D) = SumFunctionOnSet(d, D)
  BY <1>4, SumAgree
<1>8. SumFunctionOnSet(d, D) \in Int
  BY <1>4, SumValue
<1> QED
  BY <1>3, <1>5, <1>6, <1>7, <1>8 DEF E

LEMMA BytesOnNone == ASSUME NEW ss PROVE BytesOn(ss, {}) = 0
<1>1. DOMAIN [x \in {} |-> ByteAt(ss, x)] = {}
  OBVIOUS
<1> QED
  BY <1>1, SumOfNone, Zenon DEF BytesOn, SumFunction

(* Only the tags of the slots matter. *)
SameBytes(ss, tt, D) == \A x \in D : ByteAt(tt, x) = ByteAt(ss, x)

LEMMA BytesSame ==
  ASSUME NEW ss, NEW tt, NEW D, SameBytes(ss, tt, D)
  PROVE  BytesOn(tt, D) = BytesOn(ss, D)
<1>1. [x \in D |-> ByteAt(tt, x)] = [x \in D |-> ByteAt(ss, x)]
  BY DEF SameBytes
<1> QED
  BY <1>1, Zenon DEF BytesOn

(* A slab created by a write holds nothing. *)
LEMMA CreatedSlots ==
  ASSUME Fits, SlabsInv, NEW tag \in Tag
  PROVE  /\ SlotsOf(get_or_create_slab(tag)) = SlotsOf(slabs)
         /\ SameBytes(slabs, get_or_create_slab(tag), SlotsOf(slabs))
<1> DEFINE g == get_or_create_slab(tag)
           n == Len(slabs)
<1>1. CASE \E k \in DOMAIN slabs : slabs[k].tag = tag
  BY <1>1 DEF get_or_create_slab, SameBytes
<1>2. CASE ~\E k \in DOMAIN slabs : slabs[k].tag = tag
  <2>1. g = Append(slabs, NewSlab(tag))
    BY <1>2 DEF get_or_create_slab
  <2>2. SoundSlabs(g)
    BY CreatedSlab
  <2>3. SoundSlabs(slabs) /\ slabs \in Seq(Slab) /\ n \in Nat /\ DOMAIN slabs = 1 .. n
    BY SlabsFields DEF SlabsInv, SoundSlabs
  <2>4. /\ DOMAIN g = 1 .. n + 1
        /\ \A j \in 1 .. n : g[j] = slabs[j]
        /\ g[n + 1] = NewSlab(tag)
    BY <2>1, <2>3
  <2>5. g[n + 1].size = 0
    BY <2>4 DEF NewSlab
  <2> HIDE DEF g
  <2>6. ASSUME NEW x \in SlotsOf(slabs)
        PROVE  x \in SlotsOf(g) /\ ByteAt(g, x) = ByteAt(slabs, x)
    <3>1. PICK k \in DOMAIN slabs : \E i \in Local :
                 x = SlotCode(k, i) /\ i < slabs[k].size
      BY <2>3, SlotValue
    <3>2. PICK i \in Local : x = SlotCode(k, i) /\ i < slabs[k].size
      BY <3>1
    <3>3. k \in DOMAIN g /\ g[k] = slabs[k] /\ k \in Nat \ {0} /\ k - 1 + 1 = k
      BY <2>3, <2>4
    <3>4. x \in SlotsOf(g)
      BY <2>2, <3>2, <3>3, SlotInUse
    <3>5. x \div Encode = k - 1
      BY <3>2, <3>3, CodeDecodes
    <3> QED
      BY <3>3, <3>4, <3>5 DEF ByteAt
  <2>7. ASSUME NEW x \in SlotsOf(g)
        PROVE  x \in SlotsOf(slabs)
    <3>1. PICK k \in DOMAIN g : \E i \in Local : x = SlotCode(k, i) /\ i < g[k].size
      BY <2>2, SlotValue
    <3>2. PICK i \in Local : x = SlotCode(k, i) /\ i < g[k].size
      BY <3>1
    <3>3. k # n + 1
      BY <2>5, <3>2 DEF Local
    <3>4. k \in DOMAIN slabs /\ g[k] = slabs[k]
      BY <2>3, <2>4, <3>3
    <3> QED
      BY <2>3, <3>2, <3>4, SlotInUse
  <2> QED
    BY <2>6, <2>7 DEF g, SameBytes
<1> QED
  BY <1>1, <1>2

(* A write takes the slot it returns: a new one, or the oldest one again. *)
LEMMA WrittenSlots ==
  ASSUME Fits, NEW g, SoundSlabs(g), NEW k \in DOMAIN g, NEW d \in Data
  PROVE  LET h == [g EXCEPT ![k] = Written(g[k], d)]
             x == SlotCode(k, LocalOf(g[k]))
         IN /\ SoundSlabs(h)
            /\ SlotsOf(h) = SlotsOf(g) \cup {x}
            /\ x \in SlotsOf(g) <=> Full(g[k])
            /\ SameBytes(g, h, SlotsOf(h))
            /\ ByteAt(h, x) = SlotBytes(g[k].tag)
<1> DEFINE sl == g[k]
           w == Written(sl, d)
           h == [g EXCEPT ![k] = w]
           l == LocalOf(sl)
           x == SlotCode(k, l)
<1>1. SoundSlab(sl) /\ k \in Nat \ {0} /\ g \in Seq(Slab)
  BY SlabsFields DEF SoundSlabs
<1>2. /\ sl.size \in 0 .. Capacity /\ sl.head \in Local /\ sl.next_slot = sl.size
      /\ Capacity \in Nat \ {0}
      /\ Full(sl) <=> sl.size = Capacity
      /\ ~Full(sl) => sl.size \in Local
  BY <1>1, SlabFields
<1>3. /\ l = IF Full(sl) THEN sl.head ELSE sl.size
      /\ l \in Local
  BY <1>2 DEF LocalOf
<1>4. SoundSlab(w) /\ w.tag = sl.tag /\ w.size = IF Full(sl) THEN sl.size ELSE sl.size + 1
  BY <1>1, WrittenSound DEF Written
<1>5. DOMAIN h = DOMAIN g /\ h[k] = w /\ \A j \in DOMAIN g : j # k => h[j] = g[j]
  BY <1>1
<1> HIDE DEF w, l, sl
<1>6. SoundSlabs(h)
  BY <1>4, ReplacedSlab DEF sl
<1> HIDE DEF h
<1>7. \A j \in DOMAIN g : h[j].tag = g[j].tag
  BY <1>4, <1>5 DEF sl
<1>8. x \in SlotsOf(g) <=> Full(sl)
  <2>1. x \in SlotsOf(g) <=> l < sl.size
    BY <1>3, SlotInUse DEF sl
  <2> QED
    BY <1>2, <1>3, <2>1 DEF Local
<1>9. ASSUME NEW j \in DOMAIN g, NEW i \in Local
      PROVE  SlotCode(j, i) \in SlotsOf(h) <=> SlotCode(j, i) \in SlotsOf(g) \cup {x}
  <2>1. SlotCode(j, i) \in SlotsOf(g) <=> i < g[j].size
    BY SlotInUse
  <2>2. SlotCode(j, i) \in SlotsOf(h) <=> i < h[j].size
    BY <1>5, <1>6, SlotInUse
  <2>3. j \in Nat \ {0}
    BY SlabsFields
  <2>4. SlotCode(j, i) = x <=> j = k /\ i = l
    BY <1>1, <1>3, <2>3, CodesApart
  <2>5. CASE j # k
    BY <1>5, <2>1, <2>2, <2>4, <2>5
  <2>6. CASE j = k
    <3>1. g[j].size = sl.size /\ h[j].size = w.size
      BY <1>5, <2>6 DEF sl
    <3>2. i < w.size <=> i < sl.size \/ i = l
      BY <1>2, <1>3, <1>4 DEF Local
    <3> QED
      BY <2>1, <2>2, <2>4, <2>6, <3>1, <3>2
  <2> QED
    BY <2>5, <2>6
<1>10. SlotsOf(h) = SlotsOf(g) \cup {x}
  <2>1. ASSUME NEW y \in SlotsOf(h)
        PROVE  y \in SlotsOf(g) \cup {x}
    <3>1. \E j \in DOMAIN h : \E i \in Local : y = SlotCode(j, i)
      BY <1>6, <2>1, SlotValue
    <3> QED
      BY <1>5, <1>9, <2>1, <3>1
  <2>2. ASSUME NEW y \in SlotsOf(g)
        PROVE  y \in SlotsOf(h)
    <3>1. \E j \in DOMAIN g : \E i \in Local : y = SlotCode(j, i)
      BY <2>2, SlotValue
    <3> QED
      BY <1>9, <2>2, <3>1
  <2>3. x \in SlotsOf(h)
    BY <1>3, <1>9
  <2> QED
    BY <2>1, <2>2, <2>3
<1>11. ASSUME NEW y \in SlotsOf(h)
       PROVE  ByteAt(h, y) = ByteAt(g, y)
  <2>1. PICK j \in DOMAIN h : \E i \in Local : y = SlotCode(j, i)
    BY <1>6, <1>11, SlotValue
  <2>2. PICK i \in Local : y = SlotCode(j, i)
    BY <2>1
  <2>3. j \in Nat \ {0} /\ j \in DOMAIN g
    BY <1>5, SlabsFields
  <2>4. y \div Encode + 1 = j
    <3>1. y \div Encode = j - 1
      BY <2>2, <2>3, CodeDecodes
    <3> QED
      BY <2>3, <3>1
  <2> QED
    BY <1>7, <2>3, <2>4 DEF ByteAt
<1>12. ByteAt(h, x) = SlotBytes(sl.tag)
  <2>1. x \div Encode + 1 = k
    <3>1. x \div Encode = k - 1
      BY <1>1, <1>3, CodeDecodes
    <3> QED
      BY <1>1, <3>1
  <2> QED
    BY <1>7, <2>1 DEF ByteAt, sl
<1> QED
  BY <1>6, <1>8, <1>10, <1>11, <1>12 DEF h, x, l, w, sl, SameBytes

(* The counter is exact, and only slots in use are freed. *)
CounterInv == SlabsInv /\ released \subseteq HeldSlots /\ CounterIsExact

LEMMA CounterValue ==
  /\ HeldSlots = SlotsOf(slabs)
  /\ BytesOccupied = BytesOn(slabs, SlotsOf(slabs) \ released)
<1>1. HeldSlots = SlotsOf(slabs)
  BY Zenon DEF HeldSlots, SlotsOf
<1>2. [x \in HeldSlots \ released |-> BytesAt(x)]
        = [x \in SlotsOf(slabs) \ released |-> ByteAt(slabs, x)]
  BY <1>1 DEF BytesAt, ByteAt
<1> QED
  BY <1>1, <1>2, Zenon DEF BytesOccupied, BytesOn

LEMMA CounterValueNext ==
  /\ HeldSlots' = SlotsOf(slabs')
  /\ BytesOccupied' = BytesOn(slabs', SlotsOf(slabs') \ released')
<1>1. (/\ HeldSlots = SlotsOf(slabs)
       /\ BytesOccupied = BytesOn(slabs, SlotsOf(slabs) \ released))'
  BY CounterValue, PTL
<1> QED
  BY <1>1

LEMMA WriteCounts ==
  ASSUME Fits, CounterInv, NEW p \in Tagged, write(p)
  PROVE  released' \subseteq HeldSlots' /\ CounterIsExact'
<1> DEFINE g == get_or_create_slab(p.tag)
           k == SlabOf(g, p.tag)
           x == SlotCode(k, LocalOf(g[k]))
           b == SlotBytes(p.tag)
           S == SlotsOf(slabs)
           U == S \ released
<1>1. p.tag \in Tag /\ p.data \in Data /\ SlabsInv
  BY DEF Tagged, CounterInv
<1>2. /\ SoundSlabs(g) /\ \E j \in DOMAIN g : g[j].tag = p.tag
      /\ SlotsOf(g) = S /\ SameBytes(slabs, g, S)
  BY <1>1, CreatedSlab, CreatedSlots
<1>3. k \in DOMAIN g /\ g[k].tag = p.tag
  BY <1>2 DEF SlabOf
<1>4. /\ slabs' = [g EXCEPT ![k] = Written(g[k], p.data)]
      /\ total_used' = total_used + b - (IF Full(g[k]) THEN SlotBytes(g[k].tag) ELSE 0)
      /\ released' = released \ {x}
      /\ reused' = (reused \/ x \in released)
  BY DEF write, Written
<1> HIDE DEF g, k
<1>5. /\ SoundSlabs(slabs') /\ SlotsOf(slabs') = S \cup {x}
      /\ x \in S <=> Full(g[k])
      /\ SameBytes(g, slabs', SlotsOf(slabs')) /\ ByteAt(slabs', x) = b
  BY <1>1, <1>2, <1>3, <1>4, WrittenSlots
<1>6. released \subseteq S /\ (~reused => total_used = BytesOn(slabs, U))
  BY CounterValue DEF CounterInv, CounterIsExact
<1>7. released' \subseteq HeldSlots'
  BY <1>4, <1>5, <1>6, CounterValueNext
<1>8. b \in Int
  BY <1>1, BytesAssumption
<1> HIDE DEF x, b, S
<1>9. BytesOn(slabs', U) = BytesOn(slabs, U)
  <2>1. SameBytes(slabs, slabs', U)
    BY <1>2, <1>5 DEF SameBytes
  <2> QED
    BY <2>1, BytesSame
<1>10. ASSUME ~reused'
       PROVE  total_used' = BytesOn(slabs', SlotsOf(slabs') \ released')
  <2>1. x \notin released /\ ~reused
    BY <1>4, <1>10
  <2>2. total_used = BytesOn(slabs, U)
    BY <1>6, <2>1
  <2>3. SlotsOf(slabs') \ released' = U \cup {x}
    BY <1>4, <1>5, <2>1
  <2>4. /\ IsFiniteSet(U \ {x}) /\ x \notin U \ {x} /\ (U \ {x}) \cup {x} = U \cup {x}
        /\ \A y \in (U \ {x}) \cup {x} : ByteAt(slabs', y) \in Int
    <3>1. IsFiniteSet(U \ {x})
      <4>1. U \ {x} \subseteq SlotsOf(slabs')
        BY <1>5
      <4> QED
        BY <1>5, <4>1, SlotsFinite
    <3>2. \A y \in SlotsOf(slabs') : ByteAt(slabs', y) \in Int
      BY <1>5, SlotValue
    <3> QED
      BY <1>5, <3>1, <3>2
  <2>5. /\ BytesOn(slabs', U \ {x}) \in Int
        /\ BytesOn(slabs', U \cup {x}) = b + BytesOn(slabs', U \ {x})
    <3> DEFINE D == U \ {x}
    <3>1. IsFiniteSet(D) /\ x \notin D /\ \A y \in D \cup {x} : ByteAt(slabs', y) \in Int
      BY <2>4
    <3>2. D \cup {x} = U \cup {x}
      BY <2>4
    <3> HIDE DEF D
    <3>3. BytesOn(slabs', D) \in Int /\ BytesOn(slabs', D \cup {x}) = ByteAt(slabs', x) + BytesOn(slabs', D)
      BY <3>1, BytesAdded
    <3> QED
      BY <1>5, <3>2, <3>3 DEF D
  <2>6. CASE ~Full(g[k])
    <3>1. U \ {x} = U
      BY <1>5, <2>6
    <3>2. total_used' = total_used + b - 0
      BY <1>4, <2>6
    <3> HIDE DEF U
    <3>3. /\ BytesOn(slabs', U) \in Int
          /\ BytesOn(slabs', U \cup {x}) = b + BytesOn(slabs', U)
          /\ total_used = BytesOn(slabs', U)
      BY <1>9, <2>2, <2>5, <3>1
    <3>4. total_used' = BytesOn(slabs', U \cup {x})
      BY <1>8, <3>2, <3>3
    <3> QED
      BY <2>3, <3>4, Zenon
  <2>7. CASE Full(g[k])
    <3>1. U \cup {x} = U
      BY <1>5, <2>1, <2>7
    <3>2. total_used' = total_used + b - b
      BY <1>3, <1>4, <2>7 DEF b
    <3> HIDE DEF U
    <3>3. BytesOn(slabs', U) \in Int
      <4>1. BytesOn(slabs', U \cup {x}) \in Int
        BY <1>8, <2>5
      <4> QED
        BY <3>1, <4>1, Zenon
    <3>4. total_used = BytesOn(slabs', U)
      BY <1>9, <2>2
    <3>5. total_used' = BytesOn(slabs', U)
      BY <1>8, <3>2, <3>3, <3>4
    <3> QED
      BY <2>3, <3>1, <3>5
  <2> QED
    BY <2>6, <2>7
<1> QED
  BY <1>7, <1>10, CounterValueNext DEF CounterIsExact

LEMMA FreeCounts ==
  ASSUME Fits, CounterInv, NEW slot \in SlotName, free_slot(slot)
  PROVE  released' \subseteq HeldSlots' /\ CounterIsExact'
<1> DEFINE k == slot \div Encode + 1
           l == slot % Encode
           b == ByteAt(slabs, slot)
           S == SlotsOf(slabs)
           U == S \ released
<1>1. SoundSlabs(slabs) /\ released \subseteq S /\ (~reused => total_used = BytesOn(slabs, U))
  BY CounterValue DEF CounterInv, SlabsInv, CounterIsExact
<1>2. /\ slot \div Encode < Len(slabs) /\ l < slabs[k].size /\ slot \notin released
      /\ total_used' = total_used - b /\ released' = released \cup {slot}
      /\ slabs' = slabs /\ reused' = reused
  BY DEF free_slot, ByteAt
<1>3. slot \in Nat /\ Encode \in Nat \ {0}
  BY TagsFit, EncodeAssumption, CapacityAssumption DEF SlotName
<1>4. slot \div Encode \in Nat /\ l \in Nat /\ slot = Encode * (slot \div Encode) + l
  BY <1>3
<1>5. k \in DOMAIN slabs /\ k - 1 = slot \div Encode
  <2>1. Len(slabs) \in Nat /\ DOMAIN slabs = 1 .. Len(slabs)
    BY <1>1, SlabsFields
  <2> QED
    BY <1>2, <1>4, <2>1
<1>6. l \in Local
  <2>1. SoundSlab(slabs[k])
    BY <1>1, <1>5 DEF SoundSlabs
  <2>2. slabs[k].size \in 0 .. Capacity /\ Capacity \in Nat
    BY <2>1, SlabFields
  <2> QED
    BY <1>2, <1>4, <2>2 DEF Local
<1>7. SlotCode(k, l) = slot
  <2>1. Encode * (slot \div Encode) = (slot \div Encode) * Encode
    BY <1>3, <1>4
  <2> QED
    BY <1>4, <1>5, <2>1 DEF SlotCode
<1> HIDE DEF k, l, b
<1>8. slot \in S
  BY <1>1, <1>2, <1>5, <1>6, <1>7, SlotInUse
<1> HIDE DEF S
<1>9. released' \subseteq HeldSlots'
  BY <1>1, <1>2, <1>8, CounterValueNext DEF S
<1>10. ASSUME ~reused'
       PROVE  total_used' = BytesOn(slabs', SlotsOf(slabs') \ released')
  <2> DEFINE D == U \ {slot}
  <2>1. SlotsOf(slabs') \ released' = D /\ D \cup {slot} = U /\ slot \notin D
    BY <1>2, <1>8 DEF S
  <2>2. IsFiniteSet(D) /\ \A y \in D \cup {slot} : ByteAt(slabs, y) \in Int
    <3>1. D \subseteq SlotsOf(slabs) /\ D \cup {slot} \subseteq SlotsOf(slabs)
      BY <1>8 DEF S
    <3>2. \A y \in SlotsOf(slabs) : ByteAt(slabs, y) \in Int
      BY <1>1, SlotValue
    <3> QED
      BY <1>1, <3>1, <3>2, SlotsFinite
  <2>3. b \in Int
    BY <2>2 DEF b
  <2> HIDE DEF D
  <2>4. BytesOn(slabs, D) \in Int /\ BytesOn(slabs, D \cup {slot}) = ByteAt(slabs, slot) + BytesOn(slabs, D)
    BY <2>1, <2>2, BytesAdded
  <2>5. total_used = b + BytesOn(slabs, D)
    BY <1>1, <1>2, <1>10, <2>1, <2>4 DEF b
  <2>6. total_used - b = BytesOn(slabs, D)
    BY <2>3, <2>4, <2>5
  <2> QED
    BY <1>2, <2>1, <2>6
<1> QED
  BY <1>9, <1>10, CounterValueNext DEF CounterIsExact

LEMMA ResetCounts ==
  ASSUME Fits, CounterInv, reset
  PROVE  released' \subseteq HeldSlots' /\ CounterIsExact'
<1>1. SoundSlabs(slabs') /\ \A k \in DOMAIN slabs' : slabs'[k].size = 0
  BY RewoundSlabs DEF CounterInv, SlabsInv
<1>2. SlotsOf(slabs') = {}
  <2>1. ASSUME NEW x \in SlotsOf(slabs')
        PROVE  FALSE
    <3>1. PICK k \in DOMAIN slabs' : \E i \in Local : i < slabs'[k].size
      BY <1>1, <2>1, SlotValue
    <3> QED
      BY <1>1, <3>1 DEF Local
  <2> QED
    BY <2>1
<1>3. released' = {} /\ total_used' = 0 /\ SlotsOf(slabs') \ released' = {}
  BY <1>2 DEF reset
<1> QED
  BY <1>3, CounterValueNext, BytesOnNone DEF CounterIsExact

LEMMA CounterInvStep == ASSUME Fits PROVE CounterInv /\ [Next]_vars => CounterInv'
<1> SUFFICES ASSUME CounterInv, [Next]_vars
             PROVE  CounterInv'
  OBVIOUS
<1>1. SlabsInv'
  BY SlabsInvStep DEF CounterInv
<1>2. ASSUME NEW p \in Tagged, write(p)
      PROVE  CounterInv'
  BY <1>1, <1>2, WriteCounts DEF CounterInv
<1>3. ASSUME NEW slot \in SlotName, free_slot(slot)
      PROVE  CounterInv'
  BY <1>1, <1>3, FreeCounts DEF CounterInv
<1>4. CASE reset
  BY <1>1, <1>4, ResetCounts DEF CounterInv
<1>5. CASE UNCHANGED vars
  <2>1. UNCHANGED <<slabs, total_used, released, reused>>
    BY <1>5 DEF vars
  <2>2. HeldSlots' = HeldSlots /\ BytesOccupied' = BytesOccupied
    BY <2>1, CounterValue, CounterValueNext
  <2> QED
    BY <1>1, <2>1, <2>2 DEF CounterInv, CounterIsExact
<1> QED
  BY <1>2, <1>3, <1>4, <1>5 DEF Next

(* Until the ring turns over a freed slot, the byte counter is the number  *)
(* of bytes occupied, for any number of formats of any sizes and any       *)
(* length of use.                                                          *)
THEOREM CounterExact == ASSUME Fits PROVE Spec => []CounterIsExact
<1>1. Init => CounterInv
  <2> SUFFICES ASSUME Init
               PROVE  CounterInv
    OBVIOUS
  <2>1. SlabsInv
    BY SlabsInvInit
  <2>2. SlotsOf(slabs) = {} /\ released = {} /\ total_used = 0
    BY DEF Init, SlotsOf
  <2>3. SlotsOf(slabs) \ released = {}
    BY <2>2
  <2> QED
    BY <2>1, <2>2, <2>3, CounterValue, BytesOnNone DEF CounterInv, CounterIsExact
<1>2. CounterInv => CounterIsExact
  BY DEF CounterInv
<1> QED
  BY <1>1, <1>2, CounterInvStep, PTL DEF Spec
=============================================================================
