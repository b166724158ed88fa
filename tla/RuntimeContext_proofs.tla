------------------------ MODULE RuntimeContext_proofs ------------------------
(***************************************************************************)
(* Proofs about the storages of a RuntimeContext, for every number of      *)
(* heads, capacity, bit width, policy and any length of use: what a slab   *)
(* holds after any number of appends and resets, and what compute finds    *)
(* in it.                                                                  *)
(***************************************************************************)
EXTENDS RuntimeContext, RuntimeState_proofs

-----------------------------------------------------------------------------
(* What was appended to a head, as the pairs its slab was given. *)

Appended == [tok : Token, strat : Strategy]

PairsOf(app) == [t \in 1 .. Len(app) |-> PairOf(app[t].tok, FormatOf(app[t].strat))]

LEMMA PairsOfValue ==
  ASSUME NEW app \in Seq(Appended)
  PROVE  PairsOf(app) \in Seq(Pair) /\ Len(PairsOf(app)) = Len(app)
<1>2. ASSUME NEW t \in 1 .. Len(app)
      PROVE  PairOf(app[t].tok, FormatOf(app[t].strat)) \in Pair
  <2>1. app[t] \in Appended
    OBVIOUS
  <2>2. app[t].tok \in Token
    BY <2>1 DEF Appended
  <2>3. FormatOf(app[t].strat) \in Format
    BY FormatType
  <2> QED
    BY <2>2, <2>3, PairType
<1>3. Len(app) \in Nat /\ PairsOf(app) \in [1 .. Len(app) -> Pair]
  BY <1>2 DEF PairsOf
<1>4. PairsOf(app) \in Seq(Pair)
  BY <1>3, SeqDef
<1> QED
  BY <1>3, <1>4, LenProperties

LEMMA PairsOfAppend ==
  ASSUME NEW app \in Seq(Appended), NEW a \in Appended
  PROVE  PairsOf(Append(app, a)) = Append(PairsOf(app), PairOf(a.tok, FormatOf(a.strat)))
<1> DEFINE p == PairOf(a.tok, FormatOf(a.strat))
           x == PairsOf(Append(app, a))
           y == Append(PairsOf(app), p)
           n == Len(app)
<1>1. /\ Append(app, a) \in Seq(Appended) /\ Len(Append(app, a)) = n + 1 /\ n \in Nat
      /\ \A t \in 1 .. n : Append(app, a)[t] = app[t]
      /\ Append(app, a)[n + 1] = a
  BY AppendProperties
<1>2. x \in Seq(Pair) /\ Len(x) = n + 1
  BY <1>1, PairsOfValue
<1>3. p \in Pair
  BY FormatType, PairType DEF Appended
<1>4. PairsOf(app) \in Seq(Pair) /\ Len(PairsOf(app)) = n
  BY PairsOfValue
<1> HIDE DEF p
<1>5. /\ y \in Seq(Pair) /\ Len(y) = n + 1
      /\ \A t \in 1 .. n : y[t] = PairsOf(app)[t]
      /\ y[n + 1] = p
  BY <1>3, <1>4, AppendProperties
<1>6. ASSUME NEW t \in 1 .. n + 1
      PROVE  x[t] = y[t]
  <2>1. x[t] = PairOf(Append(app, a)[t].tok, FormatOf(Append(app, a)[t].strat))
    BY <1>1 DEF PairsOf
  <2>2. CASE t \in 1 .. n
    <3>1. Append(app, a)[t] = app[t]
      BY <1>1, <2>2
    <3>2. x[t] = PairOf(app[t].tok, FormatOf(app[t].strat))
      BY <2>1, <3>1, Zenon
    <3>3. PairsOf(app)[t] = PairOf(app[t].tok, FormatOf(app[t].strat))
      BY <2>2, Zenon DEF PairsOf
    <3> QED
      BY <1>5, <2>2, <3>2, <3>3
  <2>3. CASE t = n + 1
    <3>1. Append(app, a)[t] = a
      BY <1>1, <2>3
    <3>2. x[t] = PairOf(a.tok, FormatOf(a.strat))
      BY <2>1, <3>1, Zenon
    <3>3. x[t] = p
      BY <3>2 DEF p
    <3> QED
      BY <1>5, <2>3, <3>3
  <2>4. t \in 1 .. n \/ t = n + 1
    BY <1>1
  <2> QED
    BY <2>2, <2>3, <2>4, Zenon
<1> HIDE DEF x, y
<1>7. x = y
  BY <1>1, <1>2, <1>5, <1>6, SeqEqual
<1> QED
  BY <1>7 DEF x, y, p

(* StorageKeepsWindow of one head. *)
HoldsWindow(st, app) ==
  \A t \in 0 .. Len(app) - 1 :
    t >= Len(app) - Capacity =>
      LET a == app[t + 1] IN
      /\ st.data[KeyStoredAt(t)] = KV("K", a.tok, a.strat)
      /\ st.data[ValueStoredAt(t)] = KV("V", a.tok, a.strat)

LEMMA PairsAreWindow ==
  ASSUME NEW st, NEW app \in Seq(Appended), HoldsPairs(Capacity, st, PairsOf(app))
  PROVE  HoldsWindow(st, app)
<1> SUFFICES ASSUME NEW t \in 0 .. Len(app) - 1, t >= Len(app) - Capacity
             PROVE  /\ st.data[KeyStoredAt(t)] = KV("K", app[t + 1].tok, app[t + 1].strat)
                    /\ st.data[ValueStoredAt(t)] = KV("V", app[t + 1].tok, app[t + 1].strat)
  BY DEF HoldsWindow
<1>1. Len(PairsOf(app)) = Len(app) /\ t + 1 \in 1 .. Len(app)
  BY PairsOfValue
<1>2. /\ st.data[(2 * t) % (2 * Capacity)] = PairsOf(app)[t + 1].k
      /\ st.data[(2 * t + 1) % (2 * Capacity)] = PairsOf(app)[t + 1].v
  BY <1>1 DEF HoldsPairs
<1>3. PairsOf(app)[t + 1] = PairOf(app[t + 1].tok, FormatOf(app[t + 1].strat))
  BY <1>1 DEF PairsOf
<1> QED
  BY <1>2, <1>3 DEF PairOf, KV, KeyStoredAt, ValueStoredAt

-----------------------------------------------------------------------------
(* The context. *)

(* Every head counts its appends, and its slab is where they left it. *)
HeadsInStep == \A i \in Idx : HeadHas(Capacity, ctx, i, PairsOf(appended[i]))

RuntimeInv == TypeOK /\ HeadsInStep

(* What the other lemmas need of it. *)
LEMMA InStep ==
  ASSUME RuntimeInv, NEW i \in Idx
  PROVE  /\ appended[i] \in Seq(Appended)
         /\ ctx.cache_sizes[i] = Len(appended[i])
         /\ DOMAIN ctx.storages[i].data = SlabSlot
         /\ HoldsWindow(ctx.storages[i], appended[i])
<1>1. appended[i] \in Seq(Appended) /\ HeadHas(Capacity, ctx, i, PairsOf(appended[i]))
  BY DEF RuntimeInv, TypeOK, HeadsInStep, Appended
<1>2. ctx.cache_sizes[i] = Len(appended[i]) /\ HoldsWindow(ctx.storages[i], appended[i])
  BY <1>1, PairsOfValue, PairsAreWindow DEF HeadHas
<1>3. DOMAIN ctx.storages[i].data = SlabSlot
  BY DEF RuntimeInv, TypeOK, ContextState, SlabState
<1> QED
  BY <1>1, <1>2, <1>3

LEMMA NothingAppended ==
  ASSUME NEW c \in ContextState, \A i \in Idx : HeadHas(Capacity, c, i, <<>>),
         ctx' = c, appended' = [i \in Idx |-> <<>>]
  PROVE  RuntimeInv'
<1>1. PairsOf(<<>>) = <<>>
  <2>1. <<>> \in Seq(Appended)
    OBVIOUS
  <2>2. PairsOf(<<>>) \in Seq(Pair) /\ Len(PairsOf(<<>>)) = 0
    BY <2>1, PairsOfValue
  <2> QED
    BY <2>2, EmptySeq
<1>2. TypeOK'
  BY DEF TypeOK
<1> QED
  BY <1>1, <1>2 DEF RuntimeInv, HeadsInStep, HeadHas

LEMMA RuntimeInvInit == Init => RuntimeInv
<1> SUFFICES ASSUME Init
             PROVE  RuntimeInv
  OBVIOUS
<1>1. ctx \in ContextState /\ \A i \in Idx : HeadHas(Capacity, ctx, i, <<>>)
  BY NewHas, ContextType, CapacityAssumption DEF Init, InitContext
<1>2. PairsOf(<<>>) = <<>>
  <2>1. <<>> \in Seq(Appended)
    OBVIOUS
  <2>2. PairsOf(<<>>) \in Seq(Pair) /\ Len(PairsOf(<<>>)) = 0
    BY <2>1, PairsOfValue
  <2> QED
    BY <2>2, EmptySeq
<1> QED
  BY <1>1, <1>2 DEF Init, RuntimeInv, TypeOK, HeadsInStep

LEMMA AppendStep ==
  ASSUME RuntimeInv, NEW i \in Idx, NEW tok \in Token, NEW p \in Policy, append(i, tok, p)
  PROVE  RuntimeInv'
<1> DEFINE a == [tok |-> tok, strat |-> Chosen(p)]
           q == PairOf(tok, FormatOf(Chosen(p)))
           d == Extended(Capacity, ctx, i, tok, q)
<1>1. a \in Appended
  BY OwnAssumption, PolicyAssumption DEF Chosen, Appended
<1>2. q \in Pair
  BY FormatType, PairType
<1>3. /\ appended \in [Idx -> Seq(Appended)]
      /\ appended' = [appended EXCEPT ![i] = Append(@, a)]
      /\ ctx \in ContextOf(Capacity) /\ ctx' = d
  BY AppendExtends, ContextType DEF RuntimeInv, TypeOK, Appended, append
<1>4. PairsOf(appended[i]) \in Seq(Pair) /\ HeadHas(Capacity, ctx, i, PairsOf(appended[i]))
  BY <1>3, PairsOfValue DEF RuntimeInv, HeadsInStep
<1>5. PairsOf(Append(appended[i], a)) = Append(PairsOf(appended[i]), q)
  BY <1>1, <1>3, PairsOfAppend
<1> HIDE DEF a, q
<1>6. /\ d \in ContextOf(Capacity)
      /\ HeadHas(Capacity, d, i, Append(PairsOf(appended[i]), q))
      /\ \A j \in Idx \ {i} : /\ d.storages[j] = ctx.storages[j]
                              /\ d.cache_sizes[j] = ctx.cache_sizes[j]
  BY <1>2, <1>3, <1>4, CapacityAssumption, ExtendedHas
<1> HIDE DEF d
<1>7. TypeOK'
  <2>1. Append(appended[i], a) \in Seq(Appended)
    BY <1>1, <1>3, AppendProperties
  <2>2. appended' \in [Idx -> Seq(Appended)]
    BY <1>3, <2>1
  <2> QED
    BY <1>3, <1>6, <2>2, ContextType DEF TypeOK, Appended
<1>8. ASSUME NEW j \in Idx
      PROVE  HeadHas(Capacity, d, j, PairsOf(appended'[j]))
  <2>1. CASE j = i
    <3>1. appended'[j] = Append(appended[i], a)
      BY <1>3, <2>1
    <3> QED
      BY <1>5, <1>6, <2>1, <3>1
  <2>2. CASE j # i
    <3>1. appended'[j] = appended[j]
      BY <1>3, <2>2
    <3>2. HeadHas(Capacity, ctx, j, PairsOf(appended[j]))
      BY DEF RuntimeInv, HeadsInStep
    <3> QED
      BY <1>6, <2>2, <3>1, <3>2, HeadSame
  <2> QED
    BY <2>1, <2>2
<1>9. HeadsInStep'
  BY <1>3, <1>8 DEF HeadsInStep, HeadHas, PairsOf
<1> QED
  BY <1>7, <1>9 DEF RuntimeInv

LEMMA ComputeStep ==
  ASSUME RuntimeInv, NEW i \in Idx, compute(i)
  PROVE  RuntimeInv'
<1>1. ctx \in ContextOf(Capacity) /\ appended' = appended
  BY ContextType DEF RuntimeInv, TypeOK, compute
<1>2. /\ ctx' \in ContextOf(Capacity)
      /\ ctx'.storages = ctx.storages /\ ctx'.cache_sizes = ctx.cache_sizes
  BY <1>1, ComputeKeeps DEF compute
<1> QED
  BY <1>1, <1>2, ContextType DEF RuntimeInv, TypeOK, HeadsInStep, HeadHas

LEMMA ResetStep ==
  ASSUME RuntimeInv, reset
  PROVE  RuntimeInv'
<1>1. ctx \in ContextOf(Capacity)
  BY ContextType DEF RuntimeInv, TypeOK
<1>2. ctx' = Reset(Capacity, ctx) /\ appended' = [i \in Idx |-> <<>>]
  BY DEF reset, ResetContext, InitContext, Reset
<1>3. /\ Reset(Capacity, ctx) \in ContextOf(Capacity)
      /\ \A i \in Idx : HeadHas(Capacity, Reset(Capacity, ctx), i, <<>>)
  BY <1>1, CapacityAssumption, ResetHas
<1> QED
  BY <1>2, <1>3, ContextType, NothingAppended

LEMMA RuntimeInvStep == RuntimeInv /\ [Next]_vars => RuntimeInv'
<1> SUFFICES ASSUME RuntimeInv, [Next]_vars
             PROVE  RuntimeInv'
  OBVIOUS
<1>1. CASE UNCHANGED vars
  BY <1>1 DEF vars, RuntimeInv, TypeOK, HeadsInStep, HeadHas
<1> QED
  BY <1>1, AppendStep, ComputeStep, ResetStep DEF Next

THEOREM RuntimeInvariant == Spec => []RuntimeInv
  BY RuntimeInvInit, RuntimeInvStep, PTL DEF Spec

(* Whatever is appended to whichever head, however often it is reset, the  *)
(* slab of a head holds its last Capacity tokens, key and value, in their  *)
(* places.                                                                 *)
THEOREM WindowIsStored == Spec => []StorageKeepsWindow
<1>1. RuntimeInv => StorageKeepsWindow
  BY InStep DEF HoldsWindow, StorageKeepsWindow
<1> QED
  BY <1>1, RuntimeInvariant, PTL

-----------------------------------------------------------------------------
(* What compute reads. *)

(* Until a head overflows, its slots hold what it was given, in order. *)
LEMMA SlotsInOrder ==
  ASSUME RuntimeInv, NEW i \in Idx, Len(appended[i]) <= Capacity,
         NEW s \in 0 .. 2 * Len(appended[i]) - 1
  PROVE  ReadStorage(ctx, i, s) = VectorsGiven(appended[i])[s + 1]
<1> DEFINE app == appended[i]
           m == Len(app)
           st == ctx.storages[i]
           t == s \div 2
<1>1. m \in Nat /\ m <= Capacity /\ Capacity \in Nat \ {0} /\ s \in 0 .. 2 * m - 1
  BY InStep, LenProperties, CapacityAssumption
<1>2. DOMAIN st.data = SlabSlot /\ HoldsWindow(st, app)
  BY InStep
<1>3. s \in SlabSlot
  BY <1>1, SlabAssumption DEF SlabSlot
<1>4. ReadStorage(ctx, i, s) = st.data[s]
  BY <1>2, <1>3 DEF ReadStorage, ReadSlab
<1> HIDE DEF m
<1>5. /\ t \in 0 .. m - 1 /\ t >= m - Capacity
      /\ s = 2 * t \/ s = 2 * t + 1
  <2>1. s \in Nat /\ t \in Int /\ (s = 2 * t \/ s = 2 * t + 1)
    BY <1>1
  <2> HIDE DEF t
  <2> QED
    BY <1>1, <2>1
<1> HIDE DEF t, st
<1>6. /\ st.data[KeyStoredAt(t)] = KV("K", app[t + 1].tok, app[t + 1].strat)
      /\ st.data[ValueStoredAt(t)] = KV("V", app[t + 1].tok, app[t + 1].strat)
  BY <1>2, <1>5 DEF HoldsWindow, m
<1>7. KeyStoredAt(t) = 2 * t /\ ValueStoredAt(t) = 2 * t + 1
  BY <1>1, <1>5 DEF KeyStoredAt, ValueStoredAt
<1>8. VectorsGiven(app)[s + 1]
        = KV(IF (s + 1) % 2 = 1 THEN "K" ELSE "V",
             app[(s + 1 + 1) \div 2].tok, app[(s + 1 + 1) \div 2].strat)
  <2>1. s + 1 \in 1 .. 2 * m
    BY <1>1
  <2> QED
    BY <2>1, Zenon DEF VectorsGiven, m
<1>9. CASE s = 2 * t
  <2>1. (s + 1) % 2 = 1 /\ (s + 1 + 1) \div 2 = t + 1
    BY <1>5, <1>9
  <2> QED
    BY <1>4, <1>6, <1>7, <1>8, <1>9, <2>1 DEF st
<1>10. CASE s = 2 * t + 1
  <2>1. (s + 1) % 2 = 0 /\ (s + 1 + 1) \div 2 = t + 1
    BY <1>5, <1>10
  <2> QED
    BY <1>4, <1>6, <1>7, <1>8, <1>10, <2>1 DEF st
<1> QED
  BY <1>5, <1>9, <1>10

LEMMA ReadsWhatIsWritten == RuntimeInv => NoStaleRead
<1> SUFFICES ASSUME RuntimeInv, NEW i \in Idx, Len(appended[i]) <= Capacity
             PROVE  VectorsRead(i) = VectorsGiven(appended[i])
  BY DEF NoStaleRead
<1> DEFINE m == Len(appended[i])
           given == VectorsGiven(appended[i])
           pairs == PairsRead(ctx, i)
           read(s) == IF s <= m THEN pairs[s].k ELSE pairs[s - m].v
<1>1. m \in Nat /\ ctx.cache_sizes[i] = m
  BY InStep, LenProperties
<1>2. \A s \in 0 .. 2 * m - 1 : ReadStorage(ctx, i, s) = given[s + 1]
  BY SlotsInOrder
<1>3. given = [s \in 1 .. 2 * m |-> given[s]]
  BY Zenon DEF VectorsGiven
<1> HIDE DEF m, given
<1>4. pairs = [j \in 1 .. m |-> [k |-> ReadStorage(ctx, i, j - 1),
                                 v |-> ReadStorage(ctx, i, m + (j - 1))]]
  BY <1>1 DEF PairsRead, KeySlot, ValueSlot
<1> HIDE DEF pairs
<1>5. ASSUME NEW s \in 1 .. 2 * m
      PROVE  read(s) = given[s]
  <2>1. ReadStorage(ctx, i, s - 1) = given[s]
    <3>1. s - 1 \in 0 .. 2 * m - 1 /\ s - 1 + 1 = s
      BY <1>1
    <3>2. ReadStorage(ctx, i, s - 1) = given[s - 1 + 1]
      BY <1>2, <3>1
    <3> QED
      BY <3>1, <3>2
  <2>2. CASE s <= m
    <3>1. s \in 1 .. m
      BY <1>1, <2>2
    <3> QED
      BY <1>4, <2>1, <2>2, <3>1
  <2>3. CASE ~(s <= m)
    <3>1. s - m \in 1 .. m /\ m + (s - m - 1) = s - 1
      BY <1>1, <2>3
    <3>2. pairs[s - m].v = ReadStorage(ctx, i, m + (s - m - 1))
      BY <1>4, <3>1
    <3>3. pairs[s - m].v = ReadStorage(ctx, i, s - 1)
      BY <3>1, <3>2, Zenon
    <3> QED
      BY <2>1, <2>3, <3>3
  <2> QED
    BY <2>2, <2>3
<1>6. Len(pairs) = m
  <2> DEFINE e(j) == [k |-> ReadStorage(ctx, i, j - 1), v |-> ReadStorage(ctx, i, m + (j - 1))]
  <2>1. pairs = [j \in 1 .. m |-> e(j)]
    BY <1>4
  <2> HIDE DEF e
  <2> QED
    BY <1>1, <2>1, SeqDef, LenProperties
<1>7. VectorsRead(i) = [s \in 1 .. 2 * m |-> read(s)]
  <2>1. VectorsRead(i) = [s \in 1 .. 2 * Len(pairs) |->
                            IF s <= Len(pairs) THEN pairs[s].k ELSE pairs[s - Len(pairs)].v]
    BY Zenon DEF VectorsRead, pairs
  <2> QED
    BY <1>6, <2>1
<1>8. [s \in 1 .. 2 * m |-> read(s)] = [s \in 1 .. 2 * m |-> given[s]]
  BY <1>5
<1> QED
  BY <1>3, <1>7, <1>8 DEF given

(* Up to Capacity tokens, compute reads what the head was given since the  *)
(* last reset, each vector once and in order, whatever it held before.     *)
THEOREM NothingStaleIsRead == Spec => []NoStaleRead
  BY ReadsWhatIsWritten, RuntimeInvariant, PTL

(* The last append whose place is a multiple of the capacity has its key   *)
(* in slot 0, and is among the last Capacity.                              *)
LEMMA FirstSlot ==
  ASSUME RuntimeInv, NEW i \in Idx, appended[i] # <<>>
  PROVE  \E t \in DOMAIN appended[i] :
           ctx.storages[i].data[0] = KV("K", appended[i][t].tok, appended[i][t].strat)
<1> DEFINE m == Len(appended[i])
           q == (m - 1) \div Capacity
           r == (m - 1) % Capacity
           t == Capacity * q
<1>1. appended[i] \in Seq(Appended)
  BY DEF RuntimeInv, TypeOK, Appended
<1>2. m \in Nat \ {0} /\ DOMAIN appended[i] = 1 .. m
  BY <1>1, EmptySeq, LenProperties
<1>3. Capacity \in Nat \ {0}
  BY CapacityAssumption
<1>4. q \in Int /\ r \in 0 .. Capacity - 1 /\ m - 1 = t + r
  <2>1. m - 1 \in Nat
    BY <1>2
  <2> HIDE DEF m
  <2> QED
    BY <1>3, <2>1, DivMod
<1>5. t \in 0 .. m - 1 /\ t >= m - Capacity
  <2>1. t \in Int
    BY <1>3, <1>4
  <2>2. t >= 0
    <3>1. q >= 0
      BY <1>2, <1>3
    <3> HIDE DEF q
    <3> QED
      BY <1>3, <1>4, <3>1
  <2> HIDE DEF t, r, m
  <2> QED
    BY <1>2, <1>3, <1>4, <2>1, <2>2
<1>6. KeyStoredAt(t) = 0
  <2> HIDE DEF q, m, r
  <2>1. 2 * t = (2 * Capacity) * q + 0
    BY <1>3, <1>4
  <2> HIDE DEF t
  <2>2. 2 * t \in Nat /\ 2 * Capacity \in Nat \ {0} /\ 0 \in 0 .. 2 * Capacity - 1
    BY <1>2, <1>3, <1>5
  <2>3. (2 * t) % (2 * Capacity) = 0
    BY <1>4, <2>1, <2>2, DivUnique
  <2> QED
    BY <2>3 DEF KeyStoredAt
<1> HIDE DEF t, q, r
<1>7. ctx.storages[i].data[0] = KV("K", appended[i][t + 1].tok, appended[i][t + 1].strat)
  BY <1>5, <1>6, InStep DEF HoldsWindow
<1>8. t + 1 \in DOMAIN appended[i]
  BY <1>2, <1>5
<1> QED
  BY <1>7, <1>8

LEMMA OwnFormatFollows == RuntimeInv => OwnFormatDecoded
<1> SUFFICES ASSUME RuntimeInv, NEW i \in Idx, appended[i] # <<>>,
                    \A t \in DOMAIN appended[i] : appended[i][t].strat = Own
             PROVE  PathOf(ctx, i, Own) = IF Own = "fp_passthrough" THEN "fp32" ELSE "packed"
  BY DEF OwnFormatDecoded
<1>1. PICK t \in DOMAIN appended[i] :
        ctx.storages[i].data[0] = KV("K", appended[i][t].tok, appended[i][t].strat)
  BY FirstSlot
<1>2. ctx.storages[i].data[0].fmt = FormatOf(Own)
  BY <1>1 DEF KV
<1>3. ReadStorage(ctx, i, 0) = ctx.storages[i].data[0]
  <2>1. DOMAIN ctx.storages[i].data = SlabSlot
    BY InStep
  <2>2. 0 \in SlabSlot
    BY SlabCapAssumption DEF SlabSlot
  <2> QED
    BY <2>1, <2>2 DEF ReadStorage, ReadSlab
<1>4. ctx.cache_sizes[i] # 0
  <2>1. appended[i] \in Seq(Appended)
    BY DEF RuntimeInv, TypeOK, Appended
  <2>2. Len(appended[i]) # 0
    BY <2>1, EmptySeq
  <2> QED
    BY <2>2, InStep
<1>5. (FormatOf(Own) = FP32) <=> (Own = "fp_passthrough")
  BY BitsAssumption DEF FormatOf, FP32
<1> QED
  BY <1>2, <1>3, <1>4, <1>5, OwnAssumption DEF PathOf, Strategy

(* The format of slot 0 stands for the whole head as long as one strategy  *)
(* packed it, whichever append slot 0 is left with.                        *)
THEOREM OwnFormatIsDecoded == Spec => []OwnFormatDecoded
  BY OwnFormatFollows, RuntimeInvariant, PTL
=============================================================================
