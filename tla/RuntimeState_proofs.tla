-------------------------- MODULE RuntimeState_proofs --------------------------
(***************************************************************************)
(* Lemmas about the contexts of a runtime, for any capacity a context may  *)
(* be given: what a head of one holds once a sequence of pairs of a key    *)
(* and a value has been appended to it, and what a replay makes of one.    *)
(* The proofs about RuntimeContext and about Replay rest on them.          *)
(***************************************************************************)
EXTENDS ReplayEngine, Facts, SequenceTheorems, TLAPS

-----------------------------------------------------------------------------
(* A slab of n slots. *)

SlabOf(n) == [data      : [0 .. n - 1 -> Payload \cup {Zero}],
              size      : 0 .. n,
              head      : 0 .. n - 1,
              next_slot : 0 .. n]

(* The slab after a write (WriteSlab says so of slabs of SlabCap slots). *)
Written(n, st, p) ==
  [data      |-> [st.data EXCEPT ![IF st.size < n THEN st.next_slot ELSE st.head] = p],
   size      |-> IF st.size < n THEN st.size + 1 ELSE st.size,
   head      |-> IF st.size < n THEN st.head ELSE (st.head + 1) % n,
   next_slot |-> IF st.size < n THEN st.next_slot + 1 ELSE st.next_slot]

LEMMA SlabIsWritten ==
  /\ SlabState = SlabOf(SlabCap)
  /\ \A st, p : WriteSlab(st, p) = Written(SlabCap, st, p)
BY DEF SlabState, SlabSlot, SlabOf, WriteSlab, WriteSlot, Written

(* A slab after k writes since it was rewound. *)
Filled(n, st, k) ==
  /\ st \in SlabOf(n)
  /\ st.size = IF k < n THEN k ELSE n
  /\ st.next_slot = st.size
  /\ st.head = IF k < n THEN 0 ELSE k % n

(* The next write goes to slot k modulo the capacity. *)
LEMMA FilledWrite ==
  ASSUME NEW n \in Nat \ {0}, NEW st, NEW k \in Nat, NEW p \in Payload, Filled(n, st, k)
  PROVE  /\ k % n \in 0 .. n - 1
         /\ Written(n, st, p).data = [st.data EXCEPT ![k % n] = p]
         /\ Filled(n, Written(n, st, p), k + 1)
<1> DEFINE w == Written(n, st, p)
<1>1. k % n \in 0 .. n - 1
  BY DivMod
<1>2. (IF st.size < n THEN st.next_slot ELSE st.head) = k % n
  BY <1>1 DEF Filled
<1>3. /\ w.data = [st.data EXCEPT ![k % n] = p]
      /\ w.size = IF st.size < n THEN st.size + 1 ELSE st.size
      /\ w.head = IF st.size < n THEN st.head ELSE (st.head + 1) % n
      /\ w.next_slot = IF st.size < n THEN st.next_slot + 1 ELSE st.next_slot
  BY <1>2 DEF Written
<1>4. w = [data |-> w.data, size |-> w.size, head |-> w.head, next_slot |-> w.next_slot]
  BY DEF Written
<1> HIDE DEF w
<1>5. w.data \in [0 .. n - 1 -> Payload \cup {Zero}]
  BY <1>1, <1>3 DEF Filled, SlabOf
<1>6. CASE k < n
  <2>1. w.size = k + 1 /\ w.next_slot = k + 1 /\ w.head = 0
    BY <1>3, <1>6 DEF Filled
  <2>2. k + 1 = n => (k + 1) % n = 0
    BY <1>1
  <2>3. w \in SlabOf(n)
    BY <1>1, <1>4, <1>5, <1>6, <2>1 DEF SlabOf
  <2> QED
    BY <1>1, <1>3, <1>6, <2>1, <2>2, <2>3 DEF Filled, w
<1>7. CASE ~(k < n)
  <2>1. w.size = n /\ w.next_slot = n /\ w.head = ((k % n) + 1) % n
    BY <1>1, <1>3, <1>7 DEF Filled
  <2>2. w.head = (k + 1) % n
    BY <1>1, <2>1, ModNext
  <2>3. (k + 1) % n \in 0 .. n - 1
    BY <1>1, DivMod
  <2>4. w \in SlabOf(n)
    BY <1>1, <1>4, <1>5, <2>1, <2>2, <2>3 DEF SlabOf
  <2> QED
    BY <1>1, <1>3, <1>7, <2>1, <2>2, <2>4 DEF Filled, w
<1> QED
  BY <1>6, <1>7

(* init and reset rewind it. *)
LEMMA Rewound ==
  ASSUME NEW n \in Nat \ {0}
  PROVE  /\ Filled(n, EmptySlab(n), 0)
         /\ \A st \in SlabOf(n) : Filled(n, ResetSlab(st), 0)
  BY DEF Filled, EmptySlab, ResetSlab, SlabOf

-----------------------------------------------------------------------------
(* Pairs of a key and a value in a slab with room for cap of them. *)

Pair == [k : Payload, v : Payload]

(* The last cap pairs are in their places. *)
HoldsPairs(cap, st, pairs) ==
  \A t \in 0 .. Len(pairs) - 1 :
    t >= Len(pairs) - cap =>
      /\ st.data[(2 * t) % (2 * cap)] = pairs[t + 1].k
      /\ st.data[(2 * t + 1) % (2 * cap)] = pairs[t + 1].v

LEMMA NoPairs ==
  ASSUME NEW cap \in Nat \ {0}, NEW st
  PROVE  HoldsPairs(cap, st, <<>>)
  BY DEF HoldsPairs

(* The two writes of a pair take the slots of its place in the history,    *)
(* which none of the cap - 1 pairs before it has.                          *)
LEMMA PairWrite ==
  ASSUME NEW cap \in Nat \ {0}, NEW st, NEW pairs \in Seq(Pair), NEW p \in Pair,
         Filled(2 * cap, st, 2 * Len(pairs)), HoldsPairs(cap, st, pairs)
  PROVE  LET w == Written(2 * cap, Written(2 * cap, st, p.k), p.v)
         IN  Filled(2 * cap, w, 2 * Len(Append(pairs, p))) /\ HoldsPairs(cap, w, Append(pairs, p))
<1> DEFINE m == Len(pairs)
           n == 2 * cap
           u == Written(n, st, p.k)
           w == Written(n, u, p.v)
           b == Append(pairs, p)
<1>1. p.k \in Payload /\ p.v \in Payload
  BY DEF Pair
<1>2. m \in Nat /\ n \in Nat \ {0}
  OBVIOUS
<1>3. /\ b \in Seq(Pair) /\ Len(b) = m + 1
      /\ \A t \in 0 .. m - 1 : b[t + 1] = pairs[t + 1]
      /\ b[m + 1] = p
  BY <1>2, AppendProperties
<1>4. /\ (2 * m) % n \in 0 .. n - 1
      /\ u.data = [st.data EXCEPT ![(2 * m) % n] = p.k]
      /\ Filled(n, u, 2 * m + 1)
  BY <1>1, <1>2, FilledWrite
<1>5. /\ (2 * m + 1) % n \in 0 .. n - 1
      /\ w.data = [u.data EXCEPT ![(2 * m + 1) % n] = p.v]
      /\ Filled(n, w, (2 * m + 1) + 1)
  BY <1>1, <1>2, <1>4, FilledWrite
<1>6. DOMAIN st.data = 0 .. n - 1
  BY DEF Filled, SlabOf
<1> HIDE DEF u, w, b
<1>7. Filled(n, w, 2 * Len(b))
  <2>1. (2 * m + 1) + 1 = 2 * (m + 1)
    BY <1>2
  <2> QED
    BY <1>3, <1>5, <2>1
<1>8. ASSUME NEW t \in 0 .. m, t >= (m + 1) - cap
      PROVE  /\ w.data[(2 * t) % n] = b[t + 1].k
             /\ w.data[(2 * t + 1) % n] = b[t + 1].v
  <2>1. CASE t = m
    <3> DEFINE l0 == 2 * m
               l1 == 2 * m + 1
    <3>1. l0 % n # l1 % n
      <4>1. l0 \in Nat /\ l1 \in Nat /\ l0 < l1 /\ l1 < l0 + n
        BY <1>2
      <4> HIDE DEF l0, l1
      <4> QED
        BY <1>2, <4>1, ModApart
    <3>2. w.data[(2 * m) % n] = p.k /\ w.data[(2 * m + 1) % n] = p.v
      BY <1>4, <1>5, <1>6, <3>1
    <3> QED
      BY <1>3, <2>1, <3>2
  <2>2. CASE t # m
    <3>1. t \in 0 .. m - 1 /\ t >= m - cap /\ t \in Nat
      BY <1>2, <1>8, <2>2
    <3>2. /\ st.data[(2 * t) % n] = pairs[t + 1].k
          /\ st.data[(2 * t + 1) % n] = pairs[t + 1].v
      BY <3>1 DEF HoldsPairs
    <3>3. /\ 2 * t < 2 * m /\ 2 * m < 2 * t + n
          /\ 2 * t < 2 * m + 1 /\ 2 * m + 1 < 2 * t + n
          /\ 2 * t + 1 < 2 * m /\ 2 * m < 2 * t + 1 + n
          /\ 2 * t + 1 < 2 * m + 1 /\ 2 * m + 1 < 2 * t + 1 + n
      BY <1>2, <1>8, <3>1
    <3>4. /\ 2 * t \in Nat /\ 2 * t + 1 \in Nat
          /\ 2 * m \in Nat /\ 2 * m + 1 \in Nat
      BY <1>2, <3>1
    <3> DEFINE k0 == 2 * t
               k1 == 2 * t + 1
               l0 == 2 * m
               l1 == 2 * m + 1
    <3>5. /\ k0 % n # l0 % n /\ k0 % n # l1 % n
          /\ k1 % n # l0 % n /\ k1 % n # l1 % n
      <4> HIDE DEF k0, k1, l0, l1
      <4> QED
        BY <1>2, <3>3, <3>4, ModApart DEF k0, k1, l0, l1
    <3>6. k0 % n \in 0 .. n - 1 /\ k1 % n \in 0 .. n - 1
      BY <1>2, <3>4, DivMod
    <3>7. w.data[k0 % n] = st.data[k0 % n] /\ w.data[k1 % n] = st.data[k1 % n]
      BY <1>4, <1>5, <1>6, <3>5, <3>6
    <3> QED
      BY <1>3, <3>1, <3>2, <3>7
  <2> QED
    BY <2>1, <2>2
<1>9. HoldsPairs(cap, w, b)
  <2>1. \A t \in 0 .. Len(b) - 1 : t >= Len(b) - cap =>
          t \in 0 .. m /\ t >= (m + 1) - cap
    BY <1>2, <1>3
  <2> QED
    BY <1>8, <2>1 DEF HoldsPairs
<1> QED
  BY <1>7, <1>9 DEF u, w, b

-----------------------------------------------------------------------------
(* Contexts whose heads have room for cap pairs. *)

Format == (2 .. 4) \cup {FP32}

PairOf(tok, fmt) == [k |-> [part |-> "K", tok |-> tok, fmt |-> fmt],
                     v |-> [part |-> "V", tok |-> tok, fmt |-> fmt]]

LEMMA PairType ==
  ASSUME NEW tok \in Token, NEW fmt \in Format
  PROVE  PairOf(tok, fmt) \in Pair
BY SlabAssumption DEF PairOf, Pair, Vector, Format

LEMMA FormatType ==
  ASSUME NEW strat
  PROVE  FormatOf(strat) \in Format
BY BitsAssumption DEF FormatOf, Format

ContextOf(cap) ==
  [storages    : [Idx -> SlabOf(2 * cap)],
   cache_sizes : [Idx -> Nat],
   quality     : [Idx -> Quality],
   token_pos   : Nat,
   token_log   : Seq(LogEntry)]

LEMMA ContextType == ContextState = ContextOf(Capacity)
BY SlabIsWritten, SlabAssumption DEF ContextState, ContextOf

(* A pair appended to head i. *)
Extended(cap, c, i, tok, p) ==
  [storages    |-> [c.storages EXCEPT ![i] = Written(2 * cap, Written(2 * cap, @, p.k), p.v)],
   cache_sizes |-> [c.cache_sizes EXCEPT ![i] = @ + 1],
   quality     |-> c.quality,
   token_pos   |-> IF i = NIdx - 1 THEN c.token_pos + 1 ELSE c.token_pos,
   token_log   |-> IF LogTokens THEN Append(c.token_log, [idx |-> i, tok |-> tok])
                   ELSE c.token_log]

LEMMA AppendExtends ==
  ASSUME NEW c, NEW i, NEW tok, NEW strat
  PROVE  AppendContext(c, i, tok, strat) = Extended(Capacity, c, i, tok, PairOf(tok, FormatOf(strat)))
<1>1. SlabCap = 2 * Capacity
  BY SlabAssumption
<1>2. /\ KV("K", tok, strat) = PairOf(tok, FormatOf(strat)).k
      /\ KV("V", tok, strat) = PairOf(tok, FormatOf(strat)).v
  BY DEF KV, PairOf
<1> QED
  BY <1>1, <1>2, SlabIsWritten, Zenon DEF AppendContext, Extended

(* These pairs have been appended to head i, and no others. *)
HeadHas(cap, c, i, pairs) ==
  /\ c.cache_sizes[i] = Len(pairs)
  /\ Filled(2 * cap, c.storages[i], 2 * Len(pairs))
  /\ HoldsPairs(cap, c.storages[i], pairs)

LEMMA ExtendedHas ==
  ASSUME NEW cap \in Nat \ {0}, NEW c \in ContextOf(cap), NEW i \in Idx, NEW tok \in Token,
         NEW p \in Pair, NEW pairs \in Seq(Pair), HeadHas(cap, c, i, pairs)
  PROVE  LET d == Extended(cap, c, i, tok, p)
         IN /\ d \in ContextOf(cap)
            /\ HeadHas(cap, d, i, Append(pairs, p))
            /\ \A j \in Idx \ {i} : /\ d.storages[j] = c.storages[j]
                                    /\ d.cache_sizes[j] = c.cache_sizes[j]
<1> DEFINE d == Extended(cap, c, i, tok, p)
           w == Written(2 * cap, Written(2 * cap, c.storages[i], p.k), p.v)
<1>1. Filled(2 * cap, w, 2 * Len(Append(pairs, p))) /\ HoldsPairs(cap, w, Append(pairs, p))
  BY PairWrite DEF HeadHas
<1>2. Len(Append(pairs, p)) = Len(pairs) + 1 /\ Len(pairs) \in Nat
  BY AppendProperties
<1>3. /\ d.storages = [c.storages EXCEPT ![i] = w]
      /\ d.cache_sizes = [c.cache_sizes EXCEPT ![i] = @ + 1]
      /\ d.quality = c.quality
      /\ d.token_pos = IF i = NIdx - 1 THEN c.token_pos + 1 ELSE c.token_pos
      /\ d.token_log = IF LogTokens THEN Append(c.token_log, [idx |-> i, tok |-> tok])
                       ELSE c.token_log
      /\ d = [storages |-> d.storages, cache_sizes |-> d.cache_sizes, quality |-> d.quality,
              token_pos |-> d.token_pos, token_log |-> d.token_log]
  BY DEF Extended
<1> HIDE DEF d, w
<1>4. d \in ContextOf(cap)
  <2>1. d.storages \in [Idx -> SlabOf(2 * cap)]
    BY <1>1, <1>3 DEF ContextOf, Filled
  <2>2. d.cache_sizes \in [Idx -> Nat] /\ d.quality \in [Idx -> Quality]
    BY <1>3 DEF ContextOf
  <2>3. d.token_pos \in Nat /\ d.token_log \in Seq(LogEntry)
    <3>1. [idx |-> i, tok |-> tok] \in LogEntry
      BY DEF LogEntry
    <3>2. Append(c.token_log, [idx |-> i, tok |-> tok]) \in Seq(LogEntry)
      BY <3>1, AppendProperties DEF ContextOf
    <3> QED
      BY <1>3, <3>2 DEF ContextOf
  <2> QED
    BY <1>3, <2>1, <2>2, <2>3 DEF ContextOf
<1>5. HeadHas(cap, d, i, Append(pairs, p))
  <2>1. d.storages[i] = w /\ d.cache_sizes[i] = Len(pairs) + 1
    BY <1>3 DEF ContextOf, HeadHas
  <2> QED
    BY <1>1, <1>2, <2>1 DEF HeadHas
<1>6. \A j \in Idx \ {i} : d.storages[j] = c.storages[j] /\ d.cache_sizes[j] = c.cache_sizes[j]
  BY <1>3 DEF ContextOf
<1> QED
  BY <1>4, <1>5, <1>6 DEF d

(* What happens elsewhere in the context is no matter to a head. *)
LEMMA HeadSame ==
  ASSUME NEW cap, NEW c, NEW d, NEW i, NEW pairs, HeadHas(cap, c, i, pairs),
         d.storages[i] = c.storages[i], d.cache_sizes[i] = c.cache_sizes[i]
  PROVE  HeadHas(cap, d, i, pairs)
BY DEF HeadHas

(* init and reset. *)
LEMMA NewHas ==
  ASSUME NEW cap \in Nat \ {0}
  PROVE  NewContext(cap) \in ContextOf(cap) /\ \A i \in Idx : HeadHas(cap, NewContext(cap), i, <<>>)
<1>1. Filled(2 * cap, EmptySlab(2 * cap), 0)
  BY Rewound
<1>2. EmptySlab(2 * cap) \in SlabOf(2 * cap)
  BY <1>1 DEF Filled
<1>3. /\ NewContext(cap).storages = [i \in Idx |-> EmptySlab(2 * cap)]
      /\ NewContext(cap).cache_sizes = [i \in Idx |-> 0]
  BY DEF NewContext
<1>4. NewContext(cap) \in ContextOf(cap)
  BY <1>2 DEF NewContext, ContextOf, Quality
<1>5. ASSUME NEW i \in Idx
      PROVE  HeadHas(cap, NewContext(cap), i, <<>>)
  <2>1. 2 * Len(<<>>) = 0
    OBVIOUS
  <2> QED
    BY <1>1, <1>3, <2>1, NoPairs DEF HeadHas
<1> QED
  BY <1>4, <1>5

(* A context rewound. *)
Reset(cap, c) ==
  [NewContext(cap) EXCEPT !.storages = [i \in Idx |-> ResetSlab(c.storages[i])]]

LEMMA ResetHas ==
  ASSUME NEW cap \in Nat \ {0}, NEW c \in ContextOf(cap)
  PROVE  Reset(cap, c) \in ContextOf(cap) /\ \A i \in Idx : HeadHas(cap, Reset(cap, c), i, <<>>)
<1> DEFINE n == NewContext(cap)
           r == Reset(cap, c)
<1>1. n \in ContextOf(cap) /\ n.cache_sizes = [i \in Idx |-> 0]
  BY NewHas DEF NewContext
<1>2. r = [n EXCEPT !.storages = [i \in Idx |-> ResetSlab(c.storages[i])]]
  BY DEF Reset
<1>3. \A i \in Idx : Filled(2 * cap, ResetSlab(c.storages[i]), 0)
  BY Rewound DEF ContextOf
<1> HIDE DEF n, r
<1>4. r.storages = [i \in Idx |-> ResetSlab(c.storages[i])] /\ r.cache_sizes = n.cache_sizes
  BY <1>1, <1>2 DEF ContextOf
<1>5. r \in ContextOf(cap)
  <2>1. [i \in Idx |-> ResetSlab(c.storages[i])] \in [Idx -> SlabOf(2 * cap)]
    BY <1>3 DEF Filled
  <2> QED
    BY <1>1, <1>2, <2>1 DEF ContextOf
<1>6. ASSUME NEW i \in Idx
      PROVE  HeadHas(cap, r, i, <<>>)
  <2>1. 2 * Len(<<>>) = 0
    OBVIOUS
  <2> QED
    BY <1>1, <1>3, <1>4, <2>1, NoPairs DEF HeadHas
<1> QED
  BY <1>5, <1>6 DEF r

(* compute. *)
LEMMA ComputeKeeps ==
  ASSUME NEW cap, NEW c \in ContextOf(cap), NEW i \in Idx, NEW own
  PROVE  LET d == ComputeContext(c, i, own)
         IN d \in ContextOf(cap) /\ d.storages = c.storages /\ d.cache_sizes = c.cache_sizes
<1> DEFINE q == CASE PathOf(c, i, own) = "fp32" -> "exact"
                  [] PathOf(c, i, own) = "packed" -> "estimated"
                  [] OTHER -> c.quality[i]
<1>1. ComputeContext(c, i, own) = [c EXCEPT !.quality[i] = q]
  BY DEF ComputeContext
<1>2. q \in Quality
  BY DEF ContextOf, Quality
<1> HIDE DEF q
<1> DEFINE d == ComputeContext(c, i, own)
<1>3. /\ d = [c EXCEPT !.quality = [@ EXCEPT ![i] = q]]
      /\ [c.quality EXCEPT ![i] = q] \in [Idx -> Quality]
  BY <1>1, <1>2 DEF ContextOf
<1> HIDE DEF d
<1>4. /\ d \in ContextOf(cap) /\ d.storages = c.storages /\ d.cache_sizes = c.cache_sizes
  BY <1>3 DEF ContextOf
<1> QED
  BY <1>4 DEF d

-----------------------------------------------------------------------------
(* A log and the heads it is fed to.  Entry Place(t, h) is the one of head *)
(* h in token t, tokens counted from 0.                                    *)

Place(t, h) == NIdx * t + h + 1

LEMMA PlaceType ==
  ASSUME NEW t \in Nat, NEW h \in Idx
  PROVE  /\ Place(t, h) \in Nat \ {0}
         /\ \A u \in Nat : t <= u => Place(t, h) <= Place(u, h)
<1>1. NIdx \in Nat /\ NIdx # 0 /\ h \in Nat
  BY NIdxAssumption DEF Idx
<1>2. NIdx * t \in Nat
  BY <1>1
<1>3. ASSUME NEW u \in Nat, t <= u
      PROVE  Place(t, h) <= Place(u, h)
  <2>1. NIdx * t <= NIdx * u
    BY <1>1, <1>3, TimesMonotone
  <2>2. NIdx * u \in Nat
    BY <1>1
  <2> DEFINE x == NIdx * t
             y == NIdx * u
  <2> HIDE DEF x, y
  <2>3. x + h + 1 <= y + h + 1
    BY <1>1, <1>2, <2>1, <2>2 DEF x, y
  <2> QED
    BY <2>3 DEF Place, x, y
<1>4. Place(t, h) \in Nat \ {0}
  <2> DEFINE x == NIdx * t
  <2> HIDE DEF x
  <2>1. x + h + 1 \in Nat \ {0}
    BY <1>1, <1>2 DEF x
  <2> QED
    BY <2>1 DEF Place, x
<1> QED
  BY <1>3, <1>4

(* What the first m tokens of a log are for head h, packed in a format. *)
LogPairs(log, h, m, fmt) == [t \in 1 .. m |-> PairOf(log[Place(t - 1, h)].tok, fmt)]

(* The log has head h in its first m tokens. *)
Reaches(log, h, m) == m > 0 => Place(m - 1, h) <= Len(log)

LEMMA LogPairsValue ==
  ASSUME NEW log \in Seq(LogEntry), NEW h \in Idx, NEW m \in Nat, Reaches(log, h, m),
         NEW fmt \in Format
  PROVE  /\ \A t \in 0 .. m - 1 : Place(t, h) \in 1 .. Len(log) /\ log[Place(t, h)].tok \in Token
         /\ LogPairs(log, h, m, fmt) \in Seq(Pair) /\ Len(LogPairs(log, h, m, fmt)) = m
         /\ \A t \in 0 .. m - 1 : LogPairs(log, h, m, fmt)[t + 1] = PairOf(log[Place(t, h)].tok, fmt)
<1> DEFINE x == LogPairs(log, h, m, fmt)
<1>1. ASSUME NEW t \in 0 .. m - 1
      PROVE  Place(t, h) \in 1 .. Len(log) /\ log[Place(t, h)].tok \in Token
  <2>1. t \in Nat /\ m - 1 \in Nat /\ t <= m - 1 /\ m > 0
    OBVIOUS
  <2>2. /\ Place(t, h) \in Nat \ {0} /\ Place(m - 1, h) \in Nat \ {0}
        /\ Place(t, h) <= Place(m - 1, h)
    BY <2>1, PlaceType
  <2>3. Place(m - 1, h) <= Len(log) /\ Len(log) \in Nat
    BY <2>1 DEF Reaches
  <2>4. Place(t, h) \in 1 .. Len(log)
    BY <2>2, <2>3
  <2>5. log[Place(t, h)] \in LogEntry
    BY <2>4
  <2> QED
    BY <2>4, <2>5 DEF LogEntry
<1>2. ASSUME NEW t \in 1 .. m
      PROVE  PairOf(log[Place(t - 1, h)].tok, fmt) \in Pair
  <2>1. t - 1 \in 0 .. m - 1
    OBVIOUS
  <2> QED
    BY <1>1, <2>1, PairType
<1>3. x \in [1 .. m -> Pair]
  BY <1>2 DEF LogPairs
<1>4. x \in Seq(Pair)
  BY <1>3, SeqDef
<1>5. Len(x) = m
  BY <1>3, <1>4, LenProperties
<1>6. ASSUME NEW t \in 0 .. m - 1
      PROVE  x[t + 1] = PairOf(log[Place(t, h)].tok, fmt)
  <2>1. t + 1 \in 1 .. m /\ (t + 1) - 1 = t
    OBVIOUS
  <2>2. x[t + 1] = PairOf(log[Place((t + 1) - 1, h)].tok, fmt)
    BY <2>1, Zenon DEF LogPairs
  <2> QED
    BY <2>1, <2>2
<1> QED
  BY <1>1, <1>4, <1>5, <1>6

LEMMA ReachesFewer ==
  ASSUME NEW log \in Seq(LogEntry), NEW h \in Idx, NEW m \in Nat, Reaches(log, h, m + 1)
  PROVE  Reaches(log, h, m) /\ Place(m, h) <= Len(log)
<1>1. Place(m, h) <= Len(log) /\ Len(log) \in Nat
  <2>1. m + 1 > 0 /\ (m + 1) - 1 = m
    OBVIOUS
  <2> QED
    BY <2>1 DEF Reaches
<1>2. ASSUME m > 0
      PROVE  Place(m - 1, h) <= Len(log)
  <2>1. m - 1 \in Nat /\ m - 1 <= m
    BY <1>2
  <2>2. Place(m - 1, h) <= Place(m, h) /\ Place(m - 1, h) \in Nat /\ Place(m, h) \in Nat
    BY <2>1, PlaceType
  <2> QED
    BY <1>1, <2>2
<1> QED
  BY <1>1, <1>2 DEF Reaches

LEMMA LogPairsAppend ==
  ASSUME NEW log \in Seq(LogEntry), NEW h \in Idx, NEW m \in Nat, Reaches(log, h, m + 1),
         NEW fmt \in Format
  PROVE  LogPairs(log, h, m + 1, fmt)
           = Append(LogPairs(log, h, m, fmt), PairOf(log[Place(m, h)].tok, fmt))
<1> DEFINE x == LogPairs(log, h, m + 1, fmt)
           b == LogPairs(log, h, m, fmt)
           p == PairOf(log[Place(m, h)].tok, fmt)
           y == Append(b, p)
<1>1. Reaches(log, h, m) /\ m + 1 \in Nat
  BY ReachesFewer
<1>2. /\ b \in Seq(Pair) /\ Len(b) = m
      /\ \A t \in 0 .. m - 1 : b[t + 1] = PairOf(log[Place(t, h)].tok, fmt)
  BY <1>1, LogPairsValue
<1>3. /\ x \in Seq(Pair) /\ Len(x) = m + 1
      /\ \A t \in 0 .. (m + 1) - 1 : log[Place(t, h)].tok \in Token
      /\ \A t \in 0 .. (m + 1) - 1 : x[t + 1] = PairOf(log[Place(t, h)].tok, fmt)
  BY <1>1, LogPairsValue
<1>4. p \in Pair
  <2>1. m \in 0 .. (m + 1) - 1
    OBVIOUS
  <2> QED
    BY <1>3, <2>1, PairType
<1>5. x[m + 1] = p
  BY <1>3
<1> HIDE DEF x, b, p
<1>6. /\ y \in Seq(Pair) /\ Len(y) = m + 1 /\ y[m + 1] = p
      /\ \A t \in 1 .. m : y[t] = b[t]
  BY <1>2, <1>4, AppendProperties
<1>7. ASSUME NEW t \in 1 .. m + 1
      PROVE  x[t] = y[t]
  <2>1. CASE t = m + 1
    BY <1>5, <1>6, <2>1
  <2>2. CASE t # m + 1
    <3>1. t - 1 \in 0 .. m - 1 /\ t - 1 \in 0 .. (m + 1) - 1 /\ (t - 1) + 1 = t /\ t \in 1 .. m
      BY <2>2
    <3>2. x[(t - 1) + 1] = b[(t - 1) + 1]
      BY <1>2, <1>3, <3>1
    <3> QED
      BY <1>6, <3>1, <3>2
  <2> QED
    BY <2>1, <2>2
<1> HIDE DEF y
<1>8. x = y
  BY <1>3, <1>6, <1>7, SeqEqual
<1> QED
  BY <1>8 DEF x, y, b, p

(* What comes after the m-th token in a log does not matter. *)
LEMMA LogPairsPrefix ==
  ASSUME NEW log \in Seq(LogEntry), NEW long \in Seq(LogEntry), NEW h \in Idx, NEW m \in Nat,
         Reaches(log, h, m), NEW fmt \in Format,
         Len(log) <= Len(long), \A i \in 1 .. Len(log) : long[i] = log[i]
  PROVE  Reaches(long, h, m) /\ LogPairs(long, h, m, fmt) = LogPairs(log, h, m, fmt)
<1>1. Reaches(long, h, m)
  <2> SUFFICES ASSUME m > 0
               PROVE  Place(m - 1, h) <= Len(long)
    BY DEF Reaches
  <2>1. Place(m - 1, h) <= Len(log) /\ m - 1 \in Nat
    BY DEF Reaches
  <2>2. Place(m - 1, h) \in Nat
    BY <2>1, PlaceType
  <2>3. Len(log) \in Nat /\ Len(long) \in Nat
    OBVIOUS
  <2> QED
    BY <2>1, <2>2, <2>3
<1>2. \A t \in 1 .. m : PairOf(long[Place(t - 1, h)].tok, fmt) = PairOf(log[Place(t - 1, h)].tok, fmt)
  <2> TAKE t \in 1 .. m
  <2>1. t - 1 \in 0 .. m - 1
    OBVIOUS
  <2>2. Place(t - 1, h) \in 1 .. Len(log)
    BY <2>1, LogPairsValue
  <2> QED
    BY <2>2
<1>3. [t \in 1 .. m |-> PairOf(long[Place(t - 1, h)].tok, fmt)]
        = [t \in 1 .. m |-> PairOf(log[Place(t - 1, h)].tok, fmt)]
  BY <1>2, Zenon
<1> QED
  BY <1>1, <1>3, Zenon DEF LogPairs

-----------------------------------------------------------------------------
(* A context that is fed a log. *)

(* The tokens head h has once t tokens and j heads of the next are fed. *)
Share(t, j, h) == IF h < j THEN t + 1 ELSE t

Fed(cap, c, log, t, j, fmt) ==
  /\ c \in ContextOf(cap)
  /\ \A h \in Idx : /\ Reaches(log, h, Share(t, j, h))
                    /\ HeadHas(cap, c, h, LogPairs(log, h, Share(t, j, h), fmt))

LEMMA FedOther ==
  ASSUME NEW cap, NEW c, NEW d \in ContextOf(cap), NEW log, NEW t, NEW j, NEW fmt,
         Fed(cap, c, log, t, j, fmt), d.storages = c.storages, d.cache_sizes = c.cache_sizes
  PROVE  Fed(cap, d, log, t, j, fmt)
BY DEF Fed, HeadHas

LEMMA FedNothing ==
  ASSUME NEW cap, NEW c \in ContextOf(cap), \A i \in Idx : HeadHas(cap, c, i, <<>>),
         NEW log \in Seq(LogEntry), NEW fmt
  PROVE  Fed(cap, c, log, 0, 0, fmt)
<1>1. \A h \in Idx : Share(0, 0, h) = 0
  BY DEF Share, Idx
<1>2. \A h \in Idx : LogPairs(log, h, 0, fmt) = <<>>
  BY DEF LogPairs
<1> QED
  BY <1>1, <1>2 DEF Fed, Reaches

(* The entry of the next head. *)
LEMMA FedNext ==
  ASSUME NEW cap \in Nat \ {0}, NEW c, NEW log \in Seq(LogEntry), NEW t \in Nat, NEW j \in Idx,
         NEW fmt \in Format, Fed(cap, c, log, t, j, fmt), Place(t, j) <= Len(log)
  PROVE  LET tok == log[Place(t, j)].tok
         IN Fed(cap, Extended(cap, c, j, tok, PairOf(tok, fmt)), log, t, j + 1, fmt)
<1> DEFINE tok == log[Place(t, j)].tok
           p == PairOf(tok, fmt)
           d == Extended(cap, c, j, tok, p)
           pairs == LogPairs(log, j, t, fmt)
<1>1. Share(t, j, j) = t /\ Share(t, j + 1, j) = t + 1
  BY DEF Share, Idx
<1>2. \A h \in Idx \ {j} : Share(t, j + 1, h) = Share(t, j, h)
  BY DEF Share, Idx
<1>3. c \in ContextOf(cap) /\ Reaches(log, j, t) /\ HeadHas(cap, c, j, pairs)
  BY <1>1 DEF Fed
<1>4. Reaches(log, j, t + 1)
  <2>1. (t + 1) - 1 = t
    OBVIOUS
  <2> QED
    BY <2>1 DEF Reaches
<1>5. tok \in Token
  <2>1. Place(t, j) \in Nat \ {0} /\ Len(log) \in Nat
    BY PlaceType
  <2>2. log[Place(t, j)] \in LogEntry
    BY <2>1
  <2> QED
    BY <2>2 DEF LogEntry
<1>6. pairs \in Seq(Pair)
  BY <1>3, LogPairsValue
<1>7. LogPairs(log, j, t + 1, fmt) = Append(pairs, p)
  BY <1>4, LogPairsAppend
<1>8. p \in Pair
  BY <1>5, PairType
<1> HIDE DEF tok, p, pairs
<1>9. /\ d \in ContextOf(cap)
      /\ HeadHas(cap, d, j, Append(pairs, p))
      /\ \A h \in Idx \ {j} : d.storages[h] = c.storages[h] /\ d.cache_sizes[h] = c.cache_sizes[h]
  BY <1>3, <1>5, <1>6, <1>8, ExtendedHas
<1> HIDE DEF d
<1>10. ASSUME NEW h \in Idx
       PROVE  /\ Reaches(log, h, Share(t, j + 1, h))
              /\ HeadHas(cap, d, h, LogPairs(log, h, Share(t, j + 1, h), fmt))
  <2>1. CASE h = j
    BY <1>1, <1>4, <1>7, <1>9, <2>1
  <2>2. CASE h # j
    <3> DEFINE ps == LogPairs(log, h, Share(t, j, h), fmt)
    <3>1. Reaches(log, h, Share(t, j, h)) /\ HeadHas(cap, c, h, ps)
      BY DEF Fed
    <3>2. d.storages[h] = c.storages[h] /\ d.cache_sizes[h] = c.cache_sizes[h]
      BY <1>9, <2>2
    <3> HIDE DEF ps
    <3>3. HeadHas(cap, d, h, ps)
      BY <3>1, <3>2, HeadSame
    <3>4. Share(t, j + 1, h) = Share(t, j, h)
      BY <1>2, <2>2
    <3> QED
      BY <3>1, <3>3, <3>4 DEF ps
  <2> QED
    BY <2>1, <2>2
<1>11. Fed(cap, d, log, t, j + 1, fmt)
  BY <1>9, <1>10 DEF Fed
<1> QED
  BY <1>11 DEF d, p, tok

(* The last head of a token. *)
LEMMA FedWhole ==
  ASSUME NEW cap, NEW c, NEW log, NEW t \in Nat, NEW fmt, Fed(cap, c, log, t, NIdx, fmt)
  PROVE  Fed(cap, c, log, t + 1, 0, fmt)
<1>1. \A h \in Idx : Share(t, NIdx, h) = Share(t + 1, 0, h)
  BY NIdxAssumption DEF Share, Idx
<1> QED
  BY <1>1 DEF Fed

LEMMA FedPrefix ==
  ASSUME NEW cap, NEW c, NEW log \in Seq(LogEntry), NEW long \in Seq(LogEntry),
         NEW t \in Nat, NEW j \in Nat, NEW fmt \in Format, Fed(cap, c, log, t, j, fmt),
         Len(log) <= Len(long), \A i \in 1 .. Len(log) : long[i] = log[i]
  PROVE  Fed(cap, c, long, t, j, fmt)
<1>1. ASSUME NEW h \in Idx
      PROVE  /\ Reaches(long, h, Share(t, j, h))
             /\ LogPairs(long, h, Share(t, j, h), fmt) = LogPairs(log, h, Share(t, j, h), fmt)
  <2>1. Share(t, j, h) \in Nat /\ Reaches(log, h, Share(t, j, h))
    BY DEF Share, Fed
  <2> QED
    BY <2>1, LogPairsPrefix
<1> QED
  BY <1>1 DEF Fed

(* Where a head has its t-th pair, if it still has it. *)
HasPair(cap, c, h, t, p) ==
  /\ c.storages[h].data[(2 * t) % (2 * cap)] = p.k
  /\ c.storages[h].data[(2 * t + 1) % (2 * cap)] = p.v

LEMMA FedHas ==
  ASSUME NEW cap \in Nat \ {0}, NEW c, NEW log \in Seq(LogEntry), NEW n \in Nat, NEW j \in Nat,
         NEW fmt \in Format, Fed(cap, c, log, n, j, fmt), NEW h \in Idx,
         NEW t \in 0 .. Share(n, j, h) - 1, t >= Share(n, j, h) - cap
  PROVE  /\ Place(t, h) \in 1 .. Len(log) /\ log[Place(t, h)].tok \in Token
         /\ HasPair(cap, c, h, t, PairOf(log[Place(t, h)].tok, fmt))
<1> DEFINE m == Share(n, j, h)
           pairs == LogPairs(log, h, m, fmt)
<1>1. m \in Nat /\ Reaches(log, h, m) /\ HoldsPairs(cap, c.storages[h], pairs)
  BY DEF Share, Fed, HeadHas
<1>2. /\ Place(t, h) \in 1 .. Len(log) /\ log[Place(t, h)].tok \in Token
      /\ Len(pairs) = m
      /\ pairs[t + 1] = PairOf(log[Place(t, h)].tok, fmt)
  BY <1>1, LogPairsValue
<1> HIDE DEF m, pairs
<1>3. /\ c.storages[h].data[(2 * t) % (2 * cap)] = pairs[t + 1].k
      /\ c.storages[h].data[(2 * t + 1) % (2 * cap)] = pairs[t + 1].v
  BY <1>1, <1>2 DEF HoldsPairs, m
<1> QED
  BY <1>2, <1>3 DEF HasPair

(* How full a head with m pairs is. *)
Shaped(cap, c, h, m) ==
  /\ c.cache_sizes[h] = m
  /\ c.storages[h].size = IF m < cap THEN 2 * m ELSE 2 * cap
  /\ c.storages[h].head = IF m < cap THEN 0 ELSE (2 * m) % (2 * cap)

LEMMA FedShape ==
  ASSUME NEW cap \in Nat \ {0}, NEW c, NEW log \in Seq(LogEntry), NEW n \in Nat, NEW j \in Nat,
         NEW fmt \in Format, Fed(cap, c, log, n, j, fmt), NEW h \in Idx
  PROVE  Shaped(cap, c, h, Share(n, j, h))
<1> DEFINE m == Share(n, j, h)
           pairs == LogPairs(log, h, m, fmt)
<1>1. m \in Nat /\ Reaches(log, h, m) /\ HeadHas(cap, c, h, pairs)
  BY DEF Share, Fed
<1>2. Len(pairs) = m
  BY <1>1, LogPairsValue
<1> HIDE DEF m, pairs
<1>3. 2 * m < 2 * cap <=> m < cap
  BY <1>1
<1>4. Shaped(cap, c, h, m)
  BY <1>1, <1>2, <1>3 DEF HeadHas, Filled, Shaped
<1> QED
  BY <1>4 DEF m

(* What a slot in use has: one of the last pairs. *)
LEMMA FedSlot ==
  ASSUME NEW cap \in Nat \ {0}, NEW c, NEW log \in Seq(LogEntry), NEW n \in Nat, NEW j \in Nat,
         NEW fmt \in Format, Fed(cap, c, log, n, j, fmt), NEW h \in Idx,
         NEW s \in 0 .. c.storages[h].size - 1
  PROVE  \E t \in 0 .. Share(n, j, h) - 1 :
           /\ t >= Share(n, j, h) - cap
           /\ s \in {(2 * t) % (2 * cap), (2 * t + 1) % (2 * cap)}
<1> DEFINE m == Share(n, j, h)
           x == s \div 2
           r == s % 2
<1>1. m \in Nat /\ c.storages[h].size = IF m < cap THEN 2 * m ELSE 2 * cap
  <2>1. Shaped(cap, c, h, m)
    BY FedShape
  <2> QED
    BY <2>1 DEF Share, Shaped
<1>2. s \in Nat /\ s < 2 * m /\ s < 2 * cap
  BY <1>1
<1>3. x \in Int /\ r \in 0 .. 1 /\ s = 2 * x + r
  BY <1>2
<1> HIDE DEF m, x, r
<1>4. x \in 0 .. cap - 1 /\ x < m
  BY <1>1, <1>2, <1>3
<1>5. PICK t \in 0 .. m - 1 : t >= m - cap /\ t % cap = x
  BY <1>1, <1>4, InTurn
<1>6. (2 * t) % (2 * cap) = 2 * (t % cap) /\ (2 * t + 1) % (2 * cap) = 2 * (t % cap) + 1
  <2>1. t \in Nat
    BY <1>1
  <2> QED
    BY <2>1, DoubleMod
<1>7. s = (2 * t) % (2 * cap) \/ s = (2 * t + 1) % (2 * cap)
  BY <1>3, <1>5, <1>6
<1> QED
  BY <1>5, <1>7 DEF m

-----------------------------------------------------------------------------
(* The contexts a log may be fed to: their slabs were written in order. *)

Filling(cap) == {c \in ContextOf(cap) :
                   \A i \in Idx : \E k \in Nat : Filled(2 * cap, c.storages[i], k)}

LEMMA FedFills ==
  ASSUME NEW cap, NEW c, NEW log, NEW t \in Nat, NEW j, NEW fmt \in Format,
         log \in Seq(LogEntry), Fed(cap, c, log, t, j, fmt)
  PROVE  c \in Filling(cap)
<1>1. ASSUME NEW h \in Idx
      PROVE  \E k \in Nat : Filled(2 * cap, c.storages[h], k)
  <2> DEFINE m == Share(t, j, h)
             pairs == LogPairs(log, h, m, fmt)
  <2>1. m \in Nat /\ Reaches(log, h, m) /\ Filled(2 * cap, c.storages[h], 2 * Len(pairs))
    BY DEF Share, Fed, HeadHas
  <2>2. Len(pairs) = m
    BY <2>1, LogPairsValue
  <2> HIDE DEF m, pairs
  <2>3. 2 * Len(pairs) \in Nat
    BY <2>1, <2>2
  <2> QED
    BY <2>1, <2>3
<1> QED
  BY <1>1 DEF Fed, Filling

LEMMA ExtendedFills ==
  ASSUME NEW cap \in Nat \ {0}, NEW c \in Filling(cap), NEW i \in Idx, NEW tok \in Token,
         NEW p \in Pair
  PROVE  Extended(cap, c, i, tok, p) \in Filling(cap)
<1> DEFINE d == Extended(cap, c, i, tok, p)
           n == 2 * cap
           u == Written(n, c.storages[i], p.k)
           w == Written(n, u, p.v)
<1>1. n \in Nat \ {0} /\ p.k \in Payload /\ p.v \in Payload
  BY DEF Pair
<1>2. c \in ContextOf(cap) /\ \A j \in Idx : \E k \in Nat : Filled(n, c.storages[j], k)
  BY DEF Filling
<1>3. PICK k \in Nat : Filled(n, c.storages[i], k)
  BY <1>2
<1> HIDE DEF n
<1>4. Filled(n, u, k + 1)
  BY <1>1, <1>3, FilledWrite
<1> HIDE DEF u
<1>5. k + 1 \in Nat
  OBVIOUS
<1>6. Filled(n, w, (k + 1) + 1)
  BY <1>1, <1>4, <1>5, FilledWrite
<1>7. /\ d.storages = [c.storages EXCEPT ![i] = w]
      /\ d.cache_sizes = [c.cache_sizes EXCEPT ![i] = @ + 1]
      /\ d.quality = c.quality
      /\ d.token_pos = IF i = NIdx - 1 THEN c.token_pos + 1 ELSE c.token_pos
      /\ d.token_log = IF LogTokens THEN Append(c.token_log, [idx |-> i, tok |-> tok])
                       ELSE c.token_log
      /\ d = [storages |-> d.storages, cache_sizes |-> d.cache_sizes, quality |-> d.quality,
              token_pos |-> d.token_pos, token_log |-> d.token_log]
  BY DEF Extended, u, n
<1> HIDE DEF d, w
<1>8. d.storages \in [Idx -> SlabOf(n)]
  BY <1>2, <1>6, <1>7 DEF ContextOf, Filled, n
<1>9. d.cache_sizes \in [Idx -> Nat] /\ d.quality \in [Idx -> Quality]
  BY <1>2, <1>7 DEF ContextOf
<1>10. d.token_pos \in Nat /\ d.token_log \in Seq(LogEntry)
  <2>1. [idx |-> i, tok |-> tok] \in LogEntry
    BY DEF LogEntry
  <2>2. Append(c.token_log, [idx |-> i, tok |-> tok]) \in Seq(LogEntry)
    BY <1>2, <2>1, AppendProperties DEF ContextOf
  <2> QED
    BY <1>2, <1>7, <2>2 DEF ContextOf
<1>11. d \in ContextOf(cap)
  BY <1>7, <1>8, <1>9, <1>10 DEF ContextOf, n
<1>12. ASSUME NEW j \in Idx
       PROVE  \E l \in Nat : Filled(n, d.storages[j], l)
  <2>1. CASE j = i
    <3>1. d.storages[j] = w
      BY <1>2, <1>7, <2>1 DEF ContextOf
    <3>2. (k + 1) + 1 \in Nat
      OBVIOUS
    <3> QED
      BY <1>6, <3>1, <3>2
  <2>2. CASE j # i
    <3>1. d.storages[j] = c.storages[j]
      BY <1>2, <1>7, <2>2 DEF ContextOf
    <3> QED
      BY <1>2, <3>1
  <2> QED
    BY <2>1, <2>2
<1> QED
  BY <1>11, <1>12 DEF Filling, d, n

-----------------------------------------------------------------------------
(* FeedEntry, whatever the capacity and the format. *)

Entered(cap, c, i, tok, fmt, own, metrics) ==
  LET e == Extended(cap, c, i, tok, PairOf(tok, fmt))
  IN IF metrics THEN ComputeContext(e, i, own) ELSE e

LEMMA EnteredFills ==
  ASSUME NEW cap \in Nat \ {0}, NEW c \in Filling(cap), NEW i \in Idx, NEW tok \in Token,
         NEW fmt \in Format, NEW own, NEW metrics
  PROVE  Entered(cap, c, i, tok, fmt, own, metrics) \in Filling(cap)
<1> DEFINE e == Extended(cap, c, i, tok, PairOf(tok, fmt))
<1>1. e \in Filling(cap)
  <2>1. PairOf(tok, fmt) \in Pair
    BY PairType
  <2> QED
    BY <2>1, ExtendedFills
<1>2. Entered(cap, c, i, tok, fmt, own, metrics) = IF metrics THEN ComputeContext(e, i, own) ELSE e
  BY DEF Entered
<1> HIDE DEF e
<1>3. e \in ContextOf(cap)
  BY <1>1 DEF Filling
<1>4. ComputeContext(e, i, own) \in ContextOf(cap) /\ ComputeContext(e, i, own).storages = e.storages
  BY <1>3, ComputeKeeps
<1>5. ComputeContext(e, i, own) \in Filling(cap)
  BY <1>1, <1>4 DEF Filling
<1> QED
  BY <1>1, <1>2, <1>5

(* Every head that was fed was computed, in the format of strategy own. *)
Graded(c, t, j, own) ==
  \A h \in Idx : Share(t, j, h) > 0 =>
    c.quality[h] = IF own = "fp_passthrough" THEN "exact" ELSE "estimated"

(* fmt is the format of strategy own. *)
OwnFormat(own, fmt) == own \in Strategy /\ (fmt = FP32 <=> own = "fp_passthrough")

LEMMA EnteredFed ==
  ASSUME NEW cap \in Nat \ {0}, NEW c, NEW log \in Seq(LogEntry), NEW t \in Nat, NEW j \in Idx,
         NEW fmt \in Format, Fed(cap, c, log, t, j, fmt), Place(t, j) <= Len(log),
         NEW own, NEW metrics \in BOOLEAN
  PROVE  LET d == Entered(cap, c, j, log[Place(t, j)].tok, fmt, own, metrics)
         IN /\ Fed(cap, d, log, t, j + 1, fmt)
            /\ metrics /\ OwnFormat(own, fmt) /\ Graded(c, t, j, own) => Graded(d, t, j + 1, own)
<1> DEFINE tok == log[Place(t, j)].tok
           e == Extended(cap, c, j, tok, PairOf(tok, fmt))
           d == Entered(cap, c, j, tok, fmt, own, metrics)
           f == ComputeContext(e, j, own)
<1>1. Fed(cap, e, log, t, j + 1, fmt)
  BY FedNext
<1>2. d = IF metrics THEN f ELSE e
  BY DEF Entered
<1>3. e.quality = c.quality
  BY DEF Extended
<1> HIDE DEF tok, e, d
<1>4. e \in ContextOf(cap)
  BY <1>1 DEF Fed
<1>5. f \in ContextOf(cap) /\ f.storages = e.storages /\ f.cache_sizes = e.cache_sizes
  BY <1>4, ComputeKeeps
<1>6. Fed(cap, d, log, t, j + 1, fmt)
  <2> HIDE DEF f
  <2>1. Fed(cap, f, log, t, j + 1, fmt)
    BY <1>1, <1>5, FedOther
  <2> QED
    BY <1>1, <1>2, <2>1
<1>7. ASSUME metrics, OwnFormat(own, fmt), Graded(c, t, j, own)
      PROVE  Graded(d, t, j + 1, own)
  <2> DEFINE grade == IF own = "fp_passthrough" THEN "exact" ELSE "estimated"
  <2>1. Share(t, j + 1, j) = t + 1 /\ j + 1 \in Nat
    BY DEF Share, Idx
  <2>2. e.cache_sizes[j] = t + 1 /\ e.storages[j].size > 0
    <3> DEFINE k == j + 1
               m == Share(t, k, j)
    <3>1. e.cache_sizes[j] = m /\ e.storages[j].size = IF m < cap THEN 2 * m ELSE 2 * cap
      <4>1. Fed(cap, e, log, t, k, fmt) /\ k \in Nat
        BY <1>1, <2>1
      <4> HIDE DEF k
      <4>2. Shaped(cap, e, j, Share(t, k, j))
        BY <4>1, FedShape
      <4> QED
        BY <4>2 DEF Shaped
    <3>2. m = t + 1
      BY <2>1
    <3> HIDE DEF m
    <3> QED
      BY <3>1, <3>2
  <2>3. DOMAIN e.storages[j].data = 0 .. 2 * cap - 1 /\ e.storages[j].size \in Nat
    BY <1>4 DEF ContextOf, SlabOf
  <2>4. e.storages[j].data[0].fmt = fmt
    <3>1. 0 \in 0 .. e.storages[j].size - 1
      BY <2>2, <2>3
    <3>2. PICK x \in 0 .. Share(t, j + 1, j) - 1 :
            /\ x >= Share(t, j + 1, j) - cap
            /\ 0 \in {(2 * x) % (2 * cap), (2 * x + 1) % (2 * cap)}
      BY <1>1, <2>1, <3>1, FedSlot
    <3>3. /\ e.storages[j].data[(2 * x) % (2 * cap)] = PairOf(log[Place(x, j)].tok, fmt).k
          /\ e.storages[j].data[(2 * x + 1) % (2 * cap)] = PairOf(log[Place(x, j)].tok, fmt).v
      BY <1>1, <2>1, <3>2, FedHas DEF HasPair
    <3>4. PairOf(log[Place(x, j)].tok, fmt).k.fmt = fmt /\ PairOf(log[Place(x, j)].tok, fmt).v.fmt = fmt
      BY DEF PairOf
    <3> QED
      BY <3>2, <3>3, <3>4
  <2>5. ReadStorage(e, j, 0).fmt = fmt
    <3>1. 0 \in 0 .. 2 * cap - 1
      OBVIOUS
    <3> QED
      BY <2>3, <2>4, <3>1 DEF ReadStorage, ReadSlab
  <2>6. PathOf(e, j, own) = IF fmt = FP32 THEN "fp32" ELSE "packed"
    <3>1. e.cache_sizes[j] # 0
      BY <2>2
    <3> QED
      BY <1>7, <2>5, <3>1 DEF PathOf, OwnFormat, Strategy
  <2>7. f = [e EXCEPT !.quality[j] = grade]
    BY <1>7, <2>6 DEF ComputeContext, OwnFormat
  <2>8. e.quality \in [Idx -> Quality] /\ DOMAIN e.quality = Idx
    BY <1>4 DEF ContextOf
  <2>9. f.quality = [e.quality EXCEPT ![j] = grade]
    BY <1>4, <2>7 DEF ContextOf
  <2> HIDE DEF f, grade
  <2> SUFFICES ASSUME NEW h \in Idx, Share(t, j + 1, h) > 0
               PROVE  d.quality[h] = grade
    BY DEF Graded, grade
  <2>10. d = f
    BY <1>2, <1>7
  <2>11. CASE h = j
    BY <2>8, <2>9, <2>10, <2>11
  <2>12. CASE h # j
    <3>1. Share(t, j, h) = Share(t, j + 1, h)
      BY <2>12 DEF Share, Idx
    <3>2. c.quality[h] = grade
      BY <1>7, <3>1 DEF Graded, grade
    <3> QED
      BY <1>3, <2>8, <2>9, <2>10, <2>12, <3>2
  <2> QED
    BY <2>11, <2>12
<1> QED
  BY <1>6, <1>7 DEF d, tok

-----------------------------------------------------------------------------
(* FeedToken: the fold over the heads. *)

TokenStep(cap, acc, i, log, t, fmt, own, metrics) ==
  IF t * NIdx + i < Len(log)
  THEN Entered(cap, acc, i, log[t * NIdx + i + 1].tok, fmt, own, metrics)
  ELSE acc

(* f is what the fold computes on the way. *)
TokenFold(f, cap, c, log, t, fmt, own, metrics) ==
  f = [s \in SUBSET (1 .. NIdx) |->
         IF s = {} THEN c
         ELSE TokenStep(cap, f[s \ {Max(s)}], Max(s) - 1, log, t, fmt, own, metrics)]

LEMMA TokenStepFills ==
  ASSUME NEW cap \in Nat \ {0}, NEW acc \in Filling(cap), NEW i \in Idx,
         NEW log \in Seq(LogEntry), NEW t \in Nat, NEW fmt \in Format, NEW own, NEW metrics
  PROVE  TokenStep(cap, acc, i, log, t, fmt, own, metrics) \in Filling(cap)
<1>1. t * NIdx + i + 1 = Place(t, i) /\ Place(t, i) \in Nat \ {0}
  <2>1. t * NIdx = NIdx * t /\ NIdx * t \in Nat /\ i \in Nat
    BY NIdxAssumption DEF Idx
  <2> QED
    BY <2>1, PlaceType DEF Place
<1>2. t * NIdx + i = Place(t, i) - 1
  <2>1. t * NIdx \in Nat /\ i \in Nat
    BY NIdxAssumption DEF Idx
  <2> DEFINE x == t * NIdx
  <2> HIDE DEF x
  <2>2. x + i + 1 = Place(t, i)
    BY <1>1 DEF x
  <2>3. x + i = Place(t, i) - 1
    BY <1>1, <2>1, <2>2 DEF x
  <2> QED
    BY <2>3 DEF x
<1> DEFINE l == Place(t, i)
<1> HIDE DEF l
<1>3. TokenStep(cap, acc, i, log, t, fmt, own, metrics)
        = IF l - 1 < Len(log) THEN Entered(cap, acc, i, log[l].tok, fmt, own, metrics) ELSE acc
  BY <1>1, <1>2 DEF TokenStep, l
<1>4. ASSUME l - 1 < Len(log)
      PROVE  Entered(cap, acc, i, log[l].tok, fmt, own, metrics) \in Filling(cap)
  <2>1. l \in 1 .. Len(log)
    BY <1>1, <1>4 DEF l
  <2>2. log[l] \in LogEntry
    BY <2>1
  <2>3. log[l].tok \in Token
    BY <2>2 DEF LogEntry
  <2> QED
    BY <2>3, EnteredFills
<1> QED
  BY <1>3, <1>4

(* Within the log the step enters the next entry. *)
LEMMA TokenStepFed ==
  ASSUME NEW cap \in Nat \ {0}, NEW acc, NEW j \in Idx, NEW log \in Seq(LogEntry), NEW t \in Nat,
         NEW fmt \in Format, NEW own, NEW metrics \in BOOLEAN,
         Fed(cap, acc, log, t, j, fmt), Place(t, j) <= Len(log)
  PROVE  LET d == TokenStep(cap, acc, j, log, t, fmt, own, metrics)
         IN /\ Fed(cap, d, log, t, j + 1, fmt)
            /\ metrics /\ OwnFormat(own, fmt) /\ Graded(acc, t, j, own) => Graded(d, t, j + 1, own)
<1> DEFINE d == TokenStep(cap, acc, j, log, t, fmt, own, metrics)
           x == t * NIdx
<1>1. x = NIdx * t /\ x \in Nat /\ j \in Nat /\ Len(log) \in Nat
  BY NIdxAssumption DEF Idx
<1> HIDE DEF x
<1>2. x + j + 1 = Place(t, j)
  BY <1>1 DEF Place
<1>3. x + j < Len(log)
  BY <1>1, <1>2
<1>4. d = Entered(cap, acc, j, log[Place(t, j)].tok, fmt, own, metrics)
  BY <1>2, <1>3 DEF TokenStep, x
<1> HIDE DEF d
<1> QED
  BY <1>4, EnteredFed DEF d

LEMMA TokenFoldExists ==
  ASSUME NEW cap \in Nat \ {0}, NEW c \in Filling(cap), NEW log \in Seq(LogEntry), NEW t \in Nat,
         NEW fmt \in Format, NEW own, NEW metrics
  PROVE  \E f : TokenFold(f, cap, c, log, t, fmt, own, metrics)
<1> DEFINE V == Filling(cap)
           Step(acc, k) == TokenStep(cap, acc, k - 1, log, t, fmt, own, metrics)
           F == [p \in V \X (1 .. NIdx) |-> Step(p[1], p[2])]
<1>1. NIdx \in Nat /\ \A k \in 1 .. NIdx : k - 1 \in Idx
  BY NIdxAssumption DEF Idx
<1>2. \A acc \in V, k \in 1 .. NIdx : Step(acc, k) \in V
  BY <1>1, TokenStepFills
<1> HIDE DEF V, Step
<1>3. F \in [V \X (1 .. NIdx) -> V]
  BY <1>2
<1>4. PICK f \in [SUBSET (1 .. NIdx) -> V] : Folding(f, NIdx, c, F)
  <2>1. c \in V
    BY DEF V
  <2> HIDE DEF F
  <2> QED
    BY <1>1, <1>3, <2>1, FoldExists
<1>5. ASSUME NEW s \in SUBSET (1 .. NIdx), s # {}
      PROVE  F[<<f[s \ {Max(s)}], Max(s)>>] = Step(f[s \ {Max(s)}], Max(s))
  <2>1. Max(s) \in s
    BY <1>1, <1>5, MaxIsLast
  <2>2. Max(s) \in 1 .. NIdx /\ s \ {Max(s)} \in SUBSET (1 .. NIdx)
    BY <2>1
  <2>3. <<f[s \ {Max(s)}], Max(s)>> \in V \X (1 .. NIdx)
    BY <1>4, <2>2
  <2> QED
    BY <2>3
<1>6. f = [s \in SUBSET (1 .. NIdx) |-> IF s = {} THEN c ELSE Step(f[s \ {Max(s)}], Max(s))]
  <2> HIDE DEF F
  <2>1. f = [s \in SUBSET (1 .. NIdx) |-> f[s]]
    BY <1>4
  <2> QED
    BY <1>4, <1>5, <2>1 DEF Folding
<1> QED
  BY <1>6, Zenon DEF TokenFold, Step

(* What feeding token t makes of a context. *)
TokenFed(cap, c, d, log, t, fmt, own, metrics) ==
  Place(t, NIdx - 1) <= Len(log) /\ Fed(cap, c, log, t, 0, fmt) =>
    /\ Fed(cap, d, log, t + 1, 0, fmt)
    /\ metrics /\ OwnFormat(own, fmt) /\ Graded(c, t, 0, own) => Graded(d, t + 1, 0, own)

LEMMA TokenFoldKeeps ==
  ASSUME NEW cap \in Nat \ {0}, NEW c \in Filling(cap), NEW log \in Seq(LogEntry), NEW t \in Nat,
         NEW fmt \in Format, NEW own, NEW metrics \in BOOLEAN,
         NEW f, TokenFold(f, cap, c, log, t, fmt, own, metrics)
  PROVE  f[1 .. NIdx] \in Filling(cap) /\ TokenFed(cap, c, f[1 .. NIdx], log, t, fmt, own, metrics)
<1> DEFINE V == Filling(cap)
           Step(acc, j) == TokenStep(cap, acc, j, log, t, fmt, own, metrics)
           Fits == Place(t, NIdx - 1) <= Len(log) /\ Fed(cap, c, log, t, 0, fmt)
           Grades == metrics /\ OwnFormat(own, fmt) /\ Graded(c, t, 0, own)
           T == {k \in 0 .. NIdx :
                   /\ f[1 .. k] \in V
                   /\ Fits => Fed(cap, f[1 .. k], log, t, k, fmt)
                   /\ Fits /\ Grades => Graded(f[1 .. k], t, k, own)}
<1>1. NIdx \in Nat /\ NIdx - 1 \in Idx
  BY NIdxAssumption DEF Idx
<1>2. \A s \in SUBSET (1 .. NIdx) :
        f[s] = IF s = {} THEN c ELSE Step(f[s \ {Max(s)}], Max(s) - 1)
  BY Zenon DEF TokenFold
<1>3. f[1 .. 0] = c
  <2>1. 1 .. 0 = {} /\ {} \in SUBSET (1 .. NIdx)
    OBVIOUS
  <2>2. f[{}] = c
    BY <1>2, <2>1
  <2> QED
    BY <2>1, <2>2
<1> HIDE DEF Step
<1>4. ASSUME NEW k \in 0 .. NIdx - 1
      PROVE  f[1 .. k + 1] = Step(f[1 .. k], k)
  <2>1. k \in Nat
    BY <1>1
  <2>2. /\ 1 .. k + 1 # {} /\ Max(1 .. k + 1) = k + 1
        /\ (1 .. k + 1) \ {k + 1} = 1 .. k
    BY <2>1, Initial
  <2>3. 1 .. k + 1 \in SUBSET (1 .. NIdx) /\ (k + 1) - 1 = k
    BY <1>1
  <2> QED
    BY <1>2, <2>2, <2>3
<1>5. 0 \in T
  BY <1>1, <1>3
<1>6. ASSUME NEW k \in 0 .. NIdx - 1, k \in T
      PROVE  k + 1 \in T
  <2> DEFINE a == f[1 .. k]
             b == f[1 .. k + 1]
  <2>1. k \in Idx /\ k + 1 \in 0 .. NIdx
    BY <1>1 DEF Idx
  <2>2. /\ a \in V /\ b = Step(a, k)
        /\ Fits => Fed(cap, a, log, t, k, fmt)
        /\ Fits /\ Grades => Graded(a, t, k, own)
    BY <1>4, <1>6
  <2> HIDE DEF a, b
  <2>3. b \in V
    BY <2>1, <2>2, TokenStepFills DEF Step
  <2>4. ASSUME Fits
        PROVE  /\ Fed(cap, b, log, t, k + 1, fmt)
               /\ Grades => Graded(b, t, k + 1, own)
    <3>1. Place(t, k) <= Len(log)
      <4> DEFINE x == NIdx * t
      <4>1. x \in Nat /\ k \in Nat /\ k <= NIdx - 1 /\ Len(log) \in Nat /\ NIdx \in Nat
        BY <1>1
      <4> HIDE DEF x
      <4>2. x + (NIdx - 1) + 1 <= Len(log)
        BY <2>4 DEF Place, x
      <4>3. x + k + 1 <= Len(log)
        BY <4>1, <4>2
      <4> QED
        BY <4>3 DEF Place, x
    <3>2. Fed(cap, a, log, t, k, fmt)
      BY <2>2, <2>4
    <3>3. /\ Fed(cap, b, log, t, k + 1, fmt)
          /\ metrics /\ OwnFormat(own, fmt) /\ Graded(a, t, k, own) => Graded(b, t, k + 1, own)
      BY <2>1, <2>2, <3>1, <3>2, TokenStepFed DEF Step
    <3> QED
      BY <2>2, <2>4, <3>3
  <2> QED
    BY <2>1, <2>3, <2>4 DEF b
<1>7. NIdx \in T
  <2> HIDE DEF T
  <2> QED
    BY <1>1, <1>5, <1>6, UpTo
<1>8. Graded(f[1 .. NIdx], t, NIdx, own) => Graded(f[1 .. NIdx], t + 1, 0, own)
  <2>1. \A h \in Idx : Share(t, NIdx, h) = Share(t + 1, 0, h)
    BY NIdxAssumption DEF Share, Idx
  <2> QED
    BY <2>1 DEF Graded
<1> QED
  BY <1>7, <1>8, FedWhole DEF TokenFed

-----------------------------------------------------------------------------
(* FeedTokens: the fold over the tokens. *)

(* What feeding n tokens to one that has none makes of it. *)
TokensFed(cap, c, d, log, n, fmt, own, metrics) ==
  NIdx * n <= Len(log) /\ Fed(cap, c, log, 0, 0, fmt) =>
    /\ Fed(cap, d, log, n, 0, fmt)
    /\ metrics /\ OwnFormat(own, fmt) => Graded(d, n, 0, own)

(* G feeds the tokens of a log, one at a time. *)
Feeds(G, cap, log, n, fmt, own, metrics) ==
  /\ G \in [Filling(cap) \X (1 .. n) -> Filling(cap)]
  /\ \A acc \in Filling(cap), t \in 1 .. n :
       TokenFed(cap, acc, G[<<acc, t>>], log, t - 1, fmt, own, metrics)

LEMMA TokensFoldKeeps ==
  ASSUME NEW cap \in Nat \ {0}, NEW c \in Filling(cap), NEW log \in Seq(LogEntry), NEW n \in Nat,
         NEW fmt \in Format, NEW own, NEW metrics \in BOOLEAN,
         NEW G, Feeds(G, cap, log, n, fmt, own, metrics),
         NEW f, FoldingIn(f, n, Filling(cap), c, G)
  PROVE  f[1 .. n] \in Filling(cap) /\ TokensFed(cap, c, f[1 .. n], log, n, fmt, own, metrics)
<1> DEFINE V == Filling(cap)
           Fits == NIdx * n <= Len(log) /\ Fed(cap, c, log, 0, 0, fmt)
           Grades == metrics /\ OwnFormat(own, fmt)
           T == {k \in 0 .. n :
                   /\ f[1 .. k] \in V
                   /\ Fits => Fed(cap, f[1 .. k], log, k, 0, fmt)
                   /\ Fits /\ Grades => Graded(f[1 .. k], k, 0, own)}
<1>1. f[1 .. 0] = c
  <2>1. 1 .. 0 = {}
    OBVIOUS
  <2> QED
    BY <2>1 DEF FoldingIn
<1>2. Graded(c, 0, 0, own)
  BY DEF Graded, Share, Idx
<1>3. 0 \in T
  BY <1>1, <1>2
<1>4. ASSUME NEW k \in 0 .. n - 1, k \in T
      PROVE  k + 1 \in T
  <2> DEFINE a == f[1 .. k]
             b == f[1 .. k + 1]
  <2>1. /\ 1 .. k + 1 # {} /\ Max(1 .. k + 1) = k + 1
        /\ (1 .. k + 1) \ {k + 1} = 1 .. k
    <3>1. k \in Nat
      OBVIOUS
    <3> QED
      BY <3>1, Initial
  <2>2. 1 .. k + 1 \in SUBSET (1 .. n) /\ k + 1 \in 1 .. n /\ k + 1 \in 0 .. n /\ (k + 1) - 1 = k
    OBVIOUS
  <2>3. /\ a \in V
        /\ Fits => Fed(cap, a, log, k, 0, fmt)
        /\ Fits /\ Grades => Graded(a, k, 0, own)
    BY <1>4
  <2>4. b = G[<<a, k + 1>>]
    BY <2>1, <2>2, <2>3 DEF FoldingIn
  <2> HIDE DEF a, b
  <2>5. b \in V
    BY <2>2, <2>3, <2>4 DEF Feeds
  <2>6. TokenFed(cap, a, b, log, k, fmt, own, metrics)
    BY <2>2, <2>3, <2>4 DEF Feeds
  <2>7. ASSUME Fits
        PROVE  Place(k, NIdx - 1) <= Len(log)
    <3>1. NIdx * (k + 1) = NIdx * k + NIdx /\ NIdx * k \in Nat /\ NIdx * n \in Nat /\ NIdx \in Nat
      BY NIdxAssumption
    <3>2. NIdx * (k + 1) <= NIdx * n
      <4>1. k + 1 \in Int /\ n \in Int /\ k + 1 <= n /\ NIdx \in Nat
        BY <3>1
      <4> QED
        BY <4>1, TimesMonotone
    <3> DEFINE x == NIdx * k
               y == NIdx * n
               z == NIdx * (k + 1)
    <3>3. z = x + NIdx /\ z <= y /\ y <= Len(log)
      BY <2>7, <3>1, <3>2
    <3> HIDE DEF x, y, z
    <3>4. x \in Nat /\ y \in Nat /\ NIdx \in Nat /\ Len(log) \in Nat
      BY <3>1 DEF x, y
    <3>5. x + (NIdx - 1) + 1 <= Len(log)
      BY <3>3, <3>4
    <3> QED
      BY <3>5 DEF Place, x
  <2>8. ASSUME Fits
        PROVE  /\ Fed(cap, b, log, k + 1, 0, fmt)
               /\ Grades => Graded(b, k + 1, 0, own)
    <3> HIDE DEF Fits
    <3>1. Fed(cap, a, log, k, 0, fmt) /\ (Grades => Graded(a, k, 0, own))
      BY <2>3, <2>8
    <3> QED
      BY <2>6, <2>7, <2>8, <3>1 DEF TokenFed
  <2> QED
    BY <2>2, <2>5, <2>8 DEF b
<1>5. n \in T
  <2> HIDE DEF T
  <2> QED
    BY <1>3, <1>4, UpTo
<1> QED
  BY <1>5 DEF TokensFed
=============================================================================
