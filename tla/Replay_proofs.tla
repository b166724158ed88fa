----------------------------- MODULE Replay_proofs -----------------------------
(***************************************************************************)
(* Proofs about snapshots, their files and their replays.                  *)
(*                                                                         *)
(* The file: whatever saves, crashes and full disks did, on disk is always *)
(* the beginning of one snapshot's fields, and what a save in progress has *)
(* left to write goes with it (FileInv).  A beginning that is not all of   *)
(* the fields is one load refuses (PartEnds), all of them load as what was *)
(* captured (LoadsItsOwn).  The command carries that to its caller         *)
(* (CommandInv).                                                           *)
(*                                                                         *)
(* Replay: a session is always where feeding its own log to an empty       *)
(* context would have left it, and so was it at every token boundary it    *)
(* has passed (SessionAt).  A replay feeds a beginning of that log to      *)
(* another context; what feeding leaves depends on the log, the capacity   *)
(* and the format alone (Fed, in RuntimeState_proofs), so the two hold the *)
(* same vectors but for their formats.  The folds over the heads of a      *)
(* token and over the tokens are solved by Facts.                          *)
(***************************************************************************)
EXTENDS Replay, ReplayCommand, RuntimeState_proofs

-----------------------------------------------------------------------------
(* The fields of a snapshot file. *)

LEMMA SnapshotFields ==
  ASSUME NEW s \in Snapshot
  PROVE  s.id \in Nat \ {0} /\ s.n_heads \in Nat \ {0} /\ s.n_entries \in Nat
<1>1. s.id \in Id /\ s.n_heads \in 1 .. MaxHeads /\ s.n_entries \in 0 .. MaxLog
  BY DEF Snapshot
<1>2. s.id \in Nat \ {0}
  BY <1>1, IdAssumption
<1>3. s.n_heads \in Nat \ {0}
  BY <1>1, BoundsAssumption
<1>4. s.n_entries \in Nat
  BY <1>1, BoundsAssumption
<1> QED
  BY <1>2, <1>3, <1>4

(* Two sequences of fields in a row. *)
LEMMA Joined ==
  ASSUME NEW a \in Seq(Nat), NEW b \in Seq(Nat)
  PROVE  /\ a \o b \in Seq(Nat) /\ Len(a \o b) = Len(a) + Len(b)
         /\ \A i \in 1 .. Len(a) : (a \o b)[i] = a[i]
         /\ \A i \in 1 .. Len(b) : (a \o b)[Len(a) + i] = b[i]
<1>1. Len(a) \in Nat /\ Len(b) \in Nat
  OBVIOUS
<1> QED
  BY <1>1, ConcatProperties

LEMMA RepeatValue ==
  ASSUME NEW x \in Nat, NEW n \in Nat
  PROVE  /\ Repeat(x, n) \in Seq(Nat) /\ Len(Repeat(x, n)) = n
         /\ \A i \in 1 .. n : Repeat(x, n)[i] = x
<1>1. Repeat(x, n) \in [1 .. n -> Nat]
  BY DEF Repeat
<1>2. Repeat(x, n) \in Seq(Nat)
  BY <1>1, SeqDef
<1>3. Len(Repeat(x, n)) = n
  BY <1>1, <1>2, LenProperties
<1> QED
  BY <1>2, <1>3 DEF Repeat

(* The entries of a log, as they are written. *)
LEMMA EntriesValue ==
  ASSUME NEW s \in Snapshot
  PROVE  /\ Repeat(100 * s.id, s.n_entries) \in Seq(Nat)
         /\ Len(Repeat(100 * s.id, s.n_entries)) = s.n_entries
<1> DEFINE x == 100 * s.id
           n == s.n_entries
<1>1. x \in Nat /\ n \in Nat
  BY SnapshotFields
<1> HIDE DEF x, n
<1>2. Repeat(x, n) \in Seq(Nat) /\ Len(Repeat(x, n)) = n
  BY ONLY <1>1, RepeatValue
<1> QED
  BY <1>2 DEF x, n

NStates(s) == IF s.has_state THEN s.n_heads ELSE 0
NLog(s) == IF HasLog(s) THEN 1 + s.n_entries ELSE 0

LEMMA PartsValue ==
  ASSUME NEW s \in Snapshot
  PROVE  /\ Header(s) \in Seq(Nat) /\ Len(Header(s)) = 3
         /\ Header(s)[1] = s.id /\ Header(s)[2] = s.n_heads /\ Header(s)[3] = Flags(s)
         /\ HeadBlocks(s) \in Seq(Nat) /\ Len(HeadBlocks(s)) = s.n_heads
         /\ States(s) \in Seq(Nat) /\ Len(States(s)) = NStates(s)
         /\ TokenLog(s) \in Seq(Nat) /\ Len(TokenLog(s)) = NLog(s)
         /\ HasLog(s) => TokenLog(s)[1] = s.n_entries
         /\ HasLog(s) => \A i \in 1 .. s.n_entries :
                           TokenLog(s)[1 + i] = Repeat(100 * s.id, s.n_entries)[i]
<1>1. /\ s.id \in Nat \ {0} /\ s.n_heads \in Nat \ {0}
      /\ s.n_entries \in Nat
  BY SnapshotFields
<1>2. /\ Header(s) \in Seq(Nat) /\ Len(Header(s)) = 3
      /\ Header(s)[1] = s.id /\ Header(s)[2] = s.n_heads /\ Header(s)[3] = Flags(s)
  <2>1. Flags(s) \in Nat
    BY DEF Flags
  <2> QED
    BY <1>1, <2>1 DEF Header
<1>3. HeadBlocks(s) \in Seq(Nat) /\ Len(HeadBlocks(s)) = s.n_heads
  BY <1>1, RepeatValue DEF HeadBlocks
<1>4. States(s) \in Seq(Nat) /\ Len(States(s)) = NStates(s)
  <2>1. 10 * s.id \in Nat
    BY <1>1
  <2>2. CASE s.has_state
    BY <1>1, <2>1, <2>2, RepeatValue DEF States, NStates
  <2>3. CASE ~s.has_state
    BY <2>3 DEF States, NStates
  <2> QED
    BY <1>1, <2>2, <2>3
<1>5. /\ TokenLog(s) \in Seq(Nat) /\ Len(TokenLog(s)) = NLog(s)
      /\ HasLog(s) => TokenLog(s)[1] = s.n_entries
      /\ HasLog(s) => \A i \in 1 .. s.n_entries :
                        TokenLog(s)[1 + i] = Repeat(100 * s.id, s.n_entries)[i]
  <2> DEFINE r == Repeat(100 * s.id, s.n_entries)
             c == <<s.n_entries>>
  <2>1. r \in Seq(Nat) /\ Len(r) = s.n_entries
    BY EntriesValue
  <2>2. c \in Seq(Nat) /\ Len(c) = 1 /\ c[1] = s.n_entries
    BY <1>1
  <2>3. TokenLog(s) = IF HasLog(s) THEN c \o r ELSE <<>>
    BY DEF TokenLog
  <2> HIDE DEF r, c
  <2>4. /\ c \o r \in Seq(Nat) /\ Len(c \o r) = 1 + s.n_entries
        /\ (c \o r)[1] = s.n_entries
        /\ \A i \in 1 .. s.n_entries : (c \o r)[1 + i] = r[i]
    <3>1. /\ c \o r \in Seq(Nat) /\ Len(c \o r) = Len(c) + Len(r)
          /\ \A i \in 1 .. Len(c) : (c \o r)[i] = c[i]
          /\ \A i \in 1 .. Len(r) : (c \o r)[Len(c) + i] = r[i]
      BY <2>1, <2>2, Joined
    <3> QED
      BY <1>1, <2>1, <2>2, <3>1
  <2>5. CASE HasLog(s)
    BY <2>3, <2>4, <2>5 DEF NLog, r
  <2>6. CASE ~HasLog(s)
    BY <2>3, <2>6 DEF NLog
  <2> QED
    BY <2>5, <2>6
<1> QED
  BY <1>2, <1>3, <1>4, <1>5

(* Where everything is. *)
LEMMA FieldsValue ==
  ASSUME NEW s \in Snapshot
  PROVE  LET f == Fields(s)
             h == s.n_heads
             e == 3 + h + NStates(s)
         IN /\ f \in Seq(Nat) /\ Len(f) = e + NLog(s)
            /\ f[1] = s.id /\ f[2] = h /\ f[3] = Flags(s)
            /\ \A i \in 1 .. h : f[3 + i] = HeadBlocks(s)[i]
            /\ \A i \in 1 .. NStates(s) : f[3 + h + i] = States(s)[i]
            /\ HasLog(s) => f[e + 1] = s.n_entries
            /\ HasLog(s) => \A i \in 1 .. s.n_entries :
                              f[e + 1 + i] = Repeat(100 * s.id, s.n_entries)[i]
<1> DEFINE h == s.n_heads
           a == Header(s)
           b == HeadBlocks(s)
           c == States(s)
           d == TokenLog(s)
           p == NStates(s)
           q == NLog(s)
           n == s.n_entries
<1>1. /\ h \in Nat /\ n \in Nat /\ p \in Nat /\ q \in Nat
  BY SnapshotFields DEF NStates, NLog
<1>2. /\ a \in Seq(Nat) /\ Len(a) = 3 /\ a[1] = s.id /\ a[2] = h /\ a[3] = Flags(s)
      /\ b \in Seq(Nat) /\ Len(b) = h
      /\ c \in Seq(Nat) /\ Len(c) = p
      /\ d \in Seq(Nat) /\ Len(d) = q
      /\ HasLog(s) => d[1] = n
      /\ HasLog(s) => \A i \in 1 .. n : d[1 + i] = Repeat(100 * s.id, n)[i]
  BY PartsValue
<1>3. Fields(s) = ((a \o b) \o c) \o d
  BY DEF Fields
<1>4. HasLog(s) => q = 1 + n
  BY DEF NLog
<1> DEFINE u == a \o b
           v == u \o c
           w == v \o d
<1> HIDE DEF a, b, c, d, p, q, h, n
<1>5. /\ u \in Seq(Nat) /\ Len(u) = 3 + h
      /\ \A i \in 1 .. 3 : u[i] = a[i]
      /\ \A i \in 1 .. h : u[3 + i] = b[i]
  <2>1. /\ a \o b \in Seq(Nat) /\ Len(a \o b) = Len(a) + Len(b)
        /\ \A i \in 1 .. Len(a) : (a \o b)[i] = a[i]
        /\ \A i \in 1 .. Len(b) : (a \o b)[Len(a) + i] = b[i]
    BY <1>2, Joined
  <2> QED
    BY <1>1, <1>2, <2>1
<1> HIDE DEF u
<1>6. /\ v \in Seq(Nat) /\ Len(v) = 3 + h + p
      /\ \A i \in 1 .. 3 + h : v[i] = u[i]
      /\ \A i \in 1 .. p : v[3 + h + i] = c[i]
  <2>1. /\ u \o c \in Seq(Nat) /\ Len(u \o c) = Len(u) + Len(c)
        /\ \A i \in 1 .. Len(u) : (u \o c)[i] = u[i]
        /\ \A i \in 1 .. Len(c) : (u \o c)[Len(u) + i] = c[i]
    <3>1. u \in Seq(Nat) /\ c \in Seq(Nat)
      BY <1>2, <1>5
    <3> QED
      BY ONLY <3>1, Joined
  <2> QED
    BY <1>1, <1>2, <1>5, <2>1
<1> HIDE DEF v
<1>7. /\ w \in Seq(Nat) /\ Len(w) = 3 + h + p + q
      /\ \A i \in 1 .. 3 + h + p : w[i] = v[i]
      /\ \A i \in 1 .. q : w[3 + h + p + i] = d[i]
  <2>0. v \in Seq(Nat) /\ d \in Seq(Nat)
    BY <1>2, <1>6
  <2>1. /\ v \o d \in Seq(Nat) /\ Len(v \o d) = Len(v) + Len(d)
        /\ \A i \in 1 .. Len(v) : (v \o d)[i] = v[i]
        /\ \A i \in 1 .. Len(d) : (v \o d)[Len(v) + i] = d[i]
    BY ONLY <2>0, Joined
  <2> QED
    BY <1>1, <1>2, <1>6, <2>1
<1> HIDE DEF w
<1>8. w[1] = s.id /\ w[2] = h /\ w[3] = Flags(s)
  <2>1. ASSUME NEW i \in 1 .. 3
        PROVE  w[i] = a[i]
    <3>1. i \in 1 .. 3 + h /\ i \in 1 .. 3 + h + p
      BY <1>1
    <3>2. w[i] = v[i] /\ v[i] = u[i] /\ u[i] = a[i]
      BY <1>5, <1>6, <1>7, <3>1
    <3> QED
      BY <3>2
  <2> QED
    BY <1>2, <2>1
<1>9. \A i \in 1 .. h : w[3 + i] = b[i]
  BY <1>1, <1>5, <1>6, <1>7
<1>10. ASSUME NEW i \in 1 .. p
       PROVE  w[3 + h + i] = c[i]
  <2>1. 3 + h + i \in 1 .. 3 + h + p
    BY <1>1
  <2> QED
    BY <1>6, <1>7, <2>1
<1>11. HasLog(s) => /\ w[3 + h + p + 1] = n
                    /\ \A i \in 1 .. n : w[3 + h + p + 1 + i] = Repeat(100 * s.id, n)[i]
  <2> SUFFICES ASSUME HasLog(s)
               PROVE  /\ w[3 + h + p + 1] = n
                      /\ \A i \in 1 .. n : w[3 + h + p + 1 + i] = Repeat(100 * s.id, n)[i]
    OBVIOUS
  <2>1. w[3 + h + p + 1] = d[1]
    BY <1>1, <1>4, <1>7
  <2>2. ASSUME NEW i \in 1 .. n
        PROVE  w[3 + h + p + 1 + i] = d[1 + i]
    <3>1. 1 + i \in 1 .. q /\ 3 + h + p + (1 + i) = 3 + h + p + 1 + i
      BY <1>1, <1>4
    <3> QED
      BY <1>7, <3>1
  <2> QED
    BY <1>2, <2>1, <2>2
<1> QED
  BY <1>3, <1>7, <1>8, <1>9, <1>10, <1>11 DEF a, b, c, d, u, v, w, p, q, h, n

(* The flags tell which of the optional parts there are. *)
LEMMA FlagsTell ==
  ASSUME NEW s \in Snapshot
  PROVE  /\ Flags(s) \in {0, 2} <=> ~HasLog(s)
         /\ Flags(s) \in {2, 3} <=> s.has_state
  BY SnapshotFields DEF Flags

(* f is the beginning of the file of s. *)
Part(f, s) ==
  /\ f \in Seq(Nat) /\ Len(f) <= Len(Fields(s))
  /\ \A i \in 1 .. Len(f) : f[i] = Fields(s)[i]

(* From a beginning of the file, load knows the end of every part it has   *)
(* read the beginning of, and wants more unless it has it all.             *)
LEMMA PartEnds ==
  ASSUME NEW s \in Snapshot, NEW f, Part(f, s)
  PROVE  Whole(f) <=> Len(f) = Len(Fields(s))
<1> DEFINE h == s.n_heads
           p == NStates(s)
           e == 3 + h + p
           n == s.n_entries
           m == Len(f)
<1>1. /\ h \in Nat \ {0} /\ n \in Nat /\ p \in Nat /\ m \in Nat
      /\ HasLog(s) => n > 0
  BY SnapshotFields DEF NStates, HasLog, Part
<1>2. /\ Len(Fields(s)) = e + NLog(s)
      /\ Fields(s)[2] = h /\ Fields(s)[3] = Flags(s)
      /\ HasLog(s) => Fields(s)[e + 1] = n
  BY FieldsValue
<1>3. NLog(s) = IF HasLog(s) THEN 1 + n ELSE 0
  BY DEF NLog
<1>4. m <= Len(Fields(s)) /\ \A i \in 1 .. m : f[i] = Fields(s)[i]
  BY DEF Part
<1>5. CASE m < 3
  BY <1>1, <1>2, <1>3, <1>5 DEF Whole
<1>6. CASE m >= 3
  <2>1. f[2] = h /\ f[3] = Flags(s)
    BY <1>1, <1>2, <1>4, <1>6
  <2>2. StatesEnd(f) = e
    BY <1>1, <2>1, FlagsTell DEF StatesEnd, HeadsEnd, NStates
  <2>3. CASE ~HasLog(s)
    <3>1. LogEnd(f) = e
      BY <2>1, <2>2, <2>3, FlagsTell DEF LogEnd
    <3>2. Len(Fields(s)) = e
      BY <1>1, <1>2, <1>3, <2>3
    <3> HIDE DEF e, m
    <3> QED
      BY <1>1, <1>4, <1>6, <3>1, <3>2 DEF Whole, m, e
  <2>4. CASE HasLog(s)
    <3>1. LogEnd(f) = e + 1 + (IF m > e THEN f[e + 1] ELSE 0)
      BY <2>1, <2>2, <2>4, FlagsTell DEF LogEnd
    <3>2. e \in Nat
      BY <1>1
    <3>3. m > e => f[e + 1] = n
      <4> HIDE DEF e, m
      <4> QED
        BY <1>1, <1>2, <1>4, <2>4, <3>2
    <3>4. Len(Fields(s)) = e + 1 + n
      <4>1. Len(Fields(s)) = e + (1 + n)
        BY <1>2, <1>3, <2>4
      <4>2. n \in Nat
        BY <1>1
      <4> HIDE DEF e, n
      <4> QED
        BY <3>2, <4>1, <4>2
    <3> HIDE DEF e, m
    <3> QED
      BY <1>1, <1>4, <1>6, <3>1, <3>2, <3>3, <3>4 DEF Whole, m
  <2> QED
    BY <2>3, <2>4
<1> QED
  BY <1>1, <1>5, <1>6

LEMMA PartIsAll ==
  ASSUME NEW s \in Snapshot, NEW f, Part(f, s), Len(f) = Len(Fields(s))
  PROVE  f = Fields(s)
<1>1. Fields(s) \in Seq(Nat) /\ f \in Seq(Nat)
  BY FieldsValue DEF Part
<1> QED
  BY <1>1, SeqEqual DEF Part

(* A stretch of a sequence of fields, by its value. *)
LEMMA Stretch ==
  ASSUME NEW f \in Seq(Nat), NEW g \in Seq(Nat), NEW k \in Nat,
         k + Len(g) <= Len(f), \A i \in 1 .. Len(g) : f[k + i] = g[i]
  PROVE  SubSeq(f, k + 1, k + Len(g)) = g
<1> DEFINE n == Len(g)
           t == SubSeq(f, k + 1, k + n)
<1>1. n \in Nat /\ Len(f) \in Nat
  OBVIOUS
<1>2. t \in Seq(Nat) /\ Len(t) = n /\ \A i \in 1 .. n : t[i] = f[k + i]
  <2> DEFINE m == k + 1
             e == k + n
  <2>1. m \in Int /\ e \in Int /\ \A i \in m .. e : f[i] \in Nat
    BY <1>1
  <2>2. e - m + 1 = n /\ (m <= e \/ n = 0) /\ (m <= e => n > 0)
    BY <1>1
  <2>3. \A i \in 1 .. n : m + i - 1 = k + i
    BY <1>1
  <2> HIDE DEF m, e
  <2>4. /\ SubSeq(f, m, e) \in Seq(Nat)
        /\ Len(SubSeq(f, m, e)) = (IF m <= e THEN e - m + 1 ELSE 0)
        /\ \A i \in 1 .. e - m + 1 : SubSeq(f, m, e)[i] = f[m + i - 1]
    BY <2>1, SubSeqProperties
  <2>5. Len(SubSeq(f, m, e)) = n
    BY <2>2, <2>4
  <2>6. \A i \in 1 .. n : SubSeq(f, m, e)[i] = f[k + i]
    BY <2>2, <2>3, <2>4
  <2> QED
    BY <2>4, <2>5, <2>6 DEF m, e
<1> HIDE DEF t
<1>3. t = g
  BY <1>2, SeqEqual
<1> QED
  BY <1>3 DEF t

(* The order of the fields is the one load expects. *)
LEMMA LoadsItsOwn ==
  ASSUME NEW s \in Snapshot
  PROVE  Loaded(Fields(s)) = Content(s)
<1> DEFINE f == Fields(s)
           h == s.n_heads
           p == NStates(s)
           e == 3 + h + p
           n == s.n_entries
           r == Repeat(100 * s.id, n)
<1>1. /\ s.id \in Nat \ {0} /\ h \in Nat \ {0} /\ n \in Nat /\ p \in Nat /\ e \in Nat
      /\ ~HasLog(s) => n = 0
  BY SnapshotFields DEF NStates, HasLog
<1>2. /\ f \in Seq(Nat) /\ Len(f) = e + NLog(s)
      /\ f[1] = s.id /\ f[2] = h /\ f[3] = Flags(s)
      /\ \A i \in 1 .. h : f[3 + i] = HeadBlocks(s)[i]
      /\ \A i \in 1 .. p : f[3 + h + i] = States(s)[i]
      /\ HasLog(s) => f[e + 1] = n
      /\ HasLog(s) => \A i \in 1 .. n : f[e + 1 + i] = r[i]
  BY FieldsValue
<1>3. NLog(s) = IF HasLog(s) THEN 1 + n ELSE 0
  BY DEF NLog
<1>4. /\ HeadBlocks(s) \in Seq(Nat) /\ Len(HeadBlocks(s)) = h
      /\ States(s) \in Seq(Nat) /\ Len(States(s)) = p
      /\ r \in Seq(Nat) /\ Len(r) = n
  <2>1. r \in Seq(Nat) /\ Len(r) = n
    BY EntriesValue
  <2>2. /\ HeadBlocks(s) \in Seq(Nat) /\ Len(HeadBlocks(s)) = h
        /\ States(s) \in Seq(Nat) /\ Len(States(s)) = p
    BY PartsValue
  <2> QED
    BY <2>1, <2>2
<1>5. HeadsEnd(f) = 3 + h
  BY <1>2 DEF HeadsEnd
<1>6. StatesEnd(f) = 3 + h + p
  BY <1>1, <1>2, <1>5, FlagsTell DEF StatesEnd, NStates
<1>7. Whole(f)
  <2>1. Part(f, s)
    <3> HIDE DEF e, h, p, n, r
    <3>1. Len(f) \in Nat
      BY <1>2
    <3> QED
      BY <1>2, <3>1 DEF Part
  <2> QED
    BY <2>1, PartEnds
<1>8. LogEnd(f) = IF HasLog(s) THEN e + 1 + n ELSE e
  <2>1. CASE ~HasLog(s)
    BY <1>2, <1>6, <2>1, FlagsTell DEF LogEnd
  <2>2. CASE HasLog(s)
    <3>1. f[3] \notin {0, 2}
      BY <1>2, <2>2, FlagsTell
    <3>2. LogEnd(f) = e + 1 + (IF Len(f) > e THEN f[e + 1] ELSE 0)
      BY <1>6, <3>1 DEF LogEnd
    <3>3. Len(f) > e
      <4> HIDE DEF e, f, n
      <4> QED
        BY <1>1, <1>2, <1>3, <2>2
    <3> QED
      BY <1>2, <2>2, <3>2, <3>3
  <2> QED
    BY <2>1, <2>2
<1> HIDE DEF f, h, p, n, r
<1>9. SubSeq(f, 4, HeadsEnd(f)) = HeadBlocks(s)
  <2> DEFINE g == HeadBlocks(s)
  <2>1. g \in Seq(Nat) /\ Len(g) = h /\ \A i \in 1 .. Len(g) : f[3 + i] = g[i]
    BY <1>2, <1>4
  <2> HIDE DEF g
  <2>2. 3 + Len(g) <= Len(f)
    BY <1>1, <1>2, <1>3, <2>1
  <2>3. SubSeq(f, 3 + 1, 3 + Len(g)) = g
    BY <1>2, <2>1, <2>2, Stretch
  <2> QED
    BY <1>5, <2>1, <2>3 DEF g
<1>10. SubSeq(f, HeadsEnd(f) + 1, StatesEnd(f)) = States(s)
  <2> DEFINE g == States(s)
             k == 3 + h
  <2>1. g \in Seq(Nat) /\ Len(g) = p /\ k \in Nat /\ \A i \in 1 .. Len(g) : f[k + i] = g[i]
    BY <1>1, <1>2, <1>4
  <2>2. StatesEnd(f) = k + Len(g) /\ HeadsEnd(f) = k
    BY <1>5, <1>6, <2>1
  <2>3. k + Len(g) <= Len(f)
    BY <1>1, <1>2, <1>3, <2>1
  <2> HIDE DEF g, k
  <2>4. SubSeq(f, k + 1, k + Len(g)) = g
    BY <1>2, <2>1, <2>3, Stretch
  <2> QED
    BY <2>2, <2>4 DEF g
<1>11. SubSeq(f, StatesEnd(f) + 2, LogEnd(f)) = r
  <2>1. StatesEnd(f) = e
    BY <1>6
  <2> HIDE DEF e
  <2>2. CASE HasLog(s)
    <3> DEFINE k == e + 1
    <3>1. k \in Nat /\ k + Len(r) <= Len(f) /\ \A i \in 1 .. Len(r) : f[k + i] = r[i]
      BY <1>1, <1>2, <1>3, <1>4, <2>2
    <3>2. k + 1 = StatesEnd(f) + 2 /\ k + Len(r) = LogEnd(f)
      BY <1>1, <1>4, <1>8, <2>1, <2>2
    <3> HIDE DEF k
    <3>3. SubSeq(f, k + 1, k + Len(r)) = r
      BY <1>2, <1>4, <3>1, Stretch
    <3> QED
      BY <3>2, <3>3
  <2>3. CASE ~HasLog(s)
    <3>1. e + 2 > e /\ n = 0
      BY <1>1, <2>3
    <3> DEFINE t == SubSeq(f, e + 2, e)
    <3>2. t \in Seq(Nat) /\ Len(t) = 0
      BY <1>1, <1>2, <3>1, SubSeqProperties
    <3> HIDE DEF t
    <3>3. t = r
      BY <1>4, <3>1, <3>2, SeqEqual
    <3> QED
      BY <1>8, <2>1, <2>3, <3>3 DEF t
  <2> QED
    BY <2>2, <2>3
<1>12. Loaded(f) = [shape |-> s.id, heads |-> HeadBlocks(s), states |-> States(s), log |-> r]
  BY <1>2, <1>7, <1>9, <1>10, <1>11 DEF Loaded
<1> QED
  BY <1>12 DEF Content, f, r, n

(* What load makes of a beginning of the file. *)
LEMMA PartLoads ==
  ASSUME NEW s \in Snapshot, NEW f, Part(f, s)
  PROVE  /\ Len(f) = Len(Fields(s)) => f = Fields(s) /\ Loaded(f) = Content(s)
         /\ Len(f) # Len(Fields(s)) => Loaded(f) = Throws
<1>1. Len(f) # Len(Fields(s)) => Loaded(f) = Throws
  BY PartEnds DEF Loaded
<1> QED
  BY <1>1, PartIsAll, LoadsItsOwn

-----------------------------------------------------------------------------
(* The file, its writers and its reader. *)

(* What the save in progress still has to write goes with what is on disk. *)
SaveInv ==
  writer.saving =>
    \E s \in Snapshot :
      /\ file \o writer.rest = Fields(s)
      /\ writer.failed => writer.rest # <<>>

(* A load that no save got in the way of reads a beginning of the file,    *)
(* and no save is in progress.                                             *)
LoadInv ==
  reader.loading /\ ~reader.torn =>
    /\ ~writer.saving /\ 2 <= Len(file)
    /\ Len(reader.got) <= Len(file)
    /\ \A i \in 1 .. Len(reader.got) : reader.got[i] = file[i]

(* On disk is always the beginning of one snapshot. *)
FileInv ==
  /\ file \in Seq(Nat)
  /\ writer \in [saving : BOOLEAN, failed : BOOLEAN, rest : Seq(Nat)]
  /\ reader \in [loading : BOOLEAN, got : Seq(Nat), torn : BOOLEAN]
  /\ file = <<>> \/ \E s \in Snapshot : Part(file, s)
  /\ SaveInv
  /\ LoadInv

(* The fields of s cut in two: the first part is a beginning. *)
LEMMA CutInTwo ==
  ASSUME NEW s \in Snapshot, NEW f \in Seq(Nat), NEW r \in Seq(Nat), f \o r = Fields(s)
  PROVE  Part(f, s) /\ Len(Fields(s)) = Len(f) + Len(r)
<1>1. /\ Len(f \o r) = Len(f) + Len(r)
      /\ \A i \in 1 .. Len(f) : (f \o r)[i] = f[i]
  BY Joined
<1>2. Len(f) \in Nat /\ Len(r) \in Nat
  OBVIOUS
<1> QED
  BY <1>1, <1>2 DEF Part

(* The next n fields move from the buffer to the disk. *)
LEMMA FlushedValue ==
  ASSUME NEW f \in Seq(Nat), NEW r \in Seq(Nat), NEW n \in 0 .. Len(r)
  PROVE  /\ f \o SubSeq(r, 1, n) \in Seq(Nat) /\ SubSeq(r, n + 1, Len(r)) \in Seq(Nat)
         /\ (f \o SubSeq(r, 1, n)) \o SubSeq(r, n + 1, Len(r)) = f \o r
         /\ Len(SubSeq(r, n + 1, Len(r))) = Len(r) - n
<1> DEFINE a == SubSeq(r, 1, n)
           b == SubSeq(r, n + 1, Len(r))
<1>1. n \in Nat /\ Len(r) \in Nat /\ n <= Len(r) /\ Len(f) \in Nat
  OBVIOUS
<1>2. a \in Seq(Nat) /\ Len(a) = n /\ \A i \in 1 .. n : a[i] = r[i]
  <2>1. /\ a \in Seq(Nat) /\ Len(a) = (IF 1 <= n THEN n - 1 + 1 ELSE 0)
        /\ \A i \in 1 .. n - 1 + 1 : a[i] = r[1 + i - 1]
    BY <1>1, SubSeqProperties
  <2> QED
    BY <1>1, <2>1
<1>3. b \in Seq(Nat) /\ Len(b) = Len(r) - n /\ \A i \in 1 .. Len(r) - n : b[i] = r[n + i]
  <2> DEFINE m == n + 1
             k == Len(r)
  <2>1. m \in Int /\ k \in Int /\ \A i \in m .. k : r[i] \in Nat
    BY <1>1
  <2> HIDE DEF m, k
  <2>2. /\ SubSeq(r, m, k) \in Seq(Nat)
        /\ Len(SubSeq(r, m, k)) = (IF m <= k THEN k - m + 1 ELSE 0)
        /\ \A i \in 1 .. k - m + 1 : SubSeq(r, m, k)[i] = r[m + i - 1]
    BY <2>1, SubSeqProperties
  <2>3. k - m + 1 = Len(r) - n /\ (m <= k \/ Len(r) - n = 0) /\ (m <= k => Len(r) - n > 0)
    BY <1>1 DEF m, k
  <2>4. \A i \in 1 .. Len(r) - n : m + i - 1 = n + i
    BY <1>1 DEF m, k
  <2>5. Len(SubSeq(r, m, k)) = Len(r) - n
    BY <2>2, <2>3
  <2>6. \A i \in 1 .. Len(r) - n : SubSeq(r, m, k)[i] = r[n + i]
    BY <2>2, <2>3, <2>4
  <2> QED
    BY <2>2, <2>5, <2>6 DEF m, k
<1> HIDE DEF a, b
<1>4. /\ f \o a \in Seq(Nat) /\ Len(f \o a) = Len(f) + n
      /\ \A i \in 1 .. Len(f) : (f \o a)[i] = f[i]
      /\ \A i \in 1 .. n : (f \o a)[Len(f) + i] = a[i]
  BY <1>1, <1>2, Joined
<1> DEFINE c == f \o a
<1> HIDE DEF c
<1>5. c \in Seq(Nat) /\ Len(c) = Len(f) + n
  BY <1>4 DEF c
<1>6. /\ c \o b \in Seq(Nat) /\ Len(c \o b) = Len(c) + Len(b)
      /\ \A i \in 1 .. Len(c) : (c \o b)[i] = c[i]
      /\ \A i \in 1 .. Len(b) : (c \o b)[Len(c) + i] = b[i]
  BY <1>3, <1>5, Joined
<1>7. /\ f \o r \in Seq(Nat) /\ Len(f \o r) = Len(f) + Len(r)
      /\ \A i \in 1 .. Len(f) : (f \o r)[i] = f[i]
      /\ \A i \in 1 .. Len(r) : (f \o r)[Len(f) + i] = r[i]
  BY Joined
<1>8. ASSUME NEW i \in 1 .. Len(f) + Len(r)
      PROVE  (c \o b)[i] = (f \o r)[i]
  <2>1. CASE i <= Len(f)
    <3>1. i \in 1 .. Len(f) /\ i \in 1 .. Len(c)
      BY <1>1, <1>5, <2>1
    <3> QED
      BY <1>4, <1>6, <1>7, <3>1 DEF c
  <2>2. CASE i > Len(f) /\ i <= Len(f) + n
    <3> DEFINE j == i - Len(f)
    <3>1. j \in 1 .. n /\ j \in 1 .. Len(r) /\ i = Len(f) + j /\ i \in 1 .. Len(c)
      BY <1>1, <1>5, <2>2
    <3> HIDE DEF j
    <3>2. (c \o b)[i] = (f \o a)[Len(f) + j]
      BY <1>6, <3>1 DEF c
    <3>3. (f \o a)[Len(f) + j] = a[j]
      BY <1>4, <3>1
    <3>4. (f \o r)[i] = r[j]
      BY <1>7, <3>1
    <3> QED
      BY <1>2, <3>1, <3>2, <3>3, <3>4
  <2>3. CASE i > Len(f) + n
    <3> DEFINE j == i - (Len(f) + n)
    <3>1. /\ j \in 1 .. Len(b) /\ n + j \in 1 .. Len(r)
          /\ i = Len(c) + j /\ i = Len(f) + (n + j) /\ j \in 1 .. Len(r) - n
      BY <1>1, <1>3, <1>5, <2>3
    <3> HIDE DEF j
    <3>2. (c \o b)[Len(c) + j] = b[j] /\ b[j] = r[n + j]
      BY <1>3, <1>6, <3>1
    <3>3. (f \o r)[Len(f) + (n + j)] = r[n + j]
      BY <1>7, <3>1
    <3> QED
      BY <3>1, <3>2, <3>3
  <2>4. PICK l \in Int : l = Len(f)
    BY <1>1
  <2>5. i <= l \/ (i > l /\ i <= l + n) \/ i > l + n
    BY <1>1
  <2> QED
    BY <2>1, <2>2, <2>3, <2>4, <2>5
<1>9. c \o b = f \o r
  <2>1. Len(c \o b) = Len(f) + Len(r)
    BY <1>1, <1>3, <1>5, <1>6
  <2>2. \A i \in 1 .. Len(c \o b) : (c \o b)[i] = (f \o r)[i]
    BY <1>8, <2>1
  <2> QED
    BY <1>6, <1>7, <2>1, <2>2, SeqEqual
<1> QED
  BY <1>3, <1>4, <1>9 DEF a, b, c

LEMMA FileInvInit == CommandInit => FileInv
<1> SUFFICES ASSUME CommandInit
             PROVE  FileInv
  OBVIOUS
<1>1. file = <<>> /\ ~writer.saving /\ ~reader.loading
  BY DEF CommandInit, FileInit, IdleWriter, IdleReader
<1>2. <<>> \in Seq(Nat)
  OBVIOUS
<1>3. writer \in [saving : BOOLEAN, failed : BOOLEAN, rest : Seq(Nat)]
  BY <1>2 DEF CommandInit, FileInit, IdleWriter
<1>4. reader \in [loading : BOOLEAN, got : Seq(Nat), torn : BOOLEAN]
  BY <1>2 DEF CommandInit, FileInit, IdleReader
<1> QED
  BY <1>1, <1>2, <1>3, <1>4 DEF FileInv, SaveInv, LoadInv

(* While a save is in progress no load is undisturbed. *)
LEMMA NobodyReads ==
  ASSUME FileInv, writer.saving
  PROVE  reader.loading => reader.torn
  BY DEF FileInv, LoadInv

LEMMA OpenKeeps ==
  ASSUME FileInv, NEW s \in Snapshot, open(s)
  PROVE  FileInv'
<1>1. file' = <<>> /\ writer' = [saving |-> TRUE, failed |-> FALSE, rest |-> Fields(s)]
  BY DEF open
<1>2. reader' = [reader EXCEPT !.torn = reader.torn \/ reader.loading]
  BY DEF open, Disturbed
<1>3. Fields(s) \in Seq(Nat)
  BY FieldsValue
<1>4. SaveInv'
  <2>1. <<>> \o Fields(s) = Fields(s)
    BY <1>3, ConcatEmptySeq
  <2> QED
    BY <1>1, <2>1 DEF SaveInv
<1>5. /\ reader' \in [loading : BOOLEAN, got : Seq(Nat), torn : BOOLEAN]
      /\ reader'.loading => reader'.torn
  BY <1>2 DEF FileInv
<1>6. LoadInv'
  BY <1>5 DEF LoadInv
<1> QED
  BY <1>1, <1>3, <1>4, <1>5, <1>6 DEF FileInv

(* Some of what is in the buffer reaches the disk, while a save is in      *)
(* progress.                                                               *)
LEMMA DiskGrows ==
  ASSUME FileInv, writer.saving, NEW n \in 0 .. Len(writer.rest), file' = Flushed(n)
  PROVE  /\ file' \in Seq(Nat)
         /\ SubSeq(writer.rest, n + 1, Len(writer.rest)) \in Seq(Nat)
         /\ Len(SubSeq(writer.rest, n + 1, Len(writer.rest))) = Len(writer.rest) - n
         /\ \E s \in Snapshot :
              /\ file' \o SubSeq(writer.rest, n + 1, Len(writer.rest)) = Fields(s)
              /\ Part(file', s)
<1> DEFINE r == writer.rest
           u == SubSeq(r, n + 1, Len(r))
<1>1. file \in Seq(Nat) /\ r \in Seq(Nat)
  BY DEF FileInv
<1>2. PICK s \in Snapshot : file \o r = Fields(s)
  BY DEF FileInv, SaveInv
<1>3. file' = file \o SubSeq(r, 1, n)
  BY DEF Flushed
<1> HIDE DEF r
<1>4. /\ file' \in Seq(Nat) /\ u \in Seq(Nat) /\ file' \o u = file \o r
      /\ Len(u) = Len(r) - n
  <2>1. n \in 0 .. Len(r)
    BY DEF r
  <2>2. /\ file \o SubSeq(r, 1, n) \in Seq(Nat) /\ SubSeq(r, n + 1, Len(r)) \in Seq(Nat)
        /\ Len(SubSeq(r, n + 1, Len(r))) = Len(r) - n
        /\ (file \o SubSeq(r, 1, n)) \o SubSeq(r, n + 1, Len(r)) = file \o r
    BY <1>1, <2>1, FlushedValue
  <2> QED
    BY <1>3, <2>2
<1> HIDE DEF u
<1>5. Part(file', s)
  BY <1>2, <1>4, CutInTwo
<1> QED
  BY <1>2, <1>4, <1>5 DEF u, r

LEMMA FlushKeeps ==
  ASSUME FileInv, flush
  PROVE  FileInv'
<1>1. PICK n \in 0 .. Len(writer.rest), failed \in BOOLEAN :
        /\ n < Len(writer.rest) \/ ~failed
        /\ file' = Flushed(n)
        /\ writer' = [writer EXCEPT !.rest = SubSeq(@, n + 1, Len(@)), !.failed = failed]
  BY DEF flush
<1>2. writer.saving /\ reader' = reader
  BY DEF flush
<1> DEFINE u == SubSeq(writer.rest, n + 1, Len(writer.rest))
<1>3. /\ file' \in Seq(Nat) /\ u \in Seq(Nat) /\ Len(u) = Len(writer.rest) - n
      /\ \E s \in Snapshot : file' \o u = Fields(s) /\ Part(file', s)
  BY <1>1, <1>2, DiskGrows
<1>4. writer \in [saving : BOOLEAN, failed : BOOLEAN, rest : Seq(Nat)]
  BY DEF FileInv
<1>5. /\ writer' = [writer EXCEPT !.rest = u, !.failed = failed]
  BY <1>1
<1> HIDE DEF u
<1>6. /\ writer' \in [saving : BOOLEAN, failed : BOOLEAN, rest : Seq(Nat)]
      /\ writer'.rest = u /\ writer'.failed = failed /\ writer'.saving
  BY <1>2, <1>3, <1>4, <1>5
<1>7. failed => u # <<>>
  <2>1. failed => Len(u) # 0
    <3>1. n \in Nat /\ Len(writer.rest) \in Nat
      BY <1>4
    <3> QED
      BY <1>1, <1>3, <3>1
  <2> QED
    BY <2>1
<1>8. SaveInv'
  BY <1>3, <1>6, <1>7 DEF SaveInv
<1>9. LoadInv'
  BY <1>2, NobodyReads DEF LoadInv
<1> QED
  BY <1>2, <1>3, <1>6, <1>8, <1>9 DEF FileInv

LEMMA FinishKeeps ==
  ASSUME FileInv, finish
  PROVE  FileInv'
<1>1. /\ writer.saving /\ writer' = IdleWriter /\ reader' = reader
      /\ file' = file \/ \E n \in 0 .. Len(writer.rest) : file' = Flushed(n)
  BY DEF finish
<1>2. file' \in Seq(Nat) /\ (file' = <<>> \/ \E s \in Snapshot : Part(file', s))
  <2>1. CASE file' = file
    BY <2>1 DEF FileInv
  <2>2. CASE \E n \in 0 .. Len(writer.rest) : file' = Flushed(n)
    BY <1>1, <2>2, DiskGrows
  <2> QED
    BY <1>1, <2>1, <2>2
<1>3. /\ writer' \in [saving : BOOLEAN, failed : BOOLEAN, rest : Seq(Nat)]
      /\ ~writer'.saving
  BY <1>1 DEF IdleWriter
<1>4. SaveInv' /\ LoadInv'
  BY <1>1, <1>3, NobodyReads DEF SaveInv, LoadInv
<1> QED
  BY <1>1, <1>2, <1>3, <1>4 DEF FileInv

LEMMA CrashKeeps ==
  ASSUME FileInv, crash
  PROVE  FileInv'
<1>1. writer.saving /\ writer' = IdleWriter /\ reader' = reader /\ file' = file
  BY DEF crash
<1>2. /\ writer' \in [saving : BOOLEAN, failed : BOOLEAN, rest : Seq(Nat)]
      /\ ~writer'.saving
  BY <1>1 DEF IdleWriter
<1>3. SaveInv' /\ LoadInv'
  BY <1>1, <1>2, NobodyReads DEF SaveInv, LoadInv
<1> QED
  BY <1>1, <1>2, <1>3 DEF FileInv

LEMMA LoadOpenKeeps ==
  ASSUME FileInv, load_open
  PROVE  FileInv'
<1>1. file' = file /\ writer' = writer
  BY DEF load_open
<1>2. SaveInv'
  BY <1>1 DEF FileInv, SaveInv
<1>3. CASE Len(file) < 2
  <2>1. reader' = reader
    BY <1>3 DEF load_open
  <2> QED
    BY <1>1, <1>2, <2>1 DEF FileInv, LoadInv
<1>4. CASE ~(Len(file) < 2)
  <2>1. reader' = [loading |-> TRUE, got |-> <<>>, torn |-> writer.saving]
    BY <1>4 DEF load_open
  <2>2. reader' \in [loading : BOOLEAN, got : Seq(Nat), torn : BOOLEAN]
    <3>1. writer.saving \in BOOLEAN
      BY DEF FileInv
    <3>2. <<>> \in Seq(Nat)
      OBVIOUS
    <3> QED
      BY <2>1, <3>1, <3>2
  <2>3. LoadInv'
    <3>1. Len(file) \in Nat
      BY DEF FileInv
    <3> QED
      BY <1>1, <1>4, <2>1, <3>1 DEF LoadInv
  <2> QED
    BY <1>1, <1>2, <2>2, <2>3 DEF FileInv
<1> QED
  BY <1>3, <1>4

LEMMA LoadReadKeeps ==
  ASSUME FileInv, load_read
  PROVE  FileInv'
<1> DEFINE g == reader.got
           f == file
<1>1. /\ file' = file /\ writer' = writer /\ reader.loading
      /\ \E n \in Len(g) + 1 .. Len(f) :
           reader' = [reader EXCEPT !.got = g \o SubSeq(f, Len(g) + 1, n)]
  BY DEF load_read
<1>2. PICK n \in Len(g) + 1 .. Len(f) :
        reader' = [reader EXCEPT !.got = g \o SubSeq(f, Len(g) + 1, n)]
  BY <1>1
<1>3. SaveInv'
  BY <1>1 DEF FileInv, SaveInv
<1>4. /\ f \in Seq(Nat) /\ g \in Seq(Nat) /\ Len(f) \in Nat /\ Len(g) \in Nat
      /\ reader \in [loading : BOOLEAN, got : Seq(Nat), torn : BOOLEAN]
  BY DEF FileInv
<1> DEFINE t == SubSeq(f, Len(g) + 1, n)
           u == g \o t
<1> HIDE DEF g, f
<1>5. /\ n \in Nat /\ Len(g) < n /\ n <= Len(f)
  BY <1>2, <1>4
<1>6. /\ t \in Seq(Nat) /\ Len(t) = n - Len(g)
      /\ \A i \in 1 .. n - Len(g) : t[i] = f[Len(g) + i]
  <2> DEFINE m == Len(g) + 1
  <2>1. m \in Int /\ n \in Int /\ m <= n /\ \A i \in m .. n : f[i] \in Nat
    BY <1>4, <1>5
  <2> HIDE DEF m
  <2>2. /\ SubSeq(f, m, n) \in Seq(Nat) /\ Len(SubSeq(f, m, n)) = n - m + 1
        /\ \A i \in 1 .. n - m + 1 : SubSeq(f, m, n)[i] = f[m + i - 1]
    BY <2>1, SubSeqProperties
  <2>3. Len(SubSeq(f, m, n)) = n - Len(g)
    BY <1>4, <1>5, <2>2 DEF m
  <2>4. ASSUME NEW i \in 1 .. n - Len(g)
        PROVE  SubSeq(f, m, n)[i] = f[Len(g) + i]
    <3>1. i \in 1 .. n - m + 1 /\ m + i - 1 = Len(g) + i
      BY <1>4, <1>5, <2>4 DEF m
    <3> QED
      BY <2>2, <3>1
  <2> QED
    BY <2>2, <2>3, <2>4 DEF m
<1> HIDE DEF t
<1>7. /\ u \in Seq(Nat) /\ Len(u) = n
      /\ \A i \in 1 .. Len(g) : u[i] = g[i]
      /\ \A i \in 1 .. n - Len(g) : u[Len(g) + i] = f[Len(g) + i]
  <2>1. /\ u \in Seq(Nat) /\ Len(u) = Len(g) + Len(t)
        /\ \A i \in 1 .. Len(g) : u[i] = g[i]
        /\ \A i \in 1 .. Len(t) : u[Len(g) + i] = t[i]
    BY <1>4, <1>6, Joined
  <2> HIDE DEF u
  <2>2. Len(u) = n
    BY <1>4, <1>5, <1>6, <2>1
  <2>3. ASSUME NEW i \in 1 .. n - Len(g)
        PROVE  u[Len(g) + i] = f[Len(g) + i]
    <3>1. i \in 1 .. Len(t) /\ t[i] = f[Len(g) + i]
      BY <1>4, <1>5, <1>6, <2>3
    <3> QED
      BY <2>1, <3>1
  <2> QED
    BY <2>1, <2>2, <2>3
<1>8. reader' = [reader EXCEPT !.got = u]
  BY <1>2 DEF t
<1> HIDE DEF u
<1>9. /\ reader' \in [loading : BOOLEAN, got : Seq(Nat), torn : BOOLEAN]
      /\ reader'.got = u /\ reader'.torn = reader.torn
  BY <1>4, <1>7, <1>8
<1>10. LoadInv'
  <2> SUFFICES ASSUME ~reader.torn
               PROVE  /\ ~writer.saving /\ 2 <= Len(f)
                      /\ Len(u) <= Len(f)
                      /\ \A i \in 1 .. Len(u) : u[i] = f[i]
    BY <1>1, <1>9 DEF LoadInv, f
  <2>1. /\ ~writer.saving /\ 2 <= Len(f)
        /\ \A i \in 1 .. Len(g) : g[i] = f[i]
    BY <1>1 DEF FileInv, LoadInv, f, g
  <2>2. ASSUME NEW i \in 1 .. n
        PROVE  u[i] = f[i]
    <3>1. CASE i <= Len(g)
      <4>1. i \in 1 .. Len(g)
        BY <1>4, <3>1
      <4>2. g[i] = f[i]
        BY <2>1, <4>1
      <4>3. u[i] = g[i]
        BY <1>7, <4>1
      <4> QED
        BY <4>2, <4>3
    <3>2. CASE i > Len(g)
      <4> DEFINE j == i - Len(g)
      <4>1. j \in 1 .. n - Len(g) /\ i = Len(g) + j
        BY <1>4, <1>5, <3>2
      <4>2. u[Len(g) + j] = f[Len(g) + j]
        <5> HIDE DEF j
        <5> QED
          BY <1>7, <4>1
      <4> HIDE DEF j
      <4> QED
        BY <4>1, <4>2
    <3> QED
      BY <1>4, <3>1, <3>2
  <2> QED
    BY <1>5, <1>7, <2>1, <2>2
<1> QED
  BY <1>1, <1>3, <1>4, <1>9, <1>10 DEF FileInv

(* The reader is put back, whatever it was at. *)
LEMMA LoadOverKeeps ==
  ASSUME FileInv, reader' = IdleReader, file' = file, writer' = writer
  PROVE  FileInv'
<1>1. reader' \in [loading : BOOLEAN, got : Seq(Nat), torn : BOOLEAN] /\ ~reader'.loading
  BY DEF IdleReader
<1> QED
  BY <1>1 DEF FileInv, SaveInv, LoadInv

LEMMA FileSame ==
  ASSUME FileInv, reader' = reader, file' = file, writer' = writer
  PROVE  FileInv'
  BY DEF FileInv, SaveInv, LoadInv

LEMMA FileInvStep == FileInv /\ [CommandNext]_command_vars => FileInv'
<1> SUFFICES ASSUME FileInv, [CommandNext]_command_vars
             PROVE  FileInv'
  OBVIOUS
<1>1. CASE SaveNext
  <2>1. CASE open_fails
    BY <2>1, FileSame DEF open_fails, file_vars
  <2> QED
    BY <1>1, <2>1, OpenKeeps, FlushKeeps, FinishKeeps, CrashKeeps DEF SaveNext
<1>2. CASE CommandStep
  <2>1. CASE child_open
    BY <2>1, LoadOpenKeeps DEF child_open
  <2>2. CASE child_read
    BY <2>2, LoadReadKeeps DEF child_read
  <2>3. CASE child_loaded
    BY <2>3, LoadOverKeeps DEF child_loaded, load_end
  <2>4. CASE child_refuses \/ child_output \/ child_prints
    BY <2>4, FileSame DEF child_refuses, child_output, child_prints, file_vars
  <2> QED
    BY <1>2, <2>1, <2>2, <2>3, <2>4 DEF CommandStep
<1>3. CASE child_killed
  BY <1>3, LoadOverKeeps DEF child_killed
<1>4. ASSUME NEW c \in Calls, python_call(c)
      PROVE  FileInv'
  BY <1>4, FileSame DEF python_call, file_vars
<1>5. CASE python_returns \/ python_raises
  BY <1>5, FileSame DEF python_returns, python_raises, CallOver
<1>6. CASE UNCHANGED command_vars
  BY <1>6, FileSame DEF command_vars
<1> QED
  BY <1>1, <1>2, <1>3, <1>4, <1>5, <1>6 DEF CommandNext

THEOREM FileInvariant == CommandSpec => []FileInv
  BY FileInvInit, FileInvStep, PTL DEF CommandSpec

(* A save that got everything to the disk has left a file that loads, and  *)
(* as what was captured.                                                   *)
THEOREM SavedFileLoads == CommandSpec => []SavedLoads
<1>1. FileInv => SavedLoads
  <2> SUFFICES ASSUME FileInv, writer.saving, writer.rest = <<>>
               PROVE  \E s \in Snapshot : Loaded(file) = Content(s)
    BY DEF SavedLoads
  <2>1. PICK s \in Snapshot : file \o writer.rest = Fields(s)
    BY DEF FileInv, SaveInv
  <2>2. file = Fields(s)
    <3>1. file \in Seq(Nat)
      BY DEF FileInv
    <3> QED
      BY <2>1, <3>1, ConcatEmptySeq
  <2> QED
    BY <2>2, LoadsItsOwn
<1> QED
  BY <1>1, FileInvariant, PTL

(* What an undisturbed load makes of what it has read. *)
LEMMA LoadEnds ==
  ASSUME FileInv, load_end, ~reader.torn
  PROVE  \/ outcome' = Throws
         \/ \E s \in Snapshot : file = Fields(s) /\ outcome' = Content(s)
<1> DEFINE g == reader.got
<1>1. /\ file \in Seq(Nat) /\ g \in Seq(Nat) /\ 2 <= Len(file) /\ Len(g) <= Len(file)
      /\ \A i \in 1 .. Len(g) : g[i] = file[i]
  BY DEF FileInv, LoadInv, load_end
<1>2. PICK s \in Snapshot : Part(file, s)
  <2>1. file # <<>>
    BY <1>1
  <2> QED
    BY <2>1 DEF FileInv
<1>3. outcome' = Loaded(g)
  BY DEF load_end
<1> HIDE DEF g
<1>4. Len(g) \in Nat /\ Len(file) \in Nat /\ Len(Fields(s)) \in Nat
  BY <1>1, <1>2, FieldsValue
<1>5. Part(g, s)
  <2>1. Len(file) <= Len(Fields(s)) /\ \A i \in 1 .. Len(file) : file[i] = Fields(s)[i]
    BY <1>2 DEF Part
  <2> QED
    BY <1>1, <1>4, <2>1 DEF Part
<1>6. CASE Len(g) = Len(Fields(s))
  <2>1. Len(file) = Len(Fields(s))
    BY <1>1, <1>2, <1>4, <1>6 DEF Part
  <2>2. file = Fields(s)
    BY <1>2, <2>1, PartIsAll
  <2> QED
    BY <1>3, <1>5, <1>6, <2>2, PartLoads
<1>7. CASE Len(g) # Len(Fields(s))
  BY <1>3, <1>5, <1>7, PartLoads
<1> QED
  BY <1>6, <1>7

(* A load that no save got in the way of returns what was captured, or     *)
(* throws, for snapshots of any size and after any history of saves,       *)
(* crashes and full disks.                                                 *)
THEOREM LoadsAreWhole == CommandSpec => LoadIsWhole
<1> DEFINE A == load_end /\ ~reader.torn =>
                  \/ outcome' = Throws
                  \/ \E s \in Snapshot : file = Fields(s) /\ outcome' = Content(s)
<1>1. FileInv => A
  BY LoadEnds
<1> HIDE DEF A
<1>2. CommandSpec => [][A]_file_vars
  BY <1>1, FileInvariant, PTL
<1> QED
  BY <1>2 DEF A, LoadIsWhole

(* A save that met a write error has left a field out, and load misses it. *)
THEOREM WriteErrorIsRefused == CommandSpec => WriteErrorIsUnloadable
<1> DEFINE A == SaveThrows /\ writer.saving => Loaded(file') = Throws
<1>1. FileInv => A
  <2> SUFFICES ASSUME FileInv, SaveThrows, writer.saving
               PROVE  Loaded(file') = Throws
    BY DEF A
  <2>1. writer.saving /\ writer.failed /\ file' = file
    BY DEF SaveThrows, open_fails, finish
  <2>2. PICK s \in Snapshot : file \o writer.rest = Fields(s) /\ writer.rest # <<>>
    BY <2>1 DEF FileInv, SaveInv
  <2>3. file \in Seq(Nat) /\ writer.rest \in Seq(Nat)
    BY DEF FileInv
  <2>4. Part(file, s) /\ Len(Fields(s)) = Len(file) + Len(writer.rest)
    BY <2>2, <2>3, CutInTwo
  <2>5. Len(file) # Len(Fields(s))
    <3>1. Len(file) \in Nat /\ Len(writer.rest) \in Nat /\ Len(writer.rest) # 0
      BY <2>2, <2>3
    <3> QED
      BY <2>4, <3>1
  <2> QED
    BY <2>1, <2>4, <2>5, PartLoads
<1> HIDE DEF A
<1>2. CommandSpec => [][A]_file_vars
  BY <1>1, FileInvariant, PTL
<1> QED
  BY <1>2 DEF A, WriteErrorIsUnloadable

-----------------------------------------------------------------------------
(* The command and the call that waits for it. *)

Stages == {"none", "started", "loading", "loaded", "writing", "exited"}

(* What an undisturbed load returns. *)
Sound(o) == o = Throws \/ \E s \in Snapshot : o = Content(s)

(* The command has loaded the snapshot, and not failed since. *)
HasLoaded ==
  command.at \in {"loaded", "writing"} \/ (command.at = "exited" /\ command.code = 0)

(* It has found nothing to refuse. *)
HasAccepted == command.at = "writing" \/ (command.at = "exited" /\ command.code = 0)

CommandInv ==
  /\ command \in [at : Stages, code : Nat, torn : BOOLEAN]
  /\ command.at # "none" => call \in Calls
  /\ HasLoaded /\ ~command.torn => Sound(outcome)
  /\ HasAccepted => Accepts(call, outcome)
  /\ command.at = "exited" /\ command.code = 0 =>
       \E n \in 0 .. Len(Report(call, outcome)) : temp = SubSeq(Report(call, outcome), 1, n)

Names == Known \cup {Unknown}

LEMMA CallFields ==
  ASSUME NEW c \in Calls
  PROVE  /\ c # NoCall /\ c.names \in Seq(Names) /\ c.from \in Int
         /\ c.op = "compare" => c.from = -1
<1>1. CASE c = [op |-> "replay", names |-> <<>>, from |-> 0]
  BY <1>1 DEF NoCall
<1>2. ASSUME NEW names \in {<<>>, <<Unknown>>}, NEW k \in {-1, 2},
             c = [op |-> "replay", names |-> names, from |-> k]
      PROVE  c.names \in Seq(Names) /\ c.from \in Int /\ c.op = "replay"
  <2>1. names \in Seq(Names)
    <3>1. <<>> \in Seq(Names)
      OBVIOUS
    <3>2. Unknown \in Names
      BY DEF Names
    <3>3. <<Unknown>> \in Seq(Names)
      BY <3>2
    <3> QED
      BY <3>1, <3>3
  <2>2. k \in Int
    OBVIOUS
  <2>3. c.names = names /\ c.from = k /\ c.op = "replay"
    BY <1>2, Zenon
  <2> QED
    BY <2>1, <2>2, <2>3
<1>3. ASSUME NEW names \in {<<>>, <<"har_fixed", "fp_passthrough">>, <<"har_fixed", Unknown>>},
             c = [op |-> "compare", names |-> names, from |-> -1]
      PROVE  c.names \in Seq(Names) /\ c.from = -1 /\ c.op = "compare"
  <2>1. names \in Seq(Names)
    <3>1. <<>> \in Seq(Names)
      OBVIOUS
    <3>2. Unknown \in Names /\ "har_fixed" \in Names /\ "fp_passthrough" \in Names
      BY DEF Names, Known
    <3>3. <<"har_fixed", "fp_passthrough">> \in Seq(Names)
      BY <3>2
    <3>4. <<"har_fixed", Unknown>> \in Seq(Names)
      BY <3>2
    <3> QED
      BY <3>1, <3>3, <3>4
  <2>2. c.names = names /\ c.from = -1 /\ c.op = "compare"
    BY <1>3, Zenon
  <2> QED
    BY <2>1, <2>2
<1>4. c.op \in {"replay", "compare"} => c # NoCall
  BY DEF NoCall
<1> QED
  BY <1>1, <1>2, <1>3, <1>4 DEF Calls

LEMMA CommandInvInit == CommandInit => CommandInv
BY DEF CommandInit, CommandInv, NoCommand, Stages, HasLoaded, HasAccepted

(* A step of a save. *)
LEMMA SavesKeep ==
  ASSUME CommandInv, UNCHANGED python_vars, outcome' = outcome
  PROVE  CommandInv'
BY DEF CommandInv, python_vars, HasLoaded, HasAccepted

(* The command ends with a status that is not 0. *)
LEMMA FailureKeeps ==
  ASSUME CommandInv, command.at # "none", call' = call, NEW code \in Nat \ {0}, Exit(code)
  PROVE  CommandInv'
<1>1. /\ command' \in [at : Stages, code : Nat, torn : BOOLEAN]
      /\ command'.at = "exited" /\ command'.code # 0
  BY DEF CommandInv, Exit, Stages
<1> QED
  BY <1>1 DEF CommandInv, HasLoaded, HasAccepted

(* The call is over. *)
LEMMA OverKeeps ==
  ASSUME CallOver
  PROVE  CommandInv'
<1>1. /\ command' \in [at : Stages, code : Nat, torn : BOOLEAN]
      /\ command'.at = "none"
  BY DEF CallOver, NoCommand, Stages
<1> QED
  BY <1>1 DEF CommandInv, HasLoaded, HasAccepted

LEMMA CommandStepKeeps ==
  ASSUME FileInv, CommandInv, CommandStep
  PROVE  CommandInv'
<1>1. CASE child_open
  <2>1. command.at = "started" /\ call' = call /\ temp' = temp /\ load_open
    BY <1>1 DEF child_open
  <2>2. CASE Len(file) < 2
    <3>1. outcome' = Throws /\ ~reader'.loading
      BY <2>1, <2>2 DEF load_open
    <3>2. command' = [command EXCEPT !.at = "loaded"]
      BY <1>1, <3>1 DEF child_open
    <3> QED
      BY <2>1, <3>1, <3>2 DEF CommandInv, Stages, HasLoaded, HasAccepted, Sound
  <2>3. CASE ~(Len(file) < 2)
    <3>1. reader'.loading
      BY <2>1, <2>3 DEF load_open
    <3>2. command' = [command EXCEPT !.at = "loading"]
      BY <1>1, <3>1 DEF child_open
    <3> QED
      BY <2>1, <3>2 DEF CommandInv, Stages, HasLoaded, HasAccepted
  <2> QED
    BY <2>2, <2>3
<1>2. CASE child_read
  BY <1>2, SavesKeep DEF child_read, load_read
<1>3. CASE child_loaded
  <2>1. /\ command.at = "loading" /\ call' = call /\ temp' = temp /\ load_end
        /\ command' = [command EXCEPT !.at = "loaded", !.torn = reader.torn]
    BY <1>3 DEF child_loaded
  <2>2. reader.torn \in BOOLEAN
    BY DEF FileInv
  <2>3. ~reader.torn => Sound(outcome')
    BY <2>1, LoadEnds DEF Sound
  <2> QED
    BY <2>1, <2>2, <2>3 DEF CommandInv, Stages, HasLoaded, HasAccepted
<1>4. CASE child_refuses
  BY <1>4, FailureKeeps DEF child_refuses
<1>5. CASE child_output
  <2>1. CASE command' = [command EXCEPT !.at = "writing"]
    BY <1>5, <2>1 DEF child_output, file_vars, CommandInv, Stages, HasLoaded, HasAccepted
  <2>2. CASE Exit(1)
    BY <1>5, <2>2, FailureKeeps DEF child_output
  <2> QED
    BY <1>5, <2>1, <2>2 DEF child_output
<1>6. CASE child_prints
  <2>1. /\ command.at = "writing" /\ outcome' = outcome /\ call' = call
        /\ command' = [command EXCEPT !.at = "exited", !.code = 0]
    BY <1>6 DEF child_prints, Exit, file_vars
  <2>2. \E n \in 0 .. Len(Report(call, outcome)) : temp' = SubSeq(Report(call, outcome), 1, n)
    BY <1>6 DEF child_prints
  <2> QED
    BY <2>1, <2>2 DEF CommandInv, Stages, HasLoaded, HasAccepted
<1> QED
  BY <1>1, <1>2, <1>3, <1>4, <1>5, <1>6 DEF CommandStep

LEMMA CommandInvStep ==
  FileInv /\ CommandInv /\ [CommandNext]_command_vars => CommandInv'
<1> SUFFICES ASSUME FileInv, CommandInv, [CommandNext]_command_vars
             PROVE  CommandInv'
  OBVIOUS
<1>1. CASE SaveNext /\ UNCHANGED python_vars
  <2>1. outcome' = outcome
    BY <1>1 DEF SaveNext, open, open_fails, flush, finish, crash, file_vars
  <2> QED
    BY <1>1, <2>1, SavesKeep
<1>2. CASE CommandStep
  BY <1>2, CommandStepKeeps
<1>3. CASE child_killed
  <2>1. command.at # "none" /\ call' = call /\ Exit(137)
    BY <1>3 DEF child_killed
  <2> QED
    BY <2>1, FailureKeeps
<1>4. ASSUME NEW c \in Calls, python_call(c)
      PROVE  CommandInv'
  BY <1>4 DEF python_call, NoCommand, CommandInv, Stages, HasLoaded, HasAccepted
<1>5. CASE python_returns \/ python_raises
  BY <1>5, OverKeeps DEF python_returns, python_raises
<1>6. CASE UNCHANGED command_vars
  BY <1>6, SavesKeep DEF command_vars, python_vars
<1> QED
  BY <1>1, <1>2, <1>3, <1>4, <1>5, <1>6 DEF CommandNext

THEOREM CommandInvariant == CommandSpec => []CommandInv
  BY CommandInvInit, CommandInvStep, FileInvariant, PTL DEF CommandSpec

(* A report: the closing bracket is its last entry and no other. *)
LEMMA ReportValue ==
  ASSUME NEW c \in Calls, NEW s \in Snapshot, Accepts(c, Content(s))
  PROVE  /\ Report(c, Content(s)) \in Seq(Int)
         /\ \A i \in 1 .. Len(Report(c, Content(s))) :
              Report(c, Content(s))[i] = Closing => i = Len(Report(c, Content(s)))
         /\ Promised(c, s, Report(c, Content(s)))
<1>1. s.id \in Nat \ {0} /\ s.n_entries \in Nat
  BY SnapshotFields
<1>2. HasLog(s)
  <2>1. Repeat(100 * s.id, s.n_entries) # <<>>
    BY DEF Accepts, Content
  <2>2. /\ Repeat(100 * s.id, s.n_entries) \in Seq(Nat)
        /\ Len(Repeat(100 * s.id, s.n_entries)) = s.n_entries
    BY EntriesValue
  <2> QED
    BY <1>1, <2>1, <2>2 DEF HasLog
<1>3. c.names \in Seq(Names) /\ c.from \in Int /\ (c.op = "compare" => c.from = -1)
  BY CallFields
<1>4. Content(s).shape = s.id /\ c.from <= s.id
  BY DEF Accepts, Content
<1>5. CASE c.op = "compare"
  <2> DEFINE n == Len(c.names)
             a == Repeat(s.id, n)
             r == a \o <<Closing>>
  <2>1. n \in Nat
    BY <1>3
  <2>2. a \in Seq(Nat) /\ Len(a) = n /\ \A i \in 1 .. n : a[i] = s.id
    BY <1>1, <2>1, RepeatValue
  <2>3. Report(c, Content(s)) = r
    BY <1>4, <1>5 DEF Report
  <2> HIDE DEF a
  <2>4. r \in Seq(Int) /\ Len(r) = n + 1 /\ (\A i \in 1 .. n : r[i] = a[i])
    <3>1. a \in Seq(Int) /\ <<Closing>> \in Seq(Int) /\ Len(<<Closing>>) = 1
      BY <2>1, <2>2 DEF Closing
    <3> QED
      BY <2>1, <2>2, <3>1, ConcatProperties
  <2> HIDE DEF n, r
  <2>5. \A i \in 1 .. Len(r) : r[i] = Closing => i = Len(r)
    BY <1>1, <2>1, <2>2, <2>4 DEF Closing
  <2>6. Promised(c, s, r)
    <3>1. DOMAIN c.names = 1 .. n
      BY <1>3 DEF n
    <3>2. Len(r) = Len(c.names) + 1
      BY <2>4 DEF n
    <3> QED
      BY <1>2, <1>5, <2>2, <2>4, <3>1, <3>2 DEF Promised
  <2> QED
    BY <2>3, <2>4, <2>5, <2>6
<1>6. CASE c.op # "compare"
  <2> DEFINE k == IF c.from >= 0 THEN c.from ELSE s.id
             r == <<k, s.id, Closing>>
  <2>1. k \in Nat /\ k \in 0 .. s.id /\ k = (IF c.from < 0 THEN s.id ELSE c.from)
    BY <1>1, <1>3, <1>4
  <2>2. Report(c, Content(s)) = r
    BY <1>4, <1>6 DEF Report
  <2> HIDE DEF k
  <2>3. /\ r \in Seq(Int) /\ Len(r) = 3 /\ r[1] = k /\ r[2] = s.id /\ r[3] = Closing
    BY <1>1, <2>1 DEF Closing
  <2> HIDE DEF r
  <2>4. \A i \in 1 .. Len(r) : r[i] = Closing => i = Len(r)
    BY <1>1, <2>1, <2>3 DEF Closing
  <2>5. Promised(c, s, r)
    BY <1>2, <1>6, <2>1, <2>3 DEF Promised
  <2> QED
    BY <2>2, <2>3, <2>4, <2>5
<1> QED
  BY <1>5, <1>6

(* A report that is cut off does not parse. *)
LEMMA CutIsNoReport ==
  ASSUME NEW r \in Seq(Int), NEW n \in 0 .. Len(r),
         \A i \in 1 .. Len(r) : r[i] = Closing => i = Len(r),
         Parses(SubSeq(r, 1, n))
  PROVE  SubSeq(r, 1, n) = r
<1> DEFINE t == SubSeq(r, 1, n)
<1>1. n \in Nat /\ Len(r) \in Nat /\ n <= Len(r)
  OBVIOUS
<1>2. t \in Seq(Int) /\ Len(t) = n /\ \A i \in 1 .. n : t[i] = r[i]
  <2>1. /\ t \in Seq(Int) /\ Len(t) = (IF 1 <= n THEN n - 1 + 1 ELSE 0)
        /\ \A i \in 1 .. n - 1 + 1 : t[i] = r[1 + i - 1]
    <3>1. \A i \in 1 .. n : r[i] \in Int
      BY <1>1
    <3> QED
      BY <1>1, <3>1, SubSeqProperties
  <2> HIDE DEF t
  <2>2. Len(t) = n
    BY <1>1, <2>1
  <2>3. ASSUME NEW i \in 1 .. n
        PROVE  t[i] = r[i]
    <3>1. i \in 1 .. n - 1 + 1 /\ 1 + i - 1 = i
      BY <1>1, <2>3
    <3> QED
      BY <2>1, <3>1
  <2> QED
    BY <2>1, <2>2, <2>3
<1>3. t # <<>> /\ t[Len(t)] = Closing
  BY DEF Parses
<1> HIDE DEF t
<1>4. n # 0
  BY <1>2, <1>3
<1>5. n \in 1 .. Len(r) /\ r[n] = Closing
  BY <1>1, <1>2, <1>3, <1>4
<1>6. n = Len(r)
  BY <1>5
<1>7. t = r
  BY <1>2, <1>6, SeqEqual
<1> QED
  BY <1>7 DEF t

(* A call that returns, returns the whole report of one whole snapshot,    *)
(* for snapshots of any size, whatever the other process saves meanwhile   *)
(* and wherever a disk runs full, unless the load was torn.                *)
THEOREM ResultsAreReports == CommandSpec => ResultIsReport
<1> DEFINE A == python_returns /\ ~command.torn =>
                  \E s \in Snapshot : outcome = Content(s) /\ Promised(call, s, temp)
<1>1. CommandInv => A
  <2> SUFFICES ASSUME CommandInv, python_returns, ~command.torn
               PROVE  \E s \in Snapshot : outcome = Content(s) /\ Promised(call, s, temp)
    BY DEF A
  <2>1. command.at = "exited" /\ command.code = 0 /\ Parses(temp)
    BY DEF python_returns
  <2>2. /\ call \in Calls /\ Sound(outcome) /\ Accepts(call, outcome)
        /\ \E n \in 0 .. Len(Report(call, outcome)) : temp = SubSeq(Report(call, outcome), 1, n)
    BY <2>1 DEF CommandInv, HasLoaded, HasAccepted
  <2>3. PICK s \in Snapshot : outcome = Content(s)
    BY <2>2 DEF Sound, Accepts
  <2> DEFINE r == Report(call, Content(s))
  <2>4. /\ r \in Seq(Int) /\ (\A i \in 1 .. Len(r) : r[i] = Closing => i = Len(r))
        /\ Promised(call, s, r)
    BY <2>2, <2>3, ReportValue
  <2>5. PICK n \in 0 .. Len(r) : temp = SubSeq(r, 1, n)
    BY <2>2, <2>3
  <2> HIDE DEF r
  <2>6. Parses(SubSeq(r, 1, n))
    BY <2>1, <2>5
  <2>7. SubSeq(r, 1, n) = r
    BY <2>4, <2>6, CutIsNoReport
  <2> QED
    BY <2>3, <2>4, <2>5, <2>7
<1> HIDE DEF A
<1>2. CommandSpec => [][A]_command_vars
  BY <1>1, CommandInvariant, PTL
<1> QED
  BY <1>2 DEF A, ResultIsReport

-----------------------------------------------------------------------------
(* A log fed to a context of the session's capacity. *)

LEMMA FeedTokenFolds ==
  ASSUME NEW c \in Filling(Capacity), NEW log \in Seq(LogEntry), NEW t \in Nat,
         NEW strat \in Strategy, NEW metrics \in BOOLEAN
  PROVE  \E f : /\ TokenFold(f, Capacity, c, log, t, FormatOf(strat), strat, metrics)
                /\ FeedToken(c, log, t, strat, metrics) = f[1 .. NIdx]
<1> DEFINE seq == [h \in 1 .. NIdx |-> h - 1]
           fmt == FormatOf(strat)
           Step(acc, i) == IF t * NIdx + i < Len(log)
                           THEN FeedEntry(acc, i, log[t * NIdx + i + 1].tok, strat, metrics)
                           ELSE acc
           Chosen(f) == f = [s \in SUBSET (DOMAIN seq) |->
             IF s = {} THEN c ELSE Step(f[s \ {Max(s)}], seq[Max(s)])]
           iter == CHOOSE f : Chosen(f)
<1>1. FeedToken(c, log, t, strat, metrics) = iter[DOMAIN seq]
  <2> HIDE DEF seq
  <2> QED
    BY Zenon DEF FeedToken, FoldLeft, MapThenFoldSet, seq
<1>2. NIdx \in Nat /\ DOMAIN seq = 1 .. NIdx
  BY NIdxAssumption
<1>3. \A acc, i, tok : FeedEntry(acc, i, tok, strat, metrics)
                         = Entered(Capacity, acc, i, tok, fmt, strat, metrics)
  BY AppendExtends, Zenon DEF FeedEntry, Entered
<1>4. \A acc, i : Step(acc, i) = TokenStep(Capacity, acc, i, log, t, fmt, strat, metrics)
  <2> HIDE DEF fmt
  <2> QED
    BY <1>3, Zenon DEF TokenStep
<1> HIDE DEF Step
<1>5. \A s \in SUBSET (1 .. NIdx) : s # {} => seq[Max(s)] = Max(s) - 1
  <2> TAKE s \in SUBSET (1 .. NIdx)
  <2> HAVE s # {}
  <2>1. Max(s) \in s
    BY <1>2, MaxIsLast
  <2> QED
    BY <2>1
<1>6. ASSUME NEW f
      PROVE  Chosen(f) <=> TokenFold(f, Capacity, c, log, t, fmt, strat, metrics)
  <2> DEFINE a == [s \in SUBSET (1 .. NIdx) |->
                     IF s = {} THEN c ELSE Step(f[s \ {Max(s)}], seq[Max(s)])]
             b == [s \in SUBSET (1 .. NIdx) |->
                     IF s = {} THEN c
                     ELSE TokenStep(Capacity, f[s \ {Max(s)}], Max(s) - 1, log, t, fmt, strat, metrics)]
  <2>1. a = b
    <3> HIDE DEF fmt, seq
    <3>1. \A s \in SUBSET (1 .. NIdx) : s # {} =>
            Step(f[s \ {Max(s)}], seq[Max(s)])
              = TokenStep(Capacity, f[s \ {Max(s)}], Max(s) - 1, log, t, fmt, strat, metrics)
      BY <1>4, <1>5, Zenon
    <3> QED
      BY <3>1
  <2>2. Chosen(f) <=> f = a
    <3> HIDE DEF seq
    <3>1. SUBSET (DOMAIN seq) = SUBSET (1 .. NIdx)
      BY <1>2
    <3> QED
      BY <3>1, Zenon
  <2>3. TokenFold(f, Capacity, c, log, t, fmt, strat, metrics) <=> f = b
    BY Zenon DEF TokenFold
  <2> HIDE DEF a, b
  <2> QED
    BY <2>1, <2>2, <2>3
<1>7. PICK f : TokenFold(f, Capacity, c, log, t, fmt, strat, metrics)
  <2>1. fmt \in Format
    BY FormatType
  <2> HIDE DEF fmt
  <2> QED
    BY <2>1, CapacityAssumption, TokenFoldExists
<1>8. Chosen(iter)
  <2> HIDE DEF Chosen
  <2>1. \E g : Chosen(g)
    BY <1>6, <1>7
  <2> QED
    BY <2>1
<1> HIDE DEF iter, Chosen
<1>9. TokenFold(iter, Capacity, c, log, t, fmt, strat, metrics)
  BY <1>6, <1>8
<1> QED
  BY <1>1, <1>2, <1>9

LEMMA FormatIsOwn ==
  ASSUME NEW strat \in Strategy
  PROVE  FormatOf(strat) \in Format /\ OwnFormat(strat, FormatOf(strat))
BY FormatType, BitsAssumption DEF FormatOf, OwnFormat, FP32

LEMMA FeedTokenKeeps ==
  ASSUME NEW c \in Filling(Capacity), NEW log \in Seq(LogEntry), NEW t \in Nat,
         NEW strat \in Strategy, NEW metrics \in BOOLEAN
  PROVE  LET d == FeedToken(c, log, t, strat, metrics)
         IN /\ d \in Filling(Capacity)
            /\ TokenFed(Capacity, c, d, log, t, FormatOf(strat), strat, metrics)
<1>1. PICK f : /\ TokenFold(f, Capacity, c, log, t, FormatOf(strat), strat, metrics)
               /\ FeedToken(c, log, t, strat, metrics) = f[1 .. NIdx]
  BY FeedTokenFolds
<1>2. FormatOf(strat) \in Format
  BY FormatType
<1>3. /\ f[1 .. NIdx] \in Filling(Capacity)
      /\ TokenFed(Capacity, c, f[1 .. NIdx], log, t, FormatOf(strat), strat, metrics)
  BY <1>1, <1>2, CapacityAssumption, TokenFoldKeeps
<1> QED
  BY <1>1, <1>3

LEMMA FeedTokensKeeps ==
  ASSUME NEW c \in Filling(Capacity), NEW s, s.token_log \in Seq(LogEntry), NEW n \in Nat,
         NEW strat \in Strategy, NEW metrics \in BOOLEAN
  PROVE  LET d == FeedTokens(c, s, n, strat, metrics)
         IN /\ d \in Filling(Capacity)
            /\ TokensFed(Capacity, c, d, s.token_log, n, FormatOf(strat), strat, metrics)
<1> DEFINE V == Filling(Capacity)
           log == s.token_log
           seq == [t \in 1 .. n |-> t]
           Step(acc, t) == FeedToken(acc, log, t - 1, strat, metrics)
           Chosen(f) == f = [z \in SUBSET (DOMAIN seq) |->
             IF z = {} THEN c ELSE Step(f[z \ {Max(z)}], seq[Max(z)])]
           iter == CHOOSE f : Chosen(f)
           G == [p \in V \X (1 .. n) |-> Step(p[1], p[2])]
<1>1. FeedTokens(c, s, n, strat, metrics) = iter[DOMAIN seq]
  <2> HIDE DEF seq
  <2> QED
    BY Zenon DEF FeedTokens, FoldLeft, MapThenFoldSet, seq
<1>2. DOMAIN seq = 1 .. n /\ SUBSET (DOMAIN seq) = SUBSET (1 .. n)
  OBVIOUS
<1>3. ASSUME NEW acc \in V, NEW t \in 1 .. n
      PROVE  /\ Step(acc, t) \in V
             /\ TokenFed(Capacity, acc, Step(acc, t), log, t - 1, FormatOf(strat), strat, metrics)
  <2>1. t - 1 \in Nat
    OBVIOUS
  <2> HIDE DEF log
  <2>2. log \in Seq(LogEntry)
    BY DEF log
  <2> QED
    BY <2>1, <2>2, FeedTokenKeeps
<1> HIDE DEF V, Step
<1>4. G \in [V \X (1 .. n) -> V] /\ \A acc \in V, t \in 1 .. n : G[<<acc, t>>] = Step(acc, t)
  BY <1>3
<1> HIDE DEF G
<1>5. PICK f \in [SUBSET (1 .. n) -> V] : FoldingIn(f, n, V, c, G)
  <2>1. c \in V
    BY DEF V
  <2> QED
    BY <1>4, <2>1, FoldSolved
<1>6. Chosen(f)
  <2>1. ASSUME NEW z \in SUBSET (1 .. n), z # {}
        PROVE  f[z] = Step(f[z \ {Max(z)}], seq[Max(z)])
    <3>1. f[z \ {Max(z)}] \in V
      OBVIOUS
    <3>2. Max(z) \in 1 .. n /\ f[z] = G[<<f[z \ {Max(z)}], Max(z)>>]
      BY <1>5, <2>1, <3>1 DEF FoldingIn
    <3> QED
      BY <1>4, <3>1, <3>2
  <2> HIDE DEF seq
  <2>2. f = [z \in SUBSET (1 .. n) |-> f[z]]
    BY <1>5
  <2>3. f = [z \in SUBSET (1 .. n) |-> IF z = {} THEN c ELSE Step(f[z \ {Max(z)}], seq[Max(z)])]
    <3>1. f[{}] = c
      BY <1>5 DEF FoldingIn
    <3> QED
      BY <2>1, <2>2, <3>1
  <2> QED
    BY <1>2, <2>3, Zenon
<1>7. Chosen(iter)
  <2> HIDE DEF Chosen
  <2> QED
    BY <1>6
<1> HIDE DEF iter
<1>8. \A z \in SUBSET (1 .. n) : iter[z] = IF z = {} THEN c ELSE Step(iter[z \ {Max(z)}], seq[Max(z)])
  <2> HIDE DEF seq
  <2> QED
    BY <1>2, <1>7, Zenon
<1>9. ASSUME NEW z \in SUBSET (1 .. n), z # {}, iter[z \ {Max(z)}] \in V
      PROVE  Max(z) \in 1 .. n /\ iter[z] = G[<<iter[z \ {Max(z)}], Max(z)>>]
  <2>1. Max(z) \in z
    BY <1>9, MaxIsLast
  <2>2. seq[Max(z)] = Max(z) /\ Max(z) \in 1 .. n
    BY <2>1
  <2> QED
    BY <1>4, <1>8, <1>9, <2>2
<1>10. iter[{}] = c
  <2>1. {} \in SUBSET (1 .. n)
    OBVIOUS
  <2> HIDE DEF seq
  <2> QED
    BY <1>8, <2>1
<1>11. FoldingIn(iter, n, V, c, G)
  BY <1>9, <1>10 DEF FoldingIn
<1>12. /\ iter[1 .. n] \in Filling(Capacity)
       /\ TokensFed(Capacity, c, iter[1 .. n], log, n, FormatOf(strat), strat, metrics)
  <2> DEFINE fmt == FormatOf(strat)
  <2>1. fmt \in Format /\ log \in Seq(LogEntry)
    BY FormatType
  <2>2. Feeds(G, Capacity, log, n, fmt, strat, metrics)
    BY <1>3, <1>4 DEF Feeds, V
  <2>3. FoldingIn(iter, n, Filling(Capacity), c, G)
    BY <1>11 DEF V
  <2> HIDE DEF fmt, log
  <2>4. /\ iter[1 .. n] \in Filling(Capacity)
        /\ TokensFed(Capacity, c, iter[1 .. n], log, n, fmt, strat, metrics)
    BY <2>1, <2>2, <2>3, CapacityAssumption, TokensFoldKeeps
  <2> QED
    BY <2>4 DEF fmt
<1> QED
  BY <1>1, <1>2, <1>12

-----------------------------------------------------------------------------
(* What a replay leaves behind. *)

(* The same tokens leave the same vectors, but for their format. *)
LEMMA FedSlots ==
  ASSUME NEW c, NEW d, NEW log \in Seq(LogEntry), NEW n \in Nat, NEW own, NEW strat,
         Fed(Capacity, c, log, n, 0, FormatOf(own)), Fed(Capacity, d, log, n, 0, FormatOf(strat)),
         NEW i \in Idx
  PROVE  /\ d.storages[i].size \in Nat
         /\ d.storages[i].size = c.storages[i].size
         /\ d.storages[i].head = c.storages[i].head
         /\ d.cache_sizes[i] = c.cache_sizes[i]
         /\ \A s \in 0 .. c.storages[i].size - 1 :
              d.storages[i].data[s] = KV(c.storages[i].data[s].part, c.storages[i].data[s].tok, strat)
<1> DEFINE f == FormatOf(own)
           g == FormatOf(strat)
           st == c.storages[i]
           su == d.storages[i]
<1>1. f \in Format /\ g \in Format
  BY FormatType
<1>2. Fed(Capacity, c, log, n, 0, f) /\ Fed(Capacity, d, log, n, 0, g)
  OBVIOUS
<1> HIDE DEF f, g
<1>3. Share(n, 0, i) = n
  BY DEF Share, Idx
<1>4. Shaped(Capacity, c, i, n) /\ Shaped(Capacity, d, i, n)
  <2>1. Shaped(Capacity, c, i, Share(n, 0, i))
    BY <1>1, <1>2, CapacityAssumption, FedShape
  <2>2. Shaped(Capacity, d, i, Share(n, 0, i))
    BY <1>1, <1>2, CapacityAssumption, FedShape
  <2> QED
    BY <1>3, <2>1, <2>2
<1>5. /\ su.size = st.size /\ su.head = st.head /\ d.cache_sizes[i] = c.cache_sizes[i]
      /\ su.size \in Nat
  BY <1>4, CapacityAssumption DEF Shaped
<1>6. ASSUME NEW s \in 0 .. st.size - 1
      PROVE  su.data[s] = KV(st.data[s].part, st.data[s].tok, strat)
  <2>1. PICK t \in 0 .. Share(n, 0, i) - 1 :
          /\ t >= Share(n, 0, i) - Capacity
          /\ s \in {(2 * t) % (2 * Capacity), (2 * t + 1) % (2 * Capacity)}
    BY <1>1, <1>2, CapacityAssumption, FedSlot
  <2> DEFINE tok == log[Place(t, i)].tok
  <2>2. HasPair(Capacity, c, i, t, PairOf(tok, f))
    BY <1>1, <1>2, <2>1, CapacityAssumption, FedHas
  <2>3. HasPair(Capacity, d, i, t, PairOf(tok, g))
    BY <1>1, <1>2, <2>1, CapacityAssumption, FedHas
  <2> HIDE DEF tok
  <2>4. CASE s = (2 * t) % (2 * Capacity)
    <3>1. st.data[s] = [part |-> "K", tok |-> tok, fmt |-> f]
      BY <2>2, <2>4 DEF HasPair, PairOf
    <3>2. su.data[s] = [part |-> "K", tok |-> tok, fmt |-> g]
      BY <2>3, <2>4 DEF HasPair, PairOf
    <3> QED
      BY <3>1, <3>2 DEF KV, g
  <2>5. CASE s = (2 * t + 1) % (2 * Capacity)
    <3>1. st.data[s] = [part |-> "V", tok |-> tok, fmt |-> f]
      BY <2>2, <2>5 DEF HasPair, PairOf
    <3>2. su.data[s] = [part |-> "V", tok |-> tok, fmt |-> g]
      BY <2>3, <2>5 DEF HasPair, PairOf
    <3> QED
      BY <3>1, <3>2 DEF KV, g
  <2> QED
    BY <2>1, <2>4, <2>5
<1> QED
  BY <1>5, <1>6

LEMMA FedHeld ==
  ASSUME NEW c, NEW d, NEW log \in Seq(LogEntry), NEW n \in Nat, NEW own, NEW strat,
         Fed(Capacity, c, log, n, 0, FormatOf(own)), Fed(Capacity, d, log, n, 0, FormatOf(strat))
  PROVE  Held(d) = Repacked(Held(c), strat)
<1> DEFINE HeadHeld(x, i) ==
             [size |-> x.storages[i].size, head |-> x.storages[i].head,
              used |-> [s \in 0 .. x.storages[i].size - 1 |-> x.storages[i].data[s]],
              n    |-> x.cache_sizes[i]]
           Again(h) == [h EXCEPT !.used = [s \in DOMAIN @ |-> KV(@[s].part, @[s].tok, strat)]]
<1>1. Held(d) = [i \in Idx |-> HeadHeld(d, i)] /\ Held(c) = [i \in Idx |-> HeadHeld(c, i)]
  BY DEF Held
<1>2. ASSUME NEW i \in Idx
      PROVE  HeadHeld(d, i) = Again(HeadHeld(c, i))
  <2> DEFINE st == c.storages[i]
             su == d.storages[i]
             u == [s \in 0 .. st.size - 1 |-> st.data[s]]
             v == [s \in 0 .. su.size - 1 |-> su.data[s]]
             w == [s \in DOMAIN u |-> KV(u[s].part, u[s].tok, strat)]
  <2>1. /\ su.size = st.size /\ su.head = st.head /\ d.cache_sizes[i] = c.cache_sizes[i]
        /\ \A s \in 0 .. st.size - 1 : su.data[s] = KV(st.data[s].part, st.data[s].tok, strat)
    BY FedSlots
  <2> HIDE DEF st, su
  <2>2. DOMAIN u = 0 .. st.size - 1 /\ \A s \in 0 .. st.size - 1 : u[s] = st.data[s]
    OBVIOUS
  <2>3. v = w
    <3> HIDE DEF u
    <3>1. w = [s \in 0 .. st.size - 1 |-> KV(u[s].part, u[s].tok, strat)]
      BY <2>2, Zenon
    <3>2. v = [s \in 0 .. st.size - 1 |-> su.data[s]]
      BY <2>1, Zenon
    <3>3. \A s \in 0 .. st.size - 1 : su.data[s] = KV(u[s].part, u[s].tok, strat)
      BY <2>1, <2>2
    <3> QED
      BY <3>1, <3>2, <3>3
  <2>4. HeadHeld(c, i) = [size |-> st.size, head |-> st.head, used |-> u, n |-> c.cache_sizes[i]]
    BY DEF st
  <2>5. HeadHeld(d, i) = [size |-> su.size, head |-> su.head, used |-> v, n |-> d.cache_sizes[i]]
    BY DEF su
  <2> DEFINE h == HeadHeld(c, i)
  <2>6. Again(h) = [h EXCEPT !.used = [s \in DOMAIN h.used |-> KV(h.used[s].part, h.used[s].tok, strat)]]
    BY Zenon
  <2> HIDE DEF HeadHeld, Again, u, v
  <2>7. h.used = u
    BY <2>4
  <2>8. Again(h) = [h EXCEPT !.used = w]
    BY <2>6, <2>7, Zenon
  <2> HIDE DEF w
  <2>9. Again(h) = [size |-> st.size, head |-> st.head, used |-> w, n |-> c.cache_sizes[i]]
    BY <2>4, <2>8
  <2> QED
    BY <2>1, <2>3, <2>5, <2>9
<1>3. Repacked(Held(c), strat) = [i \in Idx |-> Again(Held(c)[i])]
  BY Zenon DEF Repacked
<1> HIDE DEF HeadHeld, Again
<1>4. \A i \in Idx : Held(c)[i] = HeadHeld(c, i)
  BY <1>1
<1>5. \A i \in Idx : HeadHeld(d, i) = Again(Held(c)[i])
  BY <1>2, <1>4, Zenon
<1>6. [i \in Idx |-> HeadHeld(d, i)] = [i \in Idx |-> Again(Held(c)[i])]
  BY <1>5
<1> QED
  BY <1>1, <1>3, <1>6, Zenon

-----------------------------------------------------------------------------
(* The session.  c is a session at work and held what it held after each   *)
(* of its tokens: it is where feeding its own log would have left it.      *)

TurnOf(c) == Len(c.token_log) % NIdx

Holding == {Held(c) : c \in ContextOf(Capacity)}

Recorded(held, log, n) ==
  /\ held \in Seq(Holding) /\ Len(held) = n + 1
  /\ \A k \in 0 .. n : \E c : Fed(Capacity, c, log, k, 0, FormatOf(Own)) /\ held[k + 1] = Held(c)

SessionAt(c, held) ==
  /\ c \in ContextOf(Capacity)
  /\ Len(c.token_log) = NIdx * c.token_pos + TurnOf(c)
  /\ \A l \in 1 .. Len(c.token_log) : c.token_log[l].idx = (l - 1) % NIdx
  /\ Fed(Capacity, c, c.token_log, c.token_pos, TurnOf(c), FormatOf(Own))
  /\ Recorded(held, c.token_log, c.token_pos)

LEMMA SessionType ==
  ASSUME NEW c, NEW held, SessionAt(c, held)
  PROVE  /\ c \in ContextOf(Capacity)
         /\ c.token_log \in Seq(LogEntry) /\ Len(c.token_log) \in Nat
         /\ c.token_pos \in Nat /\ TurnOf(c) \in Idx
<1>1. /\ c \in ContextOf(Capacity)
      /\ c.token_log \in Seq(LogEntry) /\ Len(c.token_log) \in Nat /\ c.token_pos \in Nat
  BY DEF SessionAt, ContextOf
<1>2. TurnOf(c) \in 0 .. NIdx - 1
  BY <1>1, NIdxAssumption, DivMod DEF TurnOf
<1> QED
  BY <1>1, <1>2 DEF Idx

LEMMA SessionStarts ==
  ASSUME NEW c \in ContextOf(Capacity), \A i \in Idx : HeadHas(Capacity, c, i, <<>>),
         c.token_log = <<>>, c.token_pos = 0
  PROVE  SessionAt(c, <<Held(c)>>)
<1> DEFINE h == Held(c)
           fmt == FormatOf(Own)
<1>1. <<>> \in Seq(LogEntry) /\ Len(<<>>) = 0
  OBVIOUS
<1>2. TurnOf(c) = 0
  BY <1>1, NIdxAssumption DEF TurnOf
<1>3. NIdx * 0 + 0 = 0
  BY NIdxAssumption
<1>4. Fed(Capacity, c, <<>>, 0, 0, fmt)
  <2> HIDE DEF fmt
  <2> QED
    BY <1>1, CapacityAssumption, FedNothing
<1>5. h \in Holding
  BY DEF Holding
<1> HIDE DEF h, fmt
<1>6. <<h>> \in Seq(Holding) /\ Len(<<h>>) = 0 + 1 /\ <<h>>[0 + 1] = h
  BY <1>5
<1>7. \A k \in 0 .. 0 : k = 0
  OBVIOUS
<1>8. Recorded(<<h>>, <<>>, 0)
  <2>1. ASSUME NEW k \in 0 .. 0
        PROVE  \E x : Fed(Capacity, x, <<>>, k, 0, fmt) /\ <<h>>[k + 1] = Held(x)
    <3>1. k = 0
      BY <1>7
    <3>2. Fed(Capacity, c, <<>>, 0, 0, fmt) /\ <<h>>[0 + 1] = Held(c)
      BY <1>4, <1>6 DEF h
    <3> QED
      BY <3>1, <3>2
  <2> QED
    BY <1>6, <2>1 DEF Recorded, fmt
<1>9. \A l \in 1 .. Len(<<>>) : c.token_log[l].idx = (l - 1) % NIdx
  OBVIOUS
<1> QED
  BY <1>1, <1>2, <1>3, <1>4, <1>8, <1>9 DEF SessionAt, h, fmt

LEMMA RecordedLonger ==
  ASSUME NEW held, NEW log \in Seq(LogEntry), NEW long \in Seq(LogEntry), NEW n \in Nat,
         Recorded(held, log, n), Len(log) <= Len(long), \A i \in 1 .. Len(log) : long[i] = log[i]
  PROVE  Recorded(held, long, n)
<1> DEFINE fmt == FormatOf(Own)
<1>1. fmt \in Format
  BY FormatType
<1>2. \A k \in 0 .. n : \E c : Fed(Capacity, c, log, k, 0, fmt) /\ held[k + 1] = Held(c)
  BY DEF Recorded
<1> HIDE DEF fmt
<1>3. ASSUME NEW k \in 0 .. n
      PROVE  \E c : Fed(Capacity, c, long, k, 0, fmt) /\ held[k + 1] = Held(c)
  <2>1. PICK c : Fed(Capacity, c, log, k, 0, fmt) /\ held[k + 1] = Held(c)
    BY <1>2
  <2>2. k \in Nat /\ 0 \in Nat
    OBVIOUS
  <2>3. Fed(Capacity, c, long, k, 0, fmt)
    BY <1>1, <2>1, <2>2, FedPrefix
  <2> QED
    BY <2>1, <2>3
<1> QED
  BY <1>3 DEF Recorded, fmt

LEMMA RecordedNext ==
  ASSUME NEW held, NEW log \in Seq(LogEntry), NEW n \in Nat, Recorded(held, log, n),
         NEW d \in ContextOf(Capacity), Fed(Capacity, d, log, n + 1, 0, FormatOf(Own))
  PROVE  Recorded(Append(held, Held(d)), log, n + 1)
<1> DEFINE fmt == FormatOf(Own)
           h == Held(d)
           b == Append(held, h)
<1>1. h \in Holding
  BY DEF Holding
<1>2. /\ held \in Seq(Holding) /\ Len(held) = n + 1
      /\ \A k \in 0 .. n : \E c : Fed(Capacity, c, log, k, 0, fmt) /\ held[k + 1] = Held(c)
  BY DEF Recorded
<1>3. Fed(Capacity, d, log, n + 1, 0, fmt)
  OBVIOUS
<1> HIDE DEF fmt
<1>4. h = Held(d)
  OBVIOUS
<1> HIDE DEF h
<1>5. /\ b \in Seq(Holding) /\ Len(b) = (n + 1) + 1 /\ b[(n + 1) + 1] = h
      /\ \A i \in 1 .. n + 1 : b[i] = held[i]
  BY <1>1, <1>2, AppendProperties
<1> HIDE DEF b
<1>6. ASSUME NEW k \in 0 .. n + 1
      PROVE  \E c : Fed(Capacity, c, log, k, 0, fmt) /\ b[k + 1] = Held(c)
  <2>1. CASE k = n + 1
    BY <1>3, <1>4, <1>5, <2>1
  <2>2. CASE k # n + 1
    <3>1. k \in 0 .. n /\ k + 1 \in 1 .. n + 1
      BY <2>2
    <3>2. PICK c : Fed(Capacity, c, log, k, 0, fmt) /\ held[k + 1] = Held(c)
      BY <1>2, <3>1
    <3> QED
      BY <1>5, <3>1, <3>2
  <2> QED
    BY <2>1, <2>2
<1> QED
  BY <1>5, <1>6 DEF Recorded, b, h, fmt

LEMMA SessionAppends ==
  ASSUME NEW c, NEW held, SessionAt(c, held), NEW tok \in Token
  PROVE  LET d == AppendContext(c, TurnOf(c), tok, Own)
         IN SessionAt(d, IF TurnOf(c) = NIdx - 1 THEN Append(held, Held(d)) ELSE held)
<1> DEFINE j == TurnOf(c)
           log == c.token_log
           t == c.token_pos
           fmt == FormatOf(Own)
           p == PairOf(tok, fmt)
           e == [idx |-> j, tok |-> tok]
           long == Append(log, e)
           d == AppendContext(c, j, tok, Own)
           now == IF j = NIdx - 1 THEN Append(held, Held(d)) ELSE held
<1>1. /\ c \in ContextOf(Capacity)
      /\ log \in Seq(LogEntry) /\ Len(log) \in Nat /\ t \in Nat /\ j \in Idx
  BY SessionType
<1>2. /\ Len(log) = NIdx * t + j /\ j = Len(log) % NIdx
      /\ \A l \in 1 .. Len(log) : log[l].idx = (l - 1) % NIdx
      /\ Fed(Capacity, c, log, t, j, fmt)
      /\ Recorded(held, log, t)
  BY DEF SessionAt, TurnOf
<1>3. fmt \in Format /\ Capacity \in Nat \ {0} /\ NIdx \in Nat \ {0}
  BY FormatType, CapacityAssumption, NIdxAssumption
<1>4. d = Extended(Capacity, c, j, tok, p)
  BY AppendExtends
<1>5. d.token_log = long /\ d.token_pos = IF j = NIdx - 1 THEN t + 1 ELSE t
  BY LoggingAssumption DEF AppendContext
<1> HIDE DEF j, log, t, fmt, p, d
<1>6. /\ long \in Seq(LogEntry) /\ Len(long) = Len(log) + 1
      /\ \A l \in 1 .. Len(log) : long[l] = log[l]
      /\ long[Len(log) + 1] = e
  <2>1. e \in LogEntry
    BY <1>1 DEF LogEntry
  <2> HIDE DEF e
  <2> QED
    BY <1>1, <2>1, AppendProperties
<1> HIDE DEF long
<1>7. Place(t, j) = Len(long) /\ long[Place(t, j)].tok = tok
  <2>1. Place(t, j) = Len(log) + 1
    BY <1>2 DEF Place
  <2> QED
    BY <1>6, <2>1
<1>8. Fed(Capacity, d, long, t, j + 1, fmt)
  <2>1. j \in Nat
    BY <1>1 DEF Idx
  <2>2. Len(log) <= Len(long)
    BY <1>1, <1>6
  <2>3. Fed(Capacity, c, long, t, j, fmt)
    BY <1>1, <1>2, <1>3, <1>6, <2>1, <2>2, FedPrefix
  <2>4. Place(t, j) <= Len(long)
    BY <1>1, <1>6, <1>7
  <2>5. Fed(Capacity, Extended(Capacity, c, j, long[Place(t, j)].tok, PairOf(long[Place(t, j)].tok, fmt)),
            long, t, j + 1, fmt)
    BY <1>1, <1>3, <1>6, <2>3, <2>4, FedNext
  <2> QED
    BY <1>4, <1>7, <2>5 DEF p
<1>9. d \in ContextOf(Capacity)
  BY <1>8 DEF Fed
<1>10. \A l \in 1 .. Len(long) : long[l].idx = (l - 1) % NIdx
  <2> TAKE l \in 1 .. Len(long)
  <2>1. CASE l = Len(log) + 1
    <3>1. long[l].idx = j
      BY <1>6, <2>1
    <3>2. l - 1 = Len(log)
      BY <1>1, <2>1
    <3> QED
      BY <1>2, <3>1, <3>2
  <2>2. CASE l # Len(log) + 1
    <3>1. l \in 1 .. Len(log)
      BY <1>1, <1>6, <2>2
    <3> QED
      BY <1>2, <1>6, <3>1
  <2> QED
    BY <2>1, <2>2
<1>11. Recorded(held, long, t)
  <2>1. Len(log) <= Len(long)
    BY <1>1, <1>6
  <2> QED
    BY <1>1, <1>2, <1>6, <2>1, RecordedLonger
<1>12. CASE j = NIdx - 1
  <2>1. Fed(Capacity, d, long, t + 1, 0, fmt)
    <3>1. j + 1 = NIdx
      BY <1>3, <1>12
    <3>2. Fed(Capacity, d, long, t, NIdx, fmt)
      BY <1>8, <3>1
    <3> QED
      BY <1>1, <3>2, FedWhole
  <2>2. d.token_pos = t + 1 /\ now = Append(held, Held(d))
    BY <1>5, <1>12
  <2>3. Len(long) = NIdx * (t + 1) + 0
    <3>1. NIdx * (t + 1) = NIdx * t + NIdx /\ NIdx * t \in Nat
      BY <1>1, <1>3
    <3> DEFINE x == NIdx * t
               y == NIdx * (t + 1)
    <3>2. y = x + NIdx /\ x \in Nat /\ Len(long) = (x + j) + 1
      BY <1>2, <1>6, <3>1
    <3> HIDE DEF x, y
    <3>3. Len(long) = y + 0
      BY <1>3, <1>12, <3>2
    <3> QED
      BY <3>3 DEF y
  <2>4. Len(long) % NIdx = 0
    <3>1. t + 1 \in Int /\ 0 \in 0 .. NIdx - 1 /\ Len(long) \in Nat
      BY <1>1, <1>3, <1>6
    <3> QED
      BY <1>3, <2>3, <3>1, DivUnique
  <2>5. Recorded(now, long, t + 1)
    <3>1. Recorded(Append(held, Held(d)), long, t + 1)
      BY <1>1, <1>6, <1>9, <1>11, <2>1, RecordedNext DEF fmt
    <3> QED
      BY <2>2, <3>1
  <2> HIDE DEF now
  <2>6. TurnOf(d) = 0
    BY <1>5, <2>4 DEF TurnOf
  <2>7. SessionAt(d, now)
    BY <1>5, <1>9, <1>10, <2>1, <2>2, <2>3, <2>5, <2>6 DEF SessionAt, fmt
  <2> QED
    BY <2>7 DEF now, d, j
<1>13. CASE j # NIdx - 1
  <2>1. d.token_pos = t /\ now = held
    BY <1>5, <1>13
  <2>2. Len(long) = NIdx * t + (j + 1) /\ j + 1 \in 0 .. NIdx - 1 /\ Len(long) \in Nat
    <3>1. NIdx * t \in Nat /\ j \in 0 .. NIdx - 1
      BY <1>1, <1>3 DEF Idx
    <3> DEFINE x == NIdx * t
    <3>2. Len(long) = (x + j) + 1 /\ x \in Nat
      BY <1>2, <1>6, <3>1
    <3> HIDE DEF x
    <3>3. Len(long) = x + (j + 1)
      BY <3>1, <3>2
    <3>4. j + 1 \in 0 .. NIdx - 1
      BY <1>3, <1>13, <3>1
    <3> QED
      BY <1>1, <1>6, <3>3, <3>4 DEF x
  <2>3. Len(long) % NIdx = j + 1
    <3> DEFINE r == j + 1
    <3>1. r \in 0 .. NIdx - 1 /\ Len(long) \in Nat /\ Len(long) = NIdx * t + r /\ t \in Int
      BY <1>1, <2>2
    <3> HIDE DEF r
    <3>2. Len(long) % NIdx = r
      BY <1>3, <3>1, DivUnique
    <3> QED
      BY <3>2 DEF r
  <2> HIDE DEF now
  <2>4. TurnOf(d) = j + 1
    BY <1>5, <2>3 DEF TurnOf
  <2>5. SessionAt(d, now)
    BY <1>5, <1>8, <1>9, <1>10, <1>11, <2>1, <2>2, <2>4 DEF SessionAt, fmt
  <2> QED
    BY <2>5 DEF now, d, j
<1> QED
  BY <1>12, <1>13

LEMMA NewSession ==
  /\ SessionAt(InitContext, <<Held(InitContext)>>)
  /\ \A c \in ContextOf(Capacity) : /\ SessionAt(ResetContext(c), <<Held(ResetContext(c))>>)
                                    /\ ResetContext(c) = Reset(Capacity, c)
<1>1. SessionAt(InitContext, <<Held(InitContext)>>)
  <2> DEFINE c == NewContext(Capacity)
  <2>1. c \in ContextOf(Capacity) /\ \A i \in Idx : HeadHas(Capacity, c, i, <<>>)
    BY CapacityAssumption, NewHas
  <2>2. c.token_log = <<>> /\ c.token_pos = 0
    BY DEF NewContext
  <2> HIDE DEF c
  <2>3. SessionAt(c, <<Held(c)>>)
    BY <2>1, <2>2, SessionStarts
  <2> QED
    BY <2>3 DEF c, InitContext
<1>2. ASSUME NEW c \in ContextOf(Capacity)
      PROVE  SessionAt(ResetContext(c), <<Held(ResetContext(c))>>) /\ ResetContext(c) = Reset(Capacity, c)
  <2> DEFINE r == ResetContext(c)
  <2>1. r = Reset(Capacity, c)
    BY DEF ResetContext, InitContext, Reset
  <2>2. r \in ContextOf(Capacity) /\ \A i \in Idx : HeadHas(Capacity, r, i, <<>>)
    BY <2>1, CapacityAssumption, ResetHas
  <2>3. r.token_log = <<>> /\ r.token_pos = 0
    BY DEF ResetContext, InitContext, NewContext
  <2> HIDE DEF r
  <2>4. SessionAt(r, <<Held(r)>>)
    BY <2>2, <2>3, SessionStarts
  <2> QED
    BY <2>1, <2>4 DEF r
<1> QED
  BY <1>1, <1>2

-----------------------------------------------------------------------------
(* Sessions, their snapshots and the context replayed into. *)

ReplayInv ==
  /\ SessionAt(ctx, past)
  /\ snap # NoSnap => \E c : SessionAt(c, snap_past) /\ snap = Capture(c)
  /\ target \in ContextOf(Capacity)

(* A session has logged all heads of its tokens. *)
LEMMA LogReaches ==
  ASSUME NEW c, NEW held, SessionAt(c, held), NEW n \in 0 .. c.token_pos
  PROVE  NIdx * n <= Len(c.token_log)
<1>1. c.token_pos \in Nat /\ TurnOf(c) \in Nat /\ NIdx \in Nat
  BY SessionType, NIdxAssumption DEF Idx
<1>2. NIdx * n <= NIdx * c.token_pos
  <2>1. NIdx \in Nat /\ n \in Int /\ c.token_pos \in Int /\ n <= c.token_pos
    BY <1>1
  <2> QED
    BY <2>1, TimesMonotone
<1>3. Len(c.token_log) = NIdx * c.token_pos + TurnOf(c)
  BY DEF SessionAt
<1> DEFINE y == NIdx * c.token_pos
           z == NIdx * n
<1>4. y \in Nat /\ z \in Nat /\ z <= y /\ Len(c.token_log) = y + TurnOf(c)
  BY <1>1, <1>2, <1>3
<1> HIDE DEF y, z
<1>5. z <= Len(c.token_log)
  BY <1>1, <1>4
<1> QED
  BY <1>5 DEF z

(* What a replay of the first n tokens of a session makes of any context. *)
LEMMA ReplayGives ==
  ASSUME NEW c, NEW held, SessionAt(c, held), NEW s, s.token_log = c.token_log,
         NEW x \in ContextOf(Capacity), NEW n \in 0 .. c.token_pos,
         NEW strat \in Strategy, NEW metrics \in BOOLEAN
  PROVE  LET d == FeedTokens(ResetContext(x), s, n, strat, metrics)
         IN d \in ContextOf(Capacity) /\ Held(d) = Repacked(held[n + 1], strat)
<1> DEFINE log == c.token_log
           r == ResetContext(x)
           d == FeedTokens(r, s, n, strat, metrics)
           fmt == FormatOf(strat)
<1>1. /\ log \in Seq(LogEntry) /\ Len(log) \in Nat /\ c.token_pos \in Nat /\ TurnOf(c) \in Idx
      /\ s.token_log = log
  BY SessionType
<1>2. n \in Nat /\ n <= c.token_pos /\ fmt \in Format /\ Capacity \in Nat \ {0} /\ 0 \in Nat
  BY <1>1, FormatType, CapacityAssumption
<1>3. NIdx * n <= Len(log)
  BY LogReaches
<1>4. PICK y : Fed(Capacity, y, log, n, 0, FormatOf(Own)) /\ held[n + 1] = Held(y)
  BY <1>1, <1>2 DEF SessionAt, Recorded
<1>5. r \in ContextOf(Capacity) /\ \A i \in Idx : HeadHas(Capacity, r, i, <<>>)
  BY <1>2, NewSession, ResetHas
<1> HIDE DEF log, r, fmt
<1>6. Fed(Capacity, r, log, 0, 0, fmt)
  BY <1>1, <1>2, <1>5, FedNothing
<1>7. r \in Filling(Capacity)
  BY <1>1, <1>2, <1>6, FedFills
<1>8. TokensFed(Capacity, r, d, log, n, fmt, strat, metrics)
  BY <1>1, <1>2, <1>7, FeedTokensKeeps DEF fmt
<1> HIDE DEF d
<1>9. Fed(Capacity, d, log, n, 0, FormatOf(strat))
  BY <1>3, <1>6, <1>8 DEF TokensFed, fmt
<1>10. Held(d) = Repacked(Held(y), strat)
  BY <1>1, <1>2, <1>4, <1>9, FedHeld
<1>11. d \in ContextOf(Capacity)
  BY <1>9 DEF Fed
<1> QED
  BY <1>4, <1>10, <1>11 DEF d, r

LEMMA ReplayStep ==
  ASSUME ReplayInv, snap # NoSnap, NEW n \in 0 .. snap.n_tokens, NEW metrics \in BOOLEAN
  PROVE  LET d == FeedTokens(ResetContext(target), snap, n, Target, metrics)
         IN d \in ContextOf(Capacity) /\ Held(d) = Repacked(snap_past[n + 1], Target)
<1>1. PICK c : SessionAt(c, snap_past) /\ snap = Capture(c)
  BY DEF ReplayInv
<1>2. snap.token_log = c.token_log /\ snap.n_tokens = c.token_pos
  BY <1>1 DEF Capture
<1>3. target \in ContextOf(Capacity) /\ Target \in Strategy
  BY StrategiesAssumption DEF ReplayInv
<1>4. n \in 0 .. c.token_pos
  BY <1>2
<1> QED
  BY <1>1, <1>2, <1>3, <1>4, ReplayGives

LEMMA TokensCaptured ==
  ASSUME ReplayInv, snap # NoSnap
  PROVE  snap.n_tokens \in Nat
<1>1. PICK c : SessionAt(c, snap_past) /\ snap = Capture(c)
  BY DEF ReplayInv
<1> QED
  BY <1>1, SessionType DEF Capture

(* The session is always where its own log would have left it, and so was  *)
(* the one the snapshot was taken of.                                      *)
THEOREM ReplayInvariant == Spec => []ReplayInv
<1>1. Init => ReplayInv
  <2> SUFFICES ASSUME Init
               PROVE  ReplayInv
    OBVIOUS
  <2>1. SessionAt(ctx, past)
    BY NewSession DEF Init
  <2>2. InitContext \in ContextOf(Capacity)
    BY NewSession DEF SessionAt
  <2> QED
    BY <2>1, <2>2 DEF Init, ReplayInv
<1>2. ReplayInv /\ [Next]_vars => ReplayInv'
  <2> SUFFICES ASSUME ReplayInv, [Next]_vars
               PROVE  ReplayInv'
    OBVIOUS
  <2>1. ASSUME NEW tok \in Token, append(tok)
        PROVE  ReplayInv'
    <3>1. Turn = TurnOf(ctx)
      BY DEF Turn, TurnOf
    <3>2. /\ ctx' = AppendContext(ctx, TurnOf(ctx), tok, Own)
          /\ past' = IF TurnOf(ctx) = NIdx - 1 THEN Append(past, Held(ctx')) ELSE past
      BY <2>1, <3>1 DEF append
    <3>3. SessionAt(ctx, past)
      BY DEF ReplayInv
    <3>4. SessionAt(ctx', past')
      BY <3>2, <3>3, SessionAppends
    <3> QED
      BY <2>1, <3>4 DEF ReplayInv, append
  <2>2. ASSUME reset
        PROVE  ReplayInv'
    <3>1. ctx \in ContextOf(Capacity)
      BY DEF ReplayInv, SessionAt
    <3>2. SessionAt(ctx', past')
      BY <2>2, <3>1, NewSession DEF reset
    <3> QED
      BY <2>2, <3>2 DEF ReplayInv, reset
  <2>3. ASSUME capture
        PROVE  ReplayInv'
    <3>1. SessionAt(ctx, past) /\ snap' = Capture(ctx) /\ snap_past' = past
      BY <2>3 DEF ReplayInv, capture
    <3>2. \E c : SessionAt(c, snap_past') /\ snap' = Capture(c)
      BY <3>1
    <3> QED
      BY <2>3, <3>2 DEF ReplayInv, capture
  <2>4. ASSUME replay
        PROVE  ReplayInv'
    <3>1. PICK metrics \in BOOLEAN : target' = ReplayInto(target, snap, Target, metrics)
      BY <2>4 DEF replay
    <3>2. snap # NoSnap /\ snap.n_tokens \in 0 .. snap.n_tokens
      BY <2>4, TokensCaptured DEF replay, HasTokenLog
    <3>3. target' \in ContextOf(Capacity)
      BY <3>1, <3>2, ReplayStep DEF ReplayInto
    <3> QED
      BY <2>4, <3>3 DEF ReplayInv, replay
  <2>5. ASSUME NEW k \in 0 .. MaxTokens, branch(k)
        PROVE  ReplayInv'
    <3>1. /\ snap # NoSnap /\ k \in 0 .. snap.n_tokens
          /\ target' = FeedTokens(ResetContext(target), snap, k, Target, FALSE)
      BY <2>5 DEF branch, HasTokenLog, BranchInto
    <3>2. target' \in ContextOf(Capacity)
      BY <3>1, ReplayStep
    <3> QED
      BY <2>5, <3>2 DEF ReplayInv, branch
  <2>6. CASE UNCHANGED vars
    BY <2>6 DEF ReplayInv, vars
  <2> QED
    BY <2>1, <2>2, <2>3, <2>4, <2>5, <2>6 DEF Next
<1> QED
  BY <1>1, <1>2, PTL DEF Spec

(* A full replay into any used context, with and without metrics: what the *)
(* session held after the last whole token captured, in the target's       *)
(* format, for every number of heads, capacity, bit width and session.     *)
THEOREM ReplaysReproduce == Spec => ReplayReproduces
<1> DEFINE A == replay => Held(target') = Repacked(snap_past[snap.n_tokens + 1], Target)
<1>1. ReplayInv => A
  <2> SUFFICES ASSUME ReplayInv, replay
               PROVE  Held(target') = Repacked(snap_past[snap.n_tokens + 1], Target)
    OBVIOUS
  <2>1. PICK metrics \in BOOLEAN : target' = ReplayInto(target, snap, Target, metrics)
    BY DEF replay
  <2>2. snap # NoSnap /\ snap.n_tokens \in 0 .. snap.n_tokens
    BY TokensCaptured DEF replay, HasTokenLog
  <2> QED
    BY <2>1, <2>2, ReplayStep DEF ReplayInto
<1> HIDE DEF A
<1>2. Spec => [][A]_vars
  BY <1>1, ReplayInvariant, PTL
<1> QED
  BY <1>2 DEF A, ReplayReproduces

(* The same of a branch, up to the token it is taken at. *)
THEOREM BranchesReproduce == Spec => BranchReproduces
<1> DEFINE A == \A k \in 0 .. MaxTokens :
                  branch(k) => Held(target') = Repacked(snap_past[k + 1], Target)
<1>1. ReplayInv => A
  <2> SUFFICES ASSUME ReplayInv, NEW k \in 0 .. MaxTokens, branch(k)
               PROVE  Held(target') = Repacked(snap_past[k + 1], Target)
    OBVIOUS
  <2>1. /\ snap # NoSnap /\ k \in 0 .. snap.n_tokens
        /\ target' = FeedTokens(ResetContext(target), snap, k, Target, FALSE)
    BY DEF branch, HasTokenLog, BranchInto
  <2> QED
    BY <2>1, ReplayStep
<1> HIDE DEF A
<1>2. Spec => [][A]_vars
  BY <1>1, ReplayInvariant, PTL
<1> QED
  BY <1>2 DEF A, BranchReproduces

-----------------------------------------------------------------------------
(* The window of a snapshot. *)

LEMMA PlacesApart ==
  ASSUME NEW t \in Nat, NEW u \in Nat, NEW h \in Idx, t < u
  PROVE  Place(t, h) < Place(u, h)
<1>1. NIdx \in Nat \ {0} /\ h \in Nat
  BY NIdxAssumption DEF Idx
<1>2. NIdx * (t + 1) <= NIdx * u
  <2>1. NIdx \in Nat /\ t + 1 \in Int /\ u \in Int /\ t + 1 <= u
    BY <1>1
  <2> QED
    BY <2>1, TimesMonotone
<1> DEFINE x == NIdx * t
           y == NIdx * u
<1>3. NIdx * (t + 1) = x + NIdx /\ x \in Nat /\ y \in Nat
  BY <1>1
<1>4. x + NIdx <= y
  BY <1>2, <1>3
<1> HIDE DEF x, y
<1>5. x + h + 1 < y + h + 1
  BY <1>1, <1>3, <1>4
<1> QED
  BY <1>5 DEF Place, x, y

(* The entries of a head in a session's log. *)
LEMMA EntriesOfHead ==
  ASSUME NEW c, NEW held, SessionAt(c, held), NEW i \in Idx, NEW l \in 1 .. Len(c.token_log)
  PROVE  c.token_log[l].idx = i
           <=> \E t \in 0 .. Share(c.token_pos, TurnOf(c), i) - 1 : l = Place(t, i)
<1> DEFINE log == c.token_log
           n == c.token_pos
           j == TurnOf(c)
           m == Share(n, j, i)
           q == (l - 1) \div NIdx
           r == (l - 1) % NIdx
<1>1. /\ NIdx \in Nat \ {0} /\ log \in Seq(LogEntry) /\ Len(log) \in Nat /\ n \in Nat
      /\ j \in 0 .. NIdx - 1 /\ i \in 0 .. NIdx - 1
  BY SessionType, NIdxAssumption DEF Idx
<1>2. Len(log) = NIdx * n + j /\ log[l].idx = r
  BY DEF SessionAt
<1>3. l - 1 \in Nat /\ l \in Nat /\ l <= Len(log)
  BY <1>1
<1>4. q \in Int /\ r \in 0 .. NIdx - 1 /\ l - 1 = NIdx * q + r
  BY <1>1, <1>3, DivMod
<1> HIDE DEF log, n, j, q, r
<1>5. q >= 0 /\ q <= n /\ (q = n => r < j)
  <2> DEFINE x == NIdx * q
             y == NIdx * n
  <2>1. x \in Int /\ y \in Nat
    BY <1>1, <1>4
  <2>2. l - 1 = x + r /\ Len(log) = y + j
    BY <1>2, <1>4
  <2>3. q < 0 => x <= -NIdx
    <3>1. q < 0 => NIdx * q <= NIdx * (-1)
      <4>1. NIdx \in Nat /\ q \in Int /\ -1 \in Int /\ (q < 0 => q <= -1)
        BY <1>1, <1>4
      <4> QED
        BY <4>1, TimesMonotone
    <3> QED
      BY <1>1, <3>1
  <2>4. q > n => x >= y + NIdx
    <3>1. q > n => NIdx * (n + 1) <= NIdx * q
      <4>1. NIdx \in Nat /\ q \in Int /\ n + 1 \in Int /\ (q > n => n + 1 <= q)
        BY <1>1, <1>4
      <4> QED
        BY <4>1, TimesMonotone
    <3>2. NIdx * (n + 1) = NIdx * n + NIdx
      BY <1>1
    <3> QED
      BY <1>1, <2>1, <3>1, <3>2
  <2>5. q = n => x = y
    OBVIOUS
  <2> HIDE DEF x, y
  <2>6. x + r < y + j /\ x + r >= 0
    BY <1>1, <1>3, <1>4, <2>1, <2>2
  <2> QED
    BY <1>1, <1>4, <2>1, <2>3, <2>4, <2>5, <2>6
<1>6. ASSUME r = i
      PROVE  \E t \in 0 .. m - 1 : l = Place(t, i)
  <2>1. q \in 0 .. m - 1
    BY <1>1, <1>4, <1>5, <1>6 DEF Share
  <2>2. l = Place(q, i)
    <3> DEFINE x == NIdx * q
    <3>1. x \in Int
      BY <1>1, <1>4
    <3>2. l - 1 = x + i
      BY <1>4, <1>6
    <3> HIDE DEF x
    <3>3. l = x + i + 1
      BY <1>1, <1>3, <3>1, <3>2
    <3> QED
      BY <3>3 DEF Place, x
  <2> QED
    BY <2>1, <2>2
<1>7. ASSUME NEW t \in 0 .. m - 1, l = Place(t, i)
      PROVE  r = i
  <2>1. t \in Int
    BY <1>1 DEF Share
  <2> DEFINE x == NIdx * t
  <2>2. x \in Int /\ l = x + i + 1
    BY <1>1, <1>7, <2>1 DEF Place
  <2> HIDE DEF x
  <2>3. l - 1 = x + i
    BY <1>1, <1>3, <2>2
  <2> DEFINE k == l - 1
  <2>4. k \in Nat /\ k = NIdx * t + i
    BY <1>3, <2>3 DEF x
  <2> HIDE DEF k
  <2>5. k % NIdx = i
    BY <1>1, <2>1, <2>4, DivUnique
  <2> QED
    BY <2>5 DEF r, k
<1> QED
  BY <1>2, <1>6, <1>7 DEF log, n, j

(* An entry is recent if the token is among the last Capacity of the head. *)
LEMMA RecentTokens ==
  ASSUME NEW c, NEW held, SessionAt(c, held), NEW i \in Idx
  PROVE  LET m == Share(c.token_pos, TurnOf(c), i)
         IN RecentEntries(c.token_log, i)
              = {Place(t, i) : t \in {u \in 0 .. m - 1 : u >= m - Capacity}}
<1> DEFINE log == c.token_log
           m == Share(c.token_pos, TurnOf(c), i)
           Later(l) == {k \in DOMAIN log : k > l /\ log[k].idx = i}
           W == {Place(t, i) : t \in {u \in 0 .. m - 1 : u >= m - Capacity}}
<1>1. log \in Seq(LogEntry) /\ DOMAIN log = 1 .. Len(log) /\ m \in Nat
  BY SessionType DEF Share
<1>2. \A l \in 1 .. Len(log) : log[l].idx = i <=> \E t \in 0 .. m - 1 : l = Place(t, i)
  BY EntriesOfHead
<1>3. \A t \in 0 .. m - 1 : Place(t, i) \in 1 .. Len(log)
  <2>1. Reaches(log, i, m)
    BY DEF SessionAt, Fed
  <2>2. FormatOf(Own) \in Format
    BY FormatType
  <2> HIDE DEF log, m
  <2> QED
    BY <1>1, <2>1, <2>2, LogPairsValue
<1> HIDE DEF log, m
<1>4. \A t \in 0 .. m - 1, u \in 0 .. m - 1 : Place(t, i) < Place(u, i) <=> t < u
  <2> TAKE t \in 0 .. m - 1, u \in 0 .. m - 1
  <2>1. t \in Nat /\ u \in Nat /\ Place(t, i) \in Nat /\ Place(u, i) \in Nat
    <3>1. t \in Nat /\ u \in Nat
      BY <1>1
    <3> QED
      BY <3>1, PlaceType
  <2>2. t < u => Place(t, i) < Place(u, i)
    BY <2>1, PlacesApart
  <2>3. u < t => Place(u, i) < Place(t, i)
    BY <2>1, PlacesApart
  <2>4. u = t => Place(u, i) = Place(t, i)
    OBVIOUS
  <2> QED
    BY <2>1, <2>2, <2>3, <2>4
<1>5. ASSUME NEW t \in 0 .. m - 1
      PROVE  Cardinality(Later(Place(t, i))) = m - 1 - t
  <2> DEFINE S == t + 1 .. m - 1
             L == Later(Place(t, i))
             f == [u \in S |-> Place(u, i)]
  <2>1. t \in Nat /\ S \subseteq 0 .. m - 1
    BY <1>1
  <2>2. L = {Place(u, i) : u \in S}
    <3>1. ASSUME NEW k \in L
          PROVE  k \in {Place(u, i) : u \in S}
      <4>1. k \in 1 .. Len(log) /\ k > Place(t, i) /\ log[k].idx = i
        BY <1>1
      <4>2. PICK u \in 0 .. m - 1 : k = Place(u, i)
        BY <1>2, <4>1
      <4>3. t < u
        BY <1>4, <4>1, <4>2
      <4>4. u \in S
        BY <1>1, <2>1, <4>3
      <4> QED
        BY <4>2, <4>4
    <3>2. ASSUME NEW u \in S
          PROVE  Place(u, i) \in L
      <4>1. u \in 0 .. m - 1 /\ t < u
        BY <1>1, <2>1
      <4>2. Place(u, i) \in 1 .. Len(log) /\ log[Place(u, i)].idx = i
        BY <1>2, <1>3, <4>1
      <4>3. Place(u, i) > Place(t, i)
        BY <1>4, <4>1
      <4> QED
        BY <1>1, <4>2, <4>3
    <3> QED
      BY <3>1, <3>2
  <2> HIDE DEF L
  <2>3. f \in [S -> L]
    BY <2>2
  <2>4. f \in Injection(S, L)
    <3>1. ASSUME NEW u \in S, NEW v \in S, f[u] = f[v]
          PROVE  u = v
      <4>1. u \in 0 .. m - 1 /\ v \in 0 .. m - 1 /\ Place(u, i) = Place(v, i)
        BY <2>1, <3>1
      <4>2. ~(Place(u, i) < Place(v, i)) /\ ~(Place(v, i) < Place(u, i))
        <5>1. Place(u, i) \in Nat
          BY <1>3, <4>1
        <5> QED
          BY <4>1, <5>1
      <4>3. ~(u < v) /\ ~(v < u)
        BY <1>4, <4>1, <4>2
      <4> QED
        BY <1>1, <4>1, <4>3
    <3> QED
      BY <2>3, <3>1 DEF Injection, IsInjective
  <2>5. f \in Surjection(S, L)
    BY <2>2, <2>3 DEF Surjection
  <2>6. ExistsBijection(S, L)
    BY <2>4, <2>5 DEF ExistsBijection, Bijection
  <2>7. IsFiniteSet(S) /\ Cardinality(S) = m - 1 - t
    <3>1. t + 1 \in Int /\ m - 1 \in Int
      BY <1>1, <2>1
    <3>2. IsFiniteSet(S) /\ Cardinality(S) = IF t + 1 > m - 1 THEN 0 ELSE (m - 1) - (t + 1) + 1
      BY <3>1, FS_Interval
    <3> QED
      BY <1>1, <2>1, <3>2
  <2> HIDE DEF S
  <2>8. Cardinality(L) = m - 1 - t
    BY <2>6, <2>7, FS_Bijection
  <2> QED
    BY <2>8 DEF L
<1>6. RecentEntries(log, i) = {l \in DOMAIN log : log[l].idx = i /\ Cardinality(Later(l)) < Capacity}
  BY Zenon DEF RecentEntries
<1> HIDE DEF Later
<1>7. ASSUME NEW l \in RecentEntries(log, i)
      PROVE  l \in W
  <2>1. l \in 1 .. Len(log) /\ log[l].idx = i /\ Cardinality(Later(l)) < Capacity
    BY <1>1, <1>6
  <2>2. PICK t \in 0 .. m - 1 : l = Place(t, i)
    BY <1>2, <2>1
  <2>3. m - 1 - t < Capacity
    BY <1>5, <2>1, <2>2
  <2>4. t >= m - Capacity
    BY <1>1, <2>3, CapacityAssumption
  <2> QED
    BY <2>2, <2>4
<1>8. ASSUME NEW l \in W
      PROVE  l \in RecentEntries(log, i)
  <2>1. PICK t \in 0 .. m - 1 : t >= m - Capacity /\ l = Place(t, i)
    OBVIOUS
  <2>2. l \in 1 .. Len(log) /\ log[l].idx = i
    BY <1>2, <1>3, <2>1
  <2>3. Cardinality(Later(l)) = m - 1 - t
    BY <1>5, <2>1
  <2>4. Cardinality(Later(l)) < Capacity
    BY <1>1, <2>1, <2>3, CapacityAssumption
  <2> QED
    BY <1>1, <1>6, <2>2, <2>4
<1> HIDE DEF W
<1>9. RecentEntries(log, i) = W
  BY <1>7, <1>8
<1> QED
  BY <1>9 DEF W, m, log

(* Both slots of a pair are in use. *)
LEMMA PairInUse ==
  ASSUME NEW cap \in Nat \ {0}, NEW m \in Nat, NEW t \in 0 .. m - 1
  PROVE  LET size == IF m < cap THEN 2 * m ELSE 2 * cap
         IN (2 * t) % (2 * cap) \in 0 .. size - 1 /\ (2 * t + 1) % (2 * cap) \in 0 .. size - 1
<1> DEFINE x == t % cap
           q == t \div cap
<1>1. t \in Nat /\ q \in Int /\ x \in 0 .. cap - 1 /\ t = cap * q + x
  BY DivMod
<1>2. (2 * t) % (2 * cap) = 2 * x /\ (2 * t + 1) % (2 * cap) = 2 * x + 1
  BY <1>1, DoubleMod
<1> HIDE DEF x, q
<1>3. x <= t
  <2>1. q >= 0
    <3>1. q < 0 => cap * q <= cap * (-1)
      <4>1. cap \in Nat /\ q \in Int /\ -1 \in Int /\ (q < 0 => q <= -1)
        BY <1>1
      <4> QED
        BY <4>1, TimesMonotone
    <3> DEFINE y == cap * q
    <3>2. y \in Int /\ t = y + x /\ (q < 0 => y <= -cap)
      BY <1>1, <3>1
    <3> HIDE DEF y
    <3>3. y > -cap
      BY <1>1, <3>2
    <3> QED
      BY <1>1, <3>2, <3>3
  <2>2. cap * q >= 0
    BY <1>1, <2>1
  <2> DEFINE y == cap * q
  <2>3. y \in Int /\ y >= 0 /\ t = y + x
    BY <1>1, <2>2
  <2> HIDE DEF y
  <2> QED
    BY <1>1, <2>3
<1>4. x < m
  BY <1>1, <1>3
<1> QED
  BY <1>1, <1>2, <1>4

(* The tokens of one half of a captured ring, and the tokens a head should *)
(* still have.                                                             *)
TokensOf(data, part) == {data[s].tok : s \in {r \in DOMAIN data : data[r].part = part}}
RecentOf(log, i) == {log[j].tok : j \in RecentEntries(log, i)}

(* The ring of a head that was captured. *)
LEMMA CapturedWindow ==
  ASSUME NEW c, NEW held, SessionAt(c, held), NEW i \in Idx, NEW part \in {"K", "V"}
  PROVE  TokensOf(CaptureHead(c, i).storage_data, part) = RecentOf(c.token_log, i)
<1> DEFINE log == c.token_log
           n == c.token_pos
           j == TurnOf(c)
           m == Share(n, j, i)
           fmt == FormatOf(Own)
           st == c.storages[i]
           size == st.size
           data == CaptureHead(c, i).storage_data
           In(t) == t \in 0 .. m - 1 /\ t >= m - Capacity
           k(t) == (2 * t) % (2 * Capacity)
           v(t) == (2 * t + 1) % (2 * Capacity)
<1>1. /\ log \in Seq(LogEntry) /\ n \in Nat /\ j \in Nat /\ m \in Nat
      /\ fmt \in Format /\ Capacity \in Nat \ {0}
  BY SessionType, FormatType, CapacityAssumption DEF Idx, Share
<1>2. Fed(Capacity, c, log, n, j, fmt)
  BY DEF SessionAt
<1>3. RecentEntries(log, i) = {Place(t, i) : t \in {u \in 0 .. m - 1 : u >= m - Capacity}}
  BY RecentTokens
<1>4. CaptureHead(c, i).storage_data = [s \in 1 .. 2 * (size \div 2) |-> st.data[s - 1]]
  BY DEF CaptureHead
<1> HIDE DEF log, n, j, fmt, data
<1>5. size = IF m < Capacity THEN 2 * m ELSE 2 * Capacity
  <2>1. Shaped(Capacity, c, i, m)
    BY <1>1, <1>2, FedShape
  <2> QED
    BY <2>1 DEF Shaped
<1>6. ASSUME NEW t, In(t)
      PROVE  HasPair(Capacity, c, i, t, PairOf(log[Place(t, i)].tok, fmt))
  BY <1>1, <1>2, <1>6, FedHas
<1>7. ASSUME NEW s \in 0 .. size - 1
      PROVE  \E t : In(t) /\ s \in {k(t), v(t)}
  BY <1>1, <1>2, FedSlot
<1> HIDE DEF m, st
<1>8. size \in Nat /\ 2 * (size \div 2) = size
  BY <1>1, <1>5
<1> HIDE DEF size
<1>9. DOMAIN data = 1 .. size /\ \A s \in 1 .. size : data[s] = st.data[s - 1]
  BY <1>4, <1>8 DEF data
<1>10. ASSUME NEW t, In(t)
       PROVE  /\ k(t) \in 0 .. size - 1 /\ v(t) \in 0 .. size - 1
              /\ st.data[k(t)] = [part |-> "K", tok |-> log[Place(t, i)].tok, fmt |-> fmt]
              /\ st.data[v(t)] = [part |-> "V", tok |-> log[Place(t, i)].tok, fmt |-> fmt]
  <2>1. k(t) \in 0 .. size - 1 /\ v(t) \in 0 .. size - 1
    BY <1>1, <1>5, <1>10, PairInUse
  <2>2. HasPair(Capacity, c, i, t, PairOf(log[Place(t, i)].tok, fmt))
    BY <1>6, <1>10
  <2> QED
    BY <2>1, <2>2 DEF HasPair, PairOf, st
<1> HIDE DEF k, v
<1>11. ASSUME NEW x \in TokensOf(data, part)
       PROVE  x \in RecentOf(log, i)
  <2>1. PICK s \in 1 .. size : data[s].part = part /\ x = data[s].tok
    BY <1>9 DEF TokensOf
  <2>2. s - 1 \in 0 .. size - 1 /\ data[s] = st.data[s - 1]
    BY <1>8, <1>9
  <2>3. PICK t : In(t) /\ s - 1 \in {k(t), v(t)}
    BY <1>7, <2>2
  <2>4. st.data[s - 1].tok = log[Place(t, i)].tok
    <3>1. /\ st.data[k(t)] = [part |-> "K", tok |-> log[Place(t, i)].tok, fmt |-> fmt]
          /\ st.data[v(t)] = [part |-> "V", tok |-> log[Place(t, i)].tok, fmt |-> fmt]
      BY <1>10, <2>3
    <3>2. s - 1 = k(t) \/ s - 1 = v(t)
      BY <2>3
    <3>3. CASE s - 1 = k(t)
      BY <3>1, <3>3
    <3>4. CASE s - 1 = v(t)
      BY <3>1, <3>4
    <3> QED
      BY <3>2, <3>3, <3>4
  <2>5. Place(t, i) \in RecentEntries(log, i)
    BY <1>3, <2>3
  <2>6. x = log[Place(t, i)].tok
    BY <2>1, <2>2, <2>4
  <2> QED
    BY <2>5, <2>6 DEF RecentOf
<1>12. ASSUME NEW x \in RecentOf(log, i)
       PROVE  x \in TokensOf(data, part)
  <2>1. PICK l \in RecentEntries(log, i) : x = log[l].tok
    BY DEF RecentOf
  <2>2. PICK t : In(t) /\ l = Place(t, i)
    BY <1>3, <2>1
  <2> DEFINE s == IF part = "K" THEN k(t) ELSE v(t)
  <2>3. s \in 0 .. size - 1 /\ st.data[s].part = part /\ st.data[s].tok = x
    <3>1. /\ k(t) \in 0 .. size - 1 /\ v(t) \in 0 .. size - 1
          /\ st.data[k(t)] = [part |-> "K", tok |-> log[Place(t, i)].tok, fmt |-> fmt]
          /\ st.data[v(t)] = [part |-> "V", tok |-> log[Place(t, i)].tok, fmt |-> fmt]
      BY <1>10, <2>2
    <3>2. CASE part = "K"
      BY <2>1, <2>2, <3>1, <3>2
    <3>3. CASE part = "V"
      BY <2>1, <2>2, <3>1, <3>3
    <3> QED
      BY <3>2, <3>3
  <2> HIDE DEF s
  <2>4. s + 1 \in 1 .. size /\ (s + 1) - 1 = s
    BY <1>8, <2>3
  <2>5. data[s + 1] = st.data[s]
    BY <1>9, <2>4
  <2>6. s + 1 \in DOMAIN data /\ data[s + 1].part = part /\ data[s + 1].tok = x
    BY <1>9, <2>3, <2>4, <2>5
  <2> QED
    BY <2>6 DEF TokensOf
<1>13. TokensOf(data, part) = RecentOf(log, i)
  BY <1>11, <1>12
<1> QED
  BY <1>13 DEF data, log

(* A snapshot taken at any moment of any session, in the middle of a token *)
(* too, has the vectors of the last Capacity tokens of every head, neither *)
(* more nor less.                                                          *)
THEOREM SnapshotsHoldWindow == Spec => []SnapshotHoldsWindow
<1>1. ReplayInv => SnapshotHoldsWindow
  <2> SUFFICES ASSUME ReplayInv, snap # NoSnap, NEW i \in Idx, NEW part \in {"K", "V"}
               PROVE  TokensOf(snap.heads[i].storage_data, part) = RecentOf(snap.token_log, i)
    BY DEF SnapshotHoldsWindow, TokensOf, RecentOf
  <2>1. PICK c : SessionAt(c, snap_past) /\ snap = Capture(c)
    BY DEF ReplayInv
  <2>2. snap.token_log = c.token_log /\ snap.heads[i] = CaptureHead(c, i)
    BY <2>1 DEF Capture
  <2>3. TokensOf(CaptureHead(c, i).storage_data, part) = RecentOf(c.token_log, i)
    BY <2>1, CapturedWindow
  <2> QED
    BY <2>2, <2>3
<1> QED
  BY <1>1, ReplayInvariant, PTL
-----------------------------------------------------------------------------
(* The contexts of the command line: the default capacity, and the width a *)
(* snapshot records.                                                       *)

LEMMA CommandFormat ==
  ASSUME NEW strat \in Strategy
  PROVE  Cli!FormatOf(strat) \in Format /\ OwnFormat(strat, Cli!FormatOf(strat))
BY DEF Cli!FormatOf, RecordedBits, Cli!FP32, FP32, Format, OwnFormat

LEMMA CommandAppends ==
  ASSUME NEW c, NEW i, NEW tok, NEW strat
  PROVE  Cli!AppendContext(c, i, tok, strat)
           = Extended(DefaultCapacity, c, i, tok, PairOf(tok, Cli!FormatOf(strat)))
<1>1. \A st, p : Cli!WriteSlab(st, p) = Written(2 * DefaultCapacity, st, p)
  BY DEF Cli!WriteSlab, Cli!WriteSlot, Written
<1>2. /\ Cli!KV("K", tok, strat) = PairOf(tok, Cli!FormatOf(strat)).k
      /\ Cli!KV("V", tok, strat) = PairOf(tok, Cli!FormatOf(strat)).v
  BY DEF Cli!KV, PairOf
<1> QED
  BY <1>1, <1>2, Zenon DEF Cli!AppendContext, Extended

LEMMA CommandComputes ==
  ASSUME NEW c, NEW i, NEW own
  PROVE  Cli!ComputeContext(c, i, own) = ComputeContext(c, i, own)
<1>1. \A s : Cli!ReadStorage(c, i, s) = ReadStorage(c, i, s)
  BY DEF Cli!ReadStorage, ReadStorage, Cli!ReadSlab, ReadSlab, Cli!OutOfSlab, OutOfSlab
<1>2. Cli!PathOf(c, i, own) = PathOf(c, i, own)
  BY <1>1 DEF Cli!PathOf, PathOf, Cli!FP32, FP32
<1> QED
  BY <1>2, Zenon DEF Cli!ComputeContext, ComputeContext

LEMMA CommandTokenFolds ==
  ASSUME NEW c \in Filling(DefaultCapacity), NEW log \in Seq(LogEntry), NEW t \in Nat,
         NEW strat \in Strategy, NEW metrics \in BOOLEAN
  PROVE  \E f : /\ TokenFold(f, DefaultCapacity, c, log, t, Cli!FormatOf(strat), strat, metrics)
                /\ Cli!FeedToken(c, log, t, strat, metrics) = f[1 .. NIdx]
<1> DEFINE seq == [h \in 1 .. NIdx |-> h - 1]
           fmt == Cli!FormatOf(strat)
           Step(acc, i) == IF t * NIdx + i < Len(log)
                           THEN Cli!FeedEntry(acc, i, log[t * NIdx + i + 1].tok, strat, metrics)
                           ELSE acc
           Chosen(f) == f = [s \in SUBSET (DOMAIN seq) |->
             IF s = {} THEN c ELSE Step(f[s \ {Max(s)}], seq[Max(s)])]
           iter == CHOOSE f : Chosen(f)
<1>1. Cli!FeedToken(c, log, t, strat, metrics) = iter[DOMAIN seq]
  <2> HIDE DEF seq
  <2> QED
    BY Zenon DEF Cli!FeedToken, Cli!FoldLeft, Cli!MapThenFoldSet, Cli!Max, Max, seq
<1>2. NIdx \in Nat /\ DOMAIN seq = 1 .. NIdx
  BY NIdxAssumption
<1>3. \A acc, i, tok : Cli!FeedEntry(acc, i, tok, strat, metrics)
                         = Entered(DefaultCapacity, acc, i, tok, fmt, strat, metrics)
  BY CommandAppends, CommandComputes, Zenon DEF Cli!FeedEntry, Entered
<1>4. \A acc, i : Step(acc, i) = TokenStep(DefaultCapacity, acc, i, log, t, fmt, strat, metrics)
  <2> HIDE DEF fmt
  <2> QED
    BY <1>3, Zenon DEF TokenStep
<1> HIDE DEF Step
<1>5. \A s \in SUBSET (1 .. NIdx) : s # {} => seq[Max(s)] = Max(s) - 1
  <2> TAKE s \in SUBSET (1 .. NIdx)
  <2> HAVE s # {}
  <2>1. Max(s) \in s
    BY <1>2, MaxIsLast
  <2> QED
    BY <2>1
<1>6. ASSUME NEW f
      PROVE  Chosen(f) <=> TokenFold(f, DefaultCapacity, c, log, t, fmt, strat, metrics)
  <2> DEFINE a == [s \in SUBSET (1 .. NIdx) |->
                     IF s = {} THEN c ELSE Step(f[s \ {Max(s)}], seq[Max(s)])]
             b == [s \in SUBSET (1 .. NIdx) |->
                     IF s = {} THEN c
                     ELSE TokenStep(DefaultCapacity, f[s \ {Max(s)}], Max(s) - 1, log, t, fmt, strat, metrics)]
  <2>1. a = b
    <3> HIDE DEF fmt, seq
    <3>1. \A s \in SUBSET (1 .. NIdx) : s # {} =>
            Step(f[s \ {Max(s)}], seq[Max(s)])
              = TokenStep(DefaultCapacity, f[s \ {Max(s)}], Max(s) - 1, log, t, fmt, strat, metrics)
      BY <1>4, <1>5, Zenon
    <3> QED
      BY <3>1
  <2>2. Chosen(f) <=> f = a
    <3> HIDE DEF seq
    <3>1. SUBSET (DOMAIN seq) = SUBSET (1 .. NIdx)
      BY <1>2
    <3> QED
      BY <3>1, Zenon
  <2>3. TokenFold(f, DefaultCapacity, c, log, t, fmt, strat, metrics) <=> f = b
    BY Zenon DEF TokenFold
  <2> HIDE DEF a, b
  <2> QED
    BY <2>1, <2>2, <2>3
<1>7. PICK f : TokenFold(f, DefaultCapacity, c, log, t, fmt, strat, metrics)
  <2>1. fmt \in Format
    BY CommandFormat
  <2> HIDE DEF fmt
  <2> QED
    BY <2>1, DefaultCapacityAssumption, TokenFoldExists
<1>8. Chosen(iter)
  <2> HIDE DEF Chosen
  <2>1. \E g : Chosen(g)
    BY <1>6, <1>7
  <2> QED
    BY <2>1
<1> HIDE DEF iter, Chosen
<1>9. TokenFold(iter, DefaultCapacity, c, log, t, fmt, strat, metrics)
  BY <1>6, <1>8
<1> QED
  BY <1>1, <1>2, <1>9

LEMMA CommandTokenKeeps ==
  ASSUME NEW c \in Filling(DefaultCapacity), NEW log \in Seq(LogEntry), NEW t \in Nat,
         NEW strat \in Strategy, NEW metrics \in BOOLEAN
  PROVE  LET d == Cli!FeedToken(c, log, t, strat, metrics)
         IN /\ d \in Filling(DefaultCapacity)
            /\ TokenFed(DefaultCapacity, c, d, log, t, Cli!FormatOf(strat), strat, metrics)
<1>1. PICK f : /\ TokenFold(f, DefaultCapacity, c, log, t, Cli!FormatOf(strat), strat, metrics)
               /\ Cli!FeedToken(c, log, t, strat, metrics) = f[1 .. NIdx]
  BY CommandTokenFolds
<1>2. Cli!FormatOf(strat) \in Format
  BY CommandFormat
<1>3. /\ f[1 .. NIdx] \in Filling(DefaultCapacity)
      /\ TokenFed(DefaultCapacity, c, f[1 .. NIdx], log, t, Cli!FormatOf(strat), strat, metrics)
  BY <1>1, <1>2, DefaultCapacityAssumption, TokenFoldKeeps
<1> QED
  BY <1>1, <1>3

LEMMA CommandTokensKeeps ==
  ASSUME NEW c \in Filling(DefaultCapacity), NEW s, s.token_log \in Seq(LogEntry), NEW n \in Nat,
         NEW strat \in Strategy, NEW metrics \in BOOLEAN
  PROVE  LET d == Cli!FeedTokens(c, s, n, strat, metrics)
         IN /\ d \in Filling(DefaultCapacity)
            /\ TokensFed(DefaultCapacity, c, d, s.token_log, n, Cli!FormatOf(strat), strat, metrics)
<1> DEFINE V == Filling(DefaultCapacity)
           log == s.token_log
           seq == [t \in 1 .. n |-> t]
           Step(acc, t) == Cli!FeedToken(acc, log, t - 1, strat, metrics)
           Chosen(f) == f = [z \in SUBSET (DOMAIN seq) |->
             IF z = {} THEN c ELSE Step(f[z \ {Max(z)}], seq[Max(z)])]
           iter == CHOOSE f : Chosen(f)
           G == [p \in V \X (1 .. n) |-> Step(p[1], p[2])]
<1>1. Cli!FeedTokens(c, s, n, strat, metrics) = iter[DOMAIN seq]
  <2> HIDE DEF seq
  <2> QED
    BY Zenon DEF Cli!FeedTokens, Cli!FoldLeft, Cli!MapThenFoldSet, Cli!Max, Max, seq
<1>2. DOMAIN seq = 1 .. n /\ SUBSET (DOMAIN seq) = SUBSET (1 .. n)
  OBVIOUS
<1>3. ASSUME NEW acc \in V, NEW t \in 1 .. n
      PROVE  /\ Step(acc, t) \in V
             /\ TokenFed(DefaultCapacity, acc, Step(acc, t), log, t - 1, Cli!FormatOf(strat), strat, metrics)
  <2>1. t - 1 \in Nat
    OBVIOUS
  <2> HIDE DEF log
  <2>2. log \in Seq(LogEntry)
    BY DEF log
  <2> QED
    BY <2>1, <2>2, CommandTokenKeeps
<1> HIDE DEF V, Step
<1>4. G \in [V \X (1 .. n) -> V] /\ \A acc \in V, t \in 1 .. n : G[<<acc, t>>] = Step(acc, t)
  BY <1>3
<1> HIDE DEF G
<1>5. PICK f \in [SUBSET (1 .. n) -> V] : FoldingIn(f, n, V, c, G)
  <2>1. c \in V
    BY DEF V
  <2> QED
    BY <1>4, <2>1, FoldSolved
<1>6. Chosen(f)
  <2>1. ASSUME NEW z \in SUBSET (1 .. n), z # {}
        PROVE  f[z] = Step(f[z \ {Max(z)}], seq[Max(z)])
    <3>1. f[z \ {Max(z)}] \in V
      OBVIOUS
    <3>2. Max(z) \in 1 .. n /\ f[z] = G[<<f[z \ {Max(z)}], Max(z)>>]
      BY <1>5, <2>1, <3>1 DEF FoldingIn
    <3> QED
      BY <1>4, <3>1, <3>2
  <2> HIDE DEF seq
  <2>2. f = [z \in SUBSET (1 .. n) |-> f[z]]
    BY <1>5
  <2>3. f = [z \in SUBSET (1 .. n) |-> IF z = {} THEN c ELSE Step(f[z \ {Max(z)}], seq[Max(z)])]
    <3>1. f[{}] = c
      BY <1>5 DEF FoldingIn
    <3> QED
      BY <2>1, <2>2, <3>1
  <2> QED
    BY <1>2, <2>3, Zenon
<1>7. Chosen(iter)
  <2> HIDE DEF Chosen
  <2> QED
    BY <1>6
<1> HIDE DEF iter
<1>8. \A z \in SUBSET (1 .. n) : iter[z] = IF z = {} THEN c ELSE Step(iter[z \ {Max(z)}], seq[Max(z)])
  <2> HIDE DEF seq
  <2> QED
    BY <1>2, <1>7, Zenon
<1>9. ASSUME NEW z \in SUBSET (1 .. n), z # {}, iter[z \ {Max(z)}] \in V
      PROVE  Max(z) \in 1 .. n /\ iter[z] = G[<<iter[z \ {Max(z)}], Max(z)>>]
  <2>1. Max(z) \in z
    BY <1>9, MaxIsLast
  <2>2. seq[Max(z)] = Max(z) /\ Max(z) \in 1 .. n
    BY <2>1
  <2> QED
    BY <1>4, <1>8, <1>9, <2>2
<1>10. iter[{}] = c
  <2>1. {} \in SUBSET (1 .. n)
    OBVIOUS
  <2> HIDE DEF seq
  <2> QED
    BY <1>8, <2>1
<1>11. FoldingIn(iter, n, V, c, G)
  BY <1>9, <1>10 DEF FoldingIn
<1>12. /\ iter[1 .. n] \in Filling(DefaultCapacity)
       /\ TokensFed(DefaultCapacity, c, iter[1 .. n], log, n, Cli!FormatOf(strat), strat, metrics)
  <2> DEFINE fmt == Cli!FormatOf(strat)
  <2>1. fmt \in Format /\ log \in Seq(LogEntry)
    BY CommandFormat
  <2>2. Feeds(G, DefaultCapacity, log, n, fmt, strat, metrics)
    BY <1>3, <1>4 DEF Feeds, V
  <2>3. FoldingIn(iter, n, Filling(DefaultCapacity), c, G)
    BY <1>11 DEF V
  <2> HIDE DEF fmt, log
  <2>4. /\ iter[1 .. n] \in Filling(DefaultCapacity)
        /\ TokensFed(DefaultCapacity, c, iter[1 .. n], log, n, fmt, strat, metrics)
    BY <2>1, <2>2, <2>3, DefaultCapacityAssumption, TokensFoldKeeps
  <2> QED
    BY <2>4 DEF fmt
<1> QED
  BY <1>1, <1>2, <1>12

(* The commands start from a context that holds nothing. *)
LEMMA CommandContexts ==
  /\ Cli!NewContext(DefaultCapacity) = NewContext(DefaultCapacity)
  /\ Cli!ResetContext(NewContext(DefaultCapacity))
       = Reset(DefaultCapacity, NewContext(DefaultCapacity))
<1>1. \A k : Cli!NewContext(k) = NewContext(k)
  BY DEF Cli!NewContext, NewContext, Cli!EmptySlab, EmptySlab, Cli!Idx, Idx
<1>2. \A st : Cli!ResetSlab(st) = ResetSlab(st)
  BY DEF Cli!ResetSlab, ResetSlab
<1> QED
  BY <1>1, <1>2, Zenon DEF Cli!ResetContext, Cli!InitContext, Reset, Cli!Idx, Idx

(* One half of a pair the session held when it was complete. *)
HalfHeld(held, i, w) == held[w \div 2 + 2][i].used[w % (2 * Capacity)]

LEMMA HalfWasHeld ==
  ASSUME NEW c, NEW held, SessionAt(c, held), NEW i \in Idx, NEW t \in 0 .. c.token_pos - 1
  PROVE  LET tok == c.token_log[Place(t, i)].tok
         IN /\ HalfHeld(held, i, 2 * t).part = "K" /\ HalfHeld(held, i, 2 * t).tok = tok
            /\ HalfHeld(held, i, 2 * t + 1).part = "V" /\ HalfHeld(held, i, 2 * t + 1).tok = tok
<1> DEFINE log == c.token_log
           tok == log[Place(t, i)].tok
           fmt == FormatOf(Own)
           k == t + 1
<1>1. log \in Seq(LogEntry) /\ c.token_pos \in Nat /\ t \in Nat /\ k \in Nat /\ k \in 0 .. c.token_pos
  BY SessionType
<1>2. fmt \in Format /\ Capacity \in Nat \ {0}
  BY FormatType, CapacityAssumption
<1>3. PICK y : Fed(Capacity, y, log, k, 0, fmt) /\ held[k + 1] = Held(y)
  BY <1>1 DEF SessionAt, Recorded
<1>4. Share(k, 0, i) = k
  BY DEF Share, Idx
<1>5. t \in 0 .. k - 1 /\ t >= k - Capacity /\ k + 1 = t + 2
  BY <1>1, <1>2
<1> HIDE DEF k, log, fmt
<1>6. HasPair(Capacity, y, i, t, PairOf(tok, fmt)) /\ Shaped(Capacity, y, i, k)
  <2>1. t \in 0 .. Share(k, 0, i) - 1 /\ t >= Share(k, 0, i) - Capacity /\ 0 \in Nat
    BY <1>4, <1>5
  <2>2. HasPair(Capacity, y, i, t, PairOf(tok, fmt))
    BY <1>1, <1>2, <1>3, <2>1, FedHas
  <2>3. Shaped(Capacity, y, i, Share(k, 0, i))
    BY <1>1, <1>2, <1>3, <2>1, FedShape
  <2> QED
    BY <1>4, <2>2, <2>3
<1> DEFINE st == y.storages[i]
           a == (2 * t) % (2 * Capacity)
           b == (2 * t + 1) % (2 * Capacity)
<1>7. a \in 0 .. st.size - 1 /\ b \in 0 .. st.size - 1
  <2>1. st.size = IF k < Capacity THEN 2 * k ELSE 2 * Capacity
    BY <1>6 DEF Shaped
  <2> QED
    BY <1>1, <1>2, <1>5, <2>1, PairInUse
<1>8. \A s \in 0 .. st.size - 1 : held[t + 2][i].used[s] = st.data[s]
  <2>1. held[t + 2] = Held(y)
    BY <1>3, <1>5
  <2>2. Held(y)[i] = [size |-> st.size, head |-> st.head,
                      used |-> [s \in 0 .. st.size - 1 |-> st.data[s]], n |-> y.cache_sizes[i]]
    BY DEF Held
  <2> HIDE DEF st
  <2>3. Held(y)[i].used = [s \in 0 .. st.size - 1 |-> st.data[s]]
    BY <2>2
  <2> QED
    BY <2>1, <2>3
<1>9. (2 * t) \div 2 + 2 = t + 2 /\ (2 * t + 1) \div 2 + 2 = t + 2
  BY <1>1
<1>10. st.data[a] = [part |-> "K", tok |-> tok, fmt |-> fmt] /\ st.data[b] = [part |-> "V", tok |-> tok, fmt |-> fmt]
  BY <1>6 DEF HasPair, PairOf
<1>11. held[t + 2][i].used[a] = st.data[a] /\ held[t + 2][i].used[b] = st.data[b]
  BY <1>7, <1>8
<1>12. HalfHeld(held, i, 2 * t) = held[t + 2][i].used[a] /\ HalfHeld(held, i, 2 * t + 1) = held[t + 2][i].used[b]
  BY <1>9 DEF HalfHeld
<1> HIDE DEF st, a, b, tok
<1>13. /\ HalfHeld(held, i, 2 * t).part = "K" /\ HalfHeld(held, i, 2 * t).tok = tok
       /\ HalfHeld(held, i, 2 * t + 1).part = "V" /\ HalfHeld(held, i, 2 * t + 1).tok = tok
  BY <1>10, <1>11, <1>12
<1> QED
  BY <1>13 DEF tok, log

(* What feeding the first n tokens of a session makes of such a context. *)
LEMMA CommandGives ==
  ASSUME NEW c, NEW held, SessionAt(c, held), NEW s, s.token_log = c.token_log,
         NEW n \in 0 .. c.token_pos, NEW strat \in Strategy, NEW metrics \in BOOLEAN,
         NEW x \in ContextOf(DefaultCapacity), \A i \in Idx : HeadHas(DefaultCapacity, x, i, <<>>)
  PROVE  LET d == Cli!FeedTokens(x, s, n, strat, metrics)
         IN HoldsTokens(d, held, n, strat) /\ (metrics => MeasuredAs(d, n, strat))
<1> DEFINE log == c.token_log
           cap == DefaultCapacity
           fmt == Cli!FormatOf(strat)
           d == Cli!FeedTokens(x, s, n, strat, metrics)
<1>1. /\ log \in Seq(LogEntry) /\ c.token_pos \in Nat /\ n \in Nat /\ n <= c.token_pos
      /\ cap \in Nat \ {0} /\ fmt \in Format /\ OwnFormat(strat, fmt) /\ 0 \in Nat
  BY SessionType, DefaultCapacityAssumption, CommandFormat
<1>2. NIdx * n <= Len(log)
  BY LogReaches
<1>3. Fed(cap, x, log, 0, 0, fmt)
  <2> HIDE DEF fmt, log
  <2> QED
    BY <1>1, FedNothing
<1>4. x \in Filling(cap)
  <2> HIDE DEF fmt, log
  <2> QED
    BY <1>1, <1>3, FedFills
<1>5. TokensFed(cap, x, d, log, n, fmt, strat, metrics)
  BY <1>1, <1>4, CommandTokensKeeps
<1> HIDE DEF d, fmt
<1>6. Fed(cap, d, log, n, 0, fmt) /\ (metrics => Graded(d, n, 0, strat))
  BY <1>1, <1>2, <1>3, <1>5 DEF TokensFed
<1>7. \A i \in Idx : Share(n, 0, i) = n
  BY DEF Share, Idx
<1>8. ASSUME NEW i \in Idx
      PROVE  d.cache_sizes[i] = n
  <2>1. Shaped(cap, d, i, Share(n, 0, i))
    BY <1>1, <1>6, FedShape
  <2> QED
    BY <1>7, <2>1 DEF Shaped
<1>9. ASSUME NEW i \in Idx, NEW w \in 0 .. 2 * n - 1, w \div 2 >= n - cap
      PROVE  d.storages[i].data[w % (2 * cap)]
               = Cli!KV(HalfHeld(held, i, w).part, HalfHeld(held, i, w).tok, strat)
  <2> DEFINE t == w \div 2
             tok == log[Place(t, i)].tok
  <2>1. t \in 0 .. n - 1 /\ (w = 2 * t \/ w = 2 * t + 1)
    BY <1>1
  <2>2. t >= n - cap
    BY <1>9
  <2> HIDE DEF t
  <2>3. HasPair(cap, d, i, t, PairOf(tok, fmt))
    <3>1. t \in 0 .. Share(n, 0, i) - 1 /\ t >= Share(n, 0, i) - cap
      BY <1>7, <2>1, <2>2
    <3> QED
      BY <1>1, <1>6, <3>1, FedHas
  <2>4. t \in 0 .. c.token_pos - 1
    BY <1>1, <2>1
  <2>5. /\ HalfHeld(held, i, 2 * t).part = "K" /\ HalfHeld(held, i, 2 * t).tok = tok
        /\ HalfHeld(held, i, 2 * t + 1).part = "V" /\ HalfHeld(held, i, 2 * t + 1).tok = tok
    BY <2>4, HalfWasHeld
  <2> HIDE DEF tok, cap
  <2>6. /\ d.storages[i].data[(2 * t) % (2 * cap)] = [part |-> "K", tok |-> tok, fmt |-> fmt]
        /\ d.storages[i].data[(2 * t + 1) % (2 * cap)] = [part |-> "V", tok |-> tok, fmt |-> fmt]
    BY <2>3 DEF HasPair, PairOf
  <2>7. \A part : Cli!KV(part, tok, strat) = [part |-> part, tok |-> tok, fmt |-> fmt]
    BY DEF Cli!KV, fmt
  <2> QED
    BY <2>1, <2>5, <2>6, <2>7
<1>10. HoldsTokens(d, held, n, strat)
  BY <1>8, <1>9 DEF HoldsTokens, HalfHeld
<1>11. metrics => MeasuredAs(d, n, strat)
  BY <1>1, <1>6, <1>7 DEF Graded, MeasuredAs
<1> QED
  BY <1>10, <1>11 DEF d

LEMMA CommandsGive ==
  ASSUME NEW c, NEW held, SessionAt(c, held)
  PROVE  CommandsReproduce(Capture(c), held)
<1> DEFINE s == Capture(c)
           new == NewContext(DefaultCapacity)
           old == Reset(DefaultCapacity, new)
<1>1. s.token_log = c.token_log /\ s.n_tokens = c.token_pos
  BY DEF Capture
<1>2. c.token_pos \in Nat
  BY SessionType
<1>3. new \in ContextOf(DefaultCapacity) /\ \A i \in Idx : HeadHas(DefaultCapacity, new, i, <<>>)
  BY DefaultCapacityAssumption, NewHas
<1>4. Cli!NewContext(DefaultCapacity) = new /\ Cli!ResetContext(new) = old
  BY CommandContexts
<1> HIDE DEF new
<1>5. old \in ContextOf(DefaultCapacity) /\ \A i \in Idx : HeadHas(DefaultCapacity, old, i, <<>>)
  BY <1>3, DefaultCapacityAssumption, ResetHas
<1> HIDE DEF s, old
<1>6. ASSUME NEW strat \in Strategy, NEW k \in 0 .. s.n_tokens
      PROVE  HoldsTokens(cmd_replay(s, strat, k, FALSE), held, k, strat)
  <2>1. cmd_replay(s, strat, k, FALSE) = Cli!FeedTokens(old, s, k, strat, FALSE)
    BY <1>4 DEF cmd_replay, Cli!BranchInto
  <2>2. k \in 0 .. c.token_pos
    BY <1>1
  <2>3. HoldsTokens(Cli!FeedTokens(old, s, k, strat, FALSE), held, k, strat)
    BY <1>1, <1>5, <2>2, CommandGives
  <2> QED
    BY <2>1, <2>3
<1>7. ASSUME NEW strat \in Strategy, NEW x \in {new, old}
      PROVE  LET d == Cli!FeedTokens(x, s, s.n_tokens, strat, TRUE)
             IN HoldsTokens(d, held, s.n_tokens, strat) /\ MeasuredAs(d, s.n_tokens, strat)
  <2>1. x \in ContextOf(DefaultCapacity) /\ \A i \in Idx : HeadHas(DefaultCapacity, x, i, <<>>)
    BY <1>3, <1>5
  <2>2. c.token_pos \in 0 .. c.token_pos
    BY <1>2
  <2> DEFINE d == Cli!FeedTokens(x, s, c.token_pos, strat, TRUE)
  <2>3. HoldsTokens(d, held, c.token_pos, strat) /\ (TRUE => MeasuredAs(d, c.token_pos, strat))
    BY <1>1, <2>1, <2>2, CommandGives
  <2> QED
    BY <1>1, <2>3
<1>8. ASSUME NEW strat \in Strategy
      PROVE  \A d \in {cmd_replay(s, strat, -1, TRUE), cmd_compare(s, strat)} :
               HoldsTokens(d, held, s.n_tokens, strat) /\ MeasuredAs(d, s.n_tokens, strat)
  <2>1. cmd_replay(s, strat, -1, TRUE) = Cli!FeedTokens(old, s, s.n_tokens, strat, TRUE)
    BY <1>4 DEF cmd_replay, Cli!ReplayInto
  <2>2. cmd_compare(s, strat) = Cli!FeedTokens(new, s, s.n_tokens, strat, TRUE)
    BY <1>4 DEF cmd_compare, Cli!replay_with
  <2> QED
    BY <1>7, <2>1, <2>2
<1>9. CommandsReproduce(s, held)
  BY <1>6, <1>8 DEF CommandsReproduce
<1> QED
  BY <1>9 DEF s

(* The commands end with every token their own context has room for,       *)
(* packed anew, whatever the number of heads, the capacities and the       *)
(* session captured were.                                                  *)
THEOREM EveryCommandReproduces == Spec => CommandReproduces
<1> DEFINE A == capture => CommandsReproduce(Capture(ctx), past)
<1>1. ReplayInv => A
  BY CommandsGive DEF ReplayInv
<1> HIDE DEF A
<1>2. Spec => [][A]_vars
  BY <1>1, ReplayInvariant, PTL
<1> QED
  BY <1>2 DEF A, CommandReproduces
=============================================================================
