---------------------------- MODULE CApi_proofs ----------------------------
(***************************************************************************)
(* Machine-checked theorems about one attention head and about the C API,  *)
(* for every capacity, mirror threshold and set of tokens, and any number  *)
(* of threads, of handles and of heads of an aggregate.                    *)
(*                                                                         *)
(* The argument for a head: insert slides the window that Scan reads       *)
(* (ScanInsert), and the mirror is a second copy of that window for as     *)
(* long as the two have the same length (MirrorIsWindow).  The last fact   *)
(* needs a capacity that differs from the threshold, which its theorems    *)
(* assume.                                                                 *)
(*                                                                         *)
(* The argument for the errors of the API: a call ends in one of three     *)
(* ways (CallEnds), and only one of them, the one that leaves every cache  *)
(* alone, writes an error text.  The rest follows from the text and the    *)
(* outcome being the thread's own.                                         *)
(***************************************************************************)
EXTENDS AttentionHead, AdaptqApi, SequenceTheorems, TLAPS

USE CapacityAssumption, HybridAssumption, NoTokenAssumption

(* A head whose window holds appended tokens only. *)
Sound(h) == h \in HeadState /\ \A i \in 1 .. h.size : Scan(h)[i] \in Token

-----------------------------------------------------------------------------
(* Index arithmetic of the ring. *)

LEMMA ModWrap ==
  ASSUME NEW n \in Nat \ {0}, NEW x \in 0 .. 2 * n - 1
  PROVE  x % n = IF x < n THEN x ELSE x - n
<1>1. CASE x < n
  BY <1>1
<1>2. CASE ~ (x < n)
  BY <1>2
<1> QED
  BY <1>1, <1>2

LEMMA LogicalSlotValue ==
  ASSUME NEW h \in HeadState, NEW i \in 0 .. h.size - 1
  PROVE  /\ LogicalSlot(h, i) \in Slot
         /\ LogicalSlot(h, i) = IF h.head - h.size + i < 0
                                THEN h.head - h.size + i + Capacity
                                ELSE h.head - h.size + i
<1> DEFINE x == h.head - h.size + Capacity + i
<1>1. h.head \in 0 .. Capacity - 1 /\ h.size \in 0 .. Capacity
  BY DEF HeadState, Slot
<1>2. x \in 0 .. 2 * Capacity - 1
  BY <1>1
<1>3. x % Capacity = IF x < Capacity THEN x ELSE x - Capacity
  BY <1>2, ModWrap
<1> QED
  BY <1>1, <1>2, <1>3 DEF LogicalSlot, Slot

LEMMA InsertType ==
  ASSUME NEW h \in HeadState, NEW t \in Token
  PROVE  /\ Insert(h, t) \in HeadState
         /\ Insert(h, t).raw = h.raw
         /\ Insert(h, t).slots = [h.slots EXCEPT ![h.head] = t]
         /\ Insert(h, t).head = IF h.head + 1 < Capacity THEN h.head + 1 ELSE 0
         /\ Insert(h, t).size = IF h.size < Capacity THEN h.size + 1 ELSE h.size
<1>1. h.head \in 0 .. Capacity - 1 /\ h.size \in 0 .. Capacity
  BY DEF HeadState, Slot
<1>2. (h.head + 1) % Capacity = IF h.head + 1 < Capacity THEN h.head + 1 ELSE 0
  BY <1>1, ModWrap
<1>3. /\ h.slots \in [Slot -> Token \cup {NoToken}]
      /\ h.raw \in Seq(Token)
      /\ [h.slots EXCEPT ![h.head] = t] \in [Slot -> Token \cup {NoToken}]
  BY DEF HeadState
<1>4. Insert(h, t) \in HeadState
  BY <1>1, <1>2, <1>3 DEF Insert, HeadState, Slot
<1> QED
  BY <1>2, <1>4 DEF Insert

-----------------------------------------------------------------------------
(* Insert slides the window. *)

LEMMA ScanType ==
  ASSUME NEW h, Sound(h)
  PROVE  /\ Scan(h) \in Seq(Token)
         /\ Len(Scan(h)) = h.size
         /\ \A i \in 1 .. h.size : Scan(h)[i] = h.slots[LogicalSlot(h, i - 1)]
<1>1. h.size \in Nat
  BY DEF Sound, HeadState
<1>2. Scan(h) = [i \in 1 .. h.size |-> h.slots[LogicalSlot(h, i - 1)]]
  BY DEF Scan
<1>3. Scan(h) \in [1 .. h.size -> Token]
  BY <1>2 DEF Sound
<1>4. Scan(h) \in Seq(Token)
  BY <1>1, <1>3, SeqDef, Zenon
<1>5. Len(Scan(h)) = h.size
  BY <1>1, <1>3, <1>4, LenProperties
<1> QED
  BY <1>2, <1>4, <1>5

LEMMA ScanInsert ==
  ASSUME NEW h, Sound(h), NEW t \in Token
  PROVE  /\ Sound(Insert(h, t))
         /\ Scan(Insert(h, t)) = Window!Slide(Scan(h), t)
<1> DEFINE g == Insert(h, t)
           w == Window!Slide(Scan(h), t)
<1>1. h \in HeadState /\ g \in HeadState
  BY InsertType DEF Sound
<1>2. /\ h.head \in 0 .. Capacity - 1 /\ h.size \in 0 .. Capacity
      /\ g.head = IF h.head + 1 < Capacity THEN h.head + 1 ELSE 0
      /\ g.size = IF h.size < Capacity THEN h.size + 1 ELSE h.size
      /\ g.slots = [h.slots EXCEPT ![h.head] = t]
      /\ h.slots \in [Slot -> Token \cup {NoToken}]
  BY <1>1, InsertType DEF HeadState, Slot
<1>3. /\ Scan(h) \in Seq(Token) /\ Len(Scan(h)) = h.size
      /\ \A i \in 1 .. h.size : Scan(h)[i] = h.slots[LogicalSlot(h, i - 1)]
  BY ScanType
<1>4. /\ w \in Seq(Token) /\ Len(w) = g.size
      /\ w[g.size] = t
      /\ \A i \in 1 .. g.size - 1 :
           w[i] = Scan(h)[IF h.size < Capacity THEN i ELSE i + 1]
  <2>1. CASE h.size < Capacity
    BY <1>2, <1>3, <2>1 DEF Window!Slide
  <2>2. CASE ~ (h.size < Capacity)
    <3>1. Scan(h) # <<>> /\ h.size = Capacity
      BY <1>2, <1>3, <2>2
    <3>2. /\ Tail(Scan(h)) \in Seq(Token) /\ Len(Tail(Scan(h))) = h.size - 1
          /\ \A i \in 1 .. h.size - 1 : Tail(Scan(h))[i] = Scan(h)[i + 1]
      BY <1>3, <3>1, HeadTailProperties
    <3> QED
      BY <1>2, <1>3, <2>2, <3>1, <3>2 DEF Window!Slide
  <2> QED
    BY <2>1, <2>2
<1>5. ASSUME NEW i \in 1 .. g.size
      PROVE  g.slots[LogicalSlot(g, i - 1)] = w[i]
  <2>1. /\ LogicalSlot(g, i - 1) \in Slot
        /\ LogicalSlot(g, i - 1) = IF g.head - g.size + (i - 1) < 0
                                   THEN g.head - g.size + (i - 1) + Capacity
                                   ELSE g.head - g.size + (i - 1)
    BY <1>1, <1>2, LogicalSlotValue
  <2>2. CASE i = g.size
    <3>1. LogicalSlot(g, i - 1) = h.head
      BY <1>2, <2>1, <2>2
    <3> QED
      BY <1>2, <1>4, <2>1, <2>2, <3>1
  <2>3. CASE i # g.size
    <3> DEFINE j == IF h.size < Capacity THEN i ELSE i + 1
    <3>1. j \in 1 .. h.size /\ i \in 1 .. g.size - 1
      BY <1>2, <2>3
    <3>2. LogicalSlot(h, j - 1) = IF h.head - h.size + (j - 1) < 0
                                  THEN h.head - h.size + (j - 1) + Capacity
                                  ELSE h.head - h.size + (j - 1)
      BY <1>1, <1>2, <3>1, LogicalSlotValue
    <3>3. /\ LogicalSlot(g, i - 1) = LogicalSlot(h, j - 1)
          /\ LogicalSlot(g, i - 1) # h.head
      BY <1>2, <2>1, <2>3, <3>1, <3>2
    <3>4. g.slots[LogicalSlot(g, i - 1)] = h.slots[LogicalSlot(h, j - 1)]
      BY <1>2, <2>1, <3>3
    <3> QED
      BY <1>3, <1>4, <3>1, <3>4
  <2> QED
    BY <2>2, <2>3
<1>6. \A i \in 1 .. g.size : Scan(g)[i] = w[i]
  BY <1>5 DEF Scan
<1>7. Sound(g)
  BY <1>1, <1>2, <1>4, <1>6 DEF Sound
<1>8. Scan(g) = w
  BY <1>4, <1>6, <1>7, ScanType, SeqEqual
<1> QED
  BY <1>7, <1>8

-----------------------------------------------------------------------------
(* The ring and the mirror's length, for every capacity and threshold. *)

LEMMA AppendType ==
  ASSUME NEW h, Sound(h), NEW t \in Token
  PROVE  /\ Sound(AppendKV(h, t))
         /\ Scan(AppendKV(h, t)) = Window!Slide(Scan(h), t)
         /\ AppendKV(h, t).size = IF h.size < Capacity THEN h.size + 1 ELSE h.size
         /\ AppendKV(h, t).raw = Mirror(h.raw, t)
<1> DEFINE g == Insert(h, t)
           a == AppendKV(h, t)
<1>1. h \in HeadState /\ g \in HeadState
  BY InsertType DEF Sound
<1>2. Mirror(h.raw, t) \in Seq(Token)
  BY <1>1 DEF HeadState, Mirror
<1>3. /\ a \in HeadState /\ a.slots = g.slots /\ a.head = g.head
      /\ a.size = g.size /\ a.raw = Mirror(h.raw, t)
  BY <1>1, <1>2 DEF AppendKV, HeadState
<1>4. Scan(a) = Scan(g)
  BY <1>3 DEF Scan, LogicalSlot
<1>5. Sound(g) /\ Scan(g) = Window!Slide(Scan(h), t)
  BY ScanInsert
<1>6. Sound(a)
  BY <1>3, <1>4, <1>5 DEF Sound
<1>7. g.size = IF h.size < Capacity THEN h.size + 1 ELSE h.size
  BY <1>1, InsertType
<1> QED
  BY <1>3, <1>4, <1>5, <1>6, <1>7

LEMMA ResetType ==
  ASSUME NEW h \in HeadState
  PROVE  /\ Sound(ResetHead(h))
         /\ ResetHead(h).size = 0
         /\ ResetHead(h).raw = <<>>
         /\ Scan(ResetHead(h)) = <<>>
<1> DEFINE g == ResetHead(h)
<1>1. g \in HeadState /\ g.size = 0 /\ g.raw = <<>>
  BY EmptySeq DEF ResetHead, HeadState, Slot
<1>2. Sound(g)
  BY <1>1 DEF Sound
<1>3. Scan(g) \in Seq(Token) /\ Len(Scan(g)) = 0
  BY <1>1, <1>2, ScanType
<1> QED
  BY <1>1, <1>2, <1>3, EmptySeq

LEMMA EmptyType ==
  Sound(EmptyHead) /\ EmptyHead.size = 0 /\ EmptyHead.raw = <<>> /\ Scan(EmptyHead) = <<>>
<1>1. EmptyHead \in HeadState /\ EmptyHead.size = 0 /\ EmptyHead.raw = <<>>
  BY DEF EmptyHead, HeadState, Slot
<1>2. Sound(EmptyHead)
  BY <1>1 DEF Sound
<1>3. Scan(EmptyHead) \in Seq(Token) /\ Len(Scan(EmptyHead)) = 0
  BY <1>1, <1>2, ScanType
<1> QED
  BY <1>1, <1>2, <1>3, EmptySeq

LEMMA HeadInvInit == Init => HeadInv
  BY EmptyType, EmptySeq
     DEF Init, HeadInv, TypeOK, ScanIsWritten, MirrorLength, Sound

LEMMA HeadInvStep == HeadInv /\ [Next]_vars => HeadInv'
<1> SUFFICES ASSUME HeadInv, [Next]_vars
             PROVE  HeadInv'
  OBVIOUS
<1>1. Sound(cache) /\ answer \in Seq(Token) /\ cache \in HeadState
  BY DEF HeadInv, TypeOK, ScanIsWritten, Sound
<1>2. /\ cache.size \in 0 .. Capacity /\ cache.raw \in Seq(Token)
      /\ Len(cache.raw) \in Nat
  BY <1>1 DEF HeadState
<1>3. ASSUME NEW t \in Token, append_kv(t)
      PROVE  HeadInv'
  <2>1. /\ Sound(cache')
        /\ cache'.size = IF cache.size < Capacity THEN cache.size + 1 ELSE cache.size
        /\ cache'.raw = Mirror(cache.raw, t)
    BY <1>1, <1>3, AppendType DEF append_kv
  <2>2. Len(cache'.raw) = IF Len(cache.raw) < HybridThresh THEN Len(cache.raw) + 1
                                                           ELSE Len(cache.raw)
    BY <1>2, <2>1 DEF Mirror
  <2>3. MirrorLength'
    BY <1>2, <2>1, <2>2 DEF HeadInv, MirrorLength
  <2> QED
    BY <1>1, <1>3, <2>1, <2>3
       DEF append_kv, HeadInv, TypeOK, ScanIsWritten, Sound
<1>4. CASE compute
  <2>1. Attended(cache) \in Seq(Token)
    BY <1>1, <1>2, ScanType DEF Attended
  <2> QED
    BY <1>4, <2>1 DEF compute, HeadInv, TypeOK, ScanIsWritten, MirrorLength
<1>5. CASE reset
  BY <1>1, <1>5, ResetType, EmptySeq
     DEF reset, HeadInv, TypeOK, ScanIsWritten, MirrorLength, Sound
<1>6. CASE UNCHANGED vars
  BY <1>6 DEF vars, HeadInv, TypeOK, ScanIsWritten, MirrorLength
<1> QED
  BY <1>3, <1>4, <1>5, <1>6 DEF Next

LEMMA HeadInvariant == Spec => []HeadInv
  BY HeadInvInit, HeadInvStep, PTL DEF Spec

(* The type invariant of a head: insert, append and reset keep the ring    *)
(* index and size within the capacity, and compute answers with tokens.    *)
THEOREM TypeCorrect == Spec => []TypeOK
  BY HeadInvariant, PTL DEF HeadInv

(* The index arithmetic of compute reads only slots insert has written.    *)
THEOREM ReadsWrittenSlots == Spec => []ScanIsWritten
  BY HeadInvariant, PTL DEF HeadInv

(* The FP32 mirror keeps every token up to its threshold and no more.      *)
THEOREM MirrorBounded == Spec => []MirrorLength
  BY HeadInvariant, PTL DEF HeadInv

(* A head that has left the FP32 path comes back to it by a reset only,    *)
(* whatever its capacity and threshold.                                    *)
THEOREM PathIsSticky == Spec => NoReturnToRaw
<1>1. HeadInv /\ [Next]_vars
        => [~UsesRaw(cache) /\ cache'.size > 0 => ~UsesRaw(cache')]_vars
  <2> SUFFICES ASSUME HeadInv, Next, ~UsesRaw(cache), cache'.size > 0
               PROVE  ~UsesRaw(cache')
    OBVIOUS
  <2>1. /\ Sound(cache) /\ cache \in HeadState
        /\ cache.size \in 0 .. Capacity /\ Len(cache.raw) \in Nat
    BY DEF HeadInv, TypeOK, ScanIsWritten, Sound, HeadState
  <2>2. ASSUME NEW t \in Token, append_kv(t)
        PROVE  ~UsesRaw(cache')
    <3>1. /\ cache'.size = IF cache.size < Capacity THEN cache.size + 1 ELSE cache.size
          /\ cache'.raw = Mirror(cache.raw, t)
      BY <2>1, <2>2, AppendType DEF append_kv
    <3>2. cache.raw \in Seq(Token)
      BY <2>1 DEF HeadState
    <3>3. Len(cache'.raw) = IF Len(cache.raw) < HybridThresh THEN Len(cache.raw) + 1
                                                             ELSE Len(cache.raw)
      BY <3>1, <3>2 DEF Mirror
    <3> QED
      BY <2>1, <3>1, <3>3 DEF HeadInv, MirrorLength, UsesRaw
  <2>3. CASE compute
    BY <2>3 DEF compute
  <2>4. CASE reset
    BY <2>1, <2>4, ResetType DEF reset
  <2> QED
    BY <2>2, <2>3, <2>4 DEF Next
<1> QED
  BY <1>1, HeadInvariant, PTL DEF Spec, NoReturnToRaw

-----------------------------------------------------------------------------
(* The mirror's content, for a capacity that differs from the threshold. *)

LEMMA MirrorIsWindowStep ==
  ASSUME Capacity # HybridThresh
  PROVE  HeadInv /\ MirrorIsWindow /\ [Next]_vars => MirrorIsWindow'
<1> SUFFICES ASSUME HeadInv, MirrorIsWindow, [Next]_vars
             PROVE  MirrorIsWindow'
  OBVIOUS
<1>1. /\ Sound(cache) /\ cache \in HeadState
      /\ cache.size \in 0 .. Capacity /\ cache.raw \in Seq(Token)
      /\ Len(cache.raw) \in Nat
  BY DEF HeadInv, TypeOK, ScanIsWritten, Sound, HeadState
<1>2. ASSUME NEW t \in Token, append_kv(t), Len(cache'.raw) = cache'.size
      PROVE  cache'.raw = Scan(cache')
  <2>1. /\ cache'.size = IF cache.size < Capacity THEN cache.size + 1 ELSE cache.size
        /\ cache'.raw = Mirror(cache.raw, t)
        /\ Scan(cache') = Window!Slide(Scan(cache), t)
    BY <1>1, <1>2, AppendType DEF append_kv
  <2>2. Len(cache'.raw) = IF Len(cache.raw) < HybridThresh THEN Len(cache.raw) + 1
                                                           ELSE Len(cache.raw)
    BY <1>1, <2>1 DEF Mirror
  <2>3. /\ cache.size < Capacity /\ Len(cache.raw) = cache.size
        /\ Len(cache.raw) < HybridThresh
    BY <1>1, <1>2, <2>1, <2>2 DEF HeadInv, MirrorLength
  <2>4. cache'.raw = Append(cache.raw, t) /\ cache.raw = Scan(cache)
    BY <2>1, <2>3 DEF Mirror, MirrorIsWindow
  <2> QED
    BY <1>1, <2>1, <2>3, <2>4, ScanType DEF Window!Slide
<1>3. CASE compute
  BY <1>3 DEF compute, MirrorIsWindow
<1>4. CASE reset
  BY <1>1, <1>4, ResetType DEF reset, MirrorIsWindow
<1>5. CASE UNCHANGED vars
  BY <1>5 DEF vars, MirrorIsWindow
<1> QED
  BY <1>2, <1>3, <1>4, <1>5 DEF Next, MirrorIsWindow

LEMMA MirrorIsWindowInvariant ==
  ASSUME Capacity # HybridThresh
  PROVE  Spec => []MirrorIsWindow
<1>1. Init => MirrorIsWindow
  BY EmptyType DEF Init, MirrorIsWindow
<1> QED
  BY <1>1, MirrorIsWindowStep, HeadInvariant, PTL DEF Spec

LEMMA PathsAgreeFollows == MirrorIsWindow => PathsAgree
  BY DEF MirrorIsWindow, PathsAgree, UsesRaw

(* Both paths of compute see the same tokens, unless the capacity equals   *)
(* the threshold.                                                          *)
THEOREM PathsAlwaysAgree ==
  ASSUME Capacity # HybridThresh
  PROVE  Spec => []PathsAgree
  BY MirrorIsWindowInvariant, PathsAgreeFollows, PTL

(* The head is a sliding window of its last Capacity tokens: append,       *)
(* compute and reset implement Push, Attend and Clear.                     *)
THEOREM HeadImplementsWindow ==
  ASSUME Capacity # HybridThresh
  PROVE  Spec => ImplementsWindow
<1>1. Init => Window!Init
  BY EmptyType DEF Init, Window!Init
<1>2. HeadInv /\ PathsAgree /\ [Next]_vars => [Window!Next]_(Window!vars)
  <2> SUFFICES ASSUME HeadInv, PathsAgree, [Next]_vars
               PROVE  [Window!Next]_(Window!vars)
    OBVIOUS
  <2>1. Sound(cache) /\ cache \in HeadState
    BY DEF HeadInv, TypeOK, ScanIsWritten, Sound
  <2>2. ASSUME NEW t \in Token, append_kv(t)
        PROVE  Window!Push(t)
    BY <2>1, <2>2, AppendType DEF append_kv, Window!Push
  <2>3. ASSUME compute
        PROVE  Window!Attend
    BY <2>3 DEF compute, Window!Attend, Attended, PathsAgree
  <2>4. ASSUME reset
        PROVE  Window!Clear
    BY <2>1, <2>4, ResetType DEF reset, Window!Clear
  <2>5. CASE UNCHANGED vars
    <3>1. cache' = cache /\ answer' = answer
      BY <2>5 DEF vars
    <3>2. Scan(cache') = Scan(cache)
      BY <3>1
    <3> QED
      BY <3>1, <3>2 DEF Window!vars
  <2>6. CASE Next
    BY <2>2, <2>3, <2>4, <2>6 DEF Next, Window!Next
  <2> QED
    BY <2>5, <2>6
<1> QED
  BY <1>1, <1>2, HeadInvariant, PathsAlwaysAgree, PTL
     DEF Spec, ImplementsWindow, Window!Spec

-----------------------------------------------------------------------------
(* Errors of the C API. *)

Failed(t) ==
  /\ \E e \in Error : Fail(t, e)
  /\ UNCHANGED <<ctx, mha>>

(* Every call of a thread fails without touching a head, or succeeds, with *)
(* or without clearing the error text.                                     *)
LEMMA CallEnds ==
  ASSUME NEW t, SingleHeadCall(t) \/ MultiHeadCall(t)
  PROVE  Failed(t) \/ SucceedClearing(t) \/ Succeed(t)
<1>1. CASE SingleHeadCall(t)
  <2>1. CASE create_invalid(t)
    BY <2>1 DEF create_invalid, Failed, Error
  <2>2. ASSUME NEW c \in Ctx, NEW thresh \in Threshold, adaptq_create(t, c, thresh)
        PROVE  Succeed(t)
    BY <2>2 DEF adaptq_create
  <2>3. ASSUME NEW c \in Ctx, NEW tok \in Token, adaptq_append(t, c, tok)
        PROVE  Succeed(t)
    BY <2>3 DEF adaptq_append
  <2>4. ASSUME NEW c \in Ctx, adaptq_compute(t, c) \/ adaptq_destroy(t, c)
        PROVE  Succeed(t)
    BY <2>4 DEF adaptq_compute, adaptq_destroy
  <2>5. ASSUME NEW c \in Ctx, adaptq_reset(t, c)
        PROVE  SucceedClearing(t)
    BY <2>5 DEF adaptq_reset
  <2> QED
    BY <1>1, <2>1, <2>2, <2>3, <2>4, <2>5 DEF SingleHeadCall
<1>2. CASE MultiHeadCall(t)
  <2>1. ASSUME NEW m \in Mha, NEW thresh \in Threshold, adaptq_mha_create(t, m, thresh)
        PROVE  Succeed(t)
    BY <2>1 DEF adaptq_mha_create
  <2>2. ASSUME NEW m \in Mha, NEW i \in -1 .. NHeads, NEW tok \in Token,
               adaptq_mha_append(t, m, i, tok)
        PROVE  Failed(t) \/ SucceedClearing(t)
    BY <2>2 DEF adaptq_mha_append, Failed, Error
  <2>3. ASSUME NEW m \in Mha, NEW i \in -1 .. NHeads, adaptq_mha_compute(t, m, i)
        PROVE  Failed(t) \/ SucceedClearing(t)
    BY <2>3 DEF adaptq_mha_compute, Failed, Error
  <2>4. ASSUME NEW m \in Mha, adaptq_mha_reset(t, m)
        PROVE  SucceedClearing(t)
    BY <2>4 DEF adaptq_mha_reset
  <2>5. ASSUME NEW m \in Mha, adaptq_mha_destroy(t, m)
        PROVE  Succeed(t)
    BY <2>5 DEF adaptq_mha_destroy
  <2> QED
    BY <1>2, <2>1, <2>2, <2>3, <2>4, <2>5 DEF MultiHeadCall
<1> QED
  BY <1>1, <1>2

(* The error text and the outcome of a thread are about the same calls. *)
ErrorInv ==
  /\ err \in [Thread -> Error \cup {NoError}]
  /\ outcome \in [Thread -> {"ok", "failed"}]
  /\ failure \in [Thread -> Error \cup {NoError}]
  /\ FailureExplained
  /\ ErrorIsOwn

LEMMA ErrorInvInit == ApiInit => ErrorInv
  BY DEF ApiInit, ErrorInv, FailureExplained, ErrorIsOwn, NoError

LEMMA ErrorInvStep == ErrorInv /\ [ApiNext]_api_vars => ErrorInv'
<1> SUFFICES ASSUME ErrorInv, [ApiNext]_api_vars
             PROVE  ErrorInv'
  OBVIOUS
<1> USE DEF ErrorInv, FailureExplained, ErrorIsOwn, NoError
<1>1. ASSUME NEW t \in Thread, Failed(t)
      PROVE  ErrorInv'
  BY <1>1 DEF Failed, Fail, Error
<1>2. ASSUME NEW t \in Thread, SucceedClearing(t)
      PROVE  ErrorInv'
  BY <1>2 DEF SucceedClearing
<1>3. ASSUME NEW t \in Thread, Succeed(t)
      PROVE  ErrorInv'
  BY <1>3 DEF Succeed
<1>4. CASE UNCHANGED api_vars
  BY <1>4 DEF api_vars
<1> QED
  BY <1>1, <1>2, <1>3, <1>4, CallEnds DEF ApiNext

LEMMA ErrorInvariant == ApiSpec => []ErrorInv
  BY ErrorInvInit, ErrorInvStep, PTL DEF ApiSpec

(* A thread whose call failed finds a reason, whatever the others do. *)
THEOREM FailuresAreExplained == ApiSpec => []FailureExplained
  BY ErrorInvariant, PTL DEF ErrorInv

(* The reason is that of its own latest failure. *)
THEOREM ErrorsAreOwn == ApiSpec => []ErrorIsOwn
  BY ErrorInvariant, PTL DEF ErrorInv

(* No call that reports an error has changed a cache. *)
THEOREM RejectedCallsChangeNothing == ApiSpec => RejectedCallChangesNothing
<1> DEFINE A == \A t \in Thread : err'[t] # err[t] /\ err'[t] # NoError
                  => UNCHANGED <<ctx, mha>>
<1>1. ErrorInv /\ [ApiNext]_api_vars => [A]_api_vars
  <2> SUFFICES ASSUME ErrorInv, ApiNext
               PROVE  A
    OBVIOUS
  <2>1. PICK u \in Thread : SingleHeadCall(u) \/ MultiHeadCall(u)
    BY DEF ApiNext
  <2>2. CASE Failed(u)
    BY <2>2 DEF Failed
  <2>3. CASE SucceedClearing(u)
    BY <2>3 DEF SucceedClearing, ErrorInv
  <2>4. CASE Succeed(u)
    BY <2>4 DEF Succeed
  <2> QED
    BY <2>1, <2>2, <2>3, <2>4, CallEnds
<1> QED
  BY <1>1, ErrorInvariant, PTL DEF ApiSpec, RejectedCallChangesNothing
=============================================================================
