-------------------------------- MODULE Facts -------------------------------
(***************************************************************************)
(* Induction over the natural numbers, and facts about the two folds the   *)
(* models use: FoldLeft over a sequence, and the sum of a function.        *)
(*                                                                         *)
(* A fold of the community modules is the value, at the whole of a set, of *)
(* a function on its subsets that is chosen to meet an equation.  What     *)
(* such a fold computes can be shown as soon as some function meets the    *)
(* equation; FoldExists and SumExists say so.                              *)
(***************************************************************************)
EXTENDS Integers, FiniteSetsExt, Functions, WellFoundedInduction, FiniteSetTheorems, TLAPS

(* A set of natural numbers has a least element. *)
LEMMA LeastNatural ==
  ASSUME NEW T \in SUBSET Nat, T # {}
  PROVE  \E n \in T : \A m \in T : n <= m
<1>1. PICK n \in T : \A m \in T : ~(<<m, n>> \in OpToRel(<, Nat))
  BY WFMin, NatLessThanWellFounded
<1>2. \A m \in T : ~(m < n)
  BY <1>1 DEF OpToRel
<1> QED
  BY <1>2

(* Induction, over a set in place of a predicate. *)
LEMMA NatInduct ==
  ASSUME NEW T, 0 \in T, \A n \in Nat : n \in T => n + 1 \in T
  PROVE  Nat \subseteq T
<1> SUFFICES ASSUME NEW k \in Nat, k \notin T
             PROVE  FALSE
  OBVIOUS
<1> DEFINE U == {n \in Nat : n \notin T}
<1>1. PICK n \in U : \A m \in U : n <= m
  <2>1. U \in SUBSET Nat /\ U # {}
    OBVIOUS
  <2> HIDE DEF U
  <2> QED
    BY <2>1, LeastNatural
<1>2. n # 0 /\ n - 1 \in Nat
  OBVIOUS
<1>3. n - 1 \in T
  BY <1>1, <1>2
<1> QED
  BY <1>2, <1>3

(* The same up to a bound. *)
LEMMA UpTo ==
  ASSUME NEW n \in Nat, NEW T, 0 \in T, \A k \in 0 .. n - 1 : k \in T => k + 1 \in T
  PROVE  n \in T
<1> DEFINE W == T \cup {k \in Nat : k > n}
<1>1. 0 \in W
  OBVIOUS
<1>2. \A k \in Nat : k \in W => k + 1 \in W
  OBVIOUS
<1>3. n \in W
  <2> HIDE DEF W
  <2> QED
    BY <1>1, <1>2, NatInduct
<1> QED
  BY <1>3

-----------------------------------------------------------------------------
(* Remainders. *)

(* Division with remainder; quotient and remainder are the only ones. *)
LEMMA DivMod ==
  ASSUME NEW n \in Nat \ {0}, NEW x \in Nat
  PROVE  x \div n \in Int /\ x % n \in 0 .. n - 1 /\ x = n * (x \div n) + (x % n)
  OBVIOUS

(* The only multiple of n strictly between -n and n is 0. *)
LEMMA Between ==
  ASSUME NEW n \in Nat \ {0}, NEW q \in Int, n * q < n, -n < n * q
  PROVE  q = 0
<1>1. CASE q >= 1
  <2>1. n * q = n + n * (q - 1) /\ n * (q - 1) >= 0
    BY <1>1
  <2> QED
    BY <2>1
<1>2. CASE q <= -1
  <2>1. n * q = n * (q + 1) - n /\ n * (q + 1) <= 0
    BY <1>2
  <2> QED
    BY <2>1
<1> QED
  BY <1>1, <1>2

LEMMA DivUnique ==
  ASSUME NEW n \in Nat \ {0}, NEW x \in Nat, NEW q \in Int, NEW r \in 0 .. n - 1,
         x = n * q + r
  PROVE  x \div n = q /\ x % n = r
<1> DEFINE p == x \div n
           s == x % n
<1>1. p \in Int /\ s \in 0 .. n - 1 /\ x = n * p + s
  BY DivMod, Zenon
<1> HIDE DEF p, s
<1>2. n * (p - q) = r - s
  BY <1>1
<1>3. n * (p - q) < n /\ -n < n * (p - q)
  BY <1>1, <1>2
<1>4. p - q = 0
  BY <1>1, <1>3, Between
<1>5. p = q /\ r = s
  BY <1>1, <1>2, <1>4
<1> QED
  BY <1>5 DEF p, s

(* A counter modulo n may be taken modulo n at every step. *)
LEMMA ModNext ==
  ASSUME NEW n \in Nat \ {0}, NEW x \in Nat
  PROVE  (x + 1) % n = ((x % n) + 1) % n
<1> DEFINE p == x \div n
           s == x % n
<1>1. p \in Int /\ s \in 0 .. n - 1 /\ x = n * p + s
  BY DivMod
<1> HIDE DEF p, s
<1>2. CASE s + 1 < n
  <2>1. (x + 1) % n = s + 1
    BY <1>1, <1>2, DivUnique
  <2>2. (s + 1) % n = s + 1
    BY <1>1, <1>2
  <2> QED
    BY <2>1, <2>2 DEF s
<1>3. CASE s + 1 = n
  <2>1. x + 1 = n * (p + 1) + 0
    BY <1>1, <1>3
  <2>2. (x + 1) % n = 0
    BY <1>1, <2>1, DivUnique
  <2>3. (s + 1) % n = 0
    BY <1>3
  <2> QED
    BY <2>2, <2>3 DEF s
<1> QED
  BY <1>1, <1>2, <1>3

(* Fewer than n apart, two numbers are different modulo n. *)
LEMMA ModApart ==
  ASSUME NEW n \in Nat \ {0}, NEW x \in Nat, NEW y \in Nat, x < y, y < x + n
  PROVE  x % n # y % n
<1> DEFINE p == x \div n
           q == y \div n
<1> SUFFICES ASSUME x % n = y % n PROVE  FALSE
  OBVIOUS
<1>1. p \in Int /\ q \in Int /\ y - x = n * q - n * p
  BY DivMod
<1> HIDE DEF p, q
<1>2. n * (q - p) = y - x BY <1>1
<1>3. q - p = 0
  BY <1>1, <1>2, Between
<1> QED
  BY <1>2, <1>3

(* One turn of a ring of c slots. *)
LEMMA TurnIndex ==
  ASSUME NEW c \in Nat \ {0}, NEW h \in 0 .. c - 1, NEW i \in 1 .. c
  PROVE  /\ (h + i - 1) % c = IF h + i - 1 < c THEN h + i - 1 ELSE h + i - 1 - c
         /\ (h + i - 1) % c \in 0 .. c - 1
  OBVIOUS

(* The slots of a pair in a ring of n pairs. *)
LEMMA DoubleMod ==
  ASSUME NEW n \in Nat \ {0}, NEW x \in Nat
  PROVE  (2 * x) % (2 * n) = 2 * (x % n) /\ (2 * x + 1) % (2 * n) = 2 * (x % n) + 1
<1> DEFINE q == x \div n
           r == x % n
           m == 2 * n
<1>1. q \in Int /\ r \in 0 .. n - 1 /\ x = n * q + r
  BY DivMod
<1> HIDE DEF q, r
<1>2. 2 * x = m * q + 2 * r /\ 2 * x + 1 = m * q + (2 * r + 1)
  BY <1>1
<1>3. /\ m \in Nat \ {0} /\ 2 * x \in Nat /\ 2 * x + 1 \in Nat
      /\ 2 * r \in 0 .. m - 1 /\ 2 * r + 1 \in 0 .. m - 1
  BY <1>1
<1> HIDE DEF m
<1> DEFINE a == 2 * x
           b == 2 * r
<1>6. /\ m \in Nat \ {0} /\ q \in Int /\ a \in Nat /\ a + 1 \in Nat
      /\ b \in 0 .. m - 1 /\ b + 1 \in 0 .. m - 1
      /\ a = m * q + b /\ a + 1 = m * q + (b + 1)
  BY <1>1, <1>2, <1>3
<1> HIDE DEF a, b
<1>4. a % m = b
  BY ONLY <1>6, DivUnique
<1>5. a + 1 \in Nat /\ (a + 1) % m = b + 1
  BY ONLY <1>6, DivUnique
<1> QED
  BY <1>4, <1>5 DEF m, r, a, b

(* Of the last n numbers below k, one is x modulo n. *)
LEMMA InTurn ==
  ASSUME NEW n \in Nat \ {0}, NEW k \in Nat, NEW x \in 0 .. n - 1, x < k
  PROVE  \E t \in 0 .. k - 1 : t >= k - n /\ t % n = x
<1> DEFINE y == k - 1 - x
           q == y \div n
           r == y % n
           t == n * q + x
<1>1. y \in Nat
  OBVIOUS
<1>2. q \in Int /\ r \in 0 .. n - 1 /\ y = n * q + r
  BY <1>1, DivMod
<1>3. q >= 0
  <2>1. n * q > -n
    BY <1>1, <1>2
  <2> HIDE DEF q
  <2>2. CASE q <= -1
    <3>1. n * q = n * (q + 1) - n /\ n * (q + 1) <= 0
      BY <1>2, <2>2
    <3> QED
      BY <1>2, <2>1, <3>1
  <2> QED
    BY <1>2, <2>2
<1> HIDE DEF q, r
<1>4. t = k - 1 - r
  BY <1>2
<1>5. n * q \in Nat
  BY <1>2, <1>3
<1>6. t \in Nat /\ t \in 0 .. k - 1 /\ t >= k - n
  BY <1>2, <1>4, <1>5
<1> HIDE DEF y
<1>7. t = n * q + x
  OBVIOUS
<1> HIDE DEF t
<1>8. t % n = x
  BY <1>2, <1>6, <1>7, DivUnique
<1> QED
  BY <1>6, <1>8

LEMMA TimesMonotone ==
  ASSUME NEW n \in Nat, NEW x \in Int, NEW y \in Int, x <= y
  PROVE  n * x <= n * y
<1>1. n * y = n * x + n * (y - x) /\ n * (y - x) >= 0
  OBVIOUS
<1> QED
  BY <1>1

-----------------------------------------------------------------------------
(* FoldLeft takes the elements of a sequence of n by their places, the     *)
(* last one outermost.                                                     *)

LEMMA MaxIsLast ==
  ASSUME NEW n \in Nat, NEW s \in SUBSET (1 .. n), s # {}
  PROVE  Max(s) \in s /\ \A y \in s : y <= Max(s)
<1> DEFINE U == {m \in Nat : \A y \in s : y <= m}
<1>0. \A y \in s : y \in Nat /\ y >= 1 /\ y <= n
  OBVIOUS
<1>1. n \in U
  BY <1>0
<1>2. PICK m \in U : \A k \in U : m <= k
  <2>1. U \in SUBSET Nat /\ U # {}
    BY <1>1
  <2> HIDE DEF U
  <2> QED
    BY <2>1, LeastNatural
<1>3. m \in s
  <2> SUFFICES ASSUME m \notin s
               PROVE  FALSE
    OBVIOUS
  <2>1. PICK z \in s : TRUE
    OBVIOUS
  <2>2. m \in Nat /\ m >= 1
    BY <2>1, <1>0
  <2>3. \A y \in s : y <= m - 1
    BY <1>0
  <2>4. m - 1 \in U
    BY <2>2, <2>3
  <2> HIDE DEF U
  <2> QED
    BY <2>2, <2>4, <1>2
<1> QED
  BY <1>2, <1>3 DEF Max

(* The places taken before the last one. *)
LEMMA Initial ==
  ASSUME NEW k \in Nat
  PROVE  /\ 1 .. 0 = {}
         /\ 1 .. k + 1 # {}
         /\ Max(1 .. k + 1) = k + 1
         /\ (1 .. k + 1) \ {k + 1} = 1 .. k
<1>1. Max(1 .. k + 1) \in 1 .. k + 1 /\ \A y \in 1 .. k + 1 : y <= Max(1 .. k + 1)
  <2>1. 1 .. k + 1 \in SUBSET (1 .. k + 1) /\ 1 .. k + 1 # {} /\ k + 1 \in Nat
    OBVIOUS
  <2> QED
    BY <2>1, MaxIsLast
<1> QED
  BY <1>1

(* f is what a fold over n places with the steps F computes on the way. *)
Folding(f, n, base, F) ==
  \A s \in SUBSET (1 .. n) :
    f[s] = IF s = {} THEN base ELSE F[<<f[s \ {Max(s)}], Max(s)>>]

(* The equation of a fold whose steps stay within V has a solution. *)
LEMMA FoldExists ==
  ASSUME NEW n \in Nat, NEW V, NEW base \in V, NEW F \in [V \X (1 .. n) -> V]
  PROVE  \E f \in [SUBSET (1 .. n) -> V] : Folding(f, n, base, F)
<1> DEFINE Rec(f, S) == \A s \in S :
             f[s] = IF s = {} THEN base ELSE F[<<f[s \ {Max(s)}], Max(s)>>]
           Sub(k) == {s \in SUBSET (1 .. n) : \A x \in s : x <= k}
           T == {k \in Nat : \E f \in [Sub(k) -> V] : Rec(f, Sub(k))}
<1>1. 0 \in T
  <2>1. Sub(0) = {{}}
    OBVIOUS
  <2>2. [s \in Sub(0) |-> base] \in [Sub(0) -> V] /\ Rec([s \in Sub(0) |-> base], Sub(0))
    BY <2>1
  <2> QED
    BY <2>2
<1>2. ASSUME NEW k \in Nat, k \in T
      PROVE  k + 1 \in T
  <2>1. PICK f \in [Sub(k) -> V] : Rec(f, Sub(k))
    BY <1>2
  <2> DEFINE g == [s \in Sub(k + 1) |-> IF s \in Sub(k) THEN f[s]
                                        ELSE F[<<f[s \ {Max(s)}], Max(s)>>]]
  <2>2. \A s \in Sub(k + 1) : s # {} => Max(s) \in s /\ s \ {Max(s)} \in Sub(k)
    <3> TAKE s \in Sub(k + 1)
    <3> HAVE s # {}
    <3>1. Max(s) \in s /\ \A y \in s : y <= Max(s)
      BY MaxIsLast
    <3>2. PICK m \in s : m = Max(s)
      BY <3>1
    <3>3. \A y \in s \ {m} : y <= k
      BY <3>1, <3>2
    <3> QED
      BY <3>2, <3>3
  <2>3. \A s \in Sub(k) : s # {} => Max(s) \in s /\ s \ {Max(s)} \in Sub(k)
    <3> TAKE s \in Sub(k)
    <3> HAVE s # {}
    <3>1. Max(s) \in s
      BY MaxIsLast
    <3> QED
      BY <3>1
  <2>4. {} \in Sub(k) /\ Sub(k) \subseteq Sub(k + 1)
    OBVIOUS
  <2>5. \A s \in Sub(k + 1) : s \in SUBSET (1 .. n)
    OBVIOUS
  <2> HIDE DEF Sub
  <2>6. g \in [Sub(k + 1) -> V]
    BY <2>2, <2>4, <2>5
  <2>7. \A s \in Sub(k) : g[s] = f[s]
    BY <2>4
  <2>8. Rec(g, Sub(k + 1))
    <3> TAKE s \in Sub(k + 1)
    <3>1. CASE s = {}
      BY <3>1, <2>1, <2>4, <2>7
    <3>2. CASE s # {} /\ s \in Sub(k)
      <4>1. g[s] = f[s] /\ g[s \ {Max(s)}] = f[s \ {Max(s)}]
        BY <3>2, <2>3, <2>7
      <4> QED
        BY <4>1, <3>2, <2>1
    <3>3. CASE s # {} /\ s \notin Sub(k)
      <4>1. g[s \ {Max(s)}] = f[s \ {Max(s)}]
        BY <3>3, <2>2, <2>7
      <4> QED
        BY <4>1, <3>3
    <3> QED
      BY <3>1, <3>2, <3>3
  <2> HIDE DEF g, Rec
  <2>9. k + 1 \in Nat
    OBVIOUS
  <2> QED
    BY <2>6, <2>8, <2>9
<1>3. n \in T
  <2> HIDE DEF T
  <2> QED
    BY <1>1, <1>2, NatInduct
<1>4. Sub(n) = SUBSET (1 .. n)
  OBVIOUS
<1> HIDE DEF Sub
<1>5. PICK f \in [SUBSET (1 .. n) -> V] : Rec(f, SUBSET (1 .. n))
  BY <1>3, <1>4
<1>6. Folding(f, n, base, F)
  BY <1>5 DEF Folding
<1> QED
  BY <1>6

(* The same for steps that are only known within V. *)
FoldingIn(f, n, V, base, F) ==
  /\ f[{}] = base
  /\ \A s \in SUBSET (1 .. n) : s # {} /\ f[s \ {Max(s)}] \in V =>
       Max(s) \in 1 .. n /\ f[s] = F[<<f[s \ {Max(s)}], Max(s)>>]

LEMMA FoldSolved ==
  ASSUME NEW n \in Nat, NEW V, NEW base \in V, NEW F \in [V \X (1 .. n) -> V]
  PROVE  \E f \in [SUBSET (1 .. n) -> V] : FoldingIn(f, n, V, base, F)
<1>1. PICK f \in [SUBSET (1 .. n) -> V] : Folding(f, n, base, F)
  BY FoldExists
<1>2. ASSUME NEW s \in SUBSET (1 .. n), s # {}
      PROVE  Max(s) \in 1 .. n /\ f[s] = F[<<f[s \ {Max(s)}], Max(s)>>]
  <2>1. Max(s) \in s
    BY <1>2, MaxIsLast
  <2>2. Max(s) \in 1 .. n
    BY <2>1
  <2> QED
    BY <1>1, <1>2, <2>2 DEF Folding
<1>3. f[{}] = base
  <2>1. {} \in SUBSET (1 .. n)
    OBVIOUS
  <2> QED
    BY <1>1, <2>1 DEF Folding
<1>4. FoldingIn(f, n, V, base, F)
  BY <1>2, <1>3 DEF FoldingIn
<1> QED
  BY <1>4

-----------------------------------------------------------------------------
(* Induction over the subsets of a finite set. *)

LEMMA SetInduct ==
  ASSUME NEW S, IsFiniteSet(S), NEW T, {} \in T,
         \A s \in SUBSET S : s # {} /\ (\A x \in s : s \ {x} \in T) => s \in T
  PROVE  SUBSET S \subseteq T
<1> DEFINE K == {k \in Nat : \A s \in SUBSET S : Cardinality(s) = k => s \in T}
<1>1. \A s \in SUBSET S : IsFiniteSet(s) /\ Cardinality(s) \in Nat
  BY FS_Subset, FS_CardinalityType
<1>2. 0 \in K
  BY <1>1, FS_EmptySet
<1>3. ASSUME NEW k \in Nat, k \in K
      PROVE  k + 1 \in K
  <2> SUFFICES ASSUME NEW s \in SUBSET S, Cardinality(s) = k + 1
               PROVE  s \in T
    OBVIOUS
  <2>1. s # {}
    BY <1>1, FS_EmptySet
  <2>2. \A x \in s : Cardinality(s \ {x}) = k
    BY <1>1, FS_RemoveElement
  <2>3. \A x \in s : s \ {x} \in T
    BY <1>3, <2>2
  <2> QED
    BY <2>1, <2>3
<1>4. Nat \subseteq K
  <2> HIDE DEF K
  <2> QED
    BY <1>2, <1>3, NatInduct
<1> QED
  BY <1>1, <1>4

-----------------------------------------------------------------------------
(* A sum takes the elements of a set in an order of its own. *)

Some(s) == CHOOSE x \in s : TRUE

LEMMA FirstIsIn ==
  ASSUME NEW s, s # {}
  PROVE  Some(s) \in s
BY DEF Some

(* g is what SumFunctionOnSet computes on the way, for the subsets of S. *)
Sums(g, f, S) ==
  g = [s \in SUBSET S |-> IF s = {} THEN 0 ELSE f[Some(s)] + g[s \ {Some(s)}]]

LEMMA SumEquation ==
  ASSUME NEW S, NEW f
  PROVE  SumFunctionOnSet(f, S) = (CHOOSE g : Sums(g, f, S))[S]
BY Zenon DEF SumFunctionOnSet, FoldFunctionOnSet, MapThenFoldSet, Some, Sums

(* The equation has a solution ... *)
LEMMA SumExists ==
  ASSUME NEW S, IsFiniteSet(S), NEW f, \A x \in S : f[x] \in Int
  PROVE  \E g \in [SUBSET S -> Int] : Sums(g, f, S)
<1> DEFINE Rec(g, D) == \A s \in D :
             g[s] = IF s = {} THEN 0 ELSE f[Some(s)] + g[s \ {Some(s)}]
           Sub(k) == {s \in SUBSET S : Cardinality(s) <= k}
           T == {k \in Nat : \E g \in [Sub(k) -> Int] : Rec(g, Sub(k))}
<1>1. \A s \in SUBSET S : IsFiniteSet(s) /\ Cardinality(s) \in Nat /\ (Cardinality(s) = 0 <=> s = {})
  BY FS_Subset, FS_CardinalityType, FS_EmptySet
<1>2. \A s \in SUBSET S : s # {} =>
         /\ Some(s) \in s /\ s \ {Some(s)} \in SUBSET S
         /\ Cardinality(s \ {Some(s)}) = Cardinality(s) - 1
  BY <1>1, FirstIsIn, FS_RemoveElement
<1>3. 0 \in T
  <2>1. Sub(0) = {{}}
    BY <1>1
  <2>2. [s \in Sub(0) |-> 0] \in [Sub(0) -> Int] /\ Rec([s \in Sub(0) |-> 0], Sub(0))
    BY <2>1
  <2> QED
    BY <2>2
<1>4. ASSUME NEW k \in Nat, k \in T
      PROVE  k + 1 \in T
  <2>1. PICK g \in [Sub(k) -> Int] : Rec(g, Sub(k))
    BY <1>4
  <2> DEFINE h == [s \in Sub(k + 1) |-> IF s \in Sub(k) THEN g[s]
                                        ELSE f[Some(s)] + g[s \ {Some(s)}]]
  <2>2. \A s \in Sub(k + 1) : s # {} => f[Some(s)] \in Int /\ s \ {Some(s)} \in Sub(k)
    BY <1>1, <1>2
  <2>3. {} \in Sub(k) /\ Sub(k) \subseteq Sub(k + 1)
    BY <1>1
  <2>4. k + 1 \in Nat
    OBVIOUS
  <2> HIDE DEF Sub
  <2>5. h \in [Sub(k + 1) -> Int]
    <3>1. \A s \in Sub(k) : g[s] \in Int
      OBVIOUS
    <3>2. ASSUME NEW s \in Sub(k + 1), s \notin Sub(k)
          PROVE  f[Some(s)] + g[s \ {Some(s)}] \in Int
      <4>1. s # {}
        BY <2>3, <3>2
      <4>2. f[Some(s)] \in Int /\ g[s \ {Some(s)}] \in Int
        BY <2>2, <3>1, <4>1
      <4> QED
        BY <4>2
    <3> QED
      BY <3>1, <3>2
  <2>6. \A s \in Sub(k) : h[s] = g[s]
    BY <2>3
  <2>7. Rec(h, Sub(k + 1))
    <3> TAKE s \in Sub(k + 1)
    <3>1. CASE s = {}
      BY <3>1, <2>1, <2>3, <2>6
    <3>2. CASE s # {}
      <4>1. h[s \ {Some(s)}] = g[s \ {Some(s)}]
        BY <3>2, <2>2, <2>6
      <4>2. h[s] = f[Some(s)] + g[s \ {Some(s)}]
        BY <3>2, <2>1, <2>6
      <4> QED
        BY <3>2, <4>1, <4>2
    <3> QED
      BY <3>1, <3>2
  <2> HIDE DEF h, Rec
  <2> QED
    BY <2>4, <2>5, <2>7
<1>5. Cardinality(S) \in T
  <2>1. Cardinality(S) \in Nat
    BY <1>1
  <2> HIDE DEF T
  <2> QED
    BY <1>3, <1>4, <2>1, NatInduct
<1>6. Sub(Cardinality(S)) = SUBSET S
  BY <1>1, FS_Subset
<1>7. PICK g \in [SUBSET S -> Int] : Rec(g, SUBSET S)
  <2> HIDE DEF Sub
  <2> QED
    BY <1>5, <1>6
<1>8. Sums(g, f, S)
  BY <1>7 DEF Sums
<1> QED
  BY <1>7, <1>8

(* ... and no other: a sum over a part of S is the one met on the way. *)
LEMMA SumIsSolution ==
  ASSUME NEW S, IsFiniteSet(S), NEW f, \A x \in S : f[x] \in Int,
         NEW g \in [SUBSET S -> Int], Sums(g, f, S), NEW T \in SUBSET S
  PROVE  SumFunctionOnSet(f, T) = g[T]
<1> DEFINE h == CHOOSE h : Sums(h, f, T)
           E == {s \in SUBSET T : h[s] = g[s]}
<1>1. Sums(h, f, T)
  <2>1. IsFiniteSet(T) /\ \A x \in T : f[x] \in Int
    BY FS_Subset
  <2> QED
    BY <2>1, SumExists
<1>2. \A s \in SUBSET T : h[s] = IF s = {} THEN 0 ELSE f[Some(s)] + h[s \ {Some(s)}]
  <2> HIDE DEF h
  <2> QED
    BY <1>1 DEF Sums
<1>3. \A s \in SUBSET T : g[s] = IF s = {} THEN 0 ELSE f[Some(s)] + g[s \ {Some(s)}]
  BY DEF Sums
<1>4. SUBSET T \subseteq E
  <2>1. IsFiniteSet(T)
    BY FS_Subset
  <2>2. {} \in E
    BY <1>2, <1>3
  <2>3. ASSUME NEW s \in SUBSET T, s # {}, \A x \in s : s \ {x} \in E
        PROVE  s \in E
    BY <1>2, <1>3, <2>3, FirstIsIn
  <2> HIDE DEF E
  <2> QED
    BY <2>1, <2>2, <2>3, SetInduct
<1> QED
  BY <1>4, SumEquation

LEMMA SumOfNone ==
  ASSUME NEW f
  PROVE  SumFunctionOnSet(f, {}) = 0
<1>1. IsFiniteSet({}) /\ \A x \in {} : f[x] \in Int
  BY FS_EmptySet
<1>2. PICK g \in [SUBSET {} -> Int] : Sums(g, f, {})
  BY <1>1, SumExists
<1>3. SumFunctionOnSet(f, {}) = g[{}]
  BY <1>1, <1>2, SumIsSolution
<1>4. g[{}] = 0
  BY <1>2 DEF Sums
<1> QED
  BY <1>3, <1>4

(* Whatever the order, any element may be taken out first. *)
LEMMA SumRemove ==
  ASSUME NEW S, IsFiniteSet(S), NEW f, \A x \in S : f[x] \in Int, NEW x \in S
  PROVE  /\ SumFunctionOnSet(f, S \ {x}) \in Int
         /\ SumFunctionOnSet(f, S) = f[x] + SumFunctionOnSet(f, S \ {x})
<1>1. PICK g \in [SUBSET S -> Int] : Sums(g, f, S)
  BY SumExists
<1>2. \A s \in SUBSET S : g[s] = IF s = {} THEN 0 ELSE f[Some(s)] + g[s \ {Some(s)}]
  BY <1>1 DEF Sums
<1> DEFINE E == {s \in SUBSET S : \A y \in s : g[s] = f[y] + g[s \ {y}]}
<1>3. ASSUME NEW s \in SUBSET S, s # {}, \A y \in s : s \ {y} \in E
      PROVE  s \in E
  <2> SUFFICES ASSUME NEW y \in s
               PROVE  g[s] = f[y] + g[s \ {y}]
    OBVIOUS
  <2>1. PICK z \in s : z = Some(s)
    BY FirstIsIn, <1>3
  <2>2. g[s] = f[z] + g[s \ {z}]
    BY <1>2, <2>1, <1>3
  <2>3. CASE y # z
    <3>1. g[s \ {z}] = f[y] + g[(s \ {z}) \ {y}]
      BY <1>3, <2>3
    <3>2. g[s \ {y}] = f[z] + g[(s \ {y}) \ {z}]
      BY <1>3, <2>3
    <3>3. (s \ {z}) \ {y} = (s \ {y}) \ {z}
      OBVIOUS
    <3>4. PICK rest \in Int : rest = g[(s \ {z}) \ {y}]
      OBVIOUS
    <3>5. f[y] \in Int /\ f[z] \in Int
      OBVIOUS
    <3>6. g[s \ {z}] = f[y] + rest /\ g[s \ {y}] = f[z] + rest
      BY <3>1, <3>2, <3>3, <3>4
    <3> QED
      BY <2>2, <3>4, <3>5, <3>6
  <2> QED
    BY <2>2, <2>3
<1>4. S \in E
  <2>1. {} \in E
    OBVIOUS
  <2>2. SUBSET S \subseteq E
    <3> HIDE DEF E
    <3> QED
      BY <1>3, <2>1, SetInduct
  <2> QED
    BY <2>2
<1>5. SumFunctionOnSet(f, S) = g[S] /\ SumFunctionOnSet(f, S \ {x}) = g[S \ {x}]
  BY <1>1, SumIsSolution
<1>6. g[S] = f[x] + g[S \ {x}] /\ g[S \ {x}] \in Int
  BY <1>4
<1> QED
  BY <1>5, <1>6

(* A sum looks at the terms only. *)
LEMMA SumAgree ==
  ASSUME NEW S, IsFiniteSet(S), NEW f, NEW h, \A x \in S : f[x] \in Int /\ h[x] = f[x]
  PROVE  SumFunctionOnSet(h, S) = SumFunctionOnSet(f, S)
<1>1. PICK g \in [SUBSET S -> Int] : Sums(g, f, S)
  BY SumExists
<1>2. Sums(g, h, S)
  <2>1. \A s \in SUBSET S : s # {} => h[Some(s)] = f[Some(s)]
    BY FirstIsIn
  <2>2. [s \in SUBSET S |-> IF s = {} THEN 0 ELSE f[Some(s)] + g[s \ {Some(s)}]]
          = [s \in SUBSET S |-> IF s = {} THEN 0 ELSE h[Some(s)] + g[s \ {Some(s)}]]
    BY <2>1
  <2> QED
    BY <1>1, <2>2 DEF Sums
<1>3. SumFunctionOnSet(f, S) = g[S]
  BY <1>1, SumIsSolution
<1>4. SumFunctionOnSet(h, S) = g[S]
  <2>1. \A x \in S : h[x] \in Int
    OBVIOUS
  <2> QED
    BY <1>2, <2>1, SumIsSolution
<1> QED
  BY <1>3, <1>4

LEMMA SumOfZeros ==
  ASSUME NEW S, IsFiniteSet(S), NEW f, \A x \in S : f[x] = 0
  PROVE  SumFunctionOnSet(f, S) = 0
<1> DEFINE g == [s \in SUBSET S |-> 0]
<1>1. g \in [SUBSET S -> Int]
  OBVIOUS
<1>2. Sums(g, f, S)
  <2>1. ASSUME NEW s \in SUBSET S, s # {}
        PROVE  f[Some(s)] + g[s \ {Some(s)}] = 0
    <3>1. f[Some(s)] = 0
      BY <2>1, FirstIsIn
    <3> QED
      BY <3>1
  <2>2. [s \in SUBSET S |-> IF s = {} THEN 0 ELSE f[Some(s)] + g[s \ {Some(s)}]] = g
    BY <2>1
  <2> QED
    BY <2>2 DEF Sums
<1>3. g[S] = 0
  OBVIOUS
<1> HIDE DEF g
<1> QED
  BY <1>1, <1>2, <1>3, SumIsSolution

LEMMA SumValue ==
  ASSUME NEW S, IsFiniteSet(S), NEW f, \A x \in S : f[x] \in Int
  PROVE  SumFunctionOnSet(f, S) \in Int
<1>1. PICK g \in [SUBSET S -> Int] : Sums(g, f, S)
  BY SumExists
<1>2. S \in SUBSET S
  OBVIOUS
<1> QED
  BY <1>1, <1>2, SumIsSolution

(* Sums are linear. *)
LEMMA SumPlus ==
  ASSUME NEW S, IsFiniteSet(S), NEW f, NEW g, NEW h,
         \A x \in S : f[x] \in Int /\ g[x] \in Int /\ h[x] = f[x] + g[x]
  PROVE  SumFunctionOnSet(h, S) = SumFunctionOnSet(f, S) + SumFunctionOnSet(g, S)
<1> DEFINE T == {s \in SUBSET S :
             SumFunctionOnSet(h, s) = SumFunctionOnSet(f, s) + SumFunctionOnSet(g, s)}
<1>1. {} \in T
  BY SumOfNone
<1>2. ASSUME NEW s \in SUBSET S, s # {}, \A x \in s : s \ {x} \in T
      PROVE  s \in T
  <2>1. PICK x \in s : TRUE
    BY <1>2
  <2>2. IsFiniteSet(s)
    BY FS_Subset
  <2> DEFINE r == s \ {x}
  <2>3. \A y \in s : f[y] \in Int /\ g[y] \in Int /\ h[y] \in Int
    OBVIOUS
  <2>4. SumFunctionOnSet(f, r) \in Int /\ SumFunctionOnSet(f, s) = f[x] + SumFunctionOnSet(f, r)
    BY <2>2, <2>3, SumRemove
  <2>5. SumFunctionOnSet(g, r) \in Int /\ SumFunctionOnSet(g, s) = g[x] + SumFunctionOnSet(g, r)
    BY <2>2, <2>3, SumRemove
  <2>6. SumFunctionOnSet(h, r) \in Int /\ SumFunctionOnSet(h, s) = h[x] + SumFunctionOnSet(h, r)
    BY <2>2, <2>3, SumRemove
  <2>7. SumFunctionOnSet(h, r) = SumFunctionOnSet(f, r) + SumFunctionOnSet(g, r)
    BY <1>2
  <2>8. f[x] \in Int /\ g[x] \in Int /\ h[x] = f[x] + g[x]
    OBVIOUS
  <2> HIDE DEF r
  <2> QED
    BY <2>4, <2>5, <2>6, <2>7, <2>8
<1>3. S \in T
  <2> HIDE DEF T
  <2> QED
    BY <1>1, <1>2, SetInduct
<1> QED
  BY <1>3

LEMMA SumTimes ==
  ASSUME NEW S, IsFiniteSet(S), NEW c \in Int, NEW f, NEW h,
         \A x \in S : f[x] \in Int /\ h[x] = c * f[x]
  PROVE  SumFunctionOnSet(h, S) = c * SumFunctionOnSet(f, S)
<1> DEFINE T == {s \in SUBSET S : SumFunctionOnSet(h, s) = c * SumFunctionOnSet(f, s)}
<1>1. {} \in T
  BY SumOfNone
<1>2. ASSUME NEW s \in SUBSET S, s # {}, \A x \in s : s \ {x} \in T
      PROVE  s \in T
  <2>1. PICK x \in s : TRUE
    BY <1>2
  <2>2. IsFiniteSet(s)
    BY FS_Subset
  <2> DEFINE r == s \ {x}
  <2>3. \A y \in s : f[y] \in Int /\ h[y] \in Int
    OBVIOUS
  <2>4. SumFunctionOnSet(f, r) \in Int /\ SumFunctionOnSet(f, s) = f[x] + SumFunctionOnSet(f, r)
    BY <2>2, <2>3, SumRemove
  <2>5. SumFunctionOnSet(h, s) = h[x] + SumFunctionOnSet(h, r)
    BY <2>2, <2>3, SumRemove
  <2>6. SumFunctionOnSet(h, r) = c * SumFunctionOnSet(f, r)
    BY <1>2
  <2>7. f[x] \in Int /\ h[x] = c * f[x]
    OBVIOUS
  <2> HIDE DEF r
  <2> DEFINE a == SumFunctionOnSet(f, r)
             b == f[x]
  <2>8. a \in Int /\ b \in Int
    BY <2>4, <2>7
  <2> HIDE DEF a, b
  <2>9. c * (b + a) = c * b + c * a
    BY <2>8
  <2> QED
    BY <2>4, <2>5, <2>6, <2>7, <2>9 DEF a, b
<1>3. S \in T
  <2> HIDE DEF T
  <2> QED
    BY <1>1, <1>2, SetInduct
<1> QED
  BY <1>3

(* A sum may be taken over other names of its terms. *)
LEMMA SumMoved ==
  ASSUME NEW S, IsFiniteSet(S), NEW p, \A x, y \in S : p[x] = p[y] => x = y,
         NEW f, NEW h, \A x \in S : h[x] \in Int /\ h[x] = f[p[x]]
  PROVE  SumFunctionOnSet(h, S) = SumFunctionOnSet(f, {p[x] : x \in S})
<1> DEFINE Im(s) == {p[x] : x \in s}
           T == {s \in SUBSET S : IsFiniteSet(Im(s)) /\
                   SumFunctionOnSet(h, s) = SumFunctionOnSet(f, Im(s))}
<1>1. {} \in T
  <2>1. Im({}) = {}
    OBVIOUS
  <2> HIDE DEF Im
  <2> QED
    BY <2>1, SumOfNone, FS_EmptySet
<1>2. ASSUME NEW s \in SUBSET S, s # {}, \A x \in s : s \ {x} \in T
      PROVE  s \in T
  <2>1. PICK x \in s : TRUE
    BY <1>2
  <2>2. IsFiniteSet(s)
    BY FS_Subset
  <2> DEFINE r == s \ {x}
             q == p[x]
  <2>12. q \in Im(s) /\ Im(s) = Im(r) \cup {q}
    OBVIOUS
  <2>13. q \notin Im(r)
    <3> SUFFICES ASSUME NEW y \in r, p[y] = q
                 PROVE  FALSE
      OBVIOUS
    <3>1. y = x
      OBVIOUS
    <3> QED
      BY <3>1
  <2>3. Im(r) = Im(s) \ {q} /\ q \in Im(s) /\ Im(s) = Im(r) \cup {q}
    <3> HIDE DEF Im, q
    <3> QED
      BY <2>12, <2>13
  <2>4. r \in T
    BY <1>2
  <2>5. \A y \in s : h[y] \in Int
    OBVIOUS
  <2>6. \A z \in Im(s) : f[z] \in Int
    <3> SUFFICES ASSUME NEW z \in Im(s)
                 PROVE  f[z] \in Int
      OBVIOUS
    <3>1. PICK y \in s : z = p[y]
      OBVIOUS
    <3>2. h[y] \in Int /\ h[y] = f[p[y]]
      OBVIOUS
    <3> QED
      BY <3>1, <3>2
  <2>7. h[x] = f[q]
    OBVIOUS
  <2>8. IsFiniteSet(Im(r)) /\ SumFunctionOnSet(h, r) = SumFunctionOnSet(f, Im(r))
    BY <2>4
  <2> HIDE DEF q, Im
  <2>9. IsFiniteSet(Im(s))
    <3> DEFINE I == Im(r)
    <3>1. IsFiniteSet(I)
      BY <2>8
    <3> HIDE DEF I
    <3>2. IsFiniteSet(I \cup {q})
      BY <3>1, FS_AddElement
    <3>3. Im(s) = I \cup {q}
      BY <2>3 DEF I
    <3> QED
      BY <3>2, <3>3
  <2>10. SumFunctionOnSet(h, s) = h[x] + SumFunctionOnSet(h, r)
    BY <2>2, <2>5, SumRemove
  <2>11. SumFunctionOnSet(f, Im(s)) = f[q] + SumFunctionOnSet(f, Im(s) \ {q})
    BY <2>3, <2>6, <2>9, SumRemove
  <2> QED
    BY <2>3, <2>7, <2>8, <2>9, <2>10, <2>11
<1>3. S \in T
  <2> HIDE DEF T
  <2> QED
    BY <1>1, <1>2, SetInduct
<1> QED
  BY <1>3

(* Terms that cancel in pairs. *)
LEMMA SumOfPairs ==
  ASSUME NEW S, IsFiniteSet(S), NEW p, NEW d,
         \A x \in S : p[x] \in S /\ p[p[x]] = x /\ d[x] \in Int /\ d[p[x]] = -d[x]
  PROVE  SumFunctionOnSet(d, S) = 0
<1> DEFINE h == [x \in S |-> d[p[x]]]
<1>1. \A x, y \in S : p[x] = p[y] => x = y
  OBVIOUS
<1>2. S = {p[x] : x \in S}
  OBVIOUS
<1>3. \A x \in S : h[x] \in Int /\ h[x] = d[p[x]]
  OBVIOUS
<1>4. \A x \in S : d[x] \in Int /\ h[x] = (-1) * d[x]
  OBVIOUS
<1> HIDE DEF h
<1>5. SumFunctionOnSet(h, S) = SumFunctionOnSet(d, S)
  BY <1>1, <1>2, <1>3, SumMoved
<1>6. SumFunctionOnSet(h, S) = (-1) * SumFunctionOnSet(d, S)
  BY <1>4, SumTimes
<1>7. SumFunctionOnSet(d, S) \in Int
  BY SumValue
<1> QED
  BY <1>5, <1>6, <1>7

(* A sum over two sets. *)
LEMMA SumSplit ==
  ASSUME NEW A, IsFiniteSet(A), NEW B, IsFiniteSet(B), \A x \in A : x \notin B,
         NEW f, \A x \in A \cup B : f[x] \in Int
  PROVE  SumFunctionOnSet(f, A \cup B) = SumFunctionOnSet(f, A) + SumFunctionOnSet(f, B)
<1> DEFINE T == {s \in SUBSET B : SumFunctionOnSet(f, A \cup s)
                                    = SumFunctionOnSet(f, A) + SumFunctionOnSet(f, s)}
<1>1. {} \in T
  <2>1. A \cup {} = A
    OBVIOUS
  <2>2. SumFunctionOnSet(f, A) \in Int
    BY SumValue
  <2> QED
    BY <2>1, <2>2, SumOfNone
<1>2. ASSUME NEW s \in SUBSET B, s # {}, \A x \in s : s \ {x} \in T
      PROVE  s \in T
  <2>1. PICK x \in s : TRUE
    BY <1>2
  <2> DEFINE r == s \ {x}
             U == A \cup s
  <2>2. IsFiniteSet(s) /\ IsFiniteSet(U)
    BY FS_Subset, FS_Union
  <2>3. U \ {x} = A \cup r /\ x \in U
    OBVIOUS
  <2>4. \A y \in U : f[y] \in Int
    OBVIOUS
  <2>5. SumFunctionOnSet(f, A \cup r) = SumFunctionOnSet(f, A) + SumFunctionOnSet(f, r)
    BY <1>2
  <2>6. SumFunctionOnSet(f, r) \in Int /\ SumFunctionOnSet(f, s) = f[x] + SumFunctionOnSet(f, r)
    BY <2>2, SumRemove
  <2> HIDE DEF U
  <2>7. SumFunctionOnSet(f, U) = f[x] + SumFunctionOnSet(f, U \ {x})
    BY <2>2, <2>3, <2>4, SumRemove
  <2>8. SumFunctionOnSet(f, A) \in Int /\ f[x] \in Int
    BY SumValue
  <2>9. SumFunctionOnSet(f, U) = SumFunctionOnSet(f, A) + SumFunctionOnSet(f, s)
    <3>1. SumFunctionOnSet(f, U)
            = f[x] + (SumFunctionOnSet(f, A) + SumFunctionOnSet(f, r))
      BY <2>3, <2>5, <2>7
    <3> DEFINE a == SumFunctionOnSet(f, A)
               b == SumFunctionOnSet(f, r)
               e == f[x]
    <3>2. a \in Int /\ b \in Int /\ e \in Int
      BY <2>6, <2>8
    <3> HIDE DEF a, b, e
    <3>3. e + (a + b) = a + (e + b)
      BY <3>2
    <3> QED
      BY <2>6, <3>1, <3>3 DEF a, b, e
  <2> QED
    BY <2>9 DEF U
<1>3. B \in T
  <2> HIDE DEF T
  <2> QED
    BY <1>1, <1>2, SetInduct
<1> QED
  BY <1>3


(* A sum over one more number. *)
LEMMA SumNext ==
  ASSUME NEW n \in Nat, NEW f, \A j \in 1 .. n : f[j] \in Int, NEW k \in Nat, k + 1 <= n
  PROVE  /\ SumFunctionOnSet(f, 1 .. k) \in Int
         /\ SumFunctionOnSet(f, 1 .. k + 1) = SumFunctionOnSet(f, 1 .. k) + f[k + 1]
<1>1. /\ k + 1 \in 1 .. k + 1 /\ (1 .. k + 1) \ {k + 1} = 1 .. k
      /\ \A j \in 1 .. k + 1 : j \in 1 .. n
  OBVIOUS
<1>2. IsFiniteSet(1 .. k + 1)
  BY FS_Interval
<1> DEFINE S == 1 .. k + 1
           x == k + 1
<1>3. IsFiniteSet(S) /\ (\A j \in S : f[j] \in Int) /\ x \in S /\ S \ {x} = 1 .. k
  BY <1>1, <1>2
<1> HIDE DEF S, x
<1>4. /\ SumFunctionOnSet(f, S \ {x}) \in Int
      /\ SumFunctionOnSet(f, S) = f[x] + SumFunctionOnSet(f, S \ {x})
  BY <1>3, SumRemove
<1>5. f[x] \in Int
  BY <1>3
<1> DEFINE a == SumFunctionOnSet(f, S \ {x})
           b == f[x]
<1>6. a = SumFunctionOnSet(f, 1 .. k)
  BY <1>3
<1>7. a \in Int /\ b \in Int /\ SumFunctionOnSet(f, S) = b + a
  BY <1>4, <1>5
<1> HIDE DEF a, b
<1>8. SumFunctionOnSet(f, S) = a + b
  BY <1>7
<1> QED
  BY <1>6, <1>7, <1>8 DEF S, x, b

(* g sums f in fours, and h has what is left over. *)
InFours(f, g, h, n) ==
  /\ \A j \in 1 .. n : f[j] \in Int
  /\ \A k \in 1 .. n \div 4 :
       /\ g[k] \in Int
       /\ g[k] = f[4 * k - 3] + f[4 * k - 2] + f[4 * k - 1] + f[4 * k]
  /\ \A j \in 1 .. n % 4 : h[j] \in Int /\ h[j] = f[4 * (n \div 4) + j]

LEMMA SumInFours ==
  ASSUME NEW n \in Nat, NEW f, NEW g, NEW h, InFours(f, g, h, n)
  PROVE  /\ SumFunctionOnSet(g, 1 .. n \div 4) \in Int /\ SumFunctionOnSet(h, 1 .. n % 4) \in Int
         /\ SumFunctionOnSet(f, 1 .. n)
              = SumFunctionOnSet(g, 1 .. n \div 4) + SumFunctionOnSet(h, 1 .. n % 4)
<1> USE DEF InFours
<1> DEFINE q == n \div 4
           r == n % 4
           F(k) == SumFunctionOnSet(f, 1 .. k)
           G(k) == SumFunctionOnSet(g, 1 .. k)
           H(k) == SumFunctionOnSet(h, 1 .. k)
<1>1. q \in Nat /\ r \in 0 .. 3 /\ n = 4 * q + r
  OBVIOUS
<1>2. /\ \A k \in Nat : k + 1 <= n => F(k) \in Int /\ F(k + 1) = F(k) + f[k + 1]
      /\ \A k \in Nat : k + 1 <= q => G(k) \in Int /\ G(k + 1) = G(k) + g[k + 1]
      /\ \A k \in Nat : k + 1 <= r => H(k) \in Int /\ H(k + 1) = H(k) + h[k + 1]
  <2>1. \A k \in Nat : k + 1 <= n => F(k) \in Int /\ F(k + 1) = F(k) + f[k + 1]
    BY SumNext
  <2>2. \A k \in Nat : k + 1 <= q => G(k) \in Int /\ G(k + 1) = G(k) + g[k + 1]
    <3>1. \A k \in 1 .. q : g[k] \in Int
      OBVIOUS
    <3> HIDE DEF q
    <3> QED
      BY <1>1, <3>1, SumNext
  <2>3. \A k \in Nat : k + 1 <= r => H(k) \in Int /\ H(k + 1) = H(k) + h[k + 1]
    <3>1. \A k \in 1 .. r : h[k] \in Int
      OBVIOUS
    <3>2. r \in Nat
      BY <1>1
    <3> HIDE DEF r
    <3> QED
      BY <3>1, <3>2, SumNext
  <2> QED
    BY <2>1, <2>2, <2>3
<1>3. F(0) = 0 /\ G(0) = 0 /\ H(0) = 0
  <2>1. 1 .. 0 = {}
    OBVIOUS
  <2> QED
    BY <2>1, SumOfNone
<1>4. /\ \A k \in 1 .. q : /\ g[k] = f[4 * k - 3] + f[4 * k - 2] + f[4 * k - 1] + f[4 * k]
                           /\ g[k] \in Int
      /\ \A j \in 1 .. r : h[j] = f[4 * q + j] /\ h[j] \in Int
      /\ \A j \in 1 .. n : f[j] \in Int
  OBVIOUS
<1> HIDE DEF q, r, F, G, H
<1> DEFINE T == {k \in 0 .. q : F(4 * k) = G(k) /\ G(k) \in Int}
           U == {j \in 0 .. r : F(4 * q + j) = G(q) + H(j) /\ H(j) \in Int /\ G(q) \in Int}
<1>5. 0 \in T
  BY <1>1, <1>3
<1>6. ASSUME NEW k \in 0 .. q - 1, k \in T
      PROVE  k + 1 \in T
  <2> DEFINE a == 4 * k
  <2>1. /\ a \in Nat /\ a + 1 \in Nat /\ a + 2 \in Nat /\ a + 3 \in Nat /\ k \in Nat
        /\ a + 4 <= n /\ k + 1 <= q /\ k + 1 \in 1 .. q /\ k + 1 \in 0 .. q
        /\ 4 * (k + 1) - 3 = a + 1 /\ 4 * (k + 1) - 2 = a + 2 /\ 4 * (k + 1) - 1 = a + 3
        /\ 4 * (k + 1) = a + 4
    BY <1>1
  <2>2. F(a) = G(k) /\ G(k) \in Int
    BY <1>6
  <2> HIDE DEF a, T
  <2>3. /\ a + 1 \in 1 .. n /\ a + 2 \in 1 .. n /\ a + 3 \in 1 .. n /\ a + 4 \in 1 .. n
        /\ a + 1 <= n /\ (a + 1) + 1 <= n /\ (a + 2) + 1 <= n /\ (a + 3) + 1 <= n
        /\ (a + 1) + 1 = a + 2 /\ (a + 2) + 1 = a + 3 /\ (a + 3) + 1 = a + 4
    BY <1>1, <2>1
  <2>4. /\ F(a + 1) = F(a) + f[a + 1] /\ F(a + 2) = F(a + 1) + f[a + 2]
        /\ F(a + 3) = F(a + 2) + f[a + 3] /\ F(a + 4) = F(a + 3) + f[a + 4]
    <3>1. F(a + 1) = F(a) + f[a + 1]
      BY <1>2, <2>1, <2>3
    <3>2. F((a + 1) + 1) = F(a + 1) + f[(a + 1) + 1]
      BY <1>2, <2>1, <2>3
    <3>3. F((a + 2) + 1) = F(a + 2) + f[(a + 2) + 1]
      BY <1>2, <2>1, <2>3
    <3>4. F((a + 3) + 1) = F(a + 3) + f[(a + 3) + 1]
      BY <1>2, <2>1, <2>3
    <3> QED
      BY <2>3, <3>1, <3>2, <3>3, <3>4
  <2>5. g[k + 1] = f[a + 1] + f[a + 2] + f[a + 3] + f[a + 4] /\ g[k + 1] \in Int
    BY <1>4, <2>1
  <2>6. f[a + 1] \in Int /\ f[a + 2] \in Int /\ f[a + 3] \in Int /\ f[a + 4] \in Int
    BY <1>4, <2>3
  <2>7. G(k + 1) = G(k) + g[k + 1]
    BY <1>2, <2>1
  <2>8. F(a + 4) = G(k + 1) /\ G(k + 1) \in Int
    BY <2>2, <2>4, <2>5, <2>6, <2>7
  <2> QED
    BY <2>1, <2>8 DEF T
<1>7. q \in T
  <2> HIDE DEF T
  <2> QED
    BY <1>1, <1>5, <1>6, UpTo
<1>8. 0 \in U
  <2>1. F(4 * q) = G(q) /\ G(q) \in Int
    BY <1>7
  <2> QED
    BY <1>1, <1>3, <2>1
<1>9. ASSUME NEW j \in 0 .. r - 1, j \in U
      PROVE  j + 1 \in U
  <2> DEFINE a == 4 * q + j
  <2>1. /\ a \in Nat /\ j \in Nat /\ a + 1 <= n /\ j + 1 <= r /\ j + 1 \in 1 .. r /\ j + 1 \in 0 .. r
        /\ 4 * q + (j + 1) = a + 1 /\ a + 1 \in 1 .. n
    BY <1>1
  <2>2. F(a) = G(q) + H(j) /\ H(j) \in Int /\ G(q) \in Int
    BY <1>9
  <2> HIDE DEF a, U
  <2>3. F(a + 1) = F(a) + f[a + 1] /\ H(j + 1) = H(j) + h[j + 1]
    BY <1>2, <2>1
  <2>4. h[j + 1] = f[a + 1] /\ h[j + 1] \in Int
    BY <1>4, <2>1
  <2>5. F(a + 1) = G(q) + H(j + 1) /\ H(j + 1) \in Int
    BY <2>2, <2>3, <2>4
  <2> QED
    BY <2>1, <2>2, <2>5 DEF U
<1>10. r \in U
  <2>1. r \in Nat
    BY <1>1
  <2> HIDE DEF U
  <2> QED
    BY <1>8, <1>9, <2>1, UpTo
<1>11. F(n) = G(q) + H(r) /\ H(r) \in Int /\ G(q) \in Int
  BY <1>1, <1>10
<1> QED
  BY <1>11 DEF F, G, H, q, r
=============================================================================
