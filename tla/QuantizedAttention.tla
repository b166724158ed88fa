------------------------- MODULE QuantizedAttention -------------------------
(***************************************************************************)
(* The numbers of the quantized path: Quantizer::quantize_into, the dot    *)
(* products of a rotated query with packed keys, the choice of sparse V,   *)
(* and the weighted sum of packed values, in one of three readers:         *)
(* "avx2" and "portable", the builds of AttentionHead::compute, and "har", *)
(* HARFixedStrategy::compute_full.  Arithmetic is exact, in integers:      *)
(* vectors have an integral norm, the constant factors 1 / sqrt(Dim) and   *)
(* 1 / Padded of a logit and 1 / Padded of an output are left out, and     *)
(* softmax gives any weights, in multiples of 1 / Whole, in the order of   *)
(* the logits.                                                             *)
(*                                                                         *)
(* Every reader takes the value of a token from the token itself.  For     *)
(* "har" that idealizes the pairing: compute_full reads the value of token *)
(* i at slot n + i (har_fixed.cpp:233 and :244), which in the slab of a    *)
(* RuntimeContext is another vector, as KeysMeetTheirValues of the module  *)
(* RuntimeContext shows.  This module is about the numbers made of the     *)
(* slots read, that one about which slots they are.                        *)
(***************************************************************************)
EXTENDS Packing, Codebook, Rotation

CONSTANTS
  Vector,      \* the keys, values and queries there are
  Offered,     \* Offered[n]: pairs <<key, value>> that may be token n
  Queries,     \* vectors that may be asked for
  Whole,       \* a weight of Whole is 1
  Masses       \* v_mass_thresh, in weight; 0 is all of V

ASSUME OfferedAssumption ==
  /\ Offered \in Seq(SUBSET (Vector \X Vector))
  /\ Queries \subseteq Vector
  /\ Whole \in Nat
  /\ Masses \subseteq Nat

VARIABLES
  bits,        \* codes of bits bits
  kernel,      \* the reader of this build
  v_mass,      \* v_mass_thresh
  tokens,      \* sequence of [key, val, k, v]: as given and as stored
  answer       \* the last call of compute

vars == <<bits, kernel, v_mass, tokens, answer>>

Norms == 0 .. 7   \* bound: the norms of vectors; each of them, times 3, divides Unit

Square(x) == SumFunction([i \in DOMAIN x |-> x[i] * x[i]])

ASSUME VectorAssumption ==
  \A x \in Vector : x \in [0 .. Dim - 1 -> Int] /\ \E n \in Norms : n * n = Square(x)

norm(x) == CHOOSE n \in Norms : n * n = Square(x)

Clip(y) == CASE y > Unit -> Unit [] y < -Unit -> -Unit [] OTHER -> y

(* The rotated vector has unit variance: clip is 3 and its scale 3 * norm. *)
(* The vector 0 has a norm of 10^-6 in the code and 0 here.                *)
Clipped ==
  [x \in Vector |->
     LET y == fwht_forward(Pad(x))
         n == norm(x)
     IN [i \in Position |-> IF n = 0 THEN 0 ELSE Clip(y[i] * (Unit \div (3 * n)))]]

Codes ==
  [x \in Vector |-> [b \in Bits |-> [i \in Position |-> quantize_fast(Clipped[x][i], b)]]]

quantize_into(x, b) == [data |-> pack_indices(Codes[x][b], b), scale |-> 3 * norm(x)]

dequantize_raw(p, b) ==
  LET idx == unpack_indices(p.data, b)
      y   == fwht_inverse([i \in Position |-> get_codebook(b)[idx[i]]])
  IN [i \in 0 .. Dim - 1 |-> p.scale * y[i]]

-----------------------------------------------------------------------------

(* Faulty: the second half of a turn reads the bytes of the first. *)
QuadStuck(src, i, b) == Decode(src, 2 * Step(b) * (i \div 16), b)[i % 8]

(* Code i of a vector as the four-token kernels find it, two blocks of     *)
(* eight codes in a turn ...                                               *)
Quad(src, i, b) ==
  Decode(src, 2 * Step(b) * (i \div 16) + (IF i % 16 < 8 THEN 0 ELSE Step(b)), b)[i % 8]

(* ... and as the kernels for the tokens left over do, block by block.     *)
Single(src, i, b) == Decode(src, Step(b) * (i \div 8), b)[i % 8]

(* kdot_ref and vaccum_ref of HARFixedStrategy, like the portable loops,   *)
(* take the codes of a byte, or of three bytes, one after the other.       *)
RefCodes(src) == unpack_indices(src, bits)

(* The codes of the vector that a loop over n of them reads in place j. *)
CodesRead(src, j, n) ==
  IF kernel = "avx2"
    THEN [i \in Position |-> IF j <= 4 * (n \div 4) THEN Quad(src, i, bits)
                                                    ELSE Single(src, i, bits)]
    ELSE RefCodes(src)

kdot(qr, src, j, n) ==
  LET idx == CodesRead(src, j, n)
  IN SumFunction([i \in Position |-> qr[i] * get_codebook(bits)[idx[i]]])

Logits(q) ==
  LET qr == fwht_forward(Pad(q))
  IN [t \in DOMAIN tokens |-> tokens[t].k.scale * kdot(qr, tokens[t].k.data, t, Len(tokens))]

Distributions == [n \in 0 .. Len(Offered) |->
                    {w \in [1 .. n -> 0 .. Whole] : n = 0 \/ SumFunction(w) = Whole}]

softmax(logits) ==
  {w \in Distributions[Len(logits)] :
     \A s, t \in DOMAIN logits : logits[s] > logits[t] => w[s] >= w[t]}

-----------------------------------------------------------------------------

Arrangements == [n \in 0 .. Len(Offered) |-> Bijection(1 .. n, 1 .. n)]

(* ord: by weight, heaviest first; std::sort leaves equal ones in any      *)
(* order.                                                                  *)
Orders(w) ==
  IF v_mass = 0
    THEN {[j \in DOMAIN w |-> j]}
    ELSE {ord \in Arrangements[Len(w)] :
            \A a, b \in DOMAIN w : a < b => w[ord[a]] >= w[ord[b]]}

MassOf(w, ord, m) == SumFunctionOnSet([j \in DOMAIN ord |-> w[ord[j]]], 1 .. m)

(* Numbers of tokens after which a loop over n looks at the mass it has. *)
Stops(n) ==
  IF kernel = "avx2" THEN {m \in 0 .. n : m % 4 = 0 \/ m > 4 * (n \div 4)} ELSE 0 .. n

(* Faulty: the mass of the next token is counted before it is summed. *)
UsedShort(w, ord) ==
  CHOOSE m \in 0 .. Len(ord) :
    LET Enough(k) == k = Len(ord) \/ (v_mass > 0 /\ MassOf(w, ord, k + 1) >= v_mass)
    IN Enough(m) /\ \A k \in 0 .. m - 1 : ~Enough(k)

(* How many tokens of ord are summed; the portable build takes all. *)
Used(w, ord) ==
  IF v_mass = 0 \/ kernel = "portable"
    THEN Len(ord)
    ELSE LET Enough(m) == m \in Stops(Len(ord)) /\ (m = Len(ord) \/ MassOf(w, ord, m) >= v_mass)
         IN CHOOSE m \in 0 .. Len(ord) : Enough(m) /\ \A k \in 0 .. m - 1 : ~Enough(k)

vaccum(w, ord, m) ==
  LET idx == [j \in 1 .. m |-> CodesRead(tokens[ord[j]].v.data, j, Len(ord))]
  IN [i \in Position |->
        SumFunction([j \in 1 .. m |->
          w[ord[j]] * tokens[ord[j]].v.scale * get_codebook(bits)[idx[j][i]]])]

-----------------------------------------------------------------------------

NoAnswer == [asked |-> FALSE]

(* The portable build has room for eight entries of a codebook only        *)
(* (attention.cpp:523): it is not modelled with 4 bits.                    *)
Init ==
  /\ bits \in Bits
  /\ kernel \in {"avx2", "portable", "har"}
  /\ kernel = "portable" => bits # 4
  /\ v_mass \in Masses
  /\ tokens = << >>
  /\ answer = NoAnswer

append_kv(key, val) ==
  /\ tokens' = Append(tokens, [key |-> key, val |-> val,
                               k |-> quantize_into(key, bits), v |-> quantize_into(val, bits)])
  /\ answer' = NoAnswer
  /\ UNCHANGED <<bits, kernel, v_mass>>

compute(q) ==
  LET logits == Logits(q)
  IN \E w \in softmax(logits) : \E ord \in Orders(w) :
       LET m == Used(w, ord)
       IN /\ answer' = [asked |-> TRUE, q |-> q, logits |-> logits, weights |-> w,
                        used |-> {ord[j] : j \in 1 .. m},
                        out |-> Cut(fwht_inverse(vaccum(w, ord, m)))]
          /\ UNCHANGED <<bits, kernel, v_mass, tokens>>

(* adaptq_reset empties the ring; what was answered is of no use to it. *)
reset ==
  /\ tokens' = << >>
  /\ answer' = NoAnswer
  /\ UNCHANGED <<bits, kernel, v_mass>>

(* bound: one call of compute for each content of the cache; another one   *)
(* depends on nothing the first has left.                                  *)
Next ==
  \/ /\ Len(tokens) < Len(Offered)   \* bound
     /\ \E kv \in Offered[Len(tokens) + 1] : append_kv(kv[1], kv[2])
  \/ /\ ~answer.asked
     /\ \E q \in Queries : compute(q)
  \/ reset

Spec == Init /\ [][Next]_vars

-----------------------------------------------------------------------------

(* What pack_indices stored is what every reader finds: unpack_indices,    *)
(* and either AVX2 kernel, which reads eight codes from one integer.       *)
Recoverable(p, x) ==
  LET idx == Codes[x][bits]
  IN /\ unpack_indices(p.data, bits) = idx
     /\ \A i \in Position : Quad(p.data, i, bits) = idx[i] /\ Single(p.data, i, bits) = idx[i]

PackedRecoverable ==
  \A t \in DOMAIN tokens : Recoverable(tokens[t].k, tokens[t].key)
                           /\ Recoverable(tokens[t].v, tokens[t].val)

Distance(y, b, c) == LET d == y - Centroid * get_codebook(b)[c] IN IF d < 0 THEN -d ELSE d

(* The binary search of quantize_fast over midpoints finds a nearest       *)
(* centroid, as the linear search of quantize_scalar would.                *)
DecodedIsNearest ==
  \A t \in DOMAIN tokens :
    LET y   == Clipped[tokens[t].key]
        idx == unpack_indices(tokens[t].k.data, bits)
    IN \A i \in Position : \A c \in Code(bits) :
         Distance(y[i], bits, idx[i]) <= Distance(y[i], bits, c)

(* Rotated there and back, a key is itself, times Padded; every key is the *)
(* last one once.                                                          *)
RotationRoundTrip ==
  tokens # << >> =>
    LET x == Pad(Last(tokens).key)
    IN fwht_inverse(fwht_forward(x)) = [i \in Position |-> Padded * x[i]]

(* compute never dequantizes, and answers as if it did: a logit is the dot *)
(* product of the query, not rotated, with the dequantized key, and the    *)
(* output is the weighted sum of the dequantized values that were used,    *)
(* whichever kernel read them and in whichever order.                      *)
AttendsToDequantized ==
  answer.asked =>
    /\ \A t \in DOMAIN tokens :
         LET k == dequantize_raw(tokens[t].k, bits)
         IN answer.logits[t] = SumFunction([i \in DOMAIN k |-> answer.q[i] * k[i]])
    /\ LET val == [t \in answer.used |-> dequantize_raw(tokens[t].v, bits)]
       IN \A i \in DOMAIN answer.out :
            answer.out[i] = SumFunction([t \in answer.used |-> answer.weights[t] * val[t][i]])

(* Sparse V covers the mass asked for, and leaves out only tokens that are *)
(* no heavier than any it uses: include/attention.h:15.                    *)
SparseCoversMass ==
  answer.asked =>
    LET w == answer.weights
        unused == DOMAIN w \ answer.used
    IN /\ unused # {} => SumFunctionOnSet(w, answer.used) >= v_mass
       /\ \A s \in answer.used, t \in unused : w[s] >= w[t]
       /\ v_mass = 0 => unused = {}
=============================================================================
