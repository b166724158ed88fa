------------------------ MODULE MCQuantizedAttention ------------------------
(* Vectors of twelve numbers, padded to sixteen, for TLC. *)
EXTENDS KernelBackend

Signs == [i \in 0 .. 15 |-> <<1, -1, -1, 1, 1, 1, -1, 1, -1, 1, 1, -1, -1, 1, -1, -1>>[i + 1]]

Vec(s) == [i \in 0 .. 11 |-> IF i < Len(s) THEN s[i + 1] ELSE 0]

(* Its rotation is 20 / 6 standard deviations long in coordinate 0. *)
Aligned == [i \in 0 .. 11 |-> Signs[i] * (IF i < 8 THEN 2 ELSE 1)]
Opposed == [i \in 0 .. 11 |-> -Aligned[i]]

Zero == Vec(<< >>)
Axis == Vec(<<0, 0, 0, 0, 0, 1>>)
Pair == Vec(<<3, 0, 0, 0, 0, 0, 0, 0, 0, 0, -4>>)
Mixed == Vec(<<1, 1, -1, 1>>)
Spread == Vec(<<2, 0, 0, 3, 0, 0, 0, 0, 0, -6>>)
Skewed == Vec(<<0, -1, 0, 0, 2, 0, 0, 2>>)

MCVector == {Zero, Axis, Pair, Mixed, Spread, Skewed, Aligned, Opposed}

MCOffered == <<{<<x, x>> : x \in {Zero, Pair, Mixed, Skewed, Aligned, Opposed}}, {<<Spread, Mixed>>}, {<<Skewed, Axis>>},
               {<<Opposed, Pair>>}, {<<Pair, Aligned>>}>>

MCQueries == {Skewed}
=============================================================================
