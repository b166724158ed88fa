--------------------------- MODULE SlidingWindow ---------------------------
(***************************************************************************)
(* What a bounded KV cache promises its caller: it holds the last Capacity *)
(* tokens appended since the last reset, and attention is computed over    *)
(* exactly these, in order of arrival.                                     *)
(***************************************************************************)
EXTENDS Integers, Sequences

CONSTANTS Token, Capacity

VARIABLES
  window,  \* the tokens held, oldest first
  answer   \* the tokens the last computed output is made of

vars == <<window, answer>>

(* Appending to a full window drops its oldest token. *)
Slide(w, t) == IF Len(w) < Capacity THEN Append(w, t) ELSE Append(Tail(w), t)

Init == window = <<>> /\ answer = <<>>

Push(t) == window' = Slide(window, t) /\ UNCHANGED answer

Attend == answer' = window /\ UNCHANGED window

Clear == window' = <<>> /\ UNCHANGED answer

Next == (\E t \in Token : Push(t)) \/ Attend \/ Clear

Spec == Init /\ [][Next]_vars
=============================================================================
