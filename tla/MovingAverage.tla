--------------------------- MODULE MovingAverage ---------------------------
(***************************************************************************)
(* What a smoothed axis promises: once five samples were taken, each       *)
(* result is the mean of the last five, rounded towards zero; before that  *)
(* the result is the sample itself.                                        *)
(***************************************************************************)
EXTENDS Integers

CONSTANT Samples       \* values the axis can deliver

Size == 5

VARIABLES
  window,   \* window[k]: the sample k samples ago, 0 before the first
  filled,   \* samples taken, up to Size
  mean      \* the result

vars == <<window, filled, mean>>

\* Division of C: towards zero.
Quotient(a, b) == IF a >= 0 THEN a \div b ELSE -((-a) \div b)

Total(w) == w[0] + w[1] + w[2] + w[3] + w[4]

Init ==
  /\ window = [k \in 0..(Size - 1) |-> 0]
  /\ filled = 0
  /\ mean = 0

Take(v) ==
  /\ window' = [k \in 0..(Size - 1) |-> IF k = 0 THEN v ELSE window[k - 1]]
  /\ filled' = IF filled < Size THEN filled + 1 ELSE Size
  /\ mean' = IF filled' < Size THEN v ELSE Quotient(Total(window'), Size)

Next == \E v \in Samples : Take(v)

Spec == Init /\ [][Next]_vars
=============================================================================
