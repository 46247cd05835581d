----------------------------- MODULE ModeSwitch -----------------------------
(***************************************************************************)
(* What the two push buttons promise the user, with nothing of the loop    *)
(* that polls them: the Modes modes form one ring, button "B" turns the    *)
(* selection one place forward, button "A" one place back, and every turn  *)
(* is paid for by a physical press of its own that was not used before.    *)
(*                                                                         *)
(* A press may also be lost: the firmware samples the pins once per        *)
(* iteration and looks at "A" only when "B" has no new press.              *)
(***************************************************************************)
EXTENDS Naturals

CONSTANT NumModes      \* length of the ring

Buttons == {"A", "B"}

VARIABLES
  selected,   \* place on the ring
  down,       \* down[b]: button b is physically pressed
  credit      \* credit[b]: presses of b that may still turn the selection

vars == <<selected, down, credit>>

\* At most one press waits to be sampled and one has been sampled.
Capacity == 2

Init ==
  /\ selected = 0
  /\ down \in [Buttons -> BOOLEAN]
  /\ credit = [b \in Buttons |-> IF down[b] THEN 1 ELSE 0]

Press(b) ==
  /\ ~down[b]
  /\ down' = [down EXCEPT ![b] = TRUE]
  /\ \E n \in {credit[b], credit[b] + 1} :
        n <= Capacity /\ credit' = [credit EXCEPT ![b] = n]
  /\ UNCHANGED selected

Release(b) ==
  /\ down[b]
  /\ down' = [down EXCEPT ![b] = FALSE]
  /\ UNCHANGED <<selected, credit>>

Lose(b) ==
  /\ credit[b] > 0
  /\ credit' = [credit EXCEPT ![b] = @ - 1]
  /\ UNCHANGED <<selected, down>>

\* A turn uses up one press of b; a new press of the other button that was
\* sampled with it may be dropped in the same step.
Spend(b) ==
  /\ credit[b] > 0
  /\ \E lost \in {0, 1} :
        credit' = [c \in Buttons |->
                     IF c = b THEN credit[c] - 1
                     ELSE IF lost <= credit[c] THEN credit[c] - lost
                     ELSE credit[c]]
  /\ UNCHANGED down

TurnForward == Spend("B") /\ selected' = (selected + 1) % NumModes

TurnBack == Spend("A") /\ selected' = (selected + NumModes - 1) % NumModes

Next ==
  \/ \E b \in Buttons : Press(b) \/ Release(b) \/ Lose(b)
  \/ TurnForward
  \/ TurnBack

Spec == Init /\ [][Next]_vars
=============================================================================
