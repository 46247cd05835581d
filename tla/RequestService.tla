--------------------------- MODULE RequestService ---------------------------
(***************************************************************************)
(* What the sensor link promises the host, without framing, checksums or   *)
(* the receive FIFO: packets leave one at a time, and each is paid for by  *)
(* two request bytes (command and checksum) that arrived since and are     *)
(* used for no other packet.  Request bytes may be lost at any time.       *)
(***************************************************************************)
EXTENDS Naturals

CONSTANT Capacity      \* request bytes that can be outstanding

VARIABLES
  owed,        \* request bytes that arrived and may still pay for a packet
  answering    \* a packet is being sent

vars == <<owed, answering>>

Init == owed = 0 /\ answering = FALSE

Arrive ==
  /\ owed < Capacity
  /\ owed' = owed + 1
  /\ UNCHANGED answering

Lose ==
  /\ owed' \in 0..(owed - 1)
  /\ UNCHANGED answering

Answer ==
  /\ ~answering /\ owed >= 2
  /\ answering' = TRUE
  /\ owed' = owed - 2

Finish ==
  /\ answering
  /\ answering' = FALSE
  /\ UNCHANGED owed

Next == Arrive \/ Lose \/ Answer \/ Finish

Spec == Init /\ [][Next]_vars
=============================================================================
