---------------------------- MODULE HartBarrier ----------------------------
(***************************************************************************)
(* What the start-up code promises a program with several harts: a hart    *)
(* goes on only after all have arrived, and so after the boot hart has     *)
(* initialised the memory they share.                                      *)
(***************************************************************************)
CONSTANTS Harts, BootHart

VARIABLES arrived, passed, ready

barrierVars == <<arrived, passed, ready>>

BarrierInit == arrived = {} /\ passed = {} /\ ready = FALSE

Initialise == ~ready /\ ready' = TRUE /\ UNCHANGED <<arrived, passed>>

\* The last to arrive may go on at once, as the only hart of a core does.
Arrive(h) ==
  /\ h \notin arrived
  /\ h = BootHart => ready
  /\ arrived' = arrived \cup {h}
  /\ \/ passed' = passed
     \/ arrived' = Harts /\ passed' = passed \cup {h}
  /\ UNCHANGED ready

\* The harts that go on in one step have all been waiting.
Pass(S) ==
  /\ arrived = Harts
  /\ passed' = passed \cup S
  /\ UNCHANGED <<arrived, ready>>

BarrierNext ==
  \/ Initialise
  \/ \E h \in Harts : Arrive(h)
  \/ \E S \in SUBSET Harts : Pass(S)

BarrierSpec == BarrierInit /\ [][BarrierNext]_barrierVars
============================================================================
