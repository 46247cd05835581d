------------------------------- MODULE MCCore -------------------------------
(***************************************************************************)
(* The core complex in small: its start-up, its counters, its traps, its   *)
(* protection regions and its other interrupt controller.  They share no   *)
(* state that their modules keep, so a behaviour runs one of them, chosen  *)
(* at the start, and the others stay as they were.                         *)
(***************************************************************************)
EXTENDS HartStart, TrapDispatch, WideTimer, HpmCounters, PmpRegions,
        ClicController

\* What the theorems suppose of the pins and of the regions asked for.
ASSUME CoreAssumption == OwnLines /\ WholeGrains

VARIABLE active     \* the part that runs

Parts == {"harts", "traps", "timer", "hpm", "pmp", "clic"}

coreVars == <<active, hartVars, trapVars, timerVars, hpmVars, pmpVars,
              clicVars>>

-----------------------------------------------------------------------------
(* The programs of TrapDispatch: two pins under priorities and a threshold; *)
(* one that takes its set-up back; the core's own interrupts and            *)
(* exceptions, direct and vectored; and the local external line.            *)

\* bsp/metal.h: the line of a GPIO pin is its number and a constant.
MCPinLine(p) == p + 1

NoUse == [pins |-> {}, locals |-> {}, exceptions |-> {}, modes |-> {},
          priorities |-> {}, thresholds |-> {}, global |-> FALSE,
          undoes |-> FALSE]

MCPrograms ==
  { [NoUse EXCEPT !.pins = {1, 2}, !.priorities = {1, 3}, !.thresholds = {1}],
    [NoUse EXCEPT !.pins = {1}, !.modes = {"direct", "vectored"},
                  !.priorities = {0},
                  !.thresholds = {0, 2}, !.undoes = TRUE, !.global = TRUE],
    [NoUse EXCEPT !.locals = {"SW", "TMR"}, !.exceptions = {"break", "ecall"},
                  !.modes = {"direct", "vectored", "other"}, !.undoes = TRUE],
    [NoUse EXCEPT !.locals = {"LC"}, !.pins = {1}, !.undoes = TRUE] }

-----------------------------------------------------------------------------
\* What is random at reset is chosen for the part that runs.
CoreInit ==
  /\ active \in Parts
  /\ HartInit /\ TrapInit /\ TimerInit /\ HpmInit /\ PmpInit /\ ClicInit
  /\ active # "harts" => ~init_done /\ ~fini_done /\ ~locked
  /\ active # "traps" =>
       uses = (CHOOSE p \in Programs : TRUE) /\ mtvec = "own"

HartsRun == /\ active = "harts" /\ HartNext
            /\ UNCHANGED <<active, trapVars, timerVars, hpmVars, pmpVars,
                           clicVars>>
TrapsRun == /\ active = "traps" /\ TrapNext
            /\ UNCHANGED <<active, hartVars, timerVars, hpmVars, pmpVars,
                           clicVars>>
TimerRuns == /\ active = "timer" /\ TimerNext
             /\ UNCHANGED <<active, hartVars, trapVars, hpmVars, pmpVars,
                            clicVars>>
HpmRuns == /\ active = "hpm" /\ HpmNext
           /\ UNCHANGED <<active, hartVars, trapVars, timerVars, pmpVars,
                          clicVars>>
PmpRuns == /\ active = "pmp" /\ PmpNext
           /\ UNCHANGED <<active, hartVars, trapVars, timerVars, hpmVars,
                          clicVars>>
ClicRuns == /\ active = "clic" /\ ClicNext
            /\ UNCHANGED <<active, hartVars, trapVars, timerVars, hpmVars,
                           pmpVars>>

CoreNext ==
  HartsRun \/ TrapsRun \/ TimerRuns \/ HpmRuns \/ PmpRuns \/ ClicRuns

CoreSpec == CoreInit /\ [][CoreNext]_coreVars

\* The fairness of each part, for the behaviours it runs in.
CoreFairness ==
  /\ WF_hartVars(active = "harts" /\ (Await \/ Release))
  /\ \A h \in Harts : WF_hartVars(active = "harts" /\ Boot(h))
  /\ WF_trapVars(active = "traps" /\ Handler)
  /\ SF_trapVars(active = "traps" /\ Interrupt)

CoreFairSpec == CoreSpec /\ CoreFairness

-----------------------------------------------------------------------------
\* The types of all parts.
CoreTypeOK ==
  /\ HartTypeOK /\ TrapTypeOK /\ TimerTypeOK /\ HpmTypeOK /\ PmpTypeOK
  /\ ClicTypeOK

\* HartStart: every hart gets to main, when the start-up is what runs.
HartsStart == active = "harts" => EveryHartStarts
=============================================================================
