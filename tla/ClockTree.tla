------------------------------ MODULE ClockTree ------------------------------
(***************************************************************************)
(* The clock of the core and what hangs on it: the PLL's driver            *)
(* (PllDriver) between the callbacks of its clock (ClockCallbacks).        *)
(*                                                                         *)
(* There is one program: its n-th change of the rate is the n-th call in   *)
(* the script of either module.  The walk over the pre callbacks ends in   *)
(* the driver, whose first step takes the core off the PLL and whose last  *)
(* step puts it back on and starts the walk over the post callbacks.  What *)
(* the callbacks read as the rate of the clock is computed from the        *)
(* registers of the PLL.                                                   *)
(***************************************************************************)
EXTENDS PllDriver, ClockCallbacks

treeVars == <<vars, clockVars>>

\* get_rate_hz of the PLL's clock: the mux behind the PLL selects it or HFROSC.
Rate == IF sel THEN pll_get_rate_hz ELSE RingRate

\* get_rate_hz returns a long; no rate reaches 2^31.
ASSUME RatesAreNumbers == ClockRates = Int

RateCalls(s) == {n \in DOMAIN s : s[n].op = "rate"}

TreeInit ==
  /\ Init
  /\ clockRate = Rate
  /\ ClockInit
  /\ Cardinality(RateCalls(clockScript)) = Len(script)

-----------------------------------------------------------------------------
(* A change of the rate: metal_clock_set_rate_hz, or pll_init, which calls  *)
(* the callbacks itself.                                                    *)

\* The lines are drained: off the PLL.
TakeOff ==
  /\ SetRate \/ InitPll
  /\ clockRate' = Rate'
  /\ BeginChange

\* The driver sets the PLL up.  The core waits for it, its clients do not run.
Configure ==
  /\ \/ SelectCrystal \/ Bypass \/ Divide \/ LeaveBypass
     \/ Stamp \/ Settle \/ SeeLock
  /\ UNCHANGED clockVars

\* Mutant: the post callbacks are told the rate from before the switch.
PutOn_ReadsEarly == Select /\ clockRate' = Rate /\ Change

\* On the PLL again; the post callbacks are next.
PutOn ==
  /\ Select
  /\ clockRate' = Rate'
  /\ Change

\* The clients' own calls, and the walks over the lists.
Client ==
  /\ \/ CallInit \/ CallSetBaud \/ CallSetRate
     \/ Drain \/ Drained \/ Notify \/ Notified
     \/ \E l \in Lists : Register(l) \/ Scan(l)
     \/ Program
  /\ UNCHANGED vars

Processor == TakeOff \/ Configure \/ PutOn \/ Client

\* mtime, the PLL and the shift registers.
Around ==
  \/ (Tick \/ Lock) /\ UNCHANGED clockVars
  \/ \E d \in Clients : (Transmit(d) \/ Sent(d)) /\ UNCHANGED vars

TreeNext == Processor \/ Around

TreeSpec == TreeInit /\ [][TreeNext]_treeVars

-----------------------------------------------------------------------------
(* Properties.                                                              *)

\* Between calls the divisor of every initialised device was computed for the
\* rate that the registers of the PLL make now, whatever was changed since the
\* device was initialised.
DivisorsFollowPll ==
  cpc = "idle" => \A d \in Initialised : divisor[d] = Rate

\* The core is taken off the PLL, and the PLL is changed, only while no
\* initialised device has a byte on its line, but for UARTs above 214 MHz.
PllChangesWhenDrained ==
  [][<<settings, sel>>' # <<settings, sel>> => LinesAreDrained]_treeVars
==============================================================================
