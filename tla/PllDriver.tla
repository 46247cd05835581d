----------------------------- MODULE PllDriver -----------------------------
(***************************************************************************)
(* The driver of the FE310 PLL (sifive_fe310-g000_pll.c): how it is taken  *)
(* off the core clock, given the closest setting of its table, waited for  *)
(* and selected again, next to a PLL that locks in its own time and whose  *)
(* lock bit means nothing until it has had time to stabilise.              *)
(*                                                                         *)
(* Time is counted in ticks of mtime: a counter that has gone up by n has  *)
(* seen more than n - 1 whole ticks.  The callbacks around a rate change   *)
(* are in ClockCallbacks.                                                  *)
(***************************************************************************)
EXTENDS Integers, Sequences, Functions, PowersOfTwo

CONSTANTS
  pll_configs,    \* the table: a sequence of settings
  CrystalRate,    \* the reference oscillator HFXOSC (pllref), in Hz
  RingRate,       \* the internal oscillator HFROSC (pllsel0), in Hz
  InitRate,       \* the rate the constructors ask for
  Rates,          \* the rates the program may ask for
  StableTicks,    \* whole ticks until the lock bit is to be trusted
  Scripts         \* the sequences of calls to the driver

PLL_LOCK_WAIT_TICKS == 4

ASSUME StableAssumption == StableTicks \in Nat /\ StableTicks <= PLL_LOCK_WAIT_TICKS

ASSUME RatesAssumption ==
  {CrystalRate, RingRate} \subseteq Nat /\ Rates \subseteq Nat

Rows == Range(pll_configs)

\* Every row divides, and takes the PLL's output from its divider.
ASSUME TableAssumption ==
  pll_configs \in Seq([multiplier : Nat, divisor : Nat \ {0},
                       min_input_rate : Nat, max_input_rate : Nat,
                       r : 0..7, f : 0..63, q : 1..3, d : -1..63])

\* pll_init asks for InitRate itself.
Calls == {c \in [op : {"init", "rate"}, rate : Rates] : c.op = "init" => c.rate = InitRate}

ASSUME CallsAssumption == Scripts \subseteq Seq(Calls)

VARIABLES
  script,   \* calls still to be made
  pc,       \* where the driver is
  asked,    \* the rate asked for
  sel,      \* PLL_SEL: the core runs from the PLL's output
  refsel,   \* PLL_REFSEL: the PLL is fed by the crystal
  bypass,   \* PLL_BYPASS: the PLL's input is its output
  dividers, \* PLL_R, PLL_F, PLL_Q and the final divider, d = -1 for none
  locked,   \* the PLL is locked on its dividers and input
  age,      \* mtime since these changed
  waited,   \* mtime since the driver started to wait
  result    \* what the last call returned, 0 before the first

settings == <<refsel, bypass, dividers>>
vars == <<script, pc, asked, sel, settings, locked, age, waited, result>>

\* The bound of both counters: no test tells more ticks apart.
MaxTicks == PLL_LOCK_WAIT_TICKS + 1

TypeOK ==
  /\ pc \in {"idle", "reference", "decide", "divide", "leave", "stamp",
             "settle", "lock", "select"}
  /\ {sel, refsel, bypass, locked} \subseteq BOOLEAN
  /\ {age, waited} \subseteq 0..MaxTicks
  /\ dividers \in [r : 0..7, f : 0..63, q : 0..3, d : -1..63]
  /\ result \in Nat

\* Out of reset, or behind a boot loader that left the PLL selected.
Init ==
  /\ script \in Scripts
  /\ pc = "idle"
  /\ asked = 0
  /\ sel \in BOOLEAN /\ refsel \in BOOLEAN /\ bypass \in BOOLEAN
  /\ locked = sel
  /\ dividers = [r |-> 1, f |-> 31, q |-> 3, d |-> -1]
  /\ age = MaxTicks /\ waited = 0
  /\ result = 0

-----------------------------------------------------------------------------
(* The PLL.                                                                 *)

Unlock == locked' = FALSE /\ age' = 0

Later(n) == IF n < MaxTicks THEN n + 1 ELSE n

Tick ==
  /\ age' = Later(age)
  /\ waited' = IF pc = "settle" THEN Later(waited) ELSE waited
  /\ <<age', waited'>> # <<age, waited>>
  /\ UNCHANGED <<script, pc, asked, sel, settings, locked, result>>

Lock ==
  /\ ~locked /\ locked' = TRUE
  /\ UNCHANGED <<script, pc, asked, sel, settings, age, waited, result>>

\* PLL_LOCK may read as set before it is to be trusted.
LockBitMayBeSet == age > StableTicks => locked

-----------------------------------------------------------------------------
(* Rates.                                                                   *)

ReferenceRate == IF refsel THEN CrystalRate ELSE RingRate

\* What the dividers of s make of a reference.
Output(ref, s) ==
  LET pllout == ((ref \div (s.r + 1)) * (2 * (s.f + 1))) \div Pow2[s.q]
  IN  IF s.d < 0 THEN pllout ELSE pllout \div (2 * (s.d + 1))

\* Mutant: PLL_Q reads as 0, for which there is no rate.
pll_get_rate_hz_NoQ == IF bypass THEN ReferenceRate ELSE -1

\* The rate of the core when the PLL is selected.
pll_get_rate_hz ==
  CASE bypass -> ReferenceRate
    [] ~bypass /\ dividers.q = 0 -> -1
    [] ~bypass /\ dividers.q # 0 -> Output(ReferenceRate, dividers)

Distance(a, b) == IF a < b THEN b - a ELSE a - b

IsValid(config) ==
  config.min_input_rate <= ReferenceRate /\ ReferenceRate <= config.max_input_rate

get_pll_config_freq(config) == (ReferenceRate * config.multiplier) \div config.divisor

LONG_MAX == 2147483647

None == [found |-> FALSE, diff |-> LONG_MAX]

\* Mutant: the difference is not remembered.
Closer_Last(config, best, rate) ==
  IF IsValid(config) /\ Distance(get_pll_config_freq(config), rate) < LONG_MAX
  THEN [found |-> TRUE, config |-> config, diff |-> LONG_MAX]
  ELSE best

Closer(config, best, rate) ==
  IF IsValid(config) /\ Distance(get_pll_config_freq(config), rate) < best.diff
  THEN [found |-> TRUE, config |-> config,
        diff |-> Distance(get_pll_config_freq(config), rate)]
  ELSE best

\* The table is searched from its fast end: best[i] holds what rows i and up
\* give (as a set of one, so that TLC computes it once).
find_closest_config(rate) ==
  LET best[i \in 1..(Len(pll_configs) + 1)] ==
        IF i > Len(pll_configs) THEN {None}
        ELSE {Closer(pll_configs[i], b, rate) : b \in best[i + 1]}
  IN  CHOOSE b \in best[1] : TRUE

\* Within three quarters and five quarters of the reference.
NearReference(rate) ==
  (ReferenceRate * 3) \div 4 <= rate /\ rate <= (ReferenceRate * 5) \div 4

-----------------------------------------------------------------------------
(* The driver.                                                              *)

\* set_rate_hz: off the PLL first.
SetRate ==
  /\ pc = "idle" /\ script # <<>> /\ Head(script).op = "rate"
  /\ script' = Tail(script)
  /\ asked' = Head(script).rate
  /\ sel' = FALSE
  /\ pc' = "decide"
  /\ UNCHANGED <<settings, locked, age, waited, result>>

\* pll_init does the same before it changes the reference ...
InitPll ==
  /\ pc = "idle" /\ script # <<>> /\ Head(script).op = "init"
  /\ script' = Tail(script)
  /\ asked' = Head(script).rate
  /\ sel' = FALSE
  /\ pc' = "reference"
  /\ UNCHANGED <<settings, locked, age, waited, result>>

\* ... and goes on as set_rate_hz, which finds the PLL off the core already.
SelectCrystal ==
  /\ pc = "reference"
  /\ refsel' = TRUE
  /\ IF refsel THEN UNCHANGED <<locked, age>> ELSE Unlock
  /\ pc' = "decide"
  /\ UNCHANGED <<script, asked, sel, bypass, dividers, waited, result>>

Bypass ==
  /\ pc = "decide"
  /\ ~NearReference(asked) => ~find_closest_config(asked).found
  /\ bypass' = TRUE
  /\ pc' = "select"
  /\ UNCHANGED <<script, asked, sel, refsel, dividers, locked, age, waited, result>>

Divide ==
  /\ pc = "decide"
  /\ ~NearReference(asked) /\ find_closest_config(asked).found
  /\ LET config == find_closest_config(asked).config
     IN  dividers' = [r |-> config.r, f |-> config.f, q |-> config.q, d |-> config.d]
  /\ Unlock
  /\ pc' = "leave"
  /\ UNCHANGED <<script, asked, sel, refsel, bypass, waited, result>>

LeaveBypass ==
  /\ pc = "leave"
  /\ bypass' = FALSE
  /\ Unlock
  /\ pc' = "stamp"
  /\ UNCHANGED <<script, asked, sel, refsel, dividers, waited, result>>

\* mtime_end is computed.
Stamp ==
  /\ pc = "stamp"
  /\ waited' = 0
  /\ pc' = "settle"
  /\ UNCHANGED <<script, asked, sel, settings, locked, age, result>>

\* Mutant: the loop ends when mtime reaches mtime_end.
Settle_OneLess ==
  /\ pc = "settle" /\ waited >= PLL_LOCK_WAIT_TICKS
  /\ pc' = "lock"
  /\ UNCHANGED <<script, asked, sel, settings, locked, age, waited, result>>

\* while (mtime <= mtime_end)
Settle ==
  /\ pc = "settle" /\ waited > PLL_LOCK_WAIT_TICKS
  /\ pc' = "lock"
  /\ UNCHANGED <<script, asked, sel, settings, locked, age, waited, result>>

SeeLock ==
  /\ pc = "lock" /\ LockBitMayBeSet
  /\ pc' = "select"
  /\ UNCHANGED <<script, asked, sel, settings, locked, age, waited, result>>

Select ==
  /\ pc = "select"
  /\ sel' = TRUE
  /\ result' = pll_get_rate_hz
  /\ pc' = "idle"
  /\ UNCHANGED <<script, asked, settings, locked, age, waited>>

Driver ==
  \/ SetRate \/ InitPll \/ SelectCrystal \/ Bypass \/ Divide \/ LeaveBypass
  \/ Stamp \/ Settle \/ SeeLock \/ Select

Next == Driver \/ Tick \/ Lock

Spec == Init /\ [][Next]_vars

\* The processor runs, mtime advances and a PLL that is left alone locks.
FairSpec == Spec /\ WF_vars(Driver) /\ WF_vars(Tick) /\ WF_vars(Lock)

-----------------------------------------------------------------------------
(* Properties.                                                              *)

\* The core never runs from a PLL that is not locked on what it is set to.
SelectedMeansLocked == sel /\ ~bypass => locked

\* "We can't modify the PLL if coreclk is driven by it".
UnselectedWhileChanged == [][settings' # settings => ~sel /\ ~sel']_vars

\* What the board's table and oscillators have: the rate a row is there for is
\* the one its dividers make, and no difference reaches LONG_MAX.
RowsAreExact ==
  \A ref \in {CrystalRate, RingRate}, c \in Rows :
    c.min_input_rate <= ref /\ ref <= c.max_input_rate =>
      LET freq == (ref * c.multiplier) \div c.divisor
      IN  /\ Output(ref, c) = freq
          /\ \A rate \in Rates : Distance(freq, rate) < LONG_MAX

\* What the constructors have: pll_init is among them.
PllIsInitialised ==
  \A s \in Scripts : \E n \in 1..Len(s) : s[n].op = "init"

\* A call returns the rate of the row that comes closest to the rate asked
\* for, computed from what is in the registers; or that of the reference, which
\* is then within a quarter of it unless no row is meant for this reference.
\* (This board's oscillators lose nothing to truncation.)
RateIsClosest ==
  pc = "idle" /\ result # 0 =>
    LET Valid == {c \in Rows : IsValid(c)}
    IN  \/ bypass /\ result = ReferenceRate /\ (NearReference(asked) \/ Valid = {})
        \/ /\ ~bypass
           /\ \A c \in Valid :
                Distance(result, asked) <= Distance(get_pll_config_freq(c), asked)

\* When all calls are made, in whatever order the constructors ran and with
\* whatever the boot loader left, the core runs from the crystal's PLL.
RunsFromCrystal == pc = "idle" /\ script = <<>> => sel /\ refsel

\* Both: the rate reported is the rate, and the firmware's is the crystal's.
RateIsSound == RateIsClosest /\ RunsFromCrystal

\* Every call returns.
CallsReturn == pc # "idle" ~> pc = "idle"
=============================================================================
