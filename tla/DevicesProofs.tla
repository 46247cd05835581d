---------------------------- MODULE DevicesProofs ----------------------------
(***************************************************************************)
(* Proofs about the drivers of the devices: the PLL with any table of      *)
(* exact rows, the clock's callbacks with any devices and every legal      *)
(* script, the pins, the SPI with any transfers, the PWM, the watchdog and *)
(* the real-time clock for any width of their registers and scales, the    *)
(* UART with interrupts; and the properties of the composition.            *)
(*                                                                         *)
(* Each driver has an inductive invariant of its own (LockedInv and        *)
(* PllInv, ClockInv, PinInv, SpiInv, PwmInv, WdogInv, RtcInv, UartInv),    *)
(* stated first and proved action by action. A list of the clock is an     *)
(* order of its devices that head and next spell out; ClockInv says which  *)
(* devices that order has at every step of a registration, what the walk   *)
(* of a rate change has passed, and which divisors are up to date in the   *)
(* middle of it.                                                           *)
(***************************************************************************)
EXTENDS MCDevices, PowersOfTwoProofs, SequenceTheorems, FiniteSetTheorems

-----------------------------------------------------------------------------
(* The PLL: PllDriver.                                                     *)

TimesAreCounts == age \in Nat /\ waited \in Nat

\* The driver is off the PLL from the first step of a call to the last.
OffDuringCall == sel \in BOOLEAN /\ (pc # "idle" => ~sel)

\* What the wait is worth: the PLL has been left alone for at least as long
\* as the driver has waited, and after the wait its lock bit can be trusted.
WaitIsEnough ==
  /\ pc = "settle" => waited <= age
  /\ pc = "lock" => age > StableTicks

\* The driver only selects what may be selected.
ReadyToSelect == pc = "select" => bypass \/ locked

LockedInv ==
  TimesAreCounts /\ OffDuringCall /\ WaitIsEnough /\ ReadyToSelect
    /\ SelectedMeansLocked

LEMMA LaterGrows ==
  ASSUME NEW m \in Nat, NEW n \in Nat, m <= n
  PROVE  Later(m) \in Nat /\ n <= Later(n) /\ Later(m) <= Later(n)
  BY DEF Later, MaxTicks, PLL_LOCK_WAIT_TICKS

LEMMA LockedStart == Init => LockedInv
  BY DEF Init, LockedInv, TimesAreCounts, OffDuringCall, WaitIsEnough,
       ReadyToSelect,
         SelectedMeansLocked, MaxTicks, PLL_LOCK_WAIT_TICKS

\* The steps of the PLL and of time.
LEMMA SurroundingsKeepInv == LockedInv /\ (Tick \/ Lock) => LockedInv'
<1> SUFFICES ASSUME LockedInv, Tick \/ Lock PROVE LockedInv'
  OBVIOUS
<1> USE
   DEF LockedInv, TimesAreCounts, OffDuringCall, WaitIsEnough, ReadyToSelect,
            SelectedMeansLocked, settings
<1>1. CASE Tick
  <2>1. age' = Later(age) /\ waited' = IF pc = "settle" THEN Later(waited)
                                       ELSE waited
    BY <1>1 DEF Tick
  <2>2. UNCHANGED <<pc, sel, bypass, locked>>
    BY <1>1 DEF Tick
  <2>3. Later(age) \in Nat /\ age <= Later(age) /\ Later(waited) \in Nat
    BY LaterGrows
  <2>4. waited <= age => Later(waited) <= Later(age)
    BY LaterGrows
  <2>5. StableTicks \in Nat
    BY StableAssumption
  <2>6. WaitIsEnough'
    BY <2>1, <2>2, <2>3, <2>4, <2>5
  <2> QED
    BY <2>1, <2>2, <2>3, <2>6
<1>2. CASE Lock
  BY <1>2 DEF Lock
<1> QED
  BY <1>1, <1>2

\* The steps of a call.
LEMMA DriverKeepsInv == LockedInv /\ Driver => LockedInv'
<1> SUFFICES ASSUME LockedInv, Driver PROVE LockedInv'
  OBVIOUS
<1> USE
   DEF LockedInv, TimesAreCounts, OffDuringCall, WaitIsEnough, ReadyToSelect,
            SelectedMeansLocked, settings, Unlock
<1>1. CASE SetRate
  BY <1>1 DEF SetRate
<1>2. CASE InitPll
  BY <1>2 DEF InitPll
<1>3. CASE SelectCrystal
  BY <1>3 DEF SelectCrystal
<1>4. CASE Bypass
  BY <1>4 DEF Bypass
<1>5. CASE Divide
  <2>1. pc = "decide" /\ pc' = "leave" /\ age' = 0
                      /\ UNCHANGED <<sel, bypass, waited>>
    BY <1>5 DEF Divide
  <2> QED
    BY <2>1
<1>6. CASE LeaveBypass
  BY <1>6 DEF LeaveBypass
<1>7. CASE Stamp
  BY <1>7 DEF Stamp
<1>8. CASE Settle
  <2>1. waited > PLL_LOCK_WAIT_TICKS /\ waited <= age
    BY <1>8 DEF Settle
  <2>2. age > StableTicks
    BY <2>1, StableAssumption DEF PLL_LOCK_WAIT_TICKS
  <2> QED
    BY <1>8, <2>2 DEF Settle
<1>9. CASE SeeLock
  BY <1>9 DEF SeeLock, LockBitMayBeSet
<1>10. CASE Select
  BY <1>10 DEF Select
<1> QED
  BY <1>1, <1>2, <1>3, <1>4, <1>5, <1>6, <1>7, <1>8, <1>9, <1>10 DEF Driver

LEMMA LockedStep == LockedInv /\ [Next]_vars => LockedInv'
<1>1. LockedInv /\ UNCHANGED vars => LockedInv'
  BY DEF LockedInv, TimesAreCounts, OffDuringCall, WaitIsEnough, ReadyToSelect,
         SelectedMeansLocked, vars, settings
<1> QED
  BY <1>1, SurroundingsKeepInv, DriverKeepsInv DEF Next

LEMMA LockedInvHolds == Spec => []LockedInv
<1> QED
  BY LockedStart, LockedStep, PTL DEF Spec

\* For every table and every rate: the core never runs from a PLL that is
\* neither locked nor bypassed, since the wait of configure_pll
\* (sifive_fe310-g000_pll.c) outlasts the time in which the lock bit cannot be
\* trusted.
THEOREM LockedCorrect == Spec => []SelectedMeansLocked
<1>1. LockedInv => SelectedMeansLocked
  BY DEF LockedInv
<1> QED
  BY <1>1, LockedInvHolds, PTL

\* For every table and every rate: set_rate_hz and init change the settings of
\* the PLL only while the core does not run from it.
THEOREM UnselectedCorrect == Spec => UnselectedWhileChanged
<1>1. ASSUME LockedInv, [Next]_vars
      PROVE  settings' # settings => ~sel /\ ~sel'
  <2> SUFFICES ASSUME settings' # settings PROVE ~sel /\ ~sel'
    OBVIOUS
  <2>1. SelectCrystal \/ Bypass \/ Divide \/ LeaveBypass
    BY <1>1 DEF Next, Driver, Tick, Lock, SetRate, InitPll, Stamp, Settle,
                SeeLock, Select, settings, vars
  <2>2. pc # "idle" /\ sel' = sel
    BY <2>1 DEF SelectCrystal, Bypass, Divide, LeaveBypass
  <2> QED
    BY <1>1, <2>2 DEF LockedInv, OffDuringCall
<1> QED
  BY <1>1, LockedInvHolds, PTL DEF Spec, UnselectedWhileChanged

RowCount == Len(pll_configs)

RowType == [multiplier : Nat, divisor : Nat \ {0},
            min_input_rate : Nat, max_input_rate : Nat,
            r : 0..7, f : 0..63, q : 1..3, d : -1..63]

RowFreq(v) == get_pll_config_freq(pll_configs[v])

LEMMA RowTypes ==
  /\ RowCount \in Nat /\ Range(pll_configs) \subseteq RowType
  /\ \A v \in 1..RowCount : pll_configs[v] \in Range(pll_configs)
  /\ \A c \in Range(pll_configs) : \E v \in 1..RowCount : c = pll_configs[v]
  /\ ReferenceRate \in Nat /\ ReferenceRate \in {CrystalRate, RingRate}
<1>1. pll_configs \in Seq(RowType)
  BY TableAssumption DEF RowType
<1>2. RowCount \in Nat /\ DOMAIN pll_configs = 1..RowCount
        /\ \A v \in 1..RowCount : pll_configs[v] \in RowType
  BY <1>1 DEF RowCount
<1>3. ReferenceRate \in Nat /\ ReferenceRate \in {CrystalRate, RingRate}
  BY RatesAssumption DEF ReferenceRate
<1> QED
  BY <1>2, <1>3 DEF Range

LEMMA FreqTypes ==
  ASSUME NEW c \in RowType, NEW rate \in Nat
  PROVE  /\ get_pll_config_freq(c) \in Nat
         /\ Distance(get_pll_config_freq(c), rate) \in Nat
<1>1. ReferenceRate * c.multiplier \in Nat /\ c.divisor \in Nat \ {0}
  BY RowTypes DEF RowType
<1> DEFINE n == ReferenceRate * c.multiplier  b == c.divisor
<1>2. n \in Nat /\ b \in Nat \ {0} /\ get_pll_config_freq(c) = n \div b
  BY <1>1 DEF get_pll_config_freq
<1> HIDE DEF n, b
<1>3. get_pll_config_freq(c) \in Nat
  BY <1>2, Division
<1> QED
  BY <1>3 DEF Distance

-----------------------------------------------------------------------------
\* The search of the table.
Search(f, rate, n) ==
  /\ f = [v \in n..RowCount + 1 |-> f[v]]
  /\ \A v \in n..RowCount + 1 :
       f[v] = IF v > RowCount THEN {None}
              ELSE {Closer(pll_configs[v], b, rate) : b \in f[v + 1]}

LEMMA SearchExists == \A rate : \E f : Search(f, rate, 1)
<1> SUFFICES ASSUME NEW rate PROVE \E f : Search(f, rate, 1)
  OBVIOUS
<1> DEFINE S == {k \in 0..RowCount : ~ \E f : Search(f, rate,
             RowCount + 1 - k)}
<1>0. RowCount \in Nat
  BY RowTypes
<1>1. S = {}
  <2> SUFFICES ASSUME S # {} PROVE FALSE
    OBVIOUS
  <2>1. PICK k \in S : \A m \in S : k <= m
    <3>1. S \in SUBSET Nat
      BY <1>0
    <3> HIDE DEF S
    <3> QED
      BY <3>1, LeastNumber
  <2>2. k \in Nat /\ k \in 0..RowCount
          /\ ~ \E f : Search(f, rate, RowCount + 1 - k)
    BY <1>0, <2>1
  <2>3. CASE k = 0
    <3> DEFINE f == [v \in RowCount + 1..RowCount + 1 |-> {None}]
    <3>1. \A v \in RowCount + 1..RowCount + 1 : v > RowCount
      BY <1>0
    <3>4. f = [v \in RowCount + 1..RowCount + 1 |-> f[v]]
      OBVIOUS
    <3>2. Search(f, rate, RowCount + 1)
      BY <3>1, <3>4 DEF Search
    <3>3. RowCount + 1 - k = RowCount + 1
      BY <1>0, <2>3
    <3> QED
      BY <2>2, <3>2, <3>3
  <2>4. CASE k # 0
    <3> DEFINE n == RowCount + 1 - k
    <3>1. /\ k - 1 \in 0..RowCount /\ ~ (k <= k - 1)
          /\ RowCount + 1 - (k - 1) = n + 1
          /\ n \in Nat /\ n >= 1 /\ n <= RowCount
      BY <1>0, <2>2, <2>4
    <3>2. PICK f : Search(f, rate, n + 1)
      BY <2>1, <3>1
    <3> HIDE DEF n
    <3> DEFINE g == [v \in n..RowCount + 1 |->
                       IF v > RowCount THEN {None}
                       ELSE {Closer(pll_configs[v], b, rate) : b \in f[v + 1]}]
    <3>3. ASSUME NEW v \in n..RowCount + 1, v # n PROVE g[v] = f[v]
      <4>1. v \in n + 1..RowCount + 1
        BY <1>0, <3>1, <3>3
      <4> QED
        BY <3>2, <4>1 DEF Search
    <3>4. ASSUME NEW v \in n..RowCount + 1, ~ (v > RowCount)
          PROVE  g[v + 1] = f[v + 1]
      <4>1. v + 1 \in n..RowCount + 1 /\ v + 1 # n
        BY <1>0, <3>1, <3>4
      <4> HIDE DEF g
      <4> QED
        BY <3>3, <4>1
    <3>5. ASSUME NEW v \in n..RowCount + 1
          PROVE  g[v] = IF v > RowCount THEN {None}
                        ELSE {Closer(pll_configs[v], b, rate) : b \in g[v + 1]}
      BY <3>4
    <3>6. g = [v \in n..RowCount + 1 |-> g[v]]
      OBVIOUS
    <3> HIDE DEF g
    <3>7. Search(g, rate, n)
      BY <3>5, <3>6 DEF Search
    <3> QED
      BY <2>2, <3>7 DEF n
  <2> QED
    BY <2>3, <2>4
<1>2. RowCount \in 0..RowCount /\ RowCount + 1 - RowCount = 1
  BY <1>0
<1> QED
  BY <1>1, <1>2

\* What rows v and up give.
BestFrom(b, v, rate) ==
  /\ b.found = FALSE =>
       /\ b = None
       /\ \A j \in v..RowCount : ~ (IsValid(pll_configs[j])
            /\ Distance(RowFreq(j), rate) < LONG_MAX)
  /\ b.found # FALSE =>
       /\ \E j \in v..RowCount :
            /\ b.config = pll_configs[j] /\ IsValid(b.config)
            /\ b.diff = Distance(RowFreq(j), rate) /\ b.diff < LONG_MAX
       /\ \A j \in v..RowCount : IsValid(pll_configs[j])
            => b.diff <= Distance(RowFreq(j), rate)

LEMMA CloserIsBest ==
  ASSUME NEW rate \in Nat, NEW v \in 1..RowCount, NEW b, BestFrom(b, v + 1,
           rate)
  PROVE  BestFrom(Closer(pll_configs[v], b, rate), v, rate)
<1> DEFINE c == pll_configs[v]  d == Distance(RowFreq(v), rate)
           n == Closer(c, b, rate)
<1>0. RowCount \in Nat /\ v \in Nat /\ v <= RowCount /\ LONG_MAX \in Nat
  BY RowTypes DEF LONG_MAX
<1>1. \A j \in 1..RowCount : Distance(RowFreq(j), rate) \in Nat
  BY RowTypes, FreqTypes DEF RowFreq
<1>2. /\ \A j \in v..RowCount : j = v \/ j \in v + 1..RowCount
      /\ \A j \in v + 1..RowCount : j \in v..RowCount
      /\ v \in v..RowCount /\ \A j \in v..RowCount : j \in 1..RowCount
  BY <1>0
<1>3. n = IF IsValid(c) /\ d < b.diff
        THEN [found |-> TRUE, config |-> c, diff |-> d] ELSE b
  BY DEF Closer, RowFreq
<1>4. d \in Nat
  BY <1>1
<1>5. CASE b.found = FALSE
  <2>1. b = None /\ \A j \in v + 1..RowCount : ~ (IsValid(pll_configs[j])
          /\ Distance(RowFreq(j), rate) < LONG_MAX)
    BY <1>5 DEF BestFrom
  <2>2. b.diff = LONG_MAX
    BY <2>1 DEF None
  <2>3. CASE IsValid(c) /\ d < LONG_MAX
    <3>1. n.found = TRUE /\ n.config = c /\ n.diff = d
      BY <1>3, <2>2, <2>3
    <3>2. ASSUME NEW j \in v..RowCount, IsValid(pll_configs[j])
          PROVE  d <= Distance(RowFreq(j), rate)
      <4>1. CASE j = v
        BY <1>4, <4>1
      <4>2. CASE j \in v + 1..RowCount
        <5>1. ~ (Distance(RowFreq(j), rate) < LONG_MAX)
          BY <2>1, <3>2, <4>2
        <5>2. Distance(RowFreq(j), rate) \in Nat
          BY <1>1, <1>2
        <5> QED
          BY <1>0, <1>4, <2>3, <5>1, <5>2
      <4> QED
        BY <1>2, <4>1, <4>2
    <3> HIDE DEF n
    <3>3. BestFrom(n, v, rate)
      <4>1. /\ n.config = pll_configs[v] /\ IsValid(n.config)
            /\ n.diff = Distance(RowFreq(v), rate) /\ n.diff < LONG_MAX
        BY <2>3, <3>1
      <4> QED
        BY <1>2, <3>1, <3>2, <4>1 DEF BestFrom
    <3> QED
      BY <3>3 DEF n
  <2>4. CASE ~ (IsValid(c) /\ d < LONG_MAX)
    <3>1. n = b
      BY <1>3, <2>2, <2>4
    <3>2. \A j \in v..RowCount : ~ (IsValid(pll_configs[j])
            /\ Distance(RowFreq(j), rate) < LONG_MAX)
      BY <1>2, <2>1, <2>4
    <3> HIDE DEF n
    <3>3. BestFrom(n, v, rate)
      BY <1>5, <2>1, <3>1, <3>2 DEF BestFrom
    <3> QED
      BY <3>3 DEF n
  <2> QED
    BY <2>3, <2>4
<1>6. CASE b.found # FALSE
  <2>1. PICK k \in v + 1..RowCount :
            /\ b.config = pll_configs[k] /\ IsValid(b.config)
            /\ b.diff = Distance(RowFreq(k), rate) /\ b.diff < LONG_MAX
    BY <1>6 DEF BestFrom
  <2>2. \A j \in v + 1..RowCount : IsValid(pll_configs[j])
          => b.diff <= Distance(RowFreq(j), rate)
    BY <1>6 DEF BestFrom
  <2>3. b.diff \in Nat /\ k \in v..RowCount
    BY <1>1, <1>2, <2>1
  <2>4. CASE IsValid(c) /\ d < b.diff
    <3>1. n.found = TRUE /\ n.config = c /\ n.diff = d
      BY <1>3, <2>4
    <3>2. ASSUME NEW j \in v..RowCount, IsValid(pll_configs[j])
          PROVE  d <= Distance(RowFreq(j), rate)
      <4>1. CASE j = v
        BY <1>4, <4>1
      <4>2. CASE j \in v + 1..RowCount
        <5>1. b.diff <= Distance(RowFreq(j), rate)
          BY <2>2, <3>2, <4>2
        <5>2. Distance(RowFreq(j), rate) \in Nat
          BY <1>1, <1>2
        <5> QED
          BY <1>4, <2>3, <2>4, <5>1, <5>2
      <4> QED
        BY <1>2, <4>1, <4>2
    <3> HIDE DEF n
    <3>3. BestFrom(n, v, rate)
      <4>1. /\ n.config = pll_configs[v] /\ IsValid(n.config)
            /\ n.diff = Distance(RowFreq(v), rate) /\ n.diff < LONG_MAX
        BY <1>0, <1>4, <2>1, <2>3, <2>4, <3>1
      <4> QED
        BY <1>2, <3>1, <3>2, <4>1 DEF BestFrom
    <3> QED
      BY <3>3 DEF n
  <2>5. CASE ~ (IsValid(c) /\ d < b.diff)
    <3>1. n = b
      BY <1>3, <2>5
    <3>2. ASSUME NEW j \in v..RowCount, IsValid(pll_configs[j])
          PROVE  b.diff <= Distance(RowFreq(j), rate)
      <4>1. CASE j = v
        BY <1>4, <2>3, <2>5, <3>2, <4>1
      <4>2. CASE j \in v + 1..RowCount
        BY <2>2, <3>2, <4>2
      <4> QED
        BY <1>2, <4>1, <4>2
    <3> HIDE DEF n
    <3>3. BestFrom(n, v, rate)
      BY <1>6, <2>1, <2>3, <3>1, <3>2 DEF BestFrom
    <3> QED
      BY <3>3 DEF n
  <2> QED
    BY <2>4, <2>5
<1> QED
  BY <1>5, <1>6

LEMMA SearchIsBest ==
  ASSUME NEW rate \in Nat, NEW f, Search(f, rate, 1)
  PROVE  \E b : f[1] = {b} /\ BestFrom(b, 1, rate)
<1> DEFINE Good(v) == \E b : f[v] = {b} /\ BestFrom(b, v, rate)
           S == {k \in 0..RowCount : ~ Good(RowCount + 1 - k)}
<1>0. RowCount \in Nat
  BY RowTypes
<1>1. S = {}
  <2> SUFFICES ASSUME S # {} PROVE FALSE
    OBVIOUS
  <2>1. PICK k \in S : \A m \in S : k <= m
    <3>1. S \in SUBSET Nat
      BY <1>0
    <3> HIDE DEF S
    <3> QED
      BY <3>1, LeastNumber
  <2>2. k \in Nat /\ k \in 0..RowCount /\ ~ Good(RowCount + 1 - k)
    BY <1>0, <2>1
  <2>3. CASE k = 0
    <3> DEFINE n == RowCount + 1
    <3>1. RowCount + 1 - k = n /\ n \in 1..RowCount + 1 /\ n > RowCount
      BY <1>0, <2>3
    <3>2. f[n] = {None}
      BY <3>1 DEF Search
    <3>3. n..RowCount = {}
      BY <1>0
    <3> HIDE DEF n
    <3>4. BestFrom(None, n, rate)
      BY <3>3 DEF BestFrom, None
    <3>5. Good(n)
      BY <3>2, <3>4
    <3> HIDE DEF Good
    <3> QED
      BY <2>2, <3>1, <3>5
  <2>4. CASE k # 0
    <3> DEFINE n == RowCount + 1 - k
    <3>1. /\ k - 1 \in 0..RowCount /\ ~ (k <= k - 1)
          /\ RowCount + 1 - (k - 1) = n + 1
          /\ n \in 1..RowCount /\ n \in 1..RowCount + 1 /\ ~ (n > RowCount)
      BY <1>0, <2>2, <2>4
    <3>2. Good(n + 1)
      <4>1. k - 1 \notin S
        BY <2>1, <3>1
      <4> HIDE DEF Good
      <4> QED
        BY <3>1, <4>1
    <3> HIDE DEF n
    <3>3. PICK b : f[n + 1] = {b} /\ BestFrom(b, n + 1, rate)
      BY <3>2
    <3>4. f[n] = {Closer(pll_configs[n], b, rate)}
      <4>1. f[n] = {Closer(pll_configs[n], x, rate) : x \in f[n + 1]}
        BY <3>1 DEF Search
      <4> QED
        BY <3>3, <4>1
    <3>5. BestFrom(Closer(pll_configs[n], b, rate), n, rate)
      BY <3>1, <3>3, CloserIsBest
    <3>6. Good(n)
      BY <3>4, <3>5
    <3> HIDE DEF Good
    <3> QED
      BY <2>2, <3>6 DEF n
  <2> QED
    BY <2>3, <2>4
<1>2. RowCount \in 0..RowCount /\ RowCount + 1 - RowCount = 1
  BY <1>0
<1>3. Good(1)
  <2> HIDE DEF Good
  <2> QED
    BY <1>1, <1>2
<1> QED
  BY <1>3

LEMMA FindsClosest ==
  ASSUME NEW rate \in Nat
  PROVE  BestFrom(find_closest_config(rate), 1, rate)
<1> DEFINE Table(f) == [v \in 1..(RowCount + 1) |->
                          IF v > RowCount THEN {None}
                          ELSE {Closer(pll_configs[v], b,
                            rate) : b \in f[v + 1]}]
           best == CHOOSE f : f = Table(f)
<1>1. find_closest_config(rate) = CHOOSE b \in best[1] : TRUE
  BY DEF find_closest_config, RowCount
<1>2. PICK f : Search(f, rate, 1)
  BY SearchExists
<1>3. f = Table(f)
  <2>1. /\ f = [v \in 1..(RowCount + 1) |-> f[v]]
        /\ \A v \in 1..(RowCount + 1) : f[v] = Table(f)[v]
    BY <1>2 DEF Search
  <2> QED
    BY <2>1
<1>4. best = Table(best)
  <2> HIDE DEF Table
  <2> QED
    BY <1>3
<1> HIDE DEF best
<1>5. Search(best, rate, 1)
  <2>1. /\ best = [v \in 1..(RowCount + 1) |-> best[v]]
        /\ \A v \in 1..(RowCount + 1) : best[v] = Table(best)[v]
    BY <1>4
  <2> QED
    BY <2>1 DEF Search
<1>6. PICK b : best[1] = {b} /\ BestFrom(b, 1, rate)
  BY <1>5, SearchIsBest
<1>7. (CHOOSE c \in best[1] : TRUE) = b
  BY <1>6
<1> QED
  BY <1>1, <1>6, <1>7

-----------------------------------------------------------------------------
\* The rates that are reported.

SettingsOf(c) == [r |-> c.r, f |-> c.f, q |-> c.q, d |-> c.d]

ClosestRow(c) ==
  /\ c \in Range(pll_configs) /\ IsValid(c)
  /\ \A e \in Range(pll_configs) : IsValid(e) =>
       Distance(get_pll_config_freq(c),
         asked) <= Distance(get_pll_config_freq(e), asked)

\* The dividers are those of a row that comes closest.
RowIsChosen == \E c : ClosestRow(c) /\ dividers = SettingsOf(c)

NothingCloser ==
  NearReference(asked) \/ \A e \in Range(pll_configs) : ~ IsValid(e)

ChoiceIsMade ==
  /\ pc \in {"leave", "stamp", "settle", "lock"} => RowIsChosen
  /\ pc \in {"stamp", "settle", "lock"} => ~bypass
  /\ pc = "select" /\ bypass /\ RowsAreExact => NothingCloser
  /\ pc = "select" /\ ~bypass => RowIsChosen

ResultIsCurrent ==
  pc = "idle" /\ result # 0 =>
    IF bypass THEN result = ReferenceRate /\ NothingCloser
    ELSE \E c : ClosestRow(c) /\ result = get_pll_config_freq(c)

\* The call that brings the crystal has still to come, or has come.
CrystalComes ==
  /\ (\E n \in 1..Len(script) : script[n].op = "init") \/ refsel
       \/ pc = "reference"
  /\ pc = "idle" => sel \/ script # <<>>

CallsTypeOK ==
  /\ script \in Seq(Calls)
  /\ pc # "idle" => asked \in Rates

LEMMA SplitTypes ==
  ASSUME NEW s, s.r \in 0..7, s.f \in 0..63, s.q \in 1..3, s.d \in -1..63,
         NEW ref \in Nat
  PROVE  Output(ref, s) \in Nat
<1> DEFINE a == s.r + 1  b == 2 * (s.f + 1)  p == Pow2[s.q]  h == 2 * (s.d + 1)
           t == ref \div a
<1>1. a \in Nat \ {0} /\ b \in Nat /\ p \in Nat \ {0} /\ (~ (s.d < 0)
        => h \in Nat \ {0})
  BY Pow2Types
<1>2. t \in Nat
  BY <1>1, Division
<1> DEFINE m == t * b
<1> HIDE DEF t, a, b, p, h
<1>3. m \in Nat
  BY <1>1, <1>2
<1> DEFINE o == m \div p
<1> HIDE DEF m
<1>4. o \in Nat
  BY <1>1, <1>3, Division
<1> HIDE DEF o
<1>5. ~ (s.d < 0) => o \div h \in Nat
  BY <1>1, <1>4, Division
<1> QED
  BY <1>4, <1>5 DEF Output, t, a, b, p, h, m, o

LEMMA SettingsTypes ==
  ASSUME NEW c \in Range(pll_configs)
  PROVE  /\ c \in RowType
         /\ SettingsOf(c) \in [r : 0..7, f : 0..63, q : 0..3, d : -1..63]
         /\ SettingsOf(c).q # 0
         /\ \A ref \in Nat : /\ Output(ref, SettingsOf(c)) = Output(ref, c)
                             /\ Output(ref, c) \in Nat
<1>1. c \in RowType
  BY RowTypes
<1>2. SettingsOf(c) \in [r : 0..7, f : 0..63, q : 0..3, d : -1..63]
  BY <1>1 DEF RowType, SettingsOf
<1>3. SettingsOf(c).q # 0
  BY <1>1 DEF RowType, SettingsOf
<1>4. \A ref \in Nat : Output(ref, c) \in Nat
  BY <1>1, SplitTypes DEF RowType
<1>5. \A ref : Output(ref, SettingsOf(c)) = Output(ref, c)
  BY DEF Output, SettingsOf
<1> QED
  BY <1>1, <1>2, <1>3, <1>4, <1>5

\* What the search decides.
LEMMA SearchDecides ==
  ASSUME CallsTypeOK, pc = "decide"
  PROVE  /\ find_closest_config(asked).found = FALSE /\ RowsAreExact
              => NothingCloser
         /\ find_closest_config(asked).found # FALSE =>
              ClosestRow(find_closest_config(asked).config)
<1> DEFINE b == find_closest_config(asked)
<1>0. asked \in Rates /\ asked \in Nat
  BY RatesAssumption DEF CallsTypeOK
<1>1. BestFrom(b, 1, asked)
  BY <1>0, FindsClosest
<1> HIDE DEF b
<1>2. ASSUME b.found = FALSE, RowsAreExact, NEW e \in Range(pll_configs)
      PROVE  ~ IsValid(e)
  <2>1. PICK j \in 1..RowCount : e = pll_configs[j]
    BY <1>2, RowTypes
  <2>2. ~ (IsValid(e) /\ Distance(get_pll_config_freq(e), asked) < LONG_MAX)
    BY <1>1, <1>2, <2>1 DEF BestFrom, RowFreq
  <2> SUFFICES ASSUME IsValid(e) PROVE FALSE
    OBVIOUS
  <2>3. Distance((ReferenceRate * e.multiplier) \div e.divisor,
          asked) < LONG_MAX
    BY <1>0, <1>2, RowTypes DEF RowsAreExact, IsValid, Rows
  <2> QED
    BY <2>2, <2>3 DEF get_pll_config_freq
<1>3. ASSUME b.found # FALSE PROVE ClosestRow(b.config)
  <2>1. PICK j \in 1..RowCount :
            /\ b.config = pll_configs[j] /\ IsValid(b.config)
            /\ b.diff = Distance(RowFreq(j), asked) /\ b.diff < LONG_MAX
    BY <1>1, <1>3 DEF BestFrom
  <2>2. \A k \in 1..RowCount : IsValid(pll_configs[k])
          => b.diff <= Distance(RowFreq(k), asked)
    BY <1>1, <1>3 DEF BestFrom
  <2> QED
    BY <2>1, <2>2, RowTypes DEF ClosestRow, RowFreq
<1> QED
  BY <1>2, <1>3 DEF NothingCloser, b

\* What the PLL reports of the row it is set to.
LEMMA RowIsReported ==
  ASSUME NEW c, ClosestRow(c), dividers = SettingsOf(c), ~bypass
  PROVE  /\ pll_get_rate_hz \in Nat
         /\ RowsAreExact => pll_get_rate_hz = get_pll_config_freq(c)
<1>1. c \in Range(pll_configs) /\ IsValid(c)
  BY DEF ClosestRow
<1>2. pll_get_rate_hz = Output(ReferenceRate, c)
        /\ Output(ReferenceRate, c) \in Nat
  BY <1>1, SettingsTypes, RowTypes DEF pll_get_rate_hz
<1>3. RowsAreExact => Output(ReferenceRate, c) = get_pll_config_freq(c)
  BY <1>1, RowTypes DEF RowsAreExact, get_pll_config_freq, IsValid, Rows
<1> QED
  BY <1>2, <1>3

LEMMA ChoicesStay ==
  ASSUME UNCHANGED <<asked, refsel>>
  PROVE  /\ ReferenceRate' = ReferenceRate
         /\ \A c : ClosestRow(c)' <=> ClosestRow(c)
         /\ \A c : get_pll_config_freq(c)' = get_pll_config_freq(c)
         /\ NothingCloser' <=> NothingCloser
         /\ dividers' = dividers => (RowIsChosen' <=> RowIsChosen)
<1>1. ReferenceRate' = ReferenceRate
  BY DEF ReferenceRate
<1>2. \A c : get_pll_config_freq(c)' = get_pll_config_freq(c)
        /\ (IsValid(c)' <=> IsValid(c))
  BY <1>1 DEF get_pll_config_freq, IsValid
<1>3. \A c : ClosestRow(c)' <=> ClosestRow(c)
  BY <1>2 DEF ClosestRow
<1>4. NothingCloser' <=> NothingCloser
  BY <1>1, <1>2 DEF NothingCloser, NearReference
<1>5. dividers' = dividers => (RowIsChosen' <=> RowIsChosen)
  BY <1>3 DEF RowIsChosen
<1> QED
  BY <1>1, <1>2, <1>3, <1>4, <1>5

PllInv ==
  /\ TypeOK /\ CallsTypeOK /\ ChoiceIsMade
  /\ RowsAreExact => ResultIsCurrent
  /\ PllIsInitialised => CrystalComes

LEMMA PllStart == Init => PllInv
<1> SUFFICES ASSUME Init PROVE PllInv
  OBVIOUS
<1>1. script \in Seq(Calls) /\ script \in Scripts
  BY CallsAssumption DEF Init
<1>2. TypeOK
  BY DEF Init, TypeOK, MaxTicks, PLL_LOCK_WAIT_TICKS
<1>3. CallsTypeOK /\ ChoiceIsMade /\ ResultIsCurrent
  BY <1>1 DEF Init, CallsTypeOK, ChoiceIsMade, ResultIsCurrent
<1>4. ASSUME PllIsInitialised PROVE CrystalComes
  <2>1. PICK n \in 1..Len(script) : script[n].op = "init"
    BY <1>1, <1>4 DEF PllIsInitialised
  <2>2. script # <<>>
    BY <1>1, <2>1, EmptySeq
  <2> QED
    BY <2>1, <2>2 DEF CrystalComes
<1> QED
  BY <1>2, <1>3, <1>4 DEF PllInv

\* A call is taken from the script.
LEMMA CallIsTaken ==
  ASSUME CallsTypeOK, script # <<>>
  PROVE  /\ Head(script) \in Calls /\ Head(script).rate \in Rates
         /\ Tail(script) \in Seq(Calls)
         /\ Head(script).op # "init"
              /\ (\E n \in 1..Len(script) : script[n].op = "init")
              => \E n \in 1..Len(Tail(script)) : Tail(script)[n].op = "init"
<1>1. script \in Seq(Calls) /\ Len(script) \in Nat /\ Len(script) # 0
  BY EmptySeq DEF CallsTypeOK
<1>2. /\ Tail(script) \in Seq(Calls) /\ Len(Tail(script)) = Len(script) - 1
      /\ \A n \in 1..Len(Tail(script)) : Tail(script)[n] = script[n + 1]
      /\ Head(script) = script[1]
  BY <1>1, HeadTailProperties DEF CallsTypeOK
<1>3. Head(script) \in Calls
  BY <1>1, <1>2
<1>4. Head(script).rate \in Rates
  BY <1>3 DEF Calls
<1>5. ASSUME Head(script).op # "init", NEW n \in 1..Len(script),
               script[n].op = "init"
      PROVE  \E m \in 1..Len(Tail(script)) : Tail(script)[m].op = "init"
  <2>1. n # 1
    BY <1>2, <1>5
  <2>2. n - 1 \in 1..Len(Tail(script)) /\ (n - 1) + 1 = n
    BY <1>1, <1>2, <2>1
  <2>3. Tail(script)[n - 1] = script[n]
    BY <1>2, <2>2
  <2> QED
    BY <1>5, <2>2, <2>3
<1> QED
  BY <1>2, <1>3, <1>4, <1>5

LEMMA PllStep == PllInv /\ [Next]_vars => PllInv'
<1> SUFFICES ASSUME PllInv, [Next]_vars PROVE PllInv'
  OBVIOUS
<1>0. /\ TypeOK /\ CallsTypeOK /\ ChoiceIsMade
      /\ RowsAreExact => ResultIsCurrent
      /\ PllIsInitialised => CrystalComes
  BY DEF PllInv
<1>1. Later(age) \in 0..MaxTicks /\ Later(waited) \in 0..MaxTicks
  BY <1>0 DEF TypeOK, Later, MaxTicks, PLL_LOCK_WAIT_TICKS
<1>2. 0 \in 0..MaxTicks
  BY DEF MaxTicks, PLL_LOCK_WAIT_TICKS
<1>3. CASE SetRate
  <2>1. /\ pc = "idle" /\ script # <<>> /\ Head(script).op = "rate"
        /\ script' = Tail(script) /\ asked' = Head(script).rate
        /\ sel' = FALSE /\ pc' = "decide"
        /\ UNCHANGED <<refsel, bypass, dividers, locked, age, waited, result>>
    BY <1>3 DEF SetRate, settings
  <2>2. TypeOK'
    BY <1>0, <2>1 DEF TypeOK
  <2>3. CallsTypeOK'
    BY <1>0, <2>1, CallIsTaken DEF CallsTypeOK
  <2>4. PllIsInitialised => CrystalComes'
    BY <1>0, <2>1, CallIsTaken DEF CrystalComes
  <2> QED
    BY <2>1, <2>2, <2>3, <2>4 DEF PllInv, ChoiceIsMade, ResultIsCurrent
<1>4. CASE InitPll
  <2>1. /\ pc = "idle" /\ script # <<>> /\ Head(script).op = "init"
        /\ script' = Tail(script) /\ asked' = Head(script).rate
        /\ sel' = FALSE /\ pc' = "reference"
        /\ UNCHANGED <<refsel, bypass, dividers, locked, age, waited, result>>
    BY <1>4 DEF InitPll, settings
  <2>2. TypeOK'
    BY <1>0, <2>1 DEF TypeOK
  <2>3. CallsTypeOK'
    BY <1>0, <2>1, CallIsTaken DEF CallsTypeOK
  <2> QED
    BY <2>1, <2>2, <2>3 DEF PllInv, ChoiceIsMade, ResultIsCurrent, CrystalComes
<1>5. CASE SelectCrystal
  <2>1. /\ pc = "reference" /\ refsel' = TRUE /\ pc' = "decide"
        /\ UNCHANGED <<script, asked, sel, bypass, dividers, waited, result>>
        /\ (IF refsel THEN UNCHANGED <<locked, age>> ELSE (locked' = FALSE
             /\ age' = 0))
    BY <1>5 DEF SelectCrystal, Unlock
  <2>2. TypeOK'
    BY <1>0, <1>2, <2>1 DEF TypeOK
  <2> QED
    BY <1>0, <2>1, <2>2
       DEF PllInv, ChoiceIsMade, ResultIsCurrent, CrystalComes, CallsTypeOK
<1>6. CASE Bypass
  <2>1. /\ pc = "decide" /\ bypass' = TRUE /\ pc' = "select"
        /\ NearReference(asked) \/ find_closest_config(asked).found = FALSE
        /\ UNCHANGED <<script, asked, sel, refsel, dividers, locked, age,
             waited, result>>
    BY <1>6 DEF Bypass
  <2>2. TypeOK'
    BY <1>0, <2>1 DEF TypeOK
  <2>3. RowsAreExact => NothingCloser
    BY <1>0, <2>1, SearchDecides DEF NothingCloser
  <2>4. NothingCloser' <=> NothingCloser
    BY <2>1, ChoicesStay
  <2>5. ChoiceIsMade'
    BY <2>1, <2>3, <2>4 DEF ChoiceIsMade
  <2> QED
    BY <1>0, <2>1, <2>2, <2>5
       DEF PllInv, ResultIsCurrent, CrystalComes, CallsTypeOK
<1>7. CASE Divide
  <2>1. PICK c : c = find_closest_config(asked).config
    OBVIOUS
  <2>2. /\ pc = "decide" /\ pc' = "leave" /\ dividers' = SettingsOf(c)
        /\ find_closest_config(asked).found # FALSE
        /\ locked' = FALSE /\ age' = 0
        /\ UNCHANGED <<script, asked, sel, refsel, bypass, waited, result>>
    BY <1>7, <2>1 DEF Divide, Unlock, SettingsOf
  <2>3. ClosestRow(c)
    BY <1>0, <2>1, <2>2, SearchDecides
  <2>4. dividers' \in [r : 0..7, f : 0..63, q : 0..3, d : -1..63]
    BY <2>2, <2>3, SettingsTypes DEF ClosestRow
  <2>5. TypeOK'
    BY <1>0, <1>2, <2>2, <2>4 DEF TypeOK
  <2>6. ClosestRow(c)'
    BY <2>2, <2>3, ChoicesStay
  <2>7. RowIsChosen'
    BY <2>2, <2>6 DEF RowIsChosen
  <2>8. ChoiceIsMade'
    BY <2>2, <2>7 DEF ChoiceIsMade
  <2> QED
    BY <1>0, <2>2, <2>5, <2>8
       DEF PllInv, ResultIsCurrent, CrystalComes, CallsTypeOK
<1>8. CASE LeaveBypass
  <2>1. /\ pc = "leave" /\ pc' = "stamp" /\ bypass' = FALSE
        /\ locked' = FALSE /\ age' = 0
        /\ UNCHANGED <<script, asked, sel, refsel, dividers, waited, result>>
    BY <1>8 DEF LeaveBypass, Unlock
  <2>2. TypeOK'
    BY <1>0, <1>2, <2>1 DEF TypeOK
  <2>3. RowIsChosen' <=> RowIsChosen
    BY <2>1, ChoicesStay
  <2>4. ChoiceIsMade'
    BY <1>0, <2>1, <2>3 DEF ChoiceIsMade
  <2> QED
    BY <1>0, <2>1, <2>2, <2>4
       DEF PllInv, ResultIsCurrent, CrystalComes, CallsTypeOK
<1>9. CASE Stamp \/ Settle \/ SeeLock
  <2>1. /\ <<pc, pc'>> \in {<<"stamp", "settle">>, <<"settle", "lock">>,
             <<"lock", "select">>}
        /\ waited' \in {0, waited}
        /\ UNCHANGED <<script, asked, sel, refsel, bypass, dividers, locked,
             age, result>>
    BY <1>9 DEF Stamp, Settle, SeeLock, settings
  <2>2. /\ pc \in {"stamp", "settle", "lock"}
        /\ pc' \in {"settle", "lock", "select"}
    BY <2>1
  <2>3. TypeOK'
    BY <1>0, <1>2, <2>1, <2>2 DEF TypeOK
  <2>4. RowIsChosen' <=> RowIsChosen
    BY <2>1, ChoicesStay
  <2>5. ChoiceIsMade'
    BY <1>0, <2>1, <2>2, <2>4 DEF ChoiceIsMade
  <2> QED
    BY <1>0, <2>1, <2>2, <2>3, <2>5
       DEF PllInv, ResultIsCurrent, CrystalComes, CallsTypeOK
<1>10. CASE Select
  <2>1. /\ pc = "select" /\ pc' = "idle" /\ sel' = TRUE
        /\ result' = pll_get_rate_hz
        /\ UNCHANGED <<script, asked, refsel, bypass, dividers, locked, age,
             waited>>
    BY <1>10 DEF Select, settings
  <2>2. CASE bypass
    <3>1. result' = ReferenceRate /\ ReferenceRate \in Nat
      BY <2>1, <2>2, RowTypes DEF pll_get_rate_hz
    <3>2. TypeOK'
      BY <1>0, <2>1, <3>1 DEF TypeOK
    <3>3. RowsAreExact => NothingCloser
      BY <1>0, <2>1, <2>2 DEF ChoiceIsMade
    <3>4. (NothingCloser' <=> NothingCloser) /\ ReferenceRate' = ReferenceRate
      BY <2>1, ChoicesStay
    <3>5. RowsAreExact => ResultIsCurrent'
      BY <2>1, <2>2, <3>1, <3>3, <3>4 DEF ResultIsCurrent
    <3> QED
      BY <1>0, <2>1, <3>2, <3>5
         DEF PllInv, ChoiceIsMade, CrystalComes, CallsTypeOK
  <2>3. CASE ~bypass
    <3>1. PICK c : ClosestRow(c) /\ dividers = SettingsOf(c)
      BY <1>0, <2>1, <2>3 DEF ChoiceIsMade, RowIsChosen
    <3>2. result' \in Nat /\ (RowsAreExact => result' = get_pll_config_freq(c))
      BY <2>1, <2>3, <3>1, RowIsReported
    <3>3. TypeOK'
      BY <1>0, <2>1, <3>2 DEF TypeOK
    <3>4. /\ \A e : ClosestRow(e)' <=> ClosestRow(e)
          /\ \A e : get_pll_config_freq(e)' = get_pll_config_freq(e)
      BY <2>1, ChoicesStay
    <3>5. RowsAreExact
            => \E e : ClosestRow(e) /\ result' = get_pll_config_freq(e)
      BY <3>1, <3>2
    <3>6. RowsAreExact => ResultIsCurrent'
      BY <2>1, <2>3, <3>4, <3>5 DEF ResultIsCurrent
    <3> QED
      BY <1>0, <2>1, <3>3, <3>6
         DEF PllInv, ChoiceIsMade, CrystalComes, CallsTypeOK
  <2> QED
    BY <2>2, <2>3
<1>11. CASE Tick \/ Lock \/ UNCHANGED vars
  <2>1. /\ UNCHANGED <<script, pc, asked, sel, refsel, bypass, dividers,
             result>>
        /\ age' \in 0..MaxTicks /\ waited' \in 0..MaxTicks
        /\ locked' \in BOOLEAN
    BY <1>0, <1>1, <1>11 DEF Tick, Lock, vars, settings, TypeOK
  <2>2. TypeOK'
    BY <1>0, <2>1 DEF TypeOK
  <2>3. /\ ReferenceRate' = ReferenceRate
        /\ \A e : ClosestRow(e)' <=> ClosestRow(e)
        /\ \A e : get_pll_config_freq(e)' = get_pll_config_freq(e)
        /\ NothingCloser' <=> NothingCloser
        /\ RowIsChosen' <=> RowIsChosen
    BY <2>1, ChoicesStay
  <2>4. ChoiceIsMade'
    BY <1>0, <2>1, <2>3 DEF ChoiceIsMade
  <2>5. RowsAreExact => ResultIsCurrent'
    BY <1>0, <2>1, <2>3 DEF ResultIsCurrent
  <2> QED
    BY <1>0, <2>1, <2>2, <2>4, <2>5 DEF PllInv, CrystalComes, CallsTypeOK
<1> QED
  BY <1>3, <1>4, <1>5, <1>6, <1>7, <1>8, <1>9, <1>10, <1>11 DEF Next, Driver

LEMMA PllInvHolds == Spec => []PllInv
  BY PllStart, PllStep, PTL DEF Spec

\* The variables keep their types, for every table and every script.
THEOREM PllTypes == Spec => []TypeOK
<1>1. PllInv => TypeOK
  BY DEF PllInv
<1> QED
  BY <1>1, PllInvHolds, PTL

\* After a call the PLL runs at the rate of a row of the table, or the
\* reference or the crystal passes it by, and no row is closer to what was
\* asked (find_closest_config), and get_rate_hz reports the rate the settings
\* make; for every table whose rows are exact, once the PLL has been
\* initialised.
THEOREM RatesCorrect ==
  RowsAreExact /\ PllIsInitialised /\ Spec => []RateIsSound
<1>1. RowsAreExact /\ PllIsInitialised /\ PllInv => RateIsSound
  <2> SUFFICES ASSUME RowsAreExact, PllIsInitialised, PllInv PROVE RateIsSound
    OBVIOUS
  <2>1. RunsFromCrystal
    <3> SUFFICES ASSUME pc = "idle", script = <<>> PROVE sel /\ refsel
      BY DEF RunsFromCrystal
    <3>1. Len(script) = 0
      OBVIOUS
    <3>2. ~ \E n \in 1..Len(script) : script[n].op = "init"
      BY <3>1
    <3> QED
      BY <3>2 DEF PllInv, CrystalComes
  <2>2. RateIsClosest
    <3> SUFFICES ASSUME pc = "idle", result # 0
                 PROVE  \/ /\ bypass /\ result = ReferenceRate
                           /\ NearReference(asked)
                                \/ {c \in Range(pll_configs) : IsValid(c)} = {}
                        \/ /\ ~bypass
                           /\ \A c \in {c \in Range(pll_configs) :
                                IsValid(c)} :
                                Distance(result,
                                  asked) <= Distance(get_pll_config_freq(c),
                                    asked)
      BY DEF RateIsClosest, Rows
    <3>1. CASE bypass
      BY <3>1 DEF PllInv, ResultIsCurrent, NothingCloser
    <3>2. CASE ~bypass
      BY <3>2 DEF PllInv, ResultIsCurrent, ClosestRow
    <3> QED
      BY <3>1, <3>2 DEF PllInv, TypeOK
  <2> QED
    BY <2>1, <2>2 DEF RateIsSound
<1>2. ASSUME RowsAreExact, PllIsInitialised PROVE Spec => []RateIsSound
  <2>1. PllInv => RateIsSound
    BY <1>1, <1>2
  <2> QED
    BY <2>1, PllInvHolds, PTL
<1> QED
  BY <1>2

-----------------------------------------------------------------------------
(* The callbacks of the clock: ClockCallbacks.                             *)

-----------------------------------------------------------------------------
(* Lists.                                                                   *)

\* hd and nx make one chain of s, through each device of M once.
IsList(hd, nx, s, M) ==
  /\ s \in Seq(Clients)
  /\ \A n, m \in 1 .. Len(s) : s[n] = s[m] => n = m
  /\ M = {s[n] : n \in 1 .. Len(s)}
  /\ hd = IF Len(s) = 0 THEN NULL ELSE s[1]
  /\ \A n \in 1 .. Len(s) : nx[s[n]] = IF n = Len(s) THEN NULL ELSE s[n + 1]

\* A walk along s is at c, and every device it has passed is in S.
Passed(s, c, S) ==
  \E n \in 1 .. Len(s) + 1 :
    /\ c = IF n = Len(s) + 1 THEN NULL ELSE s[n]
    /\ \A m \in 1 .. n - 1 : s[m] \in S

LEMMA WalkStarts ==
  ASSUME NEW hd, NEW nx, NEW s, NEW M, NEW S, IsList(hd, nx, s, M)
  PROVE  Passed(s, hd, S)
<1>1. Len(s) \in Nat /\ 1 \in 1 .. Len(s) + 1 /\ 1 .. 1 - 1 = {}
  BY DEF IsList
<1>2. hd = IF 1 = Len(s) + 1 THEN NULL ELSE s[1]
  BY <1>1 DEF IsList
<1> QED
  BY <1>1, <1>2 DEF Passed

LEMMA WalkGoesOn ==
  ASSUME NEW hd, NEW nx, NEW s, NEW M, NEW S, IsList(hd, nx, s, M),
         NEW c \in S, c # NULL, Passed(s, c, S)
  PROVE  c \in M /\ Passed(s, nx[c], S)
<1>0. Len(s) \in Nat /\ s \in Seq(Clients)
  BY DEF IsList
<1>1. PICK n \in 1 .. Len(s) + 1 :
        /\ c = IF n = Len(s) + 1 THEN NULL ELSE s[n]
        /\ \A m \in 1 .. n - 1 : s[m] \in S
  BY DEF Passed
<1>2. n \in 1 .. Len(s) /\ c = s[n] /\ n + 1 \in 1 .. Len(s) + 1
  BY <1>0, <1>1
<1>3. nx[c] = IF n + 1 = Len(s) + 1 THEN NULL ELSE s[n + 1]
  BY <1>0, <1>2 DEF IsList
<1>4. \A m \in 1 .. (n + 1) - 1 : s[m] \in S
  BY <1>0, <1>1, <1>2
<1>5. c \in M
  BY <1>2 DEF IsList
<1>6. Passed(s, nx[c], S)
  BY <1>2, <1>3, <1>4 DEF Passed
<1> QED
  BY <1>5, <1>6

LEMMA WalkEnds ==
  ASSUME NEW hd, NEW nx, NEW s, NEW M, NEW S, IsList(hd, nx, s, M),
         Passed(s, NULL, S)
  PROVE  M \subseteq S
<1>0. Len(s) \in Nat /\ s \in Seq(Clients)
  BY DEF IsList
<1>1. PICK n \in 1 .. Len(s) + 1 :
        /\ NULL = IF n = Len(s) + 1 THEN NULL ELSE s[n]
        /\ \A m \in 1 .. n - 1 : s[m] \in S
  BY DEF Passed
<1>2. n \in 1 .. Len(s) => s[n] \in Clients
  BY <1>0
<1>3. n = Len(s) + 1
  BY <1>0, <1>1, <1>2, ClockAssumption
<1>4. \A m \in 1 .. Len(s) : s[m] \in S
  BY <1>0, <1>1, <1>3
<1> QED
  BY <1>4 DEF IsList

LEMMA PassedMore ==
  ASSUME NEW s, NEW c, NEW S, NEW T, S \subseteq T, Passed(s, c, S)
  PROVE  Passed(s, c, T)
  BY DEF Passed

LEMMA WalkIsInList ==
  ASSUME NEW hd, NEW nx, NEW s, NEW M, NEW S, IsList(hd, nx, s, M),
         NEW c, c # NULL, Passed(s, c, S)
  PROVE  c \in M /\ c \in Clients
<1>0. Len(s) \in Nat /\ s \in Seq(Clients)
  BY DEF IsList
<1>1. PICK n \in 1 .. Len(s) + 1 : c = IF n = Len(s) + 1 THEN NULL ELSE s[n]
  BY DEF Passed
<1>2. n \in 1 .. Len(s) /\ c = s[n]
  BY <1>0, <1>1
<1>3. c \in M
  BY <1>2 DEF IsList
<1>4. c \in Clients
  BY <1>0, <1>2
<1> QED
  BY <1>3, <1>4

\* A device that is not in the list: the first entry.
LEMMA FirstEntry ==
  ASSUME NEW nx \in [Clients -> Node], NEW s, NEW M,
         IsList(NULL, nx, s, M), NEW d \in Clients
  PROVE  M = {} /\ IsList(d, [nx EXCEPT ![d] = NULL], <<d>>, {d})
<1>1. Len(s) = 0 /\ M = {}
  <2>1. Len(s) # 0 => s[1] \in Clients /\ s[1] = NULL
    BY DEF IsList
  <2>2. Len(s) = 0 /\ Len(s) \in Nat
    BY <2>1, ClockAssumption DEF IsList
  <2> QED
    BY <2>2 DEF IsList
<1> DEFINE t == <<d>>
<1>2. t \in Seq(Clients) /\ Len(t) = 1 /\ t[1] = d
  OBVIOUS
<1> HIDE DEF t
<1>3. IsList(d, [nx EXCEPT ![d] = NULL], t, {d})
  BY <1>2 DEF IsList
<1> QED
  BY <1>1, <1>3 DEF t

\* Cutting the tail of a device that is not in the list changes nothing.
LEMMA CutOutside ==
  ASSUME NEW hd, NEW nx \in [Clients -> Node], NEW s, NEW M,
         IsList(hd, nx, s, M), NEW d \in Clients \ M
  PROVE  IsList(hd, [nx EXCEPT ![d] = NULL], s, M)
<1>1. \A n \in 1 .. Len(s) : s[n] \in Clients /\ s[n] # d
  BY DEF IsList
<1>2. \A n \in 1 .. Len(s) : [nx EXCEPT ![d] = NULL][s[n]] = nx[s[n]]
  BY <1>1
<1> QED
  BY <1>2 DEF IsList

\* ... or a further one, behind the last.
LEMMA LaterEntry ==
  ASSUME NEW hd, NEW nx \in [Clients -> Node], NEW s, NEW M,
         IsList(hd, nx, s, M), NEW d \in Clients \ M, nx[d] = NULL,
         NEW e \in M, nx[e] = NULL
  PROVE  IsList(hd, [nx EXCEPT ![e] = d], Append(s, d), M \cup {d})
<1>0. /\ Len(s) \in Nat /\ s \in Seq(Clients) /\ NULL \notin Clients
      /\ \A n \in 1 .. Len(s) : s[n] \in Clients
      /\ \A n, m \in 1 .. Len(s) : s[n] = s[m] => n = m
      /\ M = {s[n] : n \in 1 .. Len(s)}
      /\ hd = IF Len(s) = 0 THEN NULL ELSE s[1]
      /\ \A n \in 1 .. Len(s) : nx[s[n]] = IF n = Len(s) THEN NULL
           ELSE s[n + 1]
  BY ClockAssumption DEF IsList
<1>1. PICK k \in 1 .. Len(s) : e = s[k]
  BY <1>0
<1>2. k = Len(s)
  <2>1. k # Len(s) => nx[e] = s[k + 1] /\ k + 1 \in 1 .. Len(s)
    BY <1>0, <1>1
  <2> QED
    BY <1>0, <2>1
<1> DEFINE t == Append(s, d)
           ny == [nx EXCEPT ![e] = d]
<1>3. /\ t \in Seq(Clients) /\ Len(t) = Len(s) + 1 /\ t[Len(s) + 1] = d
      /\ \A n \in 1 .. Len(s) : t[n] = s[n]
  BY <1>0
<1>4. ny[e] = d /\ \A c \in Clients \ {e} : ny[c] = nx[c]
  BY <1>0, <1>1
<1> HIDE DEF t, ny
<1>5. \A n, m \in 1 .. Len(t) : t[n] = t[m] => n = m
  <2> SUFFICES ASSUME NEW n \in 1 .. Len(t), NEW m \in 1 .. Len(t), t[n] = t[m]
               PROVE  n = m
    OBVIOUS
  <2>1. \A l \in 1 .. Len(t) : l \in 1 .. Len(s) \/ l = Len(s) + 1
    BY <1>0, <1>3
  <2>2. \A l \in 1 .. Len(s) : t[l] # d
    BY <1>0, <1>3
  <2> QED
    BY <2>1, <2>2, <1>0, <1>3
<1>6. M \cup {d} = {t[n] : n \in 1 .. Len(t)}
  <2>1. \A l \in 1 .. Len(t) : l \in 1 .. Len(s) \/ l = Len(s) + 1
    BY <1>0, <1>3
  <2>2. Len(s) + 1 \in 1 .. Len(t) /\ 1 .. Len(s) \subseteq 1 .. Len(t)
    BY <1>0, <1>3
  <2>3. ASSUME NEW c \in M \cup {d}
        PROVE  \E n \in 1 .. Len(t) : c = t[n]
    <3>1. CASE c = d
      BY <1>3, <2>2, <3>1
    <3>2. CASE c \in M
      <4>1. PICK n \in 1 .. Len(s) : c = s[n]
        BY <1>0, <3>2
      <4> QED
        BY <1>3, <2>2, <4>1
    <3> QED
      BY <2>3, <3>1, <3>2
  <2>4. ASSUME NEW n \in 1 .. Len(t)
        PROVE  t[n] \in M \cup {d}
    <3>1. CASE n \in 1 .. Len(s)
      BY <1>0, <1>3, <3>1
    <3>2. CASE n = Len(s) + 1
      BY <1>3, <3>2
    <3> QED
      BY <2>1, <3>1, <3>2
  <2> QED
    BY <2>3, <2>4
<1>7. hd = IF Len(t) = 0 THEN NULL ELSE t[1]
  BY <1>0, <1>1, <1>3
<1>8. ASSUME NEW n \in 1 .. Len(t)
      PROVE  ny[t[n]] = IF n = Len(t) THEN NULL ELSE t[n + 1]
  <2>1. CASE n = Len(s) + 1
    BY <1>0, <1>1, <1>3, <1>4, <2>1
  <2>2. CASE n = Len(s)
    BY <1>0, <1>1, <1>2, <1>3, <1>4, <2>2
  <2>3. CASE n \in 1 .. Len(s) - 1
    <3>1. n \in 1 .. Len(s) /\ n + 1 \in 1 .. Len(s) /\ n # Len(t) /\ n # k
      BY <1>0, <1>2, <1>3, <2>3
    <3>2. t[n] = s[n] /\ s[n] # e /\ t[n + 1] = s[n + 1]
      BY <1>0, <1>1, <1>3, <3>1
    <3> QED
      BY <1>0, <1>3, <1>4, <3>1, <3>2
  <2>4. n = Len(s) + 1 \/ n = Len(s) \/ n \in 1 .. Len(s) - 1
    BY SMTT(30), <1>0, <1>3
  <2> QED
    BY <2>1, <2>2, <2>3, <2>4
<1>9. IsList(hd, ny, t, M \cup {d})
  BY <1>3, <1>5, <1>6, <1>7, <1>8 DEF IsList
<1> QED
  BY <1>9 DEF t, ny

\* A chain of finitely many devices is one of the Orders.
LEMMA ListIsOrder ==
  ASSUME NEW hd, NEW nx, NEW s, NEW M, IsList(hd, nx, s, M)
  PROVE  s \in Orders
<1>0. /\ Len(s) \in Nat /\ s \in [1 .. Len(s) -> Clients]
      /\ \A n, m \in 1 .. Len(s) : s[n] = s[m] => n = m
  BY LenProperties DEF IsList
<1>1. s \in Injection(1 .. Len(s), Clients)
  BY <1>0 DEF Injection, IsInjective
<1>2. /\ Cardinality(1 .. Len(s)) <= Cardinality(Clients)
      /\ Cardinality(Clients) \in Nat
  BY <1>1, ClockAssumption, FS_Injection, FS_CardinalityType
<1>3. Cardinality(1 .. Len(s)) = Len(s)
  BY <1>0, FS_Interval
<1>4. Len(s) \in 0 .. Cardinality(Clients)
  BY <1>0, <1>2, <1>3
<1> QED
  BY <1>0, <1>4 DEF Orders

-----------------------------------------------------------------------------
(* The inductive invariant.                                                 *)

Registering == {"register pre", "scan pre", "register post", "scan post"}

\* An init or a set_baud_rate of the program runs; program with a cursor is
\* part of a change.
Calling == cpc \in Registering \/ (cpc = "program" /\ cursor = NULL)

Changing ==
  \/ cpc \in {"drain", "change", "changing", "notify"}
  \/ cpc = "program" /\ cursor # NULL

\* The devices that have been initialised, or are being.
Claimed == Initialised \cup (IF Calling THEN {dev} ELSE {})

\* The devices that are in a list.
Members(l) ==
  Initialised \cup
  (IF \/ cpc = "program" /\ cursor = NULL
      \/ l = "pre" /\ cpc \in {"register post", "scan post"}
   THEN {dev} ELSE {})

\* What the parts of a call hold on to.
CallsAreInOrder ==
  /\ LegalFrom(clockScript, Claimed)
  /\ cpc = "idle" => cursor = NULL
  /\ cpc \in Registering => cursor = NULL /\ dev \in Clients \ Initialised
  /\ cpc = "program" => dev \in Clients /\ cursor \in {NULL, dev}
  /\ Changing => Initialised \cap Reregister = {}
  /\ cpc = "scan pre" => scan \in Members("pre") /\ next["pre"][dev] = NULL
  /\ cpc = "scan post" => scan \in Members("post") /\ next["post"][dev] = NULL
  /\ \A d \in Clients : busy[d] > 0 => d \in Initialised
  /\ cpc \in {"change", "changing"} => LinesAreDrained

\* The list of the pre callbacks is a chain, and those of them that were
\* called have drained their line.
Quiet ==
  {d \in Clients : busy[d] > 0 => d \notin Reregister /\ TooFast(divisor[d])}

PreIsList ==
  \E s : /\ IsList(head["pre"], next["pre"], s, Members("pre"))
         /\ cpc = "drain" => Passed(s, cursor, Quiet)

\* The list of the post callbacks is one, and those that were called have
\* computed their divisor for the new rate.
Followers == {d \in Clients : divisor[d] = clockRate}

PostIsList ==
  \E s : /\ IsList(head["post"], next["post"], s, Members("post"))
         /\ cpc = "notify" => Passed(s, cursor, Followers)
         /\ cpc = "program" /\ cursor # NULL => Passed(s, cursor, Followers)

\* But from the start of a change to its last post callback everybody follows
\* the rate.
AllFollow ==
  cpc \notin {"changing", "notify"} /\ ~(cpc = "program" /\ cursor # NULL) =>
    Initialised \subseteq Followers

ClockInv == /\ ClockTypeOK /\ CallsAreInOrder /\ PreIsList /\ PostIsList
            /\ AllFollow

LEMMA CallTypes ==
  \A c \in ClockCalls :
    /\ c.op \in {"init", "baud", "rate"}
    /\ c.op \in {"init", "baud"} => c.arg \in Clients
  BY DEF ClockCalls

\* The next call of the script, and the calls after it.
LEMMA TakeCall ==
  ASSUME ClockTypeOK, LegalFrom(clockScript, Claimed), NEW op, Take(op)
  PROVE  /\ cpc = "idle" /\ clockScript' \in Seq(ClockCalls)
         /\ Head(clockScript) \in ClockCalls /\ Head(clockScript).op = op
         /\ UNCHANGED <<clockRate, head, next, scan, divisor, busy>>
         /\ op = "init" => Head(clockScript).arg \notin Initialised
         /\ op = "baud" => Head(clockScript).arg \in Initialised \ Reregister
         /\ op = "rate" => Initialised \cap Reregister = {}
         /\ op \in {"init", "baud"} =>
              LegalFrom(clockScript', Initialised \cup {Head(clockScript).arg})
         /\ op = "rate" => LegalFrom(clockScript', Initialised)
<1> DEFINE s == clockScript
           t == clockScript'
           C == Initialised
           c1 == Head(clockScript)
<1>1. /\ s \in Seq(ClockCalls) /\ s # <<>> /\ t = Tail(s) /\ c1 = s[1]
      /\ cpc = "idle" /\ c1.op = op
      /\ UNCHANGED <<clockRate, head, next, scan, divisor, busy>>
  BY DEF Take, ClockTypeOK, lists
<1>2. Claimed = C
  BY <1>1 DEF Claimed, Calling, Registering
<1>3. /\ c1 \in ClockCalls /\ t \in Seq(ClockCalls) /\ Len(t) = Len(s) - 1
      /\ Len(s) \in Nat \ {0}
      /\ \A n \in 1 .. Len(t) : t[n] = s[n + 1]
      /\ DOMAIN s = 1 .. Len(s) /\ DOMAIN t = 1 .. Len(t)
  BY <1>1, HeadTailProperties, EmptySeq, LenProperties
<1>4. LegalFrom(s, C)
  BY <1>2
<1> HIDE DEF s, t, C, c1
<1>5. /\ 1 \in DOMAIN s /\ \A m \in DOMAIN s : ~(m < 1)
      /\ \A n \in DOMAIN t : n + 1 \in DOMAIN s /\ t[n] = s[n + 1]
      /\ \A m \in DOMAIN s : m = 1 \/ (m - 1 \in DOMAIN t /\ t[m - 1] = s[m])
  BY <1>3
<1>6. /\ op = "init" => c1.arg \notin C
      /\ op = "baud" => c1.arg \in C \ Reregister
      /\ op = "rate" => C \cap Reregister = {}
  BY <1>1, <1>4, <1>5 DEF LegalFrom
<1>7. ASSUME NEW D, \/ op \in {"init", "baud"} /\ D = C \cup {c1.arg}
                    \/ op = "rate" /\ D = C
      PROVE  LegalFrom(t, D)
  <2> SUFFICES ASSUME NEW n \in DOMAIN t
               PROVE
    /\ t[n].op = "init" =>
         /\ t[n].arg \notin D
         /\ \A m \in DOMAIN t : t[m].op = "init" /\ t[m].arg = t[n].arg
              => m = n
    /\ t[n].op = "baud" =>
         /\ t[n].arg \notin Reregister
         /\ \/ t[n].arg \in D
            \/ \E m \in DOMAIN t :
                 m < n /\ t[m].op = "init" /\ t[m].arg = t[n].arg
    /\ t[n].op = "rate" =>
         /\ D \cap Reregister = {}
         /\ \A m \in DOMAIN t :
              m < n /\ t[m].op = "init" => t[m].arg \notin Reregister
    BY DEF LegalFrom
  <2>1. n + 1 \in DOMAIN s /\ t[n] = s[n + 1] /\ n \in Nat /\ n + 1 # 1
          /\ 1 < n + 1
    BY <1>3, <1>5
  <2>2. \A m \in DOMAIN t : m \in Nat /\ m + 1 \in DOMAIN s /\ t[m] = s[m + 1]
                             /\ (m + 1 = n + 1 => m = n) /\ (m < n
                                  => m + 1 < n + 1)
    BY <1>3, <1>5, <2>1
  <2>3. ASSUME t[n].op = "init"
        PROVE  /\ t[n].arg \notin D
               /\ \A m \in DOMAIN t : t[m].op = "init"
                    /\ t[m].arg = t[n].arg => m = n
    <3>1. s[n + 1].arg \notin C
      BY <1>4, <2>1, <2>3 DEF LegalFrom
    <3>2. op = "init" => s[n + 1].arg # c1.arg
      BY <1>1, <1>4, <1>5, <2>1, <2>3 DEF LegalFrom
    <3>3. op = "baud" => s[n + 1].arg # c1.arg
      BY <1>6, <3>1
    <3>4. \A m \in DOMAIN t : t[m].op = "init" /\ t[m].arg = t[n].arg => m = n
      BY <1>4, <2>1, <2>2, <2>3 DEF LegalFrom
    <3> QED
      BY <1>7, <2>1, <3>1, <3>2, <3>3, <3>4
  <2>4. ASSUME t[n].op = "baud"
        PROVE  /\ t[n].arg \notin Reregister
               /\ \/ t[n].arg \in D
                  \/ \E m \in DOMAIN t :
                       m < n /\ t[m].op = "init" /\ t[m].arg = t[n].arg
    <3>1. /\ s[n + 1].arg \notin Reregister
          /\ \/ s[n + 1].arg \in C
             \/ \E m \in DOMAIN s :
                  m < n + 1 /\ s[m].op = "init" /\ s[m].arg = s[n + 1].arg
      BY <1>4, <2>1, <2>4 DEF LegalFrom
    <3>2. CASE s[n + 1].arg \in C
      BY <1>7, <2>1, <3>1, <3>2
    <3>3. ASSUME NEW m \in DOMAIN s, m < n + 1, s[m].op = "init",
                 s[m].arg = s[n + 1].arg
          PROVE  \/ t[n].arg \in D
                 \/ \E l \in DOMAIN t :
                       l < n /\ t[l].op = "init" /\ t[l].arg = t[n].arg
      <4>1. CASE m = 1
        BY <1>1, <1>7, <2>1, <3>3, <4>1
      <4>2. CASE m # 1
        <5>1. m - 1 \in DOMAIN t /\ t[m - 1] = s[m] /\ m - 1 < n
          BY <1>3, <1>5, <2>1, <3>3, <4>2
        <5> QED
          BY <5>1, <2>1, <3>3
      <4> QED
        BY <4>1, <4>2
    <3> QED
      BY <2>1, <3>1, <3>2, <3>3
  <2>5. ASSUME t[n].op = "rate"
        PROVE  /\ D \cap Reregister = {}
               /\ \A m \in DOMAIN t :
                    m < n /\ t[m].op = "init" => t[m].arg \notin Reregister
    <3>1. /\ C \cap Reregister = {}
          /\ \A m \in DOMAIN s :
               m < n + 1 /\ s[m].op = "init" => s[m].arg \notin Reregister
      BY <1>4, <2>1, <2>5 DEF LegalFrom
    <3>2. D \cap Reregister = {}
      BY <1>1, <1>5, <1>6, <1>7, <2>1, <3>1
    <3> QED
      BY <2>2, <3>1, <3>2
  <2> QED
    BY <2>3, <2>4, <2>5
<1>8. /\ op \in {"init", "baud"} => LegalFrom(t, C \cup {c1.arg})
      /\ op = "rate" => LegalFrom(t, C)
  BY <1>7
<1> QED
  BY <1>1, <1>3, <1>6, <1>8 DEF s, t, C, c1

LEMMA ClockStart == ScriptsAreLegal /\ ClockInit => ClockInv
<1> SUFFICES ASSUME ScriptsAreLegal, ClockInit PROVE ClockInv
  OBVIOUS
<1>0. Initialised = {} /\ NULL \in Node /\ ~Calling /\ ~Changing
  BY DEF ClockInit, Initialised, Node, Calling, Changing, Registering
<1>1. ClockTypeOK
  <2>1. /\ head \in [Lists -> Node] /\ next \in [Lists -> [Clients -> Node]]
        /\ divisor \in [Clients -> ClockRates \cup {NULL}]
    BY <1>0 DEF ClockInit
  <2> QED
    BY <2>1, <1>0, ClockAssumption, ScriptsAssumption
       DEF ClockInit, ClockTypeOK
<1>2. CallsAreInOrder
  <2>1. Claimed = {}
    BY <1>0 DEF Claimed
  <2> QED
    BY <1>0, <2>1 DEF ClockInit, CallsAreInOrder, ScriptsAreLegal, Registering
<1>3. \A l \in Lists : Members(l) = {} /\ head[l] = NULL
  BY <1>0 DEF Members, ClockInit, Lists
<1>4. \A nx : IsList(NULL, nx, <<>>, {})
  BY EmptySeq DEF IsList
<1>5. PreIsList /\ PostIsList
  <2>1. "pre" \in Lists /\ "post" \in Lists
    BY DEF Lists
  <2> QED
    BY <1>3, <1>4, <2>1 DEF PreIsList, PostIsList, ClockInit
<1>6. AllFollow
  BY <1>0 DEF AllFollow
<1> QED
  BY <1>1, <1>2, <1>5, <1>6 DEF ClockInv

\* The bits of a byte, each as long as the divisor makes it, take no longer
\* than the wait for all of them.
LEMMA SymbolIsWaitedFor ==
  ASSUME NEW r \in Int, NEW b \in Nat \ {0}
  PROVE  /\ 10 * (r \div b) \in Int /\ (10 * r) \div b \in Int
         /\ 10 * (r \div b) <= (10 * r) \div b
<1> DEFINE q == r \div b  w == (10 * r) \div b
<1>1. q \in Int /\ w \in Int /\ b * q <= r /\ 10 * r < b * (w + 1)
  OBVIOUS
<1> HIDE DEF q, w
<1>2. b * (10 * q) = 10 * (b * q)
  BY <1>1
<1>3. b * (10 * q) < b * (w + 1)
  <2> DEFINE x == b * q  y == b * (w + 1)  z == b * (10 * q)
  <2>1. x \in Int /\ y \in Int /\ z \in Int /\ x <= r /\ 10 * r < y /\ z = 10 * x
    BY <1>1, <1>2
  <2> HIDE DEF x, y, z
  <2>2. z < y
    BY <2>1
  <2> QED
    BY <2>2 DEF y, z
<1>4. 10 * q < w + 1
  <2> SUFFICES ASSUME w + 1 <= 10 * q PROVE b * (w + 1) <= b * (10 * q)
    BY <1>1, <1>3
  <2> DEFINE e == 10 * q - (w + 1)
  <2>1. e \in Nat /\ 10 * q = (w + 1) + e
    BY <1>1
  <2> HIDE DEF e
  <2>2. b * (10 * q) = b * (w + 1) + b * e
    BY <1>1, <2>1
  <2>3. b * e \in Nat
    BY <2>1
  <2> QED
    BY <1>1, <2>2, <2>3
<1> QED
  BY <1>1, <1>4 DEF q, w

\* What a wait may leave on a line is no more than there was.
LEMMA BusyAfterDrain ==
  ASSUME ClockTypeOK, cursor \in Clients, NEW left \in Left(cursor)
  PROVE  [busy EXCEPT ![cursor] = left] \in [Clients -> 0..2]
<1>1. busy[cursor] \in 0..2 /\ left \in {0} \cup 0 .. busy[cursor]
  BY DEF Left, ClockTypeOK
<1>2. left \in 0..2
  BY <1>1
<1> QED
  BY <1>2 DEF ClockTypeOK

\* The types.
LEMMA ClockTypesKept == ClockInv /\ [ClockNext]_clockVars => ClockTypeOK'
<1> SUFFICES ASSUME ClockInv, [ClockNext]_clockVars PROVE ClockTypeOK'
  OBVIOUS
<1>t. ClockTypeOK
  BY DEF ClockInv
<1>i. CallsAreInOrder
  BY DEF ClockInv
<1>n. /\ NULL \notin Clients /\ NULL \in Node /\ Clients \subseteq Node
      /\ \A l \in Lists : head[l] \in Node
      /\ \A l \in Lists, d \in Clients : next[l][d] \in Node
      /\ {"pre", "post"} = Lists
  BY <1>t, ClockAssumption DEF Node, ClockTypeOK, Lists
<1>1. CASE CallInit
  <2>1. /\ clockScript' \in Seq(ClockCalls) /\ dev' \in Clients
        /\ UNCHANGED <<clockRate, head, next, scan, divisor, busy>>
    BY <1>1, <1>t, <1>i, TakeCall, CallTypes DEF CallInit, CallsAreInOrder
  <2> QED
    BY <1>1, <1>t, <1>n, <2>1 DEF CallInit, ClockTypeOK
<1>2. CASE CallSetBaud
  <2>1. /\ clockScript' \in Seq(ClockCalls) /\ dev' \in Clients
        /\ UNCHANGED <<clockRate, head, next, scan, divisor, busy>>
    BY <1>2, <1>t, <1>i, TakeCall, CallTypes DEF CallSetBaud, CallsAreInOrder
  <2> QED
    BY <1>2, <1>t, <1>n, <2>1 DEF CallSetBaud, SetBaudEntry, ClockTypeOK
<1>3. CASE CallSetRate
  <2>1. /\ clockScript' \in Seq(ClockCalls)
        /\ UNCHANGED <<clockRate, head, next, scan, divisor, busy>>
    BY <1>3, <1>t, <1>i, TakeCall DEF CallSetRate, CallsAreInOrder
  <2> QED
    BY <1>3, <1>t, <1>n, <2>1 DEF CallSetRate, ClockTypeOK
<1>4. CASE Drain
  <2>1. cursor \in Clients /\ cursor' \in Node
    BY <1>4, <1>t, <1>n DEF Drain, ClockTypeOK, Node
  <2>2. busy' \in [Clients -> 0..2]
    BY <1>4, <1>t, <2>1, BusyAfterDrain DEF Drain
  <2> QED
    BY <1>4, <1>t, <2>1, <2>2 DEF Drain, ClockTypeOK, lists
<1>5. CASE Drained \/ BeginChange \/ Change \/ Notify \/ Notified
  BY <1>5, <1>t, <1>n
     DEF Drained, BeginChange, Change, Notify, Notified, SetBaudEntry, ClockTypeOK,
          lists
<1>6. ASSUME NEW l \in Lists, Register(l) PROVE ClockTypeOK'
  <2>1. next' \in [Lists -> [Clients -> Node]]
    BY <1>6, <1>t, <1>n DEF Register, AppendCallback, ClockTypeOK
  <2>2. head' \in [Lists -> Node] /\ scan' \in Node
    BY <1>6, <1>t, <1>n DEF Register, AppendCallback, ClockTypeOK
  <2>3. cpc' \in {"scan pre", "scan post", "register post", "program"}
    BY <1>6 DEF Register, AppendCallback, Following
  <2> QED
    BY <1>6, <1>t, <2>1, <2>2, <2>3 DEF Register, ClockTypeOK
<1>7. ASSUME NEW l \in Lists, Scan(l) PROVE ClockTypeOK'
  <2>1. scan \in Clients
    BY <1>7, <1>t, <1>i
       DEF Scan, CallsAreInOrder, Members, Initialised, Lists, Registering
  <2>2. next' \in [Lists -> [Clients -> Node]]
    <3>1. next[l] \in [Clients -> Node] /\ dev \in Node
      BY <1>t DEF ClockTypeOK
    <3>2. \/ next' = next
          \/ next' = [next EXCEPT ![l] = [next[l] EXCEPT ![scan] = dev]]
      BY <1>7 DEF Scan
    <3>3. [next[l] EXCEPT ![scan] = dev] \in [Clients -> Node]
      BY <3>1
    <3> QED
      BY <1>t, <3>2, <3>3 DEF ClockTypeOK
  <2>3. scan' \in Node
    BY <1>7, <1>t, <1>n, <2>1 DEF Scan, ClockTypeOK
  <2>4. cpc' \in {"scan pre", "scan post", "register post", "program"}
    BY <1>7 DEF Scan, Following
  <2> QED
    BY <1>7, <1>t, <2>2, <2>3, <2>4 DEF Scan, ClockTypeOK
<1>8. CASE Program
  <2>1. dev \in Clients /\ cursor' \in Node /\ cpc' \in {"idle", "notify"}
    BY <1>8, <1>t, <1>i, <1>n
       DEF Program, AfterProgram, CallsAreInOrder, ClockTypeOK
  <2>2. divisor' \in [Clients -> ClockRates \cup {NULL}]
    BY <1>8, <1>t DEF Program, ClockTypeOK
  <2> QED
    BY <1>8, <1>t, <2>1, <2>2 DEF Program, ClockTypeOK, lists
<1>9. ASSUME NEW d \in Clients, Transmit(d) \/ Sent(d) PROVE ClockTypeOK'
  <2>1. busy \in [Clients -> 0..2] /\ busy[d] \in 0..2
    BY <1>t DEF ClockTypeOK
  <2>2. busy' \in [Clients -> 0..2]
    <3>1. CASE Transmit(d)
      <4>1. busy[d] < 2 /\ busy' = [busy EXCEPT ![d] = @ + 1]
        BY <2>1, <3>1 DEF Transmit
      <4> QED
        BY <2>1, <4>1
    <3>2. CASE Sent(d)
      BY <2>1, <3>2 DEF Sent
    <3> QED
      BY <1>9, <3>1, <3>2
  <2> QED
    BY <1>9, <1>t, <2>2 DEF Transmit, Sent, ClockTypeOK, lists
<1>10. CASE UNCHANGED clockVars
  BY <1>10, <1>t DEF clockVars, ClockTypeOK, lists
<1> QED
  BY <1>1, <1>2, <1>3, <1>4, <1>5, <1>6, <1>7, <1>8, <1>9, <1>10
     DEF ClockNext, ClockStep

\* A step that leaves a list, and who is in it, as they are.
LEMMA PreStays ==
  ASSUME PreIsList, UNCHANGED <<head, next>>,
         Members("pre")' = Members("pre"),
         cpc' = "drain"
           => cpc = "drain" /\ cursor' = cursor /\ Quiet \subseteq Quiet'
  PROVE  PreIsList'
<1>1. PICK s : /\ IsList(head["pre"], next["pre"], s, Members("pre"))
               /\ cpc = "drain" => Passed(s, cursor, Quiet)
  BY DEF PreIsList
<1>2. IsList(head["pre"]', next["pre"]', s, Members("pre")')
  BY <1>1
<1>3. cpc' = "drain" => Passed(s, cursor', Quiet')
  <2> SUFFICES ASSUME cpc' = "drain" PROVE Passed(s, cursor', Quiet')
    OBVIOUS
  <2>1. Passed(s, cursor', Quiet) /\ Quiet \subseteq Quiet'
    BY <1>1
  <2> QED
    BY <2>1, PassedMore
<1> QED
  BY <1>2, <1>3 DEF PreIsList

LEMMA PostStays ==
  ASSUME PostIsList, UNCHANGED <<head, next>>,
         Members("post")' = Members("post"),
         cpc' = "notify" \/ (cpc' = "program" /\ cursor' # NULL) =>
           /\ cpc = "notify" \/ (cpc = "program" /\ cursor # NULL)
           /\ cursor' = cursor /\ Followers' = Followers
  PROVE  PostIsList'
<1>1. PICK s : /\ IsList(head["post"], next["post"], s, Members("post"))
               /\ cpc = "notify" \/ (cpc = "program" /\ cursor # NULL) =>
                    Passed(s, cursor, Followers)
  BY DEF PostIsList
<1>2. IsList(head["post"]', next["post"]', s, Members("post")')
  BY <1>1
<1>3. cpc' = "notify" \/ (cpc' = "program" /\ cursor' # NULL) =>
        Passed(s, cursor', Followers')
  BY <1>1
<1> QED
  BY <1>2, <1>3 DEF PostIsList

\* The steps of registration.  Before them the device is in no list.
LEMMA RegisterFirst ==
  ASSUME ClockInv, NEW l \in Lists, Register(l), head[l] = NULL
  PROVE  /\ dev \in Clients /\ Members(l) = {} /\ cpc' = Following(l)
         /\ head' = [head EXCEPT ![l] = dev]
         /\ IsList(dev, next'[l], <<dev>>, {dev})
         /\ \A k \in Lists \ {l} : next'[k] = next[k] /\ head'[k] = head[k]
<1>1. /\ next' = [next EXCEPT ![l] = [next[l] EXCEPT ![dev] = NULL]]
      /\ head' = [head EXCEPT ![l] = dev] /\ cpc' = Following(l)
  BY DEF Register, AppendCallback
<1>2. dev \in Clients
  BY DEF Register, ClockInv, CallsAreInOrder, Registering
<1>3. \E s : IsList(head[l], next[l], s, Members(l))
  BY DEF ClockInv, PreIsList, PostIsList, Lists
<1>4. next[l] \in [Clients -> Node] /\ next \in [Lists -> [Clients -> Node]]
  BY DEF ClockInv, ClockTypeOK
<1>5. Members(l) = {}
        /\ IsList(dev, [next[l] EXCEPT ![dev] = NULL], <<dev>>, {dev})
  BY <1>2, <1>3, <1>4, FirstEntry
<1>6. head \in [Lists -> Node]
  BY DEF ClockInv, ClockTypeOK
<1> QED
  BY <1>1, <1>2, <1>4, <1>5, <1>6

LEMMA RegisterLater ==
  ASSUME ClockInv, NEW l \in Lists, Register(l), head[l] # NULL
  PROVE  /\ dev \in Clients \ Members(l) /\ head' = head
         /\ scan' \in Members(l) /\ next'[l][dev] = NULL
         /\ cpc' = IF l = "pre" THEN "scan pre" ELSE "scan post"
         /\ \A s : IsList(head[l], next[l], s, Members(l)) =>
                     IsList(head[l], next'[l], s, Members(l))
         /\ \A k \in Lists \ {l} : next'[k] = next[k]
<1>1. /\ next' = [next EXCEPT ![l] = [next[l] EXCEPT ![dev] = NULL]]
      /\ head' = head /\ scan' = head[l]
      /\ cpc' = IF l = "pre" THEN "scan pre" ELSE "scan post"
      /\ cpc = IF l = "pre" THEN "register pre" ELSE "register post"
  BY DEF Register, AppendCallback
<1>2. dev \in Clients \ Initialised
  BY <1>1 DEF ClockInv, CallsAreInOrder, Registering
<1>3. Members(l) = Initialised
  BY <1>1 DEF Members, Lists
<1>4. next[l] \in [Clients -> Node] /\ next \in [Lists -> [Clients -> Node]]
  BY DEF ClockInv, ClockTypeOK
<1>5. next'[l] = [next[l] EXCEPT ![dev] = NULL]
  BY <1>1, <1>4
<1>6. PICK s : IsList(head[l], next[l], s, Members(l))
  BY DEF ClockInv, PreIsList, PostIsList, Lists
<1>7. head[l] \in Members(l)
  BY <1>6, WalkStarts, WalkIsInList
<1>8. ASSUME NEW t, IsList(head[l], next[l], t, Members(l))
      PROVE  IsList(head[l], next'[l], t, Members(l))
  <2> DEFINE hd == head[l]  nx == next[l]  M == Members(l)
  <2>1. nx \in [Clients -> Node] /\ IsList(hd, nx, t, M) /\ dev \in Clients \ M
    BY <1>2, <1>3, <1>4, <1>8
  <2> HIDE DEF hd, nx, M
  <2>2. IsList(hd, [nx EXCEPT ![dev] = NULL], t, M)
    BY <2>1, CutOutside
  <2> QED
    BY <2>2, <1>5 DEF hd, nx, M
<1> QED
  BY <1>1, <1>2, <1>3, <1>4, <1>5, <1>7, <1>8

LEMMA ScanGoesOn ==
  ASSUME ClockInv, NEW l \in Lists, Scan(l), next[l][scan] # NULL
  PROVE  /\ UNCHANGED <<cpc, next, head>> /\ scan' \in Members(l)
<1>1. UNCHANGED <<cpc, next, head>> /\ scan' = next[l][scan]
  BY DEF Scan
<1>2. scan \in Members(l)
  BY DEF Scan, Lists, ClockInv, CallsAreInOrder
<1>3. PICK s : IsList(head[l], next[l], s, Members(l))
  BY DEF ClockInv, PreIsList, PostIsList, Lists
<1>4. PICK n \in 1 .. Len(s) : scan = s[n]
  BY <1>2, <1>3 DEF IsList
<1>5. Len(s) \in Nat /\ next[l][scan] = IF n = Len(s) THEN NULL ELSE s[n + 1]
  BY <1>3, <1>4 DEF IsList
<1>6. n + 1 \in 1 .. Len(s) /\ scan' = s[n + 1]
  BY <1>1, <1>4, <1>5
<1> QED
  BY <1>1, <1>3, <1>6 DEF IsList

LEMMA ScanEnds ==
  ASSUME ClockInv, NEW l \in Lists, Scan(l), next[l][scan] = NULL
  PROVE  /\ dev \in Clients \ Members(l)
         /\ head' = head /\ cpc' = Following(l)
         /\ \E s : IsList(head[l], next'[l], s, Members(l) \cup {dev})
         /\ \A k \in Lists \ {l} : next'[k] = next[k]
<1>1. /\ next' = [next EXCEPT ![l] = [next[l] EXCEPT ![scan] = dev]]
      /\ head' = head /\ cpc' = Following(l)
      /\ cpc = IF l = "pre" THEN "scan pre" ELSE "scan post"
  BY DEF Scan
<1>2. scan \in Members(l) /\ next[l][dev] = NULL
                          /\ dev \in Clients \ Initialised
  BY <1>1 DEF Lists, ClockInv, CallsAreInOrder, Registering
<1>3. PICK s : IsList(head[l], next[l], s, Members(l))
  BY DEF ClockInv, PreIsList, PostIsList, Lists
<1>4. next[l] \in [Clients -> Node] /\ next \in [Lists -> [Clients -> Node]]
  BY DEF ClockInv, ClockTypeOK
<1>5. Members(l) = Initialised
  BY <1>1 DEF Members, Lists
<1>6. next'[l] = [next[l] EXCEPT ![scan] = dev]
  BY <1>1, <1>4
<1>7. IsList(head[l], next'[l], Append(s, dev), Members(l) \cup {dev})
  <2> DEFINE hd == head[l]  nx == next[l]  M == Members(l)
  <2>1. /\ nx \in [Clients -> Node] /\ IsList(hd, nx, s, M)
        /\ dev \in Clients \ M
        /\ nx[dev] = NULL /\ scan \in M /\ nx[scan] = NULL
    BY <1>2, <1>3, <1>4, <1>5
  <2> HIDE DEF hd, nx, M
  <2>2. IsList(hd, [nx EXCEPT ![scan] = dev], Append(s, dev), M \cup {dev})
    BY <2>1, LaterEntry
  <2> QED
    BY <2>2, <1>6 DEF hd, nx, M
<1> QED
  BY <1>1, <1>2, <1>4, <1>5, <1>7

\* Who is in which list after the steps of a call.
LEMMA MembersKept ==
  ASSUME ClockInv, [ClockNext]_clockVars, NEW l \in Lists,
         ~Register(l), ~Scan(l)
  PROVE  Members(l)' = Members(l)
<1>t. ClockTypeOK /\ CallsAreInOrder
  BY DEF ClockInv
<1>1. CASE CallInit
  <2>1. cpc = "idle" /\ cpc' = "register pre" /\ Initialised' = Initialised
    BY <1>1 DEF CallInit, Take, Initialised
  <2> QED
    BY <2>1 DEF Members
<1>2. CASE CallSetBaud
  <2>1. /\ cpc = "idle" /\ Initialised' = Initialised
        /\ dev' \in Initialised \ Reregister
    BY <1>2, <1>t, TakeCall DEF CallSetBaud, Initialised, CallsAreInOrder
  <2>2. cpc' = "program"
    BY <1>2, <2>1 DEF CallSetBaud, SetBaudEntry
  <2> QED
    BY <2>1, <2>2 DEF Members
<1>3. CASE CallSetRate
  <2>1. cpc = "idle" /\ cpc' = "drain" /\ Initialised' = Initialised
    BY <1>3 DEF CallSetRate, Take, Initialised
  <2> QED
    BY <2>1 DEF Members
<1>4. CASE Drain \/ Drained \/ BeginChange \/ Change \/ Notified
  <2>1. /\ cpc \in {"drain", "change", "changing", "notify"}
        /\ cpc' \in {"drain", "change", "changing", "notify", "idle"}
        /\ Initialised' = Initialised
    BY <1>4 DEF Drain, Drained, BeginChange, Change, Notified, Initialised
  <2> QED
    BY <2>1 DEF Members
<1>5. CASE Notify
  <2>1. /\ cpc = "notify" /\ Initialised' = Initialised /\ cursor' = cursor
        /\ cursor # NULL /\ cpc' \in {"program", "register pre"}
    BY <1>5 DEF Notify, SetBaudEntry, Initialised
  <2> QED
    BY <2>1 DEF Members
<1>6. ASSUME NEW k \in Lists, Register(k) \/ Scan(k)
      PROVE  Members(l)' = Members(l)
  <2>1. /\ k # l /\ Initialised' = Initialised /\ cursor' = cursor
        /\ dev' = dev
    BY <1>6 DEF Register, Scan, Initialised
  <2>2. CASE l = "pre"
    <3>1. k = "post" /\ cpc \in {"register post", "scan post"}
      BY <1>6, <2>1, <2>2 DEF Register, Scan, Lists
    <3>2. cpc' \in {"scan post", "program"}
      BY <1>6, <3>1 DEF Register, Scan, AppendCallback, Following
    <3>3. cursor = NULL
      BY <1>t, <3>1 DEF CallsAreInOrder, Registering
    <3> QED
      BY <2>1, <2>2, <3>1, <3>2, <3>3 DEF Members
  <2>3. CASE l = "post"
    <3>1. k = "pre" /\ cpc \in {"register pre", "scan pre"}
      BY <1>6, <2>1, <2>3 DEF Register, Scan, Lists
    <3>2. cpc' \in {"scan pre", "register post"}
      BY <1>6, <3>1 DEF Register, Scan, AppendCallback, Following
    <3> QED
      BY <2>1, <2>3, <3>1, <3>2 DEF Members
  <2> QED
    BY <2>2, <2>3 DEF Lists
<1>7. CASE Program
  <2>1. /\ cpc = "program" /\ dev \in Clients /\ cursor \in {NULL, dev}
        /\ Initialised' = Initialised \cup {dev} /\ cpc' \in {"idle", "notify"}
    <3>1. cpc = "program" /\ dev \in Clients /\ cursor \in {NULL, dev}
      BY <1>7, <1>t DEF Program, CallsAreInOrder
    <3>2. clockRate # NULL /\ divisor \in [Clients -> ClockRates \cup {NULL}]
      BY <1>t, ClockAssumption DEF ClockTypeOK
    <3>3. Initialised' = Initialised \cup {dev}
      BY <1>7, <3>1, <3>2 DEF Program, Initialised
    <3> QED
      BY <1>7, <3>1, <3>3 DEF Program, AfterProgram
  <2>2. CASE cursor = NULL
    BY <2>1, <2>2 DEF Members
  <2>3. CASE cursor # NULL
    <3>1. PICK s : /\ IsList(head["post"], next["post"], s, Members("post"))
                   /\ Passed(s, cursor, Followers)
      BY <2>1, <2>3 DEF ClockInv, PostIsList
    <3>2. cursor \in Members("post")
      BY <2>3, <3>1, WalkIsInList
    <3>3. dev \in Initialised
      BY <2>1, <2>3, <3>2 DEF Members
    <3> QED
      BY <2>1, <2>3, <3>3 DEF Members
  <2> QED
    BY <2>2, <2>3
<1>8. ASSUME NEW d \in Clients, Transmit(d) \/ Sent(d)
      PROVE  Members(l)' = Members(l)
  BY <1>8 DEF Transmit, Sent, Members, Initialised
<1>9. CASE UNCHANGED clockVars
  BY <1>9 DEF clockVars, Members, Initialised
<1> QED
  BY <1>1, <1>2, <1>3, <1>4, <1>5, <1>6, <1>7, <1>8, <1>9
     DEF ClockNext, ClockStep

LEMMA MembersAdded ==
  ASSUME ClockInv, NEW l \in Lists
  PROVE  /\ Register(l) /\ head[l] = NULL
              => Members(l)' = Members(l) \cup {dev}
         /\ Register(l) /\ head[l] # NULL => Members(l)' = Members(l)
         /\ Scan(l) /\ next[l][scan] # NULL => Members(l)' = Members(l)
         /\ Scan(l) /\ next[l][scan] = NULL
              => Members(l)' = Members(l) \cup {dev}
<1>1. ASSUME Register(l) \/ Scan(l)
      PROVE  /\ Initialised' = Initialised /\ dev' = dev
             /\ cursor' = NULL /\ cursor = NULL
  BY <1>1 DEF Register, Scan, Initialised, ClockInv, CallsAreInOrder,
              Registering
<1>2. Register(l) /\ head[l] = NULL => Members(l)' = Members(l) \cup {dev}
  BY <1>1 DEF Register, AppendCallback, Following, Members, Lists
<1>3. Register(l) /\ head[l] # NULL => Members(l)' = Members(l)
  BY <1>1 DEF Register, AppendCallback, Members, Lists
<1>4. Scan(l) /\ next[l][scan] # NULL => Members(l)' = Members(l)
  BY <1>1 DEF Scan, Members, Lists
<1>5. Scan(l) /\ next[l][scan] = NULL => Members(l)' = Members(l) \cup {dev}
  BY <1>1 DEF Scan, Following, Members, Lists
<1> QED
  BY <1>2, <1>3, <1>4, <1>5

\* Registration leaves a chain, of which the walks of a change know nothing.
LEMMA RegistrationKeeps ==
  ASSUME ClockInv, NEW l \in Lists, Register(l) \/ Scan(l), ClockTypeOK'
  PROVE  \E s : IsList(head'[l], next'[l], s, Members(l)')
<1>t. head \in [Lists -> Node]
  BY DEF ClockInv, ClockTypeOK
<1>0. PICK s : IsList(head[l], next[l], s, Members(l))
  BY DEF ClockInv, PreIsList, PostIsList, Lists
<1>1. CASE Register(l) /\ head[l] = NULL
  <2>1. /\ Members(l)' = {dev} /\ head'[l] = dev
        /\ IsList(dev, next'[l], <<dev>>, {dev})
    BY <1>1, <1>t, RegisterFirst, MembersAdded
  <2> QED
    BY <2>1
<1>2. CASE Register(l) /\ head[l] # NULL
  <2>1. Members(l)' = Members(l) /\ head'[l] = head[l]
    BY <1>2, RegisterLater, MembersAdded
  <2>2. IsList(head[l], next'[l], s, Members(l))
    BY <1>0, <1>2, RegisterLater
  <2> QED
    BY <2>1, <2>2
<1>3. CASE Scan(l) /\ next[l][scan] # NULL
  <2>1. Members(l)' = Members(l) /\ UNCHANGED <<head, next>>
    BY <1>3, ScanGoesOn, MembersAdded
  <2> QED
    BY <1>0, <2>1
<1>4. CASE Scan(l) /\ next[l][scan] = NULL
  <2>1. Members(l)' = Members(l) \cup {dev} /\ head'[l] = head[l]
    BY <1>4, ScanEnds, MembersAdded
  <2>2. \E t : IsList(head[l], next'[l], t, Members(l) \cup {dev})
    BY <1>4, ScanEnds
  <2> QED
    BY <2>1, <2>2
<1> QED
  BY <1>1, <1>2, <1>3, <1>4

LEMMA OtherListStays ==
  ASSUME ClockInv, NEW l \in Lists, Register(l)
           \/ Scan(l), NEW k \in Lists \ {l}
  PROVE  head'[k] = head[k] /\ next'[k] = next[k]
BY RegisterFirst, RegisterLater, ScanGoesOn, ScanEnds

\* A device that a post callback serves is one of those in the list.
LEMMA ServedInOrder ==
  ASSUME ClockInv,
         \/ cpc = "notify" /\ cursor # NULL
         \/ cpc = "program" /\ cursor # NULL
  PROVE  cursor \in Initialised \ Reregister /\ Members("post") = Initialised
<1>1. PICK s : /\ IsList(head["post"], next["post"], s, Members("post"))
               /\ Passed(s, cursor, Followers)
  BY DEF ClockInv, PostIsList
<1>2. cursor \in Members("post")
  BY <1>1, WalkIsInList
<1>3. Members("post") = Initialised
  BY DEF Members
<1>4. Initialised \cap Reregister = {}
  BY DEF ClockInv, CallsAreInOrder, Changing
<1> QED
  BY <1>2, <1>3, <1>4

LEMMA Programmed ==
  ASSUME ClockInv, Program
  PROVE  /\ cpc = "program" /\ dev \in Clients
         /\ Initialised' = Initialised \cup {dev}
         /\ Followers' = Followers \cup {dev}
         /\ cursor # NULL => dev \in Initialised /\ cursor = dev
<1>1. /\ cpc = "program" /\ dev \in Clients /\ cursor \in {NULL, dev}
      /\ divisor' = [divisor EXCEPT ![dev] = clockRate]
      /\ clockRate' = clockRate
  BY DEF Program, ClockInv, CallsAreInOrder
<1>2. clockRate # NULL /\ divisor \in [Clients -> ClockRates \cup {NULL}]
  BY ClockAssumption DEF ClockInv, ClockTypeOK
<1>3. Initialised' = Initialised \cup {dev}
  BY <1>1, <1>2 DEF Initialised
<1>4. Followers' = Followers \cup {dev}
  BY <1>1, <1>2 DEF Followers
<1> QED
  BY <1>1, <1>3, <1>4, ServedInOrder

\* A device whose pre callback returns is done, or too fast for it; the others
\* are as they were.
LEMMA DrainQuiets ==
  ASSUME ClockInv, Drain
  PROVE  /\ cursor # NULL /\ cpc = "drain" /\ UNCHANGED <<head, next>>
         /\ cursor' = next["pre"][cursor]
         /\ cursor \in Quiet' /\ Quiet \subseteq Quiet'
         /\ \A d \in Clients : busy'[d] > 0 => busy[d] > 0
<1>1. /\ cpc = "drain" /\ cursor # NULL /\ cursor' = next["pre"][cursor]
      /\ UNCHANGED <<head, next, divisor, clockRate>>
  BY DEF Drain, lists
<1>2. PICK left \in Left(cursor) : busy' = [busy EXCEPT ![cursor] = left]
  BY DEF Drain
<1>3. cursor \in Initialised /\ cursor \in Clients
  <2>1. PICK s : /\ IsList(head["pre"], next["pre"], s, Members("pre"))
                 /\ Passed(s, cursor, Quiet)
    BY <1>1 DEF ClockInv, PreIsList
  <2>2. cursor \in Members("pre") /\ cursor \in Clients
    BY <1>1, <2>1, WalkIsInList
  <2> QED
    BY <1>1, <2>2 DEF Members
<1>4. divisor[cursor] = clockRate /\ cursor \notin Reregister
  BY <1>1, <1>3
     DEF ClockInv, AllFollow, Followers, CallsAreInOrder, Changing
<1>5. /\ busy \in [Clients -> 0..2] /\ clockRate \in Int
      /\ busy' \in [Clients -> 0..2] /\ BaudRate \in Nat \ {0}
      /\ divisor' = divisor
  BY <1>1, <1>2, <1>3, BusyAfterDrain, ClockAssumption
     DEF ClockInv, ClockTypeOK
<1>6. /\ busy'[cursor] = left /\ (left > 0 => busy[cursor] > 0)
      /\ \A d \in Clients \ {cursor} : busy'[d] = busy[d]
  <2>1. left \in 0 .. busy[cursor]
    BY <1>3, <1>5 DEF Left
  <2> QED
    BY <1>2, <1>3, <1>5, <2>1
<1>7. cursor \in Quiet'
  <2>1. CASE TooFast(clockRate)
    BY <1>3, <1>4, <1>5, <2>1 DEF Quiet
  <2>2. CASE ~TooFast(clockRate)
    <3>1. CyclesToWait(clockRate) >= SymbolCycles(cursor)
      BY <1>4, <1>5, <2>2, SymbolIsWaitedFor
         DEF CyclesToWait, SymbolCycles, BitsPerSymbol
    <3>2. busy'[cursor] = 0
      BY <1>2, <1>6, <3>1 DEF Left
    <3> QED
      BY <1>3, <3>2 DEF Quiet
  <2> QED
    BY <2>1, <2>2
<1>8. Quiet \subseteq Quiet'
  <2> SUFFICES ASSUME NEW d \in Quiet, d # cursor PROVE d \in Quiet'
    BY <1>7
  <2> QED
    BY <1>5, <1>6 DEF Quiet
<1>9. \A d \in Clients : busy'[d] > 0 => busy[d] > 0
  BY <1>6
<1> QED
  BY <1>1, <1>7, <1>8, <1>9

LEMMA PreKept == ClockInv /\ [ClockNext]_clockVars /\ ClockTypeOK'
                   => PreIsList'
<1> SUFFICES ASSUME ClockInv, [ClockNext]_clockVars, ClockTypeOK'
             PROVE  PreIsList'
  OBVIOUS
<1>0. PreIsList /\ "pre" \in Lists /\ "post" \in Lists
  BY DEF ClockInv, Lists
<1>1. PICK s : /\ IsList(head["pre"], next["pre"], s, Members("pre"))
               /\ cpc = "drain" => Passed(s, cursor, Quiet)
  BY <1>0 DEF PreIsList
<1>2. CASE Register("pre") \/ Scan("pre")
  <2>1. cpc' # "drain"
    BY <1>2 DEF Register, Scan, AppendCallback, Following
  <2>2. \E t : IsList(head'["pre"], next'["pre"], t, Members("pre")')
    BY <1>0, <1>2, RegistrationKeeps
  <2> QED
    BY <2>1, <2>2 DEF PreIsList
<1>3. CASE ~Register("pre") /\ ~Scan("pre")
  <2>1. Members("pre")' = Members("pre")
    BY <1>0, <1>3, MembersKept
  <2>2. CASE CallSetRate
    <3>1. /\ cursor' = head["pre"] /\ UNCHANGED <<head, next>>
      BY <2>2 DEF CallSetRate, Take, lists
    <3>2. Passed(s, cursor', Quiet')
      BY <1>1, <3>1, WalkStarts
    <3> QED
      BY <1>1, <2>1, <3>1, <3>2 DEF PreIsList
  <2>3. CASE Drain
    <3>1. /\ cpc = "drain" /\ cursor # NULL
          /\ cursor' = next["pre"][cursor] /\ UNCHANGED <<head, next>>
          /\ cursor \in Quiet' /\ Quiet \subseteq Quiet'
      BY <2>3, DrainQuiets
    <3>2. Passed(s, cursor, Quiet')
      BY <1>1, <3>1, PassedMore
    <3>3. Passed(s, cursor', Quiet')
      BY <1>1, <3>1, <3>2, WalkGoesOn
    <3> QED
      BY <1>1, <2>1, <3>1, <3>3 DEF PreIsList
  <2>4. CASE Register("post") \/ Scan("post")
    <3>1. cpc' # "drain"
      BY <2>4 DEF Register, Scan, AppendCallback, Following
    <3>2. head'["pre"] = head["pre"] /\ next'["pre"] = next["pre"]
      BY <1>0, <2>4, OtherListStays
    <3> QED
      BY <1>1, <2>1, <3>1, <3>2 DEF PreIsList
  <2>5. CASE CallInit \/ CallSetBaud
    <3>1. UNCHANGED <<head, next>> /\ cpc' # "drain"
      BY <2>5 DEF CallInit, CallSetBaud, SetBaudEntry, Take, lists
    <3> QED
      BY <1>0, <2>1, <3>1, PreStays
  <2>6. CASE Drained \/ BeginChange \/ Change \/ Notify \/ Notified \/ Program
    <3>1. UNCHANGED <<head, next>> /\ cpc' # "drain"
      BY <2>6 DEF Drained, BeginChange, Change, Notify, Notified, Program, AfterProgram,
                  SetBaudEntry, lists
    <3> QED
      BY <1>0, <2>1, <3>1, PreStays
  <2>7. ASSUME NEW d \in Clients, Transmit(d) \/ Sent(d) PROVE PreIsList'
    <3>1. /\ UNCHANGED <<head, next, cursor, cpc>>
          /\ cpc = "drain" => Quiet \subseteq Quiet'
      <4>1. CASE Transmit(d)
        BY <4>1 DEF Transmit, lists
      <4>2. CASE Sent(d)
        <5>1. /\ busy \in [Clients -> 0..2] /\ busy[d] > 0
              /\ busy' = [busy EXCEPT ![d] = @ - 1] /\ divisor' = divisor
          BY <4>2 DEF Sent, ClockInv, ClockTypeOK
        <5>2. \A e \in Clients : busy'[e] > 0 => busy[e] > 0
          BY <5>1
        <5> QED
          BY <4>2, <5>1, <5>2 DEF Sent, lists, Quiet
      <4> QED
        BY <2>7, <4>1, <4>2
    <3> QED
      BY <1>0, <2>1, <3>1, PreStays
  <2>8. CASE UNCHANGED clockVars
    <3>1. UNCHANGED <<head, next, cursor, cpc, busy, divisor>>
      BY <2>8 DEF clockVars, lists
    <3>2. Quiet' = Quiet
      BY <3>1 DEF Quiet
    <3> QED
      BY <1>0, <2>1, <3>1, <3>2, PreStays
  <2> QED
    BY <1>3, <2>2, <2>3, <2>4, <2>5, <2>6, <2>7, <2>8
       DEF ClockNext, ClockStep, Lists
<1> QED
  BY <1>2, <1>3

LEMMA PostKept == ClockInv /\ [ClockNext]_clockVars /\ ClockTypeOK'
                    => PostIsList'
<1> SUFFICES ASSUME ClockInv, [ClockNext]_clockVars, ClockTypeOK'
             PROVE  PostIsList'
  OBVIOUS
<1>0. PostIsList /\ "pre" \in Lists /\ "post" \in Lists
  BY DEF ClockInv, Lists
<1>1. PICK s : /\ IsList(head["post"], next["post"], s, Members("post"))
               /\ cpc = "notify" => Passed(s, cursor, Followers)
               /\ cpc = "program" /\ cursor # NULL
                    => Passed(s, cursor, Followers)
  BY <1>0 DEF PostIsList
<1>2. ASSUME NEW l \in Lists, Register(l) \/ Scan(l)
      PROVE  cpc' # "notify" /\ cursor' = NULL
  BY <1>2 DEF Register, Scan, AppendCallback, Following, Lists, ClockInv,
              CallsAreInOrder, Registering
<1>3. CASE Register("post") \/ Scan("post")
  <2>1. \E t : IsList(head'["post"], next'["post"], t, Members("post")')
    BY <1>0, <1>3, RegistrationKeeps
  <2> QED
    BY <1>0, <1>2, <1>3, <2>1 DEF PostIsList
<1>4. CASE ~Register("post") /\ ~Scan("post")
  <2>1. Members("post")' = Members("post")
    BY <1>0, <1>4, MembersKept
  <2>2. CASE Change
    <3>1. cursor' = head["post"] /\ UNCHANGED <<head, next>>
      BY <2>2 DEF Change, lists
    <3>2. Passed(s, cursor', Followers')
      BY <1>1, <3>1, WalkStarts
    <3> QED
      BY <1>1, <2>1, <3>1, <3>2 DEF PostIsList
  <2>3. CASE Notify
    <3>1. /\ cpc = "notify" /\ cursor' = cursor
          /\ UNCHANGED <<head, next, divisor, clockRate>>
      BY <2>3 DEF Notify, lists
    <3>2. Passed(s, cursor', Followers') /\ Followers' = Followers
      BY <1>1, <3>1 DEF Followers
    <3> QED
      BY <1>1, <2>1, <3>1, <3>2 DEF PostIsList
  <2>4. CASE Program /\ cursor # NULL
    <3>1. /\ cpc = "program" /\ UNCHANGED <<head, next>>
          /\ cursor' = next["post"][cursor]
      BY <2>4 DEF Program, AfterProgram, lists
    <3>2. Followers' = Followers \cup {dev} /\ cursor = dev
      BY <2>4, Programmed
    <3>3. Passed(s, cursor, Followers')
      BY <1>1, <2>4, <3>1, <3>2, PassedMore
    <3>4. Passed(s, cursor', Followers')
      BY <1>1, <2>4, <3>1, <3>2, <3>3, WalkGoesOn
    <3> QED
      BY <1>1, <2>1, <3>1, <3>4 DEF PostIsList
  <2>5. CASE Program /\ cursor = NULL
    <3>1. cpc' = "idle" /\ UNCHANGED <<head, next>>
      BY <2>5 DEF Program, AfterProgram, lists
    <3> QED
      BY <1>0, <2>1, <3>1, PostStays
  <2>6. CASE Register("pre") \/ Scan("pre")
    <3>1. head'["post"] = head["post"] /\ next'["post"] = next["post"]
      BY <1>0, <2>6, OtherListStays
    <3> QED
      BY <1>0, <1>1, <1>2, <2>1, <2>6, <3>1 DEF PostIsList
  <2>7. CASE CallInit \/ CallSetBaud
    <3>1. UNCHANGED <<head, next>> /\ cpc' # "notify" /\ cursor' = NULL
      BY <2>7 DEF CallInit, CallSetBaud, SetBaudEntry, Take, lists,
                  ClockInv, CallsAreInOrder
    <3> QED
      BY <1>0, <2>1, <3>1, PostStays
  <2>8. CASE CallSetRate \/ Drain \/ Drained \/ BeginChange \/ Notified
    <3>1. /\ UNCHANGED <<head, next>>
          /\ cpc' \in {"drain", "change", "changing", "idle"}
      BY <2>8 DEF CallSetRate, Take, Drain, Drained, BeginChange, Notified, lists
    <3> QED
      BY <1>0, <2>1, <3>1, PostStays
  <2>9. ASSUME \/ \E d \in Clients : Transmit(d) \/ Sent(d)
               \/ UNCHANGED clockVars
        PROVE  PostIsList'
    <3>1. UNCHANGED <<head, next, cursor, cpc, divisor, clockRate>>
      BY <2>9 DEF Transmit, Sent, lists, clockVars
    <3>2. Followers' = Followers
      BY <3>1 DEF Followers
    <3> QED
      BY <1>0, <2>1, <3>1, <3>2, PostStays
  <2> QED
    BY <1>4, <2>2, <2>3, <2>4, <2>5, <2>6, <2>7, <2>8, <2>9
       DEF ClockNext, ClockStep, Lists
<1> QED
  BY <1>3, <1>4

LEMMA FollowKept == ClockInv /\ [ClockNext]_clockVars => AllFollow'
<1> SUFFICES ASSUME ClockInv, [ClockNext]_clockVars PROVE AllFollow'
  OBVIOUS
<1>0. AllFollow
  BY DEF ClockInv
<1>1. CASE BeginChange \/ Change
  BY <1>1 DEF BeginChange, Change, AllFollow
<1>2. CASE Notify
  <2>1. cpc' = "program" /\ cursor' # NULL
    BY <1>2, ServedInOrder DEF Notify, SetBaudEntry
  <2> QED
    BY <2>1 DEF AllFollow
<1>3. CASE Notified
  <2>1. /\ cpc = "notify" /\ cursor = NULL
        /\ UNCHANGED <<divisor, clockRate>>
    BY <1>3 DEF Notified
  <2>2. PICK s : /\ IsList(head["post"], next["post"], s, Members("post"))
                 /\ Passed(s, NULL, Followers)
    BY <2>1 DEF ClockInv, PostIsList
  <2>3. Members("post") \subseteq Followers
    BY <2>2, WalkEnds
  <2>4. Initialised' \subseteq Followers'
    BY <2>1, <2>3 DEF Members, Initialised, Followers
  <2> QED
    BY <2>4 DEF AllFollow
<1>4. CASE Program
  <2>1. CASE cursor = NULL
    <3>1. Initialised \subseteq Followers
      BY <1>0, <1>4, <2>1, Programmed DEF AllFollow
    <3> QED
      BY <1>4, <3>1, Programmed DEF AllFollow
  <2>2. CASE cursor # NULL
    BY <1>4, <2>2 DEF Program, AfterProgram, AllFollow
  <2> QED
    BY <2>1, <2>2
<1>5. ASSUME NEW l \in Lists, Register(l) \/ Scan(l) PROVE AllFollow'
  <2>1. cpc \in Registering /\ UNCHANGED <<divisor, clockRate>>
    BY <1>5 DEF Register, Scan, Registering, Lists
  <2>2. Initialised \subseteq Followers
    BY <1>0, <2>1 DEF AllFollow, Registering
  <2> QED
    BY <2>1, <2>2 DEF AllFollow, Initialised, Followers
<1>6. CASE CallInit \/ CallSetBaud \/ CallSetRate
  <2>1. cpc = "idle" /\ UNCHANGED <<divisor, clockRate>>
    BY <1>6 DEF CallInit, CallSetBaud, CallSetRate, Take
  <2> QED
    BY <1>0, <2>1 DEF AllFollow, Initialised, Followers
<1>7. CASE Drain \/ Drained
  <2>1. cpc = "drain" /\ UNCHANGED <<divisor, clockRate>>
    BY <1>7 DEF Drain, Drained
  <2> QED
    BY <1>0, <2>1 DEF AllFollow, Initialised, Followers
<1>8. ASSUME \/ \E d \in Clients : Transmit(d) \/ Sent(d)
             \/ UNCHANGED clockVars
      PROVE  AllFollow'
  <2>1. UNCHANGED <<cpc, cursor, divisor, clockRate>>
    BY <1>8 DEF Transmit, Sent, clockVars
  <2> QED
    BY <1>0, <2>1 DEF AllFollow, Initialised, Followers
<1> QED
  BY <1>1, <1>2, <1>3, <1>4, <1>5, <1>6, <1>7, <1>8 DEF ClockNext, ClockStep

\* What the parts of a call hold on to: a step at a time.
LEMMA OrderKept ==
  ClockInv /\ [ClockNext]_clockVars /\ ClockTypeOK' => CallsAreInOrder'
<1> SUFFICES ASSUME ClockInv, [ClockNext]_clockVars, ClockTypeOK'
             PROVE  CallsAreInOrder'
  OBVIOUS
<1>0. CallsAreInOrder /\ ClockTypeOK
  BY DEF ClockInv
<1>b. (\A d \in Clients : busy[d] > 0 => d \in Initialised)
      /\ (UNCHANGED <<busy, divisor>> => LinesAreDrained' = LinesAreDrained)
  BY <1>0 DEF CallsAreInOrder, LinesAreDrained
<1>1. CASE CallInit
  <2>1. /\ cpc = "idle" /\ cpc' = "register pre" /\ cursor' = cursor
        /\ dev' = Head(clockScript).arg /\ dev' \in Clients \ Initialised
        /\ LegalFrom(clockScript', Initialised \cup {dev'})
        /\ UNCHANGED <<divisor, busy>>
    BY <1>1, <1>0, TakeCall, CallTypes DEF CallInit, CallsAreInOrder
  <2>2. Initialised' = Initialised /\ Calling' /\ ~Changing' /\ cursor = NULL
    BY <1>0, <2>1
       DEF Initialised, Calling, Changing, Registering, CallsAreInOrder
  <2>3. LegalFrom(clockScript', Claimed')
    BY <2>1, <2>2 DEF Claimed
  <2> QED
    BY <1>0, <2>1, <2>2, <2>3 DEF CallsAreInOrder
<1>2. CASE CallSetBaud
  <2>1. /\ cpc = "idle" /\ cursor' = cursor /\ cpc' = SetBaudEntry(dev')
        /\ dev' = Head(clockScript).arg /\ dev' \in Initialised \ Reregister
        /\ LegalFrom(clockScript', Initialised \cup {dev'})
        /\ UNCHANGED <<divisor, busy>>
    BY <1>2, <1>0, TakeCall DEF CallSetBaud, CallsAreInOrder
  <2>2. /\ Initialised' = Initialised /\ cpc' = "program" /\ cursor' = NULL
        /\ Calling' /\ ~Changing' /\ dev' \in Clients
    BY <1>0, <2>1
       DEF Initialised, Calling, Changing, SetBaudEntry, CallsAreInOrder
  <2>3. LegalFrom(clockScript', Claimed')
    BY <2>1, <2>2 DEF Claimed
  <2> QED
    BY <1>0, <2>1, <2>2, <2>3 DEF CallsAreInOrder, Registering
<1>3. CASE CallSetRate
  <2>1. /\ cpc = "idle" /\ cpc' = "drain"
        /\ Initialised \cap Reregister = {}
        /\ LegalFrom(clockScript', Initialised)
        /\ UNCHANGED <<divisor, busy>>
    BY <1>3, <1>0, TakeCall DEF CallSetRate, CallsAreInOrder
  <2>2. Initialised' = Initialised /\ ~Calling'
    BY <2>1 DEF Initialised, Calling, Registering
  <2>3. LegalFrom(clockScript', Claimed')
    BY <2>1, <2>2 DEF Claimed
  <2> QED
    BY <1>0, <2>1, <2>2, <2>3 DEF CallsAreInOrder, Registering
<1>4. CASE Drain \/ Drained \/ BeginChange \/ Change \/ Notified
  <2>1. /\ cpc \in {"drain", "change", "changing", "notify"}
        /\ cpc' \in {"drain", "change", "changing", "notify", "idle"}
        /\ UNCHANGED <<clockScript, divisor>>
        /\ cpc # "drain" => busy' = busy
        /\ (cpc = "drain" /\ cpc' = "drain") \/ busy' = busy
        /\ cpc' = "idle" => cursor' = NULL
        /\ cpc' = "change" => cpc = "drain" /\ cursor = NULL
        /\ cpc' = "changing" => cpc = "change"
    BY <1>4 DEF Drain, Drained, BeginChange, Change, Notified
  <2>2. /\ Initialised' = Initialised /\ ~Calling' /\ ~Calling
        /\ Initialised \cap Reregister = {}
    BY <1>0, <2>1
       DEF Initialised, Calling, Changing, Registering, CallsAreInOrder
  <2>3. LegalFrom(clockScript', Claimed')
    BY <1>0, <2>1, <2>2 DEF Claimed, CallsAreInOrder
  <2>4. cpc' = "change" => LinesAreDrained'
    <3> SUFFICES ASSUME cpc' = "change" PROVE LinesAreDrained
      BY <1>b, <2>1
    <3>1. PICK s : /\ IsList(head["pre"], next["pre"], s, Members("pre"))
                   /\ Passed(s, NULL, Quiet)
      BY <2>1 DEF ClockInv, PreIsList
    <3>2. Members("pre") \subseteq Quiet
      BY <3>1, WalkEnds
    <3> QED
      BY <1>b, <3>2 DEF Members, LinesAreDrained, Quiet
  <2>5. cpc' = "changing" => LinesAreDrained'
    BY <1>0, <1>b, <2>1 DEF CallsAreInOrder
  <2>6. \A d \in Clients : busy'[d] > 0 => d \in Initialised'
    <3>1. CASE Drain
      BY <1>b, <2>2, <3>1, DrainQuiets
    <3>2. CASE ~Drain
      BY <1>4, <1>b, <2>2, <3>2 DEF Drained, BeginChange, Change, Notified
    <3> QED
      BY <3>1, <3>2
  <2> QED
    BY <1>0, <2>1, <2>2, <2>3, <2>4, <2>5, <2>6 DEF CallsAreInOrder, Registering
<1>5. CASE Notify
  <2>1. /\ cpc = "notify" /\ cpc' = "program" /\ cursor' = cursor
        /\ cursor # NULL /\ dev' = cursor
        /\ UNCHANGED <<clockScript, divisor, busy>>
        /\ cursor \in Initialised \ Reregister
    BY <1>5, ServedInOrder DEF Notify, SetBaudEntry
  <2>2. /\ Initialised' = Initialised /\ ~Calling' /\ ~Calling
        /\ Initialised \cap Reregister = {} /\ dev' \in Clients
    BY <1>0, <2>1
       DEF Initialised, Calling, Changing, Registering, CallsAreInOrder
  <2>3. LegalFrom(clockScript', Claimed')
    BY <1>0, <2>1, <2>2 DEF Claimed, CallsAreInOrder
  <2> QED
    BY <1>0, <2>1, <2>2, <2>3 DEF CallsAreInOrder, Registering
<1>6. ASSUME NEW l \in Lists, Register(l) \/ Scan(l) PROVE CallsAreInOrder'
  <2>1. /\ cpc \in Registering /\ cpc' \in Registering \cup {"program"}
        /\ UNCHANGED <<clockScript, divisor, busy, cursor, dev>>
        /\ cursor = NULL /\ dev \in Clients \ Initialised
    BY <1>6, <1>0 DEF Register, Scan, AppendCallback, Following, Registering,
                      Lists, CallsAreInOrder
  <2>2. Initialised' = Initialised /\ Calling' /\ Calling /\ ~Changing'
    BY <2>1 DEF Initialised, Calling, Changing, Registering
  <2>3. LegalFrom(clockScript', Claimed')
    BY <1>0, <2>1, <2>2 DEF Claimed, CallsAreInOrder
  <2>4. ASSUME NEW k \in Lists,
               cpc' = IF k = "pre" THEN "scan pre" ELSE "scan post"
        PROVE  scan' \in Members(k)' /\ next'[k][dev] = NULL
    <3>1. k = l
      <4>1. \A j \in Lists : j = "pre" \/ j = "post"
        BY DEF Lists
      <4>2. CASE Register(l)
        BY <4>1, <4>2, <2>4 DEF Register, AppendCallback, Following
      <4>3. CASE Scan(l)
        <5>1. /\ cpc' = cpc \/ cpc' = Following(l)
              /\ cpc = IF l = "pre" THEN "scan pre" ELSE "scan post"
          BY <4>3 DEF Scan
        <5>2. CASE l = "pre"
          BY <4>1, <5>1, <5>2, <2>4 DEF Following
        <5>3. CASE l = "post"
          BY <4>1, <5>1, <5>3, <2>4 DEF Following
        <5> QED
          BY <4>1, <5>2, <5>3
      <4> QED
        BY <1>6, <4>2, <4>3
    <3>2. CASE Register(l)
      <4>1. head[l] # NULL
        BY <2>4, <3>1, <3>2 DEF Register, AppendCallback, Following, Lists
      <4> QED
        BY <3>1, <3>2, <4>1, RegisterLater, MembersAdded
    <3>3. CASE Scan(l)
      <4>1. next[l][scan] # NULL
        BY <2>4, <3>1, <3>3 DEF Scan, Following, Lists
      <4>2. scan' \in Members(l) /\ next' = next /\ Members(l)' = Members(l)
        BY <3>3, <4>1, ScanGoesOn, MembersAdded
      <4>3. next[l][dev] = NULL
        BY <1>0, <3>3 DEF Scan, Lists, CallsAreInOrder
      <4> QED
        BY <3>1, <4>2, <4>3
    <3> QED
      BY <1>6, <3>2, <3>3
  <2>5. /\ cpc' = "scan pre"
             => scan' \in Members("pre")' /\ next'["pre"][dev] = NULL
        /\ cpc' = "scan post"
             => scan' \in Members("post")' /\ next'["post"][dev] = NULL
    BY <2>4 DEF Lists
  <2> QED
    BY <1>0, <2>1, <2>2, <2>3, <2>5 DEF CallsAreInOrder, Registering
<1>7. CASE Program
  <2>1. /\ cpc = "program" /\ cpc' \in {"idle", "notify"}
        /\ UNCHANGED <<clockScript, busy>>
        /\ cpc' = "notify" => cursor # NULL
        /\ cpc' = "idle" => cursor' = NULL
        /\ Initialised' = Initialised \cup {dev}
        /\ cursor # NULL => dev \in Initialised
    BY <1>7, Programmed DEF Program, AfterProgram
  <2>2. ~Calling' /\ (Calling <=> cursor = NULL)
    BY <2>1 DEF Calling, Registering
  <2>3. LegalFrom(clockScript', Claimed')
    BY <1>0, <2>1, <2>2 DEF Claimed, CallsAreInOrder
  <2>4. Changing' => Initialised' \cap Reregister = {}
    BY <1>0, <2>1 DEF Changing, CallsAreInOrder
  <2> QED
    BY <1>0, <2>1, <2>3, <2>4 DEF CallsAreInOrder, Registering
<1>8. ASSUME NEW d \in Clients, Transmit(d) \/ Sent(d) PROVE CallsAreInOrder'
  <2>1. /\ UNCHANGED <<clockScript, cpc, cursor, dev, scan, divisor, next>>
    BY <1>8 DEF Transmit, Sent, lists
  <2>3. \A e \in Clients : busy'[e] > 0 => e \in Initialised
    <3>1. busy \in [Clients -> 0..2]
      BY <1>0 DEF ClockTypeOK
    <3>2. CASE Transmit(d)
      <4>1. d \in Initialised /\ busy' = [busy EXCEPT ![d] = @ + 1]
        BY <3>2 DEF Transmit
      <4> QED
        BY <1>b, <3>1, <4>1
    <3>3. CASE Sent(d)
      <4>1. busy[d] > 0 /\ busy' = [busy EXCEPT ![d] = @ - 1]
        BY <3>3 DEF Sent
      <4> QED
        BY <1>b, <3>1, <4>1
    <3> QED
      BY <1>8, <3>2, <3>3
  <2>4. cpc \in {"change", "changing"} => LinesAreDrained'
    <3> SUFFICES ASSUME cpc \in {"change", "changing"} PROVE LinesAreDrained'
      OBVIOUS
    <3>1. Sent(d) /\ LinesAreDrained
      BY <1>0, <1>8 DEF Transmit, CallsAreInOrder
    <3>2. busy \in [Clients -> 0..2] /\ busy[d] > 0
          /\ busy' = [busy EXCEPT ![d] = @ - 1]
      BY <1>0, <3>1 DEF Sent, ClockTypeOK
    <3>3. \A e \in Clients : busy'[e] > 0 => busy[e] > 0
      BY <3>2
    <3> QED
      BY <2>1, <3>1, <3>3 DEF LinesAreDrained
  <2>2. /\ Initialised' = Initialised /\ Claimed' = Claimed
        /\ Changing' = Changing
        /\ Members("pre")' = Members("pre")
        /\ Members("post")' = Members("post")
    BY <2>1 DEF Initialised, Claimed, Calling, Changing, Members
  <2> QED
    BY <1>0, <2>1, <2>2, <2>3, <2>4 DEF CallsAreInOrder
<1>9. CASE UNCHANGED clockVars
  <2>1. UNCHANGED <<clockScript, cpc, cursor, dev, scan, divisor, next, busy>>
    BY <1>9 DEF clockVars, lists
  <2>2. /\ Initialised' = Initialised /\ Claimed' = Claimed
        /\ Changing' = Changing
        /\ Members("pre")' = Members("pre")
        /\ Members("post")' = Members("post")
    BY <2>1 DEF Initialised, Claimed, Calling, Changing, Members
  <2> QED
    BY <1>0, <2>1, <2>2 DEF CallsAreInOrder, LinesAreDrained
<1> QED
  BY <1>1, <1>2, <1>3, <1>4, <1>5, <1>6, <1>7, <1>8, <1>9
     DEF ClockNext, ClockStep

-----------------------------------------------------------------------------
(* The theorems.                                                            *)

LEMMA ClockInvariant == ScriptsAreLegal /\ ClockSpec => []ClockInv
<1>1. ScriptsAreLegal /\ ClockInit => ClockInv
  BY ClockStart
<1>2. ClockInv /\ [ClockNext]_clockVars => ClockInv'
  BY ClockTypesKept, PreKept, PostKept, FollowKept, OrderKept DEF ClockInv
<1> QED
  BY <1>1, <1>2, PTL DEF ClockSpec

\* While the program calls the drivers as they allow, the state of the lists,
\* of the walks over them and of the divisors keeps its types: no walk is ever
\* at a device that is not there.
THEOREM ClockTypes == ScriptsAreLegal /\ ClockSpec => []ClockTypeOK
<1>1. ClockInv => ClockTypeOK
  BY DEF ClockInv
<1> QED
  BY <1>1, ClockInvariant, PTL

\* Registering, walking and calling back keep each list one chain through every
\* initialised device, once (clock.h and the _clock_callback functions of the
\* drivers), for every program that calls set_baud_rate for no device that
\* would register a second time.
THEOREM ListsStayChains == ScriptsAreLegal /\ ClockSpec => []ListsAreChains
<1>1. ClockInv => ListsAreChains
  <2> SUFFICES ASSUME ClockInv, cpc = "idle", NEW l \in Lists
               PROVE  \E s \in Orders :
                        /\ \A n, m \in DOMAIN s : s[n] = s[m] => n = m
                        /\ {s[n] : n \in DOMAIN s} = Initialised
                        /\ Chain(l, s)
    BY DEF ListsAreChains
  <2>1. Members(l) = Initialised
    BY DEF Members
  <2>2. PICK s : IsList(head[l], next[l], s, Initialised)
    BY <2>1 DEF ClockInv, PreIsList, PostIsList, Lists
  <2>3. s \in Orders
    BY <2>2, ListIsOrder
  <2>4. /\ DOMAIN s = 1 .. Len(s) /\ Len(s) \in Nat
        /\ s = << >> <=> Len(s) = 0
    BY <2>2, LenProperties, EmptySeq DEF IsList
  <2>5. Chain(l, s)
    BY <2>2, <2>4 DEF Chain, IsList
  <2>6. /\ \A n, m \in DOMAIN s : s[n] = s[m] => n = m
        /\ {s[n] : n \in DOMAIN s} = Initialised
    BY <2>2, <2>4 DEF IsList
  <2> QED
    BY <2>3, <2>5, <2>6
<1> QED
  BY <1>1, ClockInvariant, PTL

\* Between calls the divisor of every initialised device was computed for the
\* rate the clock has now: the walk over the post callbacks leaves nobody out.
THEOREM DivisorsFollow == ScriptsAreLegal /\ ClockSpec => []DivisorsFollowRate
<1>1. ClockInv => DivisorsFollowRate
  BY DEF ClockInv, AllFollow, Followers, DivisorsFollowRate
<1> QED
  BY <1>1, ClockInvariant, PTL

\* The rate changes only while no initialised device has a byte on its line:
\* the pre callbacks have waited for them all, long enough because every
\* divisor follows the rate that is left, and none has started another. The
\* one exception is a UART above 214 MHz, whose wait overflows.
THEOREM RateChangesWhenDrained ==
  ScriptsAreLegal /\ ClockSpec => ChangedWhenDrained
<1>1. ClockInv /\ [ClockNext]_clockVars =>
        [clockRate' # clockRate => LinesAreDrained]_clockVars
  <2> SUFFICES ASSUME ClockInv, ClockNext, clockRate' # clockRate
               PROVE  LinesAreDrained
    OBVIOUS
  <2>1. BeginChange \/ Change
    BY DEF ClockNext, ClockStep, CallInit, CallSetBaud, CallSetRate, Take,
         Drain,
           Drained, Notify, Notified, Register, Scan, Program, Transmit, Sent
  <2> QED
    BY <2>1 DEF BeginChange, Change, ClockInv, CallsAreInOrder
<1> QED
  BY <1>1, ClockInvariant, PTL DEF ClockSpec, ChangedWhenDrained

-----------------------------------------------------------------------------
(* The PLL and its clients together: ClockTree.                             *)

\* The PLL's driver runs inside the change of a rate, and what the clients
\* read is what the registers make.
TreeInv == /\ clockRate = Rate
           /\ pc # "idle" <=> cpc = "changing"

\* A step of the tree is a step of either part, or none.
LEMMA TreeStepParts ==
  ASSUME [TreeNext]_treeVars
  PROVE  [Next]_vars /\ [ClockNext]_clockVars
<1>1. CASE TakeOff
  BY <1>1 DEF TakeOff, Next, Driver, ClockNext, ClockStep
<1>2. CASE Configure
  BY <1>2 DEF Configure, Next, Driver
<1>3. CASE PutOn
  BY <1>3 DEF PutOn, Next, Driver, ClockNext, ClockStep
<1>4. CASE Client
  BY <1>4 DEF Client, ClockNext, ClockStep
<1>5. CASE Around
  BY <1>5 DEF Around, Next, ClockNext
<1>6. CASE UNCHANGED treeVars
  BY <1>6 DEF treeVars
<1> QED
  BY <1>1, <1>2, <1>3, <1>4, <1>5, <1>6 DEF TreeNext, Processor

\* The tree implements the driver of the PLL and the callbacks of the clock.
THEOREM TreeImplementsParts == TreeSpec => Spec /\ ClockSpec
<1>1. TreeInit => Init /\ ClockInit
  BY DEF TreeInit
<1> QED
  BY <1>1, TreeStepParts, PTL DEF TreeSpec, Spec, ClockSpec

\* The rate depends on nothing but the registers.
LEMMA RateStays == UNCHANGED <<sel, settings>> => Rate' = Rate
  BY DEF settings, Rate, pll_get_rate_hz, ReferenceRate

LEMMA TreeStep ==
  ASSUME TreeInv, LockedInv, [TreeNext]_treeVars
  PROVE  TreeInv'
<1>0. clockRate = Rate /\ (pc # "idle" <=> cpc = "changing")
  BY DEF TreeInv
<1>1. CASE TakeOff
  <2>1. pc' # "idle" /\ cpc' = "changing" /\ clockRate' = Rate'
    BY <1>1 DEF TakeOff, SetRate, InitPll, BeginChange
  <2> QED
    BY <2>1 DEF TreeInv
<1>2. CASE Configure
  <2>1. pc # "idle" /\ pc' # "idle" /\ sel' = sel
    BY <1>2 DEF Configure, SelectCrystal, Bypass, Divide, LeaveBypass, Stamp,
                Settle, SeeLock
  <2>2. Rate = RingRate /\ Rate' = RingRate
    BY <2>1 DEF LockedInv, OffDuringCall, Rate
  <2>3. UNCHANGED <<clockRate, cpc>>
    BY <1>2 DEF Configure, clockVars
  <2> QED
    BY <1>0, <2>1, <2>2, <2>3 DEF TreeInv
<1>3. CASE PutOn
  <2>1. pc' = "idle" /\ cpc' = "notify" /\ clockRate' = Rate'
    BY <1>3 DEF PutOn, Select, Change
  <2> QED
    BY <2>1 DEF TreeInv
<1>4. CASE Client
  <2>1. cpc # "changing" /\ cpc' # "changing" /\ clockRate' = clockRate
    BY <1>4 DEF Client, CallInit, CallSetBaud, CallSetRate, Take, SetBaudEntry,
         Drain, Drained, Notify, Notified, Register, AppendCallback, Following,
         Scan, Program, AfterProgram, Lists
  <2>2. pc' = pc /\ Rate' = Rate
    BY <1>4, RateStays DEF Client, vars
  <2> QED
    BY <1>0, <2>1, <2>2 DEF TreeInv
<1>5. CASE Around
  <2>1. UNCHANGED <<clockRate, cpc, pc, sel, settings>>
    BY <1>5 DEF Around, Tick, Lock, Transmit, Sent, clockVars, vars
  <2> QED
    BY <1>0, <2>1, RateStays DEF TreeInv
<1>6. CASE UNCHANGED treeVars
  <2>1. UNCHANGED <<clockRate, cpc, pc, sel, settings>>
    BY <1>6 DEF treeVars, clockVars, vars
  <2> QED
    BY <1>0, <2>1, RateStays DEF TreeInv
<1> QED
  BY <1>1, <1>2, <1>3, <1>4, <1>5, <1>6 DEF TreeNext, Processor

LEMMA TreeInvHolds == TreeSpec => []TreeInv
<1>1. TreeInit => TreeInv
  BY DEF TreeInit, Init, ClockInit, TreeInv
<1>2. TreeSpec => []LockedInv
  BY TreeImplementsParts, LockedInvHolds, PTL
<1> QED
  BY <1>1, <1>2, TreeStep, PTL DEF TreeSpec

\* Whatever the program changes and whenever it initialises a device: between
\* calls every divisor was computed for the rate that the registers of the PLL
\* make (sifive_fe310-g000_pll.c) at the same moment.
THEOREM DivisorsFollowRegisters ==
  ScriptsAreLegal /\ TreeSpec => []DivisorsFollowPll
<1>1. TreeInv /\ DivisorsFollowRate => DivisorsFollowPll
  BY DEF TreeInv, DivisorsFollowRate, DivisorsFollowPll
<1> QED
  BY <1>1, TreeInvHolds, TreeImplementsParts, DivisorsFollow, PTL

\* From its first register to its last the driver of the PLL works while no
\* initialised device has a byte on its line (a UART above 214 MHz excepted).
THEOREM PllIsDrained == ScriptsAreLegal /\ TreeSpec => PllChangesWhenDrained
<1>1. ASSUME TreeInv, ClockInv, [TreeNext]_treeVars
      PROVE  [<<settings, sel>>' # <<settings, sel>> => LinesAreDrained]_treeVars
  <2> SUFFICES ASSUME TreeNext, <<settings, sel>>' # <<settings, sel>>
               PROVE  LinesAreDrained
    BY <1>1
  <2>1. TakeOff \/ Configure \/ PutOn
    BY DEF TreeNext, Processor, Client, Around, Tick, Lock, vars
  <2>2. cpc \in {"change", "changing"}
    <3>1. CASE TakeOff
      BY <3>1 DEF TakeOff, BeginChange
    <3>2. CASE Configure \/ PutOn
      <4>1. pc # "idle"
        BY <3>2 DEF Configure, PutOn, SelectCrystal, Bypass, Divide,
             LeaveBypass, Stamp, Settle, SeeLock, Select
      <4> QED
        BY <1>1, <4>1 DEF TreeInv
    <3> QED
      BY <2>1, <3>1, <3>2
  <2> QED
    BY <1>1, <2>2 DEF ClockInv, CallsAreInOrder
<1> QED
  BY <1>1, TreeInvHolds, TreeImplementsParts, ClockInvariant, PTL
     DEF TreeSpec, PllChangesWhenDrained

-----------------------------------------------------------------------------
(* The pins: PinMux.                                                       *)

\* A pin is given to a peripheral, or to its second function, by hand or for
\* a device that had it.
RoutedByUsers ==
  /\ \A p \in iof_sel : \/ p \in Hands
                        \/ \E d \in everUsed \cap Devices : p \in SelectFor(d)
  /\ \A p \in iof_en : \/ p \in Hands
                       \/ \E d \in everUsed \cap Devices : p \in PinsFor(d)

\* A pin of the port is an output by hand, for the strip, or for an LED.
OutputsHaveUsers ==
  \A p \in output_en : \/ p \in Hands \cup PinsFor("strip")
                       \/ \E l \in everUsed \cap Leds : p \in PinsFor(l)

\* The port shows every LED as it was last switched, used or not.
PortShowsLamps ==
  "strip" \notin everUsed =>
     \A l \in Leds : Alone(l) => (LedPin(l) \in port <=> l \in lit)

\* The parts of Undisturbed, user by user.
DevicesHavePins ==
  \A d \in inUse \cap Devices : Alone(d) =>
    PinsFor(d) \subseteq iof_en /\ PinsFor(d) \cap iof_sel = SelectFor(d)

ButtonsHavePins ==
  "buttons" \in inUse /\ Alone("buttons") =>
    /\ PinsFor("buttons") \cap (iof_en \cup output_en) = {}
    /\ PinsFor("buttons") \subseteq input_en

StripHasItsPin ==
  "strip" \in inUse /\ Alone("strip") =>
    /\ PinsFor("strip") \cap iof_en = {}
    /\ PinsFor("strip") \subseteq output_en

LampsHavePins ==
  \A l \in inUse \cap Leds : Alone(l) =>
    LedPin(l) \notin iof_en /\ LedPin(l) \in output_en \ input_en

HandsHavePins ==
  \A p \in Hands :
    (\A d \in everUsed : d # "strip" /\ p \notin PinsFor(d)) =>
      /\ told[p] \subseteq {"input", "output", "high"}
      /\ "input" \in told[p] <=> p \in input_en
      /\ "output" \in told[p] <=> p \in output_en
      /\ "high" \in told[p] <=> p \in port

PinInv == /\ PinTypeOK /\ RoutedByUsers /\ OutputsHaveUsers
          /\ PortShowsLamps
          /\ DevicesHavePins /\ ButtonsHavePins /\ StripHasItsPin
          /\ LampsHavePins /\ HandsHavePins

\* Kinds of users.
LEMMA Kinds ==
  /\ Devices \cap (Leds \cup {"buttons", "strip"}) = {}
  /\ Leds \cap {"buttons", "strip"} = {} /\ Lamps \subseteq Leds
  /\ "buttons" # "strip"
  BY PinAssumption DEF Leds, Pwms, Spis, Uarts, I2cs

\* What the tables say of the pins.
LEMMA PortPins ==
  /\ PinsFor("buttons") = {0, 11} /\ PinsFor("strip") = {22}
  /\ \A l \in Leds : PinsFor(l) = {LedPin(l)} /\ LedPin(l) \in 1 .. 22
       /\ LedPin(l) # 11
  /\ \A l, m \in Leds : LedPin(l) = LedPin(m) => l = m
<1>1. PinsFor("buttons") = {0, 11} /\ PinsFor("strip") = {22}
  BY DEF PinsFor, Leds, Pwms, Spis, Uarts, I2cs
<1>2. \A l \in Leds : PinsFor(l) = {LedPin(l)}
  BY DEF PinsFor, Leds, Pwms, Spis, Uarts, I2cs
<1>3. \A l \in Leds : LedPin(l) \in 1 .. 22 /\ LedPin(l) # 11
  BY DEF LedPin, Leds
<1>4. \A l, m \in Leds : LedPin(l) = LedPin(m) => l = m
  BY DEF LedPin, Leds
<1> QED
  BY <1>1, <1>2, <1>3, <1>4

LEMMA DevicePins ==
  \A d \in Devices : SelectFor(d) \subseteq PinsFor(d)
    /\ PinsFor(d) \subseteq GpioPins
<1> SUFFICES ASSUME NEW d \in Devices
             PROVE  SelectFor(d) \subseteq PinsFor(d)
                      /\ PinsFor(d) \subseteq GpioPins
  OBVIOUS
<1>1. CASE d \in Pwms
  <2>1. PinsFor(d) = PwmPins(d) /\ SelectFor(d) = PwmSelect(d)
    BY <1>1 DEF PinsFor, SelectFor, Pwms, Spis, Uarts, I2cs, Leds
  <2> QED
    BY <1>1, <2>1 DEF Pwms, PwmPins, PwmSelect, GpioPins
<1>2. CASE d \in Spis
  <2>1. PinsFor(d) = SpiPins(d) /\ SelectFor(d) = SpiSelect(d)
    BY <1>2 DEF PinsFor, SelectFor, Pwms, Spis, Uarts, I2cs, Leds
  <2> QED
    BY <1>2, <2>1 DEF Spis, SpiPins, SpiSelect, GpioPins
<1>3. CASE d \in Uarts
  <2>1. PinsFor(d) = UartPins(d) /\ SelectFor(d) = UartSelect(d)
    BY <1>3 DEF PinsFor, SelectFor, Pwms, Spis, Uarts, I2cs, Leds
  <2> QED
    BY <1>3, <2>1 DEF Uarts, UartPins, UartSelect, GpioPins
<1>4. CASE d \in I2cs
  <2>1. PinsFor(d) = I2cPins(d) /\ SelectFor(d) = I2cSelect(d)
    BY <1>4 DEF PinsFor, SelectFor, Pwms, Spis, Uarts, I2cs, Leds
  <2> QED
    BY <1>4, <2>1 DEF I2cs, I2cPins, I2cSelect, GpioPins
<1> QED
  BY <1>1, <1>2, <1>3, <1>4, PinAssumption

LEMMA PinParts == PinInv => Undisturbed
<1> SUFFICES ASSUME PinInv PROVE Undisturbed
  OBVIOUS
<1>1. ASSUME NEW d \in inUse, Alone(d) PROVE AsSetUp(d)
  <2>1. CASE d \in Devices
    BY <1>1, <2>1, Kinds DEF PinInv, DevicesHavePins, AsSetUp
  <2>2. CASE d = "buttons"
    BY <1>1, <2>2, Kinds DEF PinInv, ButtonsHavePins, AsSetUp
  <2>3. CASE d = "strip"
    BY <1>1, <2>3, Kinds DEF PinInv, StripHasItsPin, AsSetUp
  <2>4. CASE d \in Leds
    BY <1>1, <2>4, Kinds DEF PinInv, LampsHavePins, PortShowsLamps, AsSetUp
  <2> QED
    BY <2>1, <2>2, <2>3, <2>4, Kinds DEF PinInv, PinTypeOK
<1>2. ASSUME NEW p \in Hands,
             \A d \in everUsed : d # "strip" /\ p \notin PinsFor(d)
      PROVE told[p] = {w \in {"input", "output", "high"} :
                      CASE w = "input" -> p \in input_en
                        [] w = "output" -> p \in output_en
                        [] w = "high" -> OutputPin(p)}
  BY <1>2 DEF PinInv, HandsHavePins, OutputPin
<1> QED
  BY <1>1, <1>2 DEF Undisturbed

LEMMA PinStart == PinInit => PinInv
<1> SUFFICES ASSUME PinInit PROVE PinInv
  OBVIOUS
<1>1. PinTypeOK
  BY DEF PinInit, PinTypeOK, GpioPins
<1>2. RoutedByUsers /\ OutputsHaveUsers /\ PortShowsLamps
  BY DEF PinInit, RoutedByUsers, OutputsHaveUsers, PortShowsLamps
<1>3. /\ DevicesHavePins /\ ButtonsHavePins /\ StripHasItsPin
      /\ LampsHavePins /\ HandsHavePins
  BY DEF PinInit, DevicesHavePins, ButtonsHavePins, StripHasItsPin,
         LampsHavePins, HandsHavePins
<1> QED
  BY <1>1, <1>2, <1>3 DEF PinInv

LEMMA PinTypesKept == PinTypeOK /\ [PinNext]_pinVars => PinTypeOK'
<1> SUFFICES ASSUME PinTypeOK, [PinNext]_pinVars PROVE PinTypeOK'
  OBVIOUS
<1> USE DEF PinTypeOK, Claims, Io, Port, Users
<1>p. /\ Hands \subseteq GpioPins /\ \A l \in Leds : LedPin(l) \in GpioPins
      /\ {0, 11, 22} \subseteq GpioPins
  BY PinAssumption, PortPins DEF GpioPins
<1>1. ASSUME NEW d \in Devices, ClaimPins(d) PROVE PinTypeOK'
  BY <1>1, DevicePins DEF ClaimPins, EnableIo
<1>2. ASSUME NEW d \in Devices, PwmReleasePins(d) PROVE PinTypeOK'
  BY <1>2 DEF PwmReleasePins, DisableIo
<1>3. ASSUME NEW p \in Hands, NEW f \in {0, 1}, DisablePinmux(p)
               \/ EnablePinmux(p, f)
      PROVE  PinTypeOK'
  BY <1>3, <1>p DEF DisablePinmux, EnablePinmux, DisableIo, EnableIo
<1>4. ASSUME NEW p \in Hands, NEW on \in BOOLEAN,
             TogglePin(p) \/ SetInput(p, on) \/ SetOutput(p, on)
               \/ SetPin(p, on)
      PROVE  PinTypeOK'
  <2>1. told' \in [Hands -> SUBSET {"input", "output", "high"}]
    <3>1. \A w \in {"input", "output", "high"}, b \in BOOLEAN : Tell(p, w,
            b) => told' \in [Hands -> SUBSET {"input", "output", "high"}]
      BY DEF Tell
    <3> QED
      BY <1>4, <3>1 DEF TogglePin, SetInput, SetOutput, SetPin
  <2>2. iof_sel' \cup iof_en' \cup input_en' \cup output_en' \cup port' \subseteq GpioPins
    BY <1>4, <1>p DEF TogglePin, SetInput, SetOutput, SetPin,
      EnableInput, DisableInput, EnableOutput, DisableOutput, OutputSet,
        OutputClear, OutputToggle
  <2> QED
    BY <1>4, <2>1, <2>2 DEF TogglePin, SetInput, SetOutput, SetPin
<1>5. ASSUME NEW l \in Lamps, LedEnable(l) PROVE PinTypeOK'
  BY <1>5, <1>p, Kinds DEF LedEnable, DisableInput, EnableOutput
<1>6. ASSUME NEW l \in Lamps, LedOn(l) \/ LedOff(l) \/ LedToggle(l)
      PROVE  PinTypeOK'
  BY <1>6, <1>p, Kinds
     DEF LedOn, LedOff, LedToggle, OutputSet, OutputClear, OutputToggle
<1>7. CASE InitButtons
  BY <1>7, <1>p, PortPins DEF InitButtons, DisableOutput, EnableInput
<1>8. CASE GpioDirectInit
  BY <1>8, <1>p, PortPins DEF GpioDirectInit, EnableOutput
<1>9. CASE SendBit
  BY <1>9, <1>p, PortPins DEF SendBit
<1>10. CASE UNCHANGED pinVars
  BY <1>10 DEF pinVars
<1> QED
  BY <1>1, <1>2, <1>3, <1>4, <1>5, <1>6, <1>7, <1>8, <1>9, <1>10 DEF PinNext

\* A step other than of a device, of a pin by hand, or of the port's users.
LEMMA UsersStay ==
  [PinNext]_pinVars =>
    /\ everUsed \subseteq everUsed'
    /\ \A d : Alone(d)' => Alone(d)
<1> SUFFICES ASSUME [PinNext]_pinVars PROVE everUsed \subseteq everUsed'
  BY DEF Alone, Clash
<1> QED
  BY DEF PinNext, pinVars, ClaimPins, PwmReleasePins, DisablePinmux,
         EnablePinmux, TogglePin, SetInput, SetOutput, SetPin, LedEnable,
           LedOn,
         LedOff, LedToggle, InitButtons, GpioDirectInit, SendBit, Claims, Users

\* Which steps route pins, and which of them are made by hand.
LEMMA RoutingSteps ==
  PinTypeOK /\ [PinNext]_pinVars =>
    \/ \E d \in Devices : ClaimPins(d)
    \/ \E d \in Devices \cap Pwms : PwmReleasePins(d)
    \/ \E p \in Hands : DisablePinmux(p)
         \/ \E f \in {0, 1} : EnablePinmux(p, f)
    \/ /\ UNCHANGED Io
       /\ inUse' = inUse
            \/ \E u \in Leds \cup {"buttons",
                 "strip"} : inUse' = inUse \cup {u}
  BY Kinds
     DEF PinNext, pinVars, TogglePin, SetInput, SetOutput, SetPin, LedEnable,
         LedOn, LedOff, LedToggle, InitButtons, GpioDirectInit, SendBit,
         Claims, Io, Users

LEMMA RoutedKept == PinInv /\ [PinNext]_pinVars => RoutedByUsers'
<1> SUFFICES ASSUME PinInv, [PinNext]_pinVars PROVE RoutedByUsers'
  OBVIOUS
<1> USE DEF RoutedByUsers
<1>u. RoutedByUsers /\ everUsed \subseteq everUsed' /\ PinTypeOK
  BY UsersStay DEF PinInv
<1>1. ASSUME NEW d \in Devices, ClaimPins(d) PROVE RoutedByUsers'
  BY <1>1, <1>u DEF ClaimPins, EnableIo, Claims
<1>2. ASSUME NEW d \in Devices, PwmReleasePins(d) PROVE RoutedByUsers'
  BY <1>2, <1>u DEF PwmReleasePins, DisableIo
<1>3. ASSUME NEW p \in Hands, NEW f \in {0, 1}, DisablePinmux(p)
               \/ EnablePinmux(p, f)
      PROVE  RoutedByUsers'
  BY <1>3, <1>u DEF DisablePinmux, EnablePinmux, DisableIo, EnableIo
<1>4. CASE UNCHANGED Io
  BY <1>4, <1>u DEF Io
<1> QED
  BY <1>1, <1>2, <1>3, <1>4, <1>u, RoutingSteps

LEMMA DevicesKept == PinInv /\ [PinNext]_pinVars => DevicesHavePins'
<1> SUFFICES ASSUME PinInv, [PinNext]_pinVars, NEW d \in inUse' \cap Devices,
                      Alone(d)'
             PROVE /\ PinsFor(d) \subseteq iof_en'
                   /\ PinsFor(d) \cap iof_sel' = SelectFor(d)
  BY DEF DevicesHavePins
<1>u. /\ RoutedByUsers /\ PinTypeOK /\ Alone(d)
      /\ \A c \in everUsed' : c # d => PinsFor(c) \cap PinsFor(d) = {}
      /\ PinsFor(d) \cap Hands = {} /\ everUsed \subseteq everUsed'
      /\ inUse \subseteq everUsed
  BY UsersStay DEF PinInv, PinTypeOK, Alone, Clash
<1>v. d \in inUse
        => PinsFor(d) \subseteq iof_en
          /\ PinsFor(d) \cap iof_sel = SelectFor(d)
  BY <1>u DEF PinInv, DevicesHavePins
<1>1. ASSUME NEW c \in Devices, ClaimPins(c)
      PROVE  /\ PinsFor(d) \subseteq iof_en'
             /\ PinsFor(d) \cap iof_sel' = SelectFor(d)
  <2>1. /\ iof_sel' = iof_sel \cup SelectFor(c)
        /\ iof_en' = iof_en \cup PinsFor(c)
        /\ inUse' = inUse \cup {c} /\ c \in everUsed'
    BY <1>1 DEF ClaimPins, EnableIo, Claims
  <2>2. PinsFor(d) \cap iof_sel \subseteq SelectFor(d)
    BY <1>u, DevicePins DEF RoutedByUsers
  <2>3. CASE c = d
    BY <2>1, <2>2, <2>3, DevicePins
  <2>4. CASE c # d
    BY <2>1, <2>4, <1>u, <1>v, DevicePins
  <2> QED
    BY <2>3, <2>4
<1>2. ASSUME NEW c \in Devices, PwmReleasePins(c)
      PROVE  /\ PinsFor(d) \subseteq iof_en'
             /\ PinsFor(d) \cap iof_sel' = SelectFor(d)
  <2>1. /\ iof_sel' = iof_sel /\ iof_en' = iof_en \ PinsFor(c)
        /\ inUse' = inUse \ {c} /\ c \in everUsed'
    BY <1>2, <1>u DEF PwmReleasePins, DisableIo, Claims
  <2> QED
    BY <2>1, <1>u, <1>v
<1>3. ASSUME NEW p \in Hands, NEW f \in {0, 1}, DisablePinmux(p)
               \/ EnablePinmux(p, f)
      PROVE  /\ PinsFor(d) \subseteq iof_en'
             /\ PinsFor(d) \cap iof_sel' = SelectFor(d)
  <2>1. /\ iof_sel' = iof_sel \/ iof_sel' = iof_sel \cup {p}
        /\ iof_en \ {p} \subseteq iof_en' /\ inUse' = inUse
    BY <1>3 DEF DisablePinmux, EnablePinmux, DisableIo, EnableIo, Users
  <2>2. p \notin PinsFor(d)
    BY <1>u
  <2>3. d \in inUse
    BY <2>1
  <2> QED
    BY <2>1, <2>2, <2>3, <1>v
<1>4. CASE /\ UNCHANGED Io
           /\ inUse' = inUse
                \/ \E u \in Leds \cup {"buttons",
                     "strip"} : inUse' = inUse \cup {u}
  <2>1. d \in inUse
    BY <1>4, Kinds
  <2> QED
    BY <1>4, <1>v, <2>1 DEF Io
<1> QED
  BY <1>1, <1>2, <1>3, <1>4, <1>u, RoutingSteps

LEMMA OutputsKept == PinInv /\ [PinNext]_pinVars => OutputsHaveUsers'
<1> SUFFICES ASSUME PinInv, [PinNext]_pinVars PROVE OutputsHaveUsers'
  OBVIOUS
<1> USE DEF OutputsHaveUsers
<1>u. OutputsHaveUsers /\ everUsed \subseteq everUsed'
  BY UsersStay DEF PinInv
<1>1. ASSUME output_en' \subseteq output_en PROVE OutputsHaveUsers'
  BY <1>1, <1>u
<1>2. ASSUME NEW p \in Hands, output_en' \subseteq output_en \cup {p}
      PROVE  OutputsHaveUsers'
  BY <1>2, <1>u
<1>3. ASSUME NEW d \in Devices, ClaimPins(d) \/ PwmReleasePins(d)
      PROVE  OutputsHaveUsers'
  BY <1>1, <1>3 DEF ClaimPins, PwmReleasePins, Port
<1>4. ASSUME NEW p \in Hands, NEW f \in {0, 1}, NEW on \in BOOLEAN,
             \/ DisablePinmux(p) \/ EnablePinmux(p, f)
             \/ TogglePin(p) \/ SetInput(p, on) \/ SetOutput(p, on)
                  \/ SetPin(p, on)
      PROVE  OutputsHaveUsers'
  <2>1. output_en' \subseteq output_en \cup {p}
    BY <1>4
       DEF DisablePinmux, EnablePinmux, TogglePin, SetInput, SetOutput, SetPin,
          Port, EnableOutput, DisableOutput
  <2> QED
    BY <2>1, <1>2
<1>5. ASSUME NEW l \in Lamps, LedEnable(l) PROVE OutputsHaveUsers'
  <2>1. output_en' = output_en \cup PinsFor(l) /\ l \in everUsed' \cap Leds
    BY <1>5, PortPins, Kinds DEF LedEnable, EnableOutput, Claims
  <2> QED
    BY <2>1, <1>u
<1>6. ASSUME NEW l \in Lamps, LedOn(l) \/ LedOff(l) \/ LedToggle(l)
      PROVE  OutputsHaveUsers'
  BY <1>1, <1>6 DEF LedOn, LedOff, LedToggle
<1>7. CASE InitButtons \/ SendBit
  BY <1>1, <1>7 DEF InitButtons, DisableOutput, SendBit
<1>8. CASE GpioDirectInit
  BY <1>8, <1>u DEF GpioDirectInit, EnableOutput
<1>9. CASE UNCHANGED pinVars
  BY <1>1, <1>9 DEF pinVars
<1> QED
  BY <1>3, <1>4, <1>5, <1>6, <1>7, <1>8, <1>9 DEF PinNext

\* A user that is alone has its pin to itself.
LEMMA OwnPin ==
  ASSUME NEW l, Alone(l)
  PROVE  /\ \A c \in everUsed : c # l => PinsFor(c) \cap PinsFor(l) = {}
         /\ \A p \in Hands : p \notin PinsFor(l)
  BY DEF Alone, Clash

LEMMA ShownKept == PinInv /\ [PinNext]_pinVars => PortShowsLamps'
<1> SUFFICES ASSUME PinInv, [PinNext]_pinVars, "strip" \notin everUsed',
                    NEW l \in Leds, Alone(l)'
             PROVE (LedPin(l) \in port <=> l \in lit)'
  BY DEF PortShowsLamps
<1>u. /\ LedPin(l) \in port <=> l \in lit
      /\ \A m \in Leds : LedPin(m) = LedPin(l) => m = l
      /\ \A p \in Hands : p # LedPin(l)
  BY UsersStay, OwnPin, PortPins DEF PinInv, PortShowsLamps
<1>1. CASE UNCHANGED <<port, lit>>
  BY <1>1, <1>u
<1>2. ASSUME NEW d \in Devices, ClaimPins(d) \/ PwmReleasePins(d)
      PROVE UNCHANGED <<port, lit>>
  BY <1>2 DEF ClaimPins, PwmReleasePins, Port
<1>3. ASSUME NEW p \in Hands, NEW f \in {0, 1}, NEW on \in BOOLEAN,
             DisablePinmux(p) \/ EnablePinmux(p, f) \/ SetInput(p, on)
               \/ SetOutput(p, on)
      PROVE UNCHANGED <<port, lit>>
  BY <1>3 DEF DisablePinmux, EnablePinmux, SetInput, SetOutput, Port
<1>4. ASSUME NEW p \in Hands, NEW on \in BOOLEAN, TogglePin(p) \/ SetPin(p, on)
      PROVE (LedPin(l) \in port <=> l \in lit)'
  BY <1>4, <1>u DEF TogglePin, SetPin, OutputSet, OutputClear, OutputToggle
<1>5. ASSUME NEW m \in Lamps, LedOn(m) \/ LedOff(m) \/ LedToggle(m)
      PROVE (LedPin(l) \in port <=> l \in lit)'
  BY <1>5, <1>u, Kinds
     DEF LedOn, LedOff, LedToggle, OutputSet, OutputClear, OutputToggle
<1>6. ASSUME NEW m \in Lamps, LedEnable(m) PROVE UNCHANGED <<port, lit>>
  BY <1>6 DEF LedEnable
<1>7. CASE InitButtons \/ GpioDirectInit \/ UNCHANGED pinVars
  BY <1>1, <1>7 DEF InitButtons, GpioDirectInit, pinVars
<1>8. CASE SendBit
  BY <1>8 DEF SendBit, Claims
<1> QED
  BY <1>1, <1>2, <1>3, <1>4, <1>5, <1>6, <1>7, <1>8 DEF PinNext

LEMMA ButtonsKept == PinInv /\ [PinNext]_pinVars => ButtonsHavePins'
<1> SUFFICES ASSUME PinInv, [PinNext]_pinVars, "buttons" \in inUse',
                      Alone("buttons")'
             PROVE /\ PinsFor("buttons") \cap (iof_en' \cup output_en') = {}
                   /\ PinsFor("buttons") \subseteq input_en'
  BY DEF ButtonsHavePins
<1> DEFINE B == PinsFor("buttons")
<1>u. /\ (\A c \in everUsed : c # "buttons" => PinsFor(c) \cap B = {})'
      /\ \A p \in Hands : p \notin B
      /\ everUsed \subseteq everUsed' /\ inUse \subseteq everUsed
      /\ Alone("buttons")
      /\ \A l \in Leds : LedPin(l) \notin B
      /\ PinsFor("strip") \cap B = {}
      /\ (RoutedByUsers /\ OutputsHaveUsers)'
  BY UsersStay, PortPins, RoutedKept, OutputsKept
     DEF PinInv, PinTypeOK, Alone, Clash
<1>v. B \cap (iof_en' \cup output_en') = {}
  BY <1>u, Kinds, PortPins DEF RoutedByUsers, OutputsHaveUsers
<1>w. "buttons" \in inUse => B \subseteq input_en
  BY <1>u DEF PinInv, ButtonsHavePins
<1>1. CASE "buttons" \in inUse /\ input_en \subseteq input_en'
  BY <1>1, <1>w, <1>v
<1>2. ASSUME NEW d \in Devices, ClaimPins(d) \/ PwmReleasePins(d)
      PROVE "buttons" \in inUse /\ input_en' = input_en
  BY <1>2, Kinds DEF ClaimPins, PwmReleasePins, Port, Claims
<1>3. ASSUME NEW p \in Hands, NEW f \in {0, 1}, NEW on \in BOOLEAN,
             \/ DisablePinmux(p) \/ EnablePinmux(p, f)
             \/ TogglePin(p) \/ SetInput(p, on) \/ SetOutput(p, on)
                  \/ SetPin(p, on)
      PROVE  B \subseteq input_en'
  <2>1. input_en \ {p} \subseteq input_en' /\ inUse' = inUse
    BY <1>3
       DEF DisablePinmux, EnablePinmux, TogglePin, SetInput, SetOutput, SetPin,
                Port, Users, EnableInput, DisableInput
  <2> QED
    BY <2>1, <1>u, <1>w
<1>4. ASSUME NEW m \in Lamps, LedEnable(m) \/ LedOn(m) \/ LedOff(m)
               \/ LedToggle(m)
      PROVE B \subseteq input_en'
  <2>1. input_en \ {LedPin(m)} \subseteq input_en' /\ "buttons" \in inUse
    BY <1>4, Kinds
       DEF LedEnable, LedOn, LedOff, LedToggle, Users, DisableInput, Claims
  <2> QED
    BY <2>1, <1>u, <1>w, Kinds
<1>5. CASE InitButtons
  BY <1>5, <1>v DEF InitButtons, EnableInput
<1>6. CASE GpioDirectInit \/ SendBit \/ UNCHANGED pinVars
  BY <1>1, <1>6, Kinds DEF GpioDirectInit, SendBit, pinVars, Users, Claims
<1> QED
  BY <1>1, <1>2, <1>3, <1>4, <1>5, <1>6, <1>v DEF PinNext

LEMMA StripKept == PinInv /\ [PinNext]_pinVars => StripHasItsPin'
<1> SUFFICES ASSUME PinInv, [PinNext]_pinVars, "strip" \in inUse',
                      Alone("strip")'
             PROVE /\ PinsFor("strip") \cap iof_en' = {}
                   /\ PinsFor("strip") \subseteq output_en'
  BY DEF StripHasItsPin
<1> DEFINE S == PinsFor("strip")
<1>u. /\ (\A c \in everUsed : c # "strip" => PinsFor(c) \cap S = {})'
      /\ \A p \in Hands : p \notin S
      /\ Alone("strip") /\ PinsFor("buttons") \cap S = {}
      /\ RoutedByUsers'
  BY UsersStay, PortPins, RoutedKept DEF Alone, Clash
<1>v. S \cap iof_en' = {}
  BY <1>u, Kinds DEF RoutedByUsers
<1>w. "strip" \in inUse => S \subseteq output_en
  BY <1>u DEF PinInv, StripHasItsPin
<1>1. CASE "strip" \in inUse /\ output_en \subseteq output_en'
  BY <1>1, <1>w, <1>v
<1>2. ASSUME NEW d \in Devices, ClaimPins(d) \/ PwmReleasePins(d)
      PROVE "strip" \in inUse /\ output_en' = output_en
  BY <1>2, Kinds DEF ClaimPins, PwmReleasePins, Port, Claims
<1>3. ASSUME NEW p \in Hands, NEW f \in {0, 1}, NEW on \in BOOLEAN,
             \/ DisablePinmux(p) \/ EnablePinmux(p, f)
             \/ TogglePin(p) \/ SetInput(p, on) \/ SetOutput(p, on)
                  \/ SetPin(p, on)
      PROVE  S \subseteq output_en'
  <2>1. output_en \ {p} \subseteq output_en' /\ inUse' = inUse
    BY <1>3
       DEF DisablePinmux, EnablePinmux, TogglePin, SetInput, SetOutput, SetPin,
                Port, Users, EnableOutput, DisableOutput
  <2> QED
    BY <2>1, <1>u, <1>w
<1>4. ASSUME NEW m \in Lamps, LedEnable(m) \/ LedOn(m) \/ LedOff(m)
               \/ LedToggle(m)
      PROVE "strip" \in inUse /\ output_en \subseteq output_en'
  BY <1>4, Kinds
     DEF LedEnable, LedOn, LedOff, LedToggle, Users, EnableOutput, Claims
<1>5. CASE InitButtons
  <2>1. "strip" \in inUse
    BY <1>5, Kinds DEF InitButtons, Claims
  <2> QED
    BY <1>5, <2>1, <1>u, <1>w, <1>v DEF InitButtons, DisableOutput
<1>6. CASE SendBit
  BY <1>6, <1>v DEF SendBit
<1>7. CASE GpioDirectInit \/ UNCHANGED pinVars
  BY <1>1, <1>7 DEF GpioDirectInit, EnableOutput, pinVars, Users
<1> QED
  BY <1>1, <1>2, <1>3, <1>4, <1>5, <1>6, <1>7, <1>v DEF PinNext

LEMMA LampsKept == PinInv /\ [PinNext]_pinVars => LampsHavePins'
<1> SUFFICES ASSUME PinInv, [PinNext]_pinVars, NEW l \in inUse' \cap Leds,
                      Alone(l)'
             PROVE /\ LedPin(l) \notin iof_en'
                   /\ LedPin(l) \in output_en' \ input_en'
  BY DEF LampsHavePins
<1>u. /\ (\A c \in everUsed : c # l => PinsFor(c) \cap {LedPin(l)} = {})'
      /\ \A p \in Hands : p # LedPin(l)
      /\ Alone(l) /\ LedPin(l) \notin PinsFor("buttons")
      /\ RoutedByUsers'
  BY UsersStay, PortPins, RoutedKept DEF Alone, Clash
<1>v. LedPin(l) \notin iof_en'
  BY <1>u, Kinds DEF RoutedByUsers
<1>w. l \in inUse => LedPin(l) \in output_en \ input_en
  BY <1>u DEF PinInv, LampsHavePins
<1>1. CASE /\ l \in inUse
           /\ output_en \subseteq output_en' /\ input_en' \subseteq input_en
  BY <1>1, <1>w, <1>v
<1>2. ASSUME NEW d \in Devices, ClaimPins(d) \/ PwmReleasePins(d)
      PROVE l \in inUse /\ output_en' = output_en /\ input_en' = input_en
  BY <1>2, Kinds DEF ClaimPins, PwmReleasePins, Port, Claims
<1>3. ASSUME NEW p \in Hands, NEW f \in {0, 1}, NEW on \in BOOLEAN,
             \/ DisablePinmux(p) \/ EnablePinmux(p, f)
             \/ TogglePin(p) \/ SetInput(p, on) \/ SetOutput(p, on)
                  \/ SetPin(p, on)
      PROVE  LedPin(l) \in output_en' \ input_en'
  <2>1. /\ output_en \ {p} \subseteq output_en' /\ inUse' = inUse
        /\ input_en' \subseteq input_en \cup {p}
    BY <1>3
       DEF DisablePinmux, EnablePinmux, TogglePin, SetInput, SetOutput, SetPin,
          Port, Users, EnableOutput, DisableOutput, EnableInput, DisableInput
  <2> QED
    BY <2>1, <1>u, <1>w
<1>4. ASSUME NEW m \in Lamps, LedEnable(m) \/ LedOn(m) \/ LedOff(m)
               \/ LedToggle(m)
      PROVE LedPin(l) \in output_en' \ input_en'
  BY <1>4, <1>w, <1>v
     DEF LedEnable, LedOn, LedOff, LedToggle, Users, EnableOutput,
          DisableInput, Claims
<1>5. CASE InitButtons
  <2>1. l \in inUse
    BY <1>5, Kinds DEF InitButtons, Claims
  <2> QED
    BY <1>5, <2>1, <1>u, <1>w, <1>v DEF InitButtons, DisableOutput, EnableInput
<1>6. CASE GpioDirectInit \/ SendBit \/ UNCHANGED pinVars
  BY <1>1, <1>6, Kinds
     DEF GpioDirectInit, SendBit, EnableOutput, pinVars, Users, Claims
<1> QED
  BY <1>1, <1>2, <1>3, <1>4, <1>5, <1>6, <1>v DEF PinNext

LEMMA HandsKept ==
  StripIsItsOwn /\ PinInv /\ [PinNext]_pinVars => HandsHavePins'
<1> SUFFICES ASSUME StripIsItsOwn, PinInv, [PinNext]_pinVars, NEW p \in Hands,
                    \A d \in everUsed' : d # "strip" /\ p \notin PinsFor(d)
             PROVE (/\ told[p] \subseteq {"input", "output", "high"}
                    /\ "input" \in told[p] <=> p \in input_en
                    /\ "output" \in told[p] <=> p \in output_en
                    /\ "high" \in told[p] <=> p \in port)'
  BY DEF HandsHavePins
<1> DEFINE AsTold == /\ told[p] \subseteq {"input", "output", "high"}
                     /\ "input" \in told[p] <=> p \in input_en
                     /\ "output" \in told[p] <=> p \in output_en
                     /\ "high" \in told[p] <=> p \in port
<1>u. /\ AsTold /\ p \notin PinsFor("strip") /\ everUsed \subseteq everUsed'
      /\ inUse \subseteq everUsed
      /\ told \in [Hands -> SUBSET {"input", "output", "high"}]
  BY UsersStay DEF PinInv, PinTypeOK, HandsHavePins, StripIsItsOwn
<1>1. CASE UNCHANGED <<told, input_en, output_en, port>>
  BY <1>1, <1>u
<1>2. ASSUME NEW d \in Devices, ClaimPins(d) \/ PwmReleasePins(d)
      PROVE UNCHANGED <<told, input_en, output_en, port>>
  BY <1>2 DEF ClaimPins, PwmReleasePins, Port
<1>3. ASSUME NEW q \in Hands, NEW f \in {0, 1}, DisablePinmux(q)
               \/ EnablePinmux(q, f)
      PROVE UNCHANGED <<told, input_en, output_en, port>>
  BY <1>3 DEF DisablePinmux, EnablePinmux, Port
<1>4. ASSUME NEW q \in Hands, NEW on \in BOOLEAN, SetInput(q, on) PROVE AsTold'
  BY <1>4, <1>u DEF SetInput, Tell, EnableInput, DisableInput
<1>5. ASSUME NEW q \in Hands, NEW on \in BOOLEAN, SetOutput(q, on)
      PROVE  AsTold'
  BY <1>5, <1>u DEF SetOutput, Tell, EnableOutput, DisableOutput
<1>6. ASSUME NEW q \in Hands, NEW on \in BOOLEAN, SetPin(q, on) PROVE AsTold'
  BY <1>6, <1>u DEF SetPin, Tell, OutputSet, OutputClear
<1>7. ASSUME NEW q \in Hands, TogglePin(q) PROVE AsTold'
  BY <1>7, <1>u DEF TogglePin, Tell, OutputToggle
<1>8. ASSUME NEW m \in Lamps, LedEnable(m) \/ LedOn(m) \/ LedOff(m)
               \/ LedToggle(m)
      PROVE AsTold'
  <2>1. m \in everUsed'
    BY <1>8, <1>u DEF LedEnable, LedOn, LedOff, LedToggle, Claims
  <2>2. p # LedPin(m)
    BY <2>1, PortPins, Kinds
  <2> QED
    BY <1>8, <1>u, <2>2
       DEF LedEnable, LedOn, LedOff, LedToggle, EnableOutput, DisableInput,
           OutputSet, OutputClear, OutputToggle
<1>9. CASE InitButtons
  <2>1. p \notin PinsFor("buttons")
    BY <1>9 DEF InitButtons, Claims
  <2> QED
    BY <1>9, <2>1, <1>u DEF InitButtons, DisableOutput, EnableInput
<1>10. CASE GpioDirectInit
  BY <1>10, <1>u DEF GpioDirectInit, EnableOutput
<1>11. CASE SendBit
  BY <1>11 DEF SendBit, Claims
<1>12. CASE UNCHANGED pinVars
  BY <1>1, <1>12 DEF pinVars
<1> QED
  BY <1>1, <1>2, <1>3, <1>4, <1>5, <1>6, <1>7, <1>8, <1>9, <1>10, <1>11,
     <1>12 DEF PinNext

\* The variables keep their types.
THEOREM PinTypes == PinSpec => []PinTypeOK
<1>1. PinInit => PinTypeOK
  BY PinStart DEF PinInv
<1> QED
  BY <1>1, PinTypesKept, PTL DEF PinSpec

\* Whatever is initialised, released, lit or switched before or after, a user
\* none of whose pins another ever wanted finds them as it set them up
\* (sifive_gpio0.c and the drivers' init functions), if the pin of the strip is
\* driven by nobody else.
THEOREM PinsAreUndisturbed == StripIsItsOwn /\ PinSpec => []Undisturbed
<1>1. StripIsItsOwn /\ PinInv /\ [PinNext]_pinVars => PinInv'
  BY PinTypesKept, RoutedKept, OutputsKept, ShownKept, DevicesKept,
     ButtonsKept,
     StripKept, LampsKept, HandsKept DEF PinInv
<1>2. ASSUME StripIsItsOwn PROVE PinSpec => []Undisturbed
  <2>1. PinInv /\ [PinNext]_pinVars => PinInv'
    BY <1>1, <1>2
  <2> QED
    BY <2>1, PinStart, PinParts, PTL DEF PinSpec
<1> QED
  BY <1>2

-----------------------------------------------------------------------------
(* The SPI: SpiDriver.                                                     *)

\* The types of what SpiTypeOK leaves out, and what the loop keeps: the
\* buffer has a byte for each turn.
SpiShapes ==
  /\ SpiTypeOK
  /\ txq \in Seq(Int) /\ rxq \in Seq(Int) /\ rx_buf \in Seq(Int)
  /\ shape \in Seq(Protocols \X {"auto", "hold"})
  /\ Len(rx_buf) = i

\* While a call runs its protocol is known and the chip select held, and it
\* waits only for bytes it has to send.
TransfersAreInOrder ==
  /\ cfg \in Configs \cup {NoByte} /\ (transfers > 0 => cfg \in Configs)
  /\ spc # "idle" => /\ transfers > 0 /\ cfg.protocol \in Protocols
                     /\ csmode = "hold" /\ status = 0 /\ i <= cfg.len
  /\ Awaiting => i < cfg.len
  /\ ChipSelectIsReleased

\* The bytes the running transfer has sent: one for each turn, and one more
\* when it waits or gave up waiting.
Turns == i + (IF Awaiting \/ (spc = "idle" /\ status = 1) THEN 1 ELSE 0)

\* Where the bytes are: the receive FIFO and then the transmit FIFO hold the
\* last ones that were sent, one for each timeout and the one waited for.
QueuesAreConsecutive ==
  /\ bytes = first + Turns
  /\ \A k \in 1 .. Len(txq) : txq[k] = bytes - Len(txq) + k
  /\ \A k \in 1 .. Len(rxq) : rxq[k] = bytes - Len(txq) - Len(rxq) + k
  /\ AnswersComeInOrder

\* The wires are those of the byte that was sent last.
WiresFollow ==
  /\ Awaiting => wires = WiresOf(cfg, i)
  /\ spc = "send" => wires = IF i = 0 THEN StageWires(cfg)
                             ELSE WiresOf(cfg, i - 1)

\* The bytes of the transfer that are on the wire are those it has sent, but
\* for those in the transmit FIFO.
ShapeFollows ==
  /\ Len(shape) = IF bytes - Len(txq) >= first THEN bytes - Len(txq) - first
                  ELSE 0
  /\ BytesAreStaged

SpiInv == /\ SpiShapes /\ TransfersAreInOrder /\ QueuesAreConsecutive
          /\ WiresFollow /\ ShapeFollows /\ BusRateIsReached

LEMMA SpiStart == SpiInit => SpiInv
<1> SUFFICES ASSUME SpiInit PROVE SpiInv
  OBVIOUS
<1>e. Len(<<>>) = 0
  BY EmptySeq
<1>1. SpiShapes
  BY SpiAssumption DEF SpiInit, SpiShapes, SpiTypeOK, Protocols
<1>2. TransfersAreInOrder /\ QueuesAreConsecutive
  BY SpiAssumption, <1>e
     DEF SpiInit, TransfersAreInOrder, QueuesAreConsecutive, Turns, Awaiting,
         AnswersComeInOrder, Late, ChipSelectIsReleased
<1>3. WiresFollow /\ BusRateIsReached
  BY DEF SpiInit, WiresFollow, BusRateIsReached, Awaiting
<1>4. ShapeFollows
  <2>1. txq = <<>> /\ shape = <<>> /\ bytes = 0 /\ first = 0
    BY DEF SpiInit
  <2>2. Len(txq) = 0 /\ Len(shape) = 0 /\ bytes = 0 /\ first = 0
    BY <2>1, <1>e
  <2>3. Len(shape) = IF bytes - Len(txq) >= first
                     THEN bytes - Len(txq) - first ELSE 0
    <3>1. bytes - Len(txq) = 0 /\ bytes - Len(txq) - first = 0
      BY <2>2
    <3> QED
      BY <2>2, <3>1
  <2>4. BytesAreStaged
    <3>1. \A k \in 1 .. Len(shape) : FALSE
      BY <2>2
    <3> QED
      BY <3>1 DEF BytesAreStaged
  <2> QED
    BY <2>3, <2>4 DEF ShapeFollows
<1> QED
  BY <1>1, <1>2, <1>3, <1>4 DEF SpiInv

\* The dividing of integers.
LEMMA SpiQuotients ==
  ASSUME NEW r \in Nat, NEW n \in Nat \ {0}
  PROVE  /\ r \div n \in Nat /\ n * (r \div n) <= r /\ r < n * (r \div n + 1)
  OBVIOUS

LEMMA SpiRemainders ==
  ASSUME NEW r \in Int, NEW n \in Nat \ {0}
  PROVE  r % n \in 0 .. n - 1 /\ (r \in 0 .. n - 1 => r % n = r)
  OBVIOUS

LEMMA SpiDividers ==
  ASSUME NEW r \in Nat, NEW b \in Nat \ {0}
  PROVE  /\ Divider(r, b) \in Int
         /\ 2 * b <= r => /\ Divider(r, b) \in Nat
                          /\ r >= 2 * b * (Divider(r, b) + 1)
                          /\ r < 2 * b * (Divider(r, b) + 2)
<1> DEFINE q == r \div (2 * b)
<1>1. /\ q \in Nat /\ (2 * b) * q <= r /\ r < (2 * b) * (q + 1)
  <2>1. 2 * b \in Nat \ {0}
    OBVIOUS
  <2> QED
    BY <2>1, SpiQuotients
<1>2. 2 * b <= r => q # 0
  <2>1. ASSUME q = 0 PROVE r < 2 * b
    <3>1. (2 * b) * (q + 1) = 2 * b
      BY <2>1
    <3> QED
      BY <1>1, <3>1
  <2> QED
    BY <2>1
<1>3. Divider(r, b) = q - 1
  BY DEF Divider
<1> HIDE DEF q
<1> QED
  BY <1>1, <1>2, <1>3

LEMMA SpeedKept == SpiInv /\ [SpiNext]_spiVars =>
   /\ BusRateIsReached' /\ (spi_clock \in SpiRates
        /\ baud \in Bauds \cup {0} /\ sckdiv \in 0 .. DivMask
        /\ applied \in {-1, 0})'
<1> SUFFICES ASSUME SpiInv, [SpiNext]_spiVars
             PROVE  /\ BusRateIsReached' /\ (spi_clock \in SpiRates
                         /\ baud \in Bauds \cup {0}
                         /\ sckdiv \in 0 .. DivMask /\ applied \in {-1, 0})'
  OBVIOUS
<1>t. /\ spi_clock \in SpiRates /\ baud \in Bauds \cup {0}
      /\ sckdiv \in 0 .. DivMask /\ applied \in {-1, 0}
      /\ BusRateIsReached
  BY DEF SpiInv, SpiShapes, SpiTypeOK
<1>a. /\ SpiRates \subseteq Nat \ {0} /\ Bauds \subseteq Nat \ {0}
      /\ DivMask \in Nat \ {0}
  BY SpiAssumption
<1>1. ASSUME NEW r \in SpiRates, NEW b \in Bauds, spi_clock' = r,
               ApplyConfig(r, b)
      PROVE  /\ BusRateIsReached' /\ (spi_clock \in SpiRates
                  /\ baud \in Bauds \cup {0} /\ sckdiv \in 0 .. DivMask
                  /\ applied \in {-1, 0})'
  <2>1. Divider(r, b) \in Int
    BY <1>a, SpiDividers
  <2>2. CASE Divider(r, b) > DivMask
    BY <1>1, <1>t, <2>2 DEF ApplyConfig, BusRateIsReached
  <2>3. CASE ~(Divider(r, b) > DivMask)
    <3>1. /\ baud' = b /\ applied' = 0
          /\ sckdiv' = Divider(r, b) % (DivMask + 1)
      BY <1>1, <2>3 DEF ApplyConfig
    <3>2. sckdiv' \in 0 .. DivMask /\ (Divider(r, b) \in Nat
            => sckdiv' = Divider(r, b))
      <4> DEFINE n == DivMask + 1
                 d == Divider(r, b)
      <4>1. n \in Nat \ {0} /\ n - 1 = DivMask
        BY <1>a
      <4>2. sckdiv' = d % n /\ d \in Int /\ d <= DivMask
        BY <3>1, <2>1, <2>3, <1>a
      <4> HIDE DEF n, d
      <4>3. d % n \in 0 .. n - 1 /\ (d \in 0 .. n - 1 => d % n = d)
        BY <4>1, <4>2, SpiRemainders
      <4>4. /\ sckdiv' \in 0 .. DivMask
            /\ d \in Nat => sckdiv' = d
        BY <4>1, <4>2, <4>3, <1>a
      <4> QED
        BY <4>4 DEF d
    <3>3. BusRateIsReached'
      BY <3>1, <3>2, <1>1, <1>a, SpiDividers DEF BusRateIsReached
    <3> QED
      BY <3>1, <3>2, <3>3, <1>1
  <2> QED
    BY <2>2, <2>3
<1>2. CASE SetBaudRate
  BY <1>1, <1>2, <1>t DEF SetBaudRate
<1>3. CASE SpiClockChange
  BY <1>1, <1>3, <1>t DEF SpiClockChange
<1>4. CASE UNCHANGED speed
  BY <1>4, <1>t DEF speed, BusRateIsReached
<1> QED
  BY <1>2, <1>3, <1>4
     DEF SpiNext, Caller, Transfer, Send, Receive, ReadEmpty, NotCalled,
          TimeOut,
         Done, Shift, spiVars

LEMMA ShapesKept == SpiInv /\ [SpiNext]_spiVars => SpiShapes'
<1> SUFFICES ASSUME SpiInv, [SpiNext]_spiVars PROVE SpiShapes'
  OBVIOUS
<1> USE DEF SpiShapes, SpiTypeOK
<1>7. (spi_clock \in SpiRates /\ baud \in Bauds \cup {0}
        /\ sckdiv \in 0 .. DivMask /\ applied \in {-1, 0})'
  BY SpeedKept
<1>t. SpiShapes /\ TransfersAreInOrder
        /\ {TxDepth, RxDepth, MaxTransfers, MaxTimeouts} \subseteq Nat
  BY SpiAssumption DEF SpiInv
<1>1. CASE Transfer
  BY <1>1, <1>7, <1>t DEF Transfer, StageWires, Protocols
<1>2. CASE Send
  <2>1. cfg \in Configs /\ cfg.protocol \in Protocols /\ cfg.len \in Nat
    BY <1>2, <1>t, SpiAssumption DEF Send, TransfersAreInOrder
  <2>2. wires' \in Protocols
    BY <1>2, <1>t, <2>1 DEF Send, SwitchedWires
  <2>3. txq' \in Seq(Int) /\ Len(txq') <= TxDepth /\ bytes' = bytes + 1
    BY <1>2, <1>t DEF Send
  <2> QED
    BY <1>2, <1>7, <1>t, <2>2, <2>3 DEF Send, transfer
<1>3. CASE Receive
  <2>1. /\ rxq' \in Seq(Int) /\ Len(rxq') <= RxDepth
        /\ rx_buf' \in Seq(Int) /\ Len(rx_buf') = i' /\ i' \in Nat
    BY <1>3, <1>t DEF Receive
  <2> QED
    BY <1>3, <1>7, <1>t, <2>1 DEF Receive
<1>4. CASE ReadEmpty \/ NotCalled
  BY <1>4, <1>7, <1>t DEF ReadEmpty, NotCalled, wire, transfer
<1>5. CASE TimeOut
  BY <1>5, <1>7, <1>t DEF TimeOut
<1>6. CASE Done
  <2>1. cfg.protocol \in Protocols
    BY <1>6, <1>t DEF Done, TransfersAreInOrder
  <2>2. wires' \in Protocols
    BY <1>6, <1>t, <2>1 DEF Done, SwitchedWires
  <2> QED
    BY <1>6, <1>7, <1>t, <2>2 DEF Done, transfer
<1>9. CASE Shift
  <2>1. /\ txq' \in Seq(Int) /\ rxq' \in Seq(Int)
        /\ Len(txq') <= TxDepth /\ Len(rxq') <= RxDepth
    <3>1. /\ txq # <<>> /\ txq \in Seq(Int) /\ rxq \in Seq(Int)
          /\ Len(txq) <= TxDepth /\ Len(rxq) <= RxDepth
          /\ TxDepth \in Nat /\ RxDepth \in Nat
      BY <1>9, <1>t DEF Shift
    <3>2. Tail(txq) \in Seq(Int) /\ Len(Tail(txq)) <= TxDepth
          /\ Head(txq) \in Int
      BY <3>1
    <3>3. /\ Append(rxq, Head(txq)) \in Seq(Int)
          /\ Len(rxq) < RxDepth => Len(Append(rxq, Head(txq))) <= RxDepth
      BY <3>1, <3>2
    <3>4. txq' = Tail(txq) /\ (rxq' = rxq \/ (Len(rxq) < RxDepth
                                   /\ rxq' = Append(rxq, Head(txq))))
      BY <1>9 DEF Shift
    <3> QED
      BY <3>1, <3>2, <3>3, <3>4
  <2>2. shape' \in Seq(Protocols \X {"auto", "hold"})
    BY <1>9, <1>t DEF Shift
  <2> QED
    BY <1>9, <1>7, <1>t, <2>1, <2>2 DEF Shift, transfer
<1>8. CASE SetBaudRate \/ SpiClockChange \/ UNCHANGED spiVars
  BY <1>8, <1>7, <1>t DEF SetBaudRate, SpiClockChange, spiVars, wire, transfer
<1> QED
  BY <1>1, <1>2, <1>3, <1>4, <1>5, <1>6, <1>8, <1>9 DEF SpiNext, Caller

LEMMA CallsKept == SpiInv /\ [SpiNext]_spiVars => TransfersAreInOrder'
<1> SUFFICES ASSUME SpiInv, [SpiNext]_spiVars PROVE TransfersAreInOrder'
  OBVIOUS
<1> USE DEF TransfersAreInOrder, ChipSelectIsReleased, Awaiting
<1>t. SpiShapes /\ TransfersAreInOrder
  BY DEF SpiInv
<1>i. /\ i \in Nat /\ Len(rx_buf) = i /\ transfers \in Nat
      /\ \A c \in Configs : c.len \in Nat
      /\ spc \in {"idle", "send", "await", "check"}
      /\ status \in {-1, 0, 1}
  BY <1>t, SpiAssumption DEF SpiShapes, SpiTypeOK
<1>1. CASE Transfer
  BY <1>1, <1>t, <1>i DEF Transfer
<1>2. CASE Send
  BY <1>2, <1>t, <1>i DEF Send, transfer
<1>3. CASE Receive
  BY <1>3, <1>t, <1>i DEF Receive
<1>4. CASE ReadEmpty \/ NotCalled
  BY <1>4, <1>t, <1>i DEF ReadEmpty, NotCalled, wire, transfer
<1>5. CASE TimeOut
  BY <1>5, <1>t, <1>i DEF TimeOut
<1>6. CASE Done
  BY <1>6, <1>t, <1>i DEF Done, transfer
<1>7. CASE Shift
  BY <1>7, <1>t, <1>i DEF Shift, transfer
<1>8. CASE SetBaudRate \/ SpiClockChange \/ UNCHANGED spiVars
  BY <1>8, <1>t, <1>i DEF SetBaudRate, SpiClockChange, spiVars, wire, transfer
<1> QED
  BY <1>1, <1>2, <1>3, <1>4, <1>5, <1>6, <1>7, <1>8 DEF SpiNext, Caller

\* What is appended is the last, and the others stay.
LEMMA Appended ==
  ASSUME NEW S, NEW q \in Seq(S), NEW b \in S
  PROVE  /\ Append(q, b) \in Seq(S) /\ Len(Append(q, b)) = Len(q) + 1
         /\ \A k \in 1 .. Len(q) + 1 :
              Append(q, b)[k] = IF k = Len(q) + 1 THEN b ELSE q[k]
  OBVIOUS

\* The numbers of a queue that is used at both ends stay consecutive.
CountsFrom(q, b) == \A k \in 1 .. Len(q) : q[k] = b + k

LEMMA Consecutive ==
  ASSUME NEW q \in Seq(Int), NEW b \in Int, CountsFrom(q, b)
  PROVE  /\ \A n \in Int : n = b + Len(q) + 1 => CountsFrom(Append(q, n), b)
         /\ q # <<>> =>
              /\ Len(q) \in Nat \ {0} /\ Head(q) = b + 1
              /\ Tail(q) \in Seq(Int) /\ Len(Tail(q)) = Len(q) - 1
              /\ CountsFrom(Tail(q), b + 1)
<1> USE DEF CountsFrom
<1>1. ASSUME NEW n \in Int, n = b + Len(q) + 1,
             NEW k \in 1 .. Len(Append(q, n))
      PROVE  Append(q, n)[k] = b + k
  <2>1. k \in 1 .. Len(q) + 1
        /\ Append(q, n)[k] = IF k = Len(q) + 1 THEN n ELSE q[k]
    BY <1>1, Appended
  <2>2. CASE k = Len(q) + 1
    BY <1>1, <2>1, <2>2
  <2>3. CASE k # Len(q) + 1
    BY <1>1, <2>1, <2>3
  <2> QED
    BY <2>2, <2>3
<1>2. ASSUME q # <<>>
      PROVE  /\ Len(q) \in Nat \ {0} /\ Head(q) = b + 1
             /\ Tail(q) \in Seq(Int) /\ Len(Tail(q)) = Len(q) - 1
             /\ \A k \in 1 .. Len(Tail(q)) : Tail(q)[k] = (b + 1) + k
  <2>1. Len(q) \in Nat \ {0} /\ 1 \in 1 .. Len(q)
    BY <1>2, EmptySeq
  <2>2. /\ Head(q) = q[1] /\ Tail(q) \in Seq(Int) /\ Len(Tail(q)) = Len(q) - 1
        /\ \A k \in 1 .. Len(Tail(q)) : Tail(q)[k] = q[k + 1]
    BY <1>2, HeadTailProperties
  <2>3. ASSUME NEW k \in 1 .. Len(Tail(q)) PROVE Tail(q)[k] = (b + 1) + k
    <3>1. k + 1 \in 1 .. Len(q)
      BY <2>1, <2>2, <2>3
    <3>2. Tail(q)[k] = b + (k + 1)
      BY <2>2, <3>1
    <3> QED
      BY <2>1, <3>2
  <2> QED
    BY <2>1, <2>2, <2>3
<1> QED
  BY <1>1, <1>2

LEMMA BytesKept == SpiInv /\ [SpiNext]_spiVars => QueuesAreConsecutive'
<1> SUFFICES ASSUME SpiInv, [SpiNext]_spiVars PROVE QueuesAreConsecutive'
  OBVIOUS
<1>t. /\ txq \in Seq(Int) /\ rxq \in Seq(Int) /\ rx_buf \in Seq(Int)
      /\ i \in Nat /\ Len(rx_buf) = i /\ timeouts \in Nat
      /\ Len(txq) \in Nat /\ Len(rxq) \in Nat
      /\ bytes \in Nat /\ first \in Nat
      /\ spc \in {"idle", "send", "await", "check"} /\ status \in {-1, 0, 1}
  BY SpiAssumption DEF SpiInv, SpiShapes, SpiTypeOK
<1>q. /\ bytes = first + Turns
      /\ \A k \in 1 .. Len(txq) : txq[k] = bytes - Len(txq) + k
      /\ \A k \in 1 .. Len(rxq) : rxq[k] = bytes - Len(txq) - Len(rxq) + k
      /\ Len(txq) + Len(rxq) = timeouts + (IF Awaiting THEN 1 ELSE 0)
      /\ \A k \in 1 .. Len(rx_buf) : rx_buf[k] = first + k - Late
  BY DEF SpiInv, QueuesAreConsecutive, AnswersComeInOrder
<1>c. spc # "idle" => status = 0
  BY DEF SpiInv, TransfersAreInOrder
<1>e. Len(<<>>) = 0
  BY EmptySeq
<1> USE DEF QueuesAreConsecutive, AnswersComeInOrder, Awaiting, Turns, Late
<1>1. CASE Transfer
  BY <1>1, <1>t, <1>q, <1>e DEF Transfer
<1>2. CASE Send
  <2>1. /\ spc = "send" /\ spc' = "await" /\ bytes' = bytes + 1
        /\ txq' = Append(txq, bytes')
        /\ UNCHANGED <<rxq, first, i, rx_buf, status, timeouts>>
    BY <1>2 DEF Send, transfer
  <2>2. Len(txq') = Len(txq) + 1
    BY <1>t, <2>1, Appended
  <2>3. \A k \in 1 .. Len(txq') : txq'[k] = (bytes - Len(txq)) + k
    <3> DEFINE b == bytes - Len(txq)
    <3>1. bytes' = b + Len(txq) + 1 /\ bytes' \in Int /\ b \in Int
      BY <1>t, <2>1
    <3>2. CountsFrom(txq, b)
      BY <1>q DEF CountsFrom
    <3>3. CountsFrom(txq', b)
      <4> HIDE DEF b
      <4> QED
        BY <1>t, <2>1, <3>1, <3>2, Consecutive
    <3> QED
      BY <3>3 DEF CountsFrom
  <2>4. bytes' - Len(txq') = bytes - Len(txq)
    BY <1>t, <2>1, <2>2
  <2>5. bytes' = first' + Turns'
    BY <1>t, <1>q, <2>1
  <2>6. Len(txq') + Len(rxq') = timeouts' + 1
    BY <1>t, <1>q, <2>1, <2>2
  <2>7. \A k \in 1 .. Len(rx_buf') : rx_buf'[k] = first' + k - Late'
    BY <1>t, <1>q, <2>1
  <2> QED
    BY <1>q, <2>1, <2>3, <2>4, <2>5, <2>6, <2>7
<1>3. CASE Receive
  <2>1. /\ spc = "await" /\ spc' = "send" /\ rxq # <<>> /\ i' = i + 1
        /\ rx_buf' = Append(rx_buf, Head(rxq)) /\ rxq' = Tail(rxq)
        /\ UNCHANGED <<txq, bytes, first, status, timeouts>> /\ status = 0
    BY <1>3, <1>c DEF Receive
  <2>2. /\ Len(rxq) \in Nat \ {0} /\ Head(rxq) = bytes - Len(txq) - Len(rxq) + 1
        /\ Len(rxq') = Len(rxq) - 1
        /\ \A k \in 1 .. Len(rxq') :
             rxq'[k] = (bytes - Len(txq) - Len(rxq) + 1) + k
    <3> DEFINE b == bytes - Len(txq) - Len(rxq)
    <3>1. b \in Int
      BY <1>t
    <3>2. CountsFrom(rxq, b)
      BY <1>q DEF CountsFrom
    <3>3. /\ Len(rxq) \in Nat \ {0} /\ Head(rxq) = b + 1
          /\ Len(rxq') = Len(rxq) - 1 /\ CountsFrom(rxq', b + 1)
      <4> HIDE DEF b
      <4> QED
        BY <1>t, <2>1, <3>1, <3>2, Consecutive
    <3> QED
      BY <3>3 DEF CountsFrom
  <2>3. Head(rxq) = (first - timeouts) + Len(rx_buf) + 1 /\ Head(rxq) \in Int
        /\ first - timeouts \in Int
    <3>1. bytes = first + (i + 1) /\ Len(txq) + Len(rxq) = timeouts + 1
      BY <1>q, <2>1
    <3>2. /\ Head(rxq) = bytes - Len(txq) - Len(rxq) + 1
          /\ Len(txq) \in Nat /\ Len(rxq) \in Nat
      BY <1>t, <2>2
    <3>3. i \in Nat /\ Len(rx_buf) = i /\ first \in Nat /\ timeouts \in Nat
      BY <1>t
    <3> QED
      BY <3>1, <3>2, <3>3
  <2>4. \A k \in 1 .. Len(rx_buf) : rx_buf[k] = (first - timeouts) + k
    BY <1>t, <1>q, <2>1
  <2>5. \A k \in 1 .. Len(rx_buf') : rx_buf'[k] = (first - timeouts) + k
    <3> DEFINE b == first - timeouts
    <3>1. CountsFrom(rx_buf, b)
      BY <2>4 DEF CountsFrom
    <3>2. CountsFrom(rx_buf', b)
      <4> HIDE DEF b
      <4>1. b \in Int /\ Head(rxq) = b + Len(rx_buf) + 1 /\ Head(rxq) \in Int
        BY <2>3 DEF b
      <4> QED
        BY <1>t, <2>1, <3>1, <4>1, Consecutive
    <3> QED
      BY <3>2 DEF CountsFrom
  <2>6. Len(rx_buf') = i + 1
    BY <1>t, <2>1, <2>3, Appended
  <2>7. bytes' = first' + Turns'
    BY <1>t, <1>q, <2>1
  <2>8. Len(txq') + Len(rxq') = timeouts'
    BY <1>t, <1>q, <2>1, <2>2
  <2>9. \A k \in 1 .. Len(rxq') : rxq'[k] = bytes' - Len(txq') - Len(rxq') + k
    <3>1. bytes - Len(txq) - Len(rxq) + 1 = bytes' - Len(txq') - Len(rxq')
      BY <1>t, <2>1, <2>2
    <3> QED
      BY <2>2, <3>1
  <2>10. \A k \in 1 .. Len(rx_buf') : rx_buf'[k] = first' + k - Late'
    BY <1>t, <2>1, <2>5, <2>6
  <2>11. \A k \in 1 .. Len(txq') : txq'[k] = bytes' - Len(txq') + k
    BY <1>q, <2>1
  <2> QED
    BY <1>t, <2>1, <2>7, <2>8, <2>9, <2>10, <2>11
<1>4. CASE ReadEmpty \/ NotCalled
  BY <1>4, <1>t, <1>q DEF ReadEmpty, NotCalled, wire, transfer
<1>5. CASE TimeOut
  BY <1>5, <1>t, <1>q, <1>c DEF TimeOut
<1>6. CASE Done
  BY <1>6, <1>t, <1>q, <1>c DEF Done, transfer
<1>7. CASE Shift
  <2>1. /\ txq # <<>> /\ txq' = Tail(txq)
        /\ rxq' = IF Len(rxq) < RxDepth THEN Append(rxq, Head(txq)) ELSE rxq
        /\ UNCHANGED <<spc, bytes, first, i, rx_buf, status, timeouts>>
    BY <1>7 DEF Shift, transfer
  <2>2. /\ Len(txq) \in Nat \ {0} /\ Head(txq) = bytes - Len(txq) + 1
        /\ Len(txq') = Len(txq) - 1
        /\ \A k \in 1 .. Len(txq') : txq'[k] = (bytes - Len(txq) + 1) + k
    <3> DEFINE b == bytes - Len(txq)
    <3>1. b \in Int
      BY <1>t
    <3>2. CountsFrom(txq, b)
      BY <1>q DEF CountsFrom
    <3>3. /\ Len(txq) \in Nat \ {0} /\ Head(txq) = b + 1
          /\ Len(txq') = Len(txq) - 1 /\ CountsFrom(txq', b + 1)
      <4> HIDE DEF b
      <4> QED
        BY <1>t, <2>1, <3>1, <3>2, Consecutive
    <3> QED
      BY <3>3 DEF CountsFrom
  <2>3. rxq' = Append(rxq, Head(txq))
    <3>1. timeouts <= MaxTimeouts /\ MaxTimeouts < RxDepth
          /\ MaxTimeouts \in Nat /\ RxDepth \in Nat
      BY SpiAssumption DEF SpiInv, SpiShapes, SpiTypeOK
    <3> QED
      BY <1>t, <1>q, <2>1, <2>2, <3>1
  <2>4. Head(txq) = (bytes - Len(txq) - Len(rxq)) + Len(rxq) + 1
        /\ Head(txq) \in Int /\ bytes - Len(txq) - Len(rxq) \in Int
    BY <1>t, <2>2
  <2>5. \A k \in 1 .. Len(rxq') : rxq'[k] = (bytes - Len(txq) - Len(rxq)) + k
    <3> DEFINE b == bytes - Len(txq) - Len(rxq)
    <3>1. CountsFrom(rxq, b)
      BY <1>q DEF CountsFrom
    <3>2. CountsFrom(rxq', b)
      <4> HIDE DEF b
      <4>1. b \in Int /\ Head(txq) = b + Len(rxq) + 1 /\ Head(txq) \in Int
        BY <2>4 DEF b
      <4> QED
        BY <1>t, <2>3, <3>1, <4>1, Consecutive
    <3> QED
      BY <3>2 DEF CountsFrom
  <2>6. Len(rxq') = Len(rxq) + 1
    BY <1>t, <2>3, <2>4, Appended
  <2>7. /\ bytes' - Len(txq') = bytes - Len(txq) + 1
        /\ bytes' - Len(txq') - Len(rxq') = bytes - Len(txq) - Len(rxq)
        /\ Len(txq') + Len(rxq') = Len(txq) + Len(rxq)
    BY <1>t, <2>1, <2>2, <2>6
  <2>8. /\ \A k \in 1 .. Len(txq') : txq'[k] = bytes' - Len(txq') + k
        /\ \A k \in 1 .. Len(rxq') : rxq'[k] = bytes' - Len(txq') - Len(rxq') + k
    BY <2>2, <2>5, <2>7
  <2> QED
    BY <1>q, <2>1, <2>7, <2>8
<1>8. CASE SetBaudRate \/ SpiClockChange \/ UNCHANGED spiVars
  BY <1>8, <1>t, <1>q DEF SetBaudRate, SpiClockChange, spiVars, wire, transfer
<1> QED
  BY <1>1, <1>2, <1>3, <1>4, <1>5, <1>6, <1>7, <1>8 DEF SpiNext, Caller

LEMMA WiresOfIsStaged ==
  ASSUME NEW c \in Configs, NEW k \in Nat
  PROVE  /\ WiresOf(c, 0) = IF \/ c.multi_wire = "addr_data" /\ c.cmd = 0
                               \/ c.multi_wire = "data_only"
                                    /\ c.cmd + c.addr + c.dummy = 0
                            THEN c.protocol ELSE StageWires(c)
         /\ WiresOf(c, k + 1) = IF \/ c.multi_wire = "addr_data" /\ k + 1 = c.cmd
                                   \/ c.multi_wire = "data_only"
                                        /\ k + 1 = c.cmd + c.addr + c.dummy
                                THEN c.protocol ELSE WiresOf(c, k)
<1>1. c.multi_wire \in Spans /\ c.cmd \in Nat /\ c.addr \in Nat
        /\ c.dummy \in Nat
  BY SpiAssumption
<1>2. CASE c.multi_wire = "all"
  BY <1>1, <1>2 DEF WiresOf, StageWires
<1>3. CASE c.multi_wire = "addr_data"
  BY <1>1, <1>3 DEF WiresOf, StageWires
<1>4. CASE c.multi_wire = "data_only"
  <2> DEFINE n == c.cmd + c.addr + c.dummy
  <2>1. n \in Nat
    BY <1>1
  <2>2. \A m \in Nat : WiresOf(c, m) = IF m >= n THEN c.protocol ELSE "single"
    BY <1>4 DEF WiresOf
  <2> HIDE DEF n
  <2>3. /\ WiresOf(c, 0) = IF n = 0 THEN c.protocol ELSE "single"
        /\ WiresOf(c, k + 1) = IF k + 1 = n THEN c.protocol ELSE WiresOf(c, k)
    BY <2>1, <2>2
  <2> QED
    BY <1>4, <2>3 DEF n, StageWires
<1> QED
  BY <1>1, <1>2, <1>3, <1>4 DEF Spans

LEMMA WiresKept == SpiInv /\ [SpiNext]_spiVars => WiresFollow'
<1> SUFFICES ASSUME SpiInv, [SpiNext]_spiVars PROVE WiresFollow'
  OBVIOUS
<1> USE DEF WiresFollow, Awaiting
<1>t. i \in Nat /\ spc \in {"idle", "send", "await", "check"}
  BY DEF SpiInv, SpiShapes, SpiTypeOK
<1>o. WiresFollow
  BY DEF SpiInv
<1>c. spc # "idle" => cfg \in Configs
  BY SpiAssumption DEF SpiInv, TransfersAreInOrder
<1>1. CASE Transfer
  BY <1>1, <1>t DEF Transfer
<1>2. CASE Send
  <2>1. cfg \in Configs
    BY <1>2, <1>c DEF Send
  <2>2. wires' = WiresOf(cfg, i)
    <3>1. CASE i = 0
      BY <1>2, <1>o, <2>1, <3>1, WiresOfIsStaged
         DEF Send, SwitchedWires, Switched
    <3>2. CASE i # 0
      <4>1. i - 1 \in Nat /\ (i - 1) + 1 = i
        BY <1>t, <3>2
      <4>2. WiresOf(cfg, i) = IF Switched THEN cfg.protocol
              ELSE WiresOf(cfg, i - 1)
        BY <4>1, <2>1, WiresOfIsStaged DEF Switched
      <4> QED
        BY <1>2, <1>o, <2>1, <3>2, <4>2 DEF Send, SwitchedWires
    <3> QED
      BY <3>1, <3>2
  <2> QED
    BY <1>2, <1>t, <1>o, <2>1, <2>2 DEF Send, transfer
<1>3. CASE Receive
  BY <1>3, <1>t, <1>o DEF Receive
<1>4. CASE ReadEmpty \/ NotCalled
  BY <1>4, <1>t, <1>o DEF ReadEmpty, NotCalled, wire, transfer
<1>5. CASE TimeOut \/ Done
  BY <1>5 DEF TimeOut, Done
<1>6. CASE Shift \/ SetBaudRate \/ SpiClockChange \/ UNCHANGED spiVars
  BY <1>6, <1>t, <1>o
     DEF Shift, SetBaudRate, SpiClockChange, spiVars, wire, transfer
<1> QED
  BY <1>1, <1>2, <1>3, <1>4, <1>5, <1>6 DEF SpiNext, Caller

\* A byte that is shifted out, and what it goes out with.
LEMMA ShiftIsStaged ==
  ASSUME SpiInv, Shift, shape' # shape
  PROVE  /\ shape' = Append(shape, <<wires, csmode>>)
         /\ bytes - Len(txq) >= first
         /\ \/ /\ csmode = "hold"
               /\ \E j \in Len(shape) .. Len(shape) + Late :
                    wires = WiresOf(cfg, j)
            \/ /\ csmode = "auto" /\ spc = "idle"
               /\ first + (Len(shape) + 1) + timeouts > bytes
<1>t. /\ txq \in Seq(Int) /\ i \in Nat /\ timeouts \in Nat
      /\ Len(txq) \in Nat /\ Len(rxq) \in Nat /\ bytes \in Nat /\ first \in Nat
      /\ spc \in {"idle", "send", "await", "check"}
  BY SpiAssumption DEF SpiInv, SpiShapes, SpiTypeOK
<1>q. /\ bytes = first + Turns
      /\ \A k \in 1 .. Len(txq) : txq[k] = bytes - Len(txq) + k
      /\ Len(txq) + Len(rxq) = timeouts + (IF Awaiting THEN 1 ELSE 0)
  BY DEF SpiInv, QueuesAreConsecutive, AnswersComeInOrder
<1>c. spc # "idle" => csmode = "hold"
  BY DEF SpiInv, TransfersAreInOrder
<1>w. WiresFollow
  BY DEF SpiInv
<1>1. txq # <<>> /\ shape' = Append(shape, <<wires, csmode>>)
      /\ Head(txq) > first
  BY DEF Shift
<1>2. Len(txq) \in Nat \ {0} /\ Head(txq) = bytes - Len(txq) + 1
  <2>1. bytes - Len(txq) \in Int /\ CountsFrom(txq, bytes - Len(txq))
    BY <1>t, <1>q DEF CountsFrom
  <2> QED
    BY <1>t, <1>1, <2>1, Consecutive
<1>3. bytes - Len(txq) >= first
  BY <1>t, <1>1, <1>2
<1>4. Len(shape) = bytes - Len(txq) - first
  BY <1>3 DEF SpiInv, ShapeFollows
<1>5. CASE Awaiting
  <2>1. i \in Len(shape) .. Len(shape) + Late
    BY <1>t, <1>q, <1>2, <1>4, <1>5 DEF Turns, Late, Awaiting
  <2> QED
    BY <1>1, <1>3, <1>5, <1>c, <1>w, <2>1 DEF WiresFollow, Awaiting
<1>6. CASE spc = "send"
  <2>1. i # 0 /\ i - 1 \in Len(shape) .. Len(shape) + Late
    BY <1>t, <1>q, <1>2, <1>3, <1>4, <1>6 DEF Turns, Late, Awaiting
  <2> QED
    BY <1>1, <1>3, <1>6, <1>c, <1>w, <2>1 DEF WiresFollow
<1>7. CASE spc = "idle"
  <2>1. csmode = "auto"
    BY <1>7 DEF SpiInv, TransfersAreInOrder, ChipSelectIsReleased
  <2>2. first + (Len(shape) + 1) + timeouts > bytes
    <3>1. Len(txq) + Len(rxq) = timeouts
      BY <1>q, <1>t, <1>7 DEF Awaiting
    <3>2. Len(shape) = bytes - Len(txq) - first
      BY <1>4
    <3>3. /\ timeouts \in Nat /\ Len(txq) \in Nat /\ Len(rxq) \in Nat
          /\ bytes \in Nat /\ first \in Nat
      BY <1>t
    <3> QED
      BY <3>1, <3>2, <3>3
  <2> QED
    BY <1>1, <1>3, <1>7, <2>1, <2>2
<1> QED
  BY <1>t, <1>5, <1>6, <1>7 DEF Awaiting

\* What BytesAreStaged says of place k with the pair p.
Staged(k, p) ==
  \/ \E j \in k - 1 .. k - 1 + Late : p = <<WiresOf(cfg, j), "hold">>
  \/ p[2] = "auto" /\ spc = "idle" /\ first + k + timeouts > bytes

LEMMA ShapeKept == SpiInv /\ [SpiNext]_spiVars => ShapeFollows'
<1> SUFFICES ASSUME SpiInv, [SpiNext]_spiVars PROVE ShapeFollows'
  OBVIOUS
<1>t. /\ txq \in Seq(Int) /\ i \in Nat /\ timeouts \in Nat
      /\ Len(txq) \in Nat /\ Len(shape) \in Nat
      /\ bytes \in Nat /\ first \in 0 .. bytes
      /\ shape \in Seq(Protocols \X {"auto", "hold"})
      /\ wires \in Protocols /\ csmode \in {"auto", "hold"}
      /\ spc \in {"idle", "send", "await", "check"} /\ status \in {-1, 0, 1}
  BY SpiAssumption DEF SpiInv, SpiShapes, SpiTypeOK
<1>o. /\ Len(shape) = IF bytes - Len(txq) >= first THEN bytes - Len(txq) - first
                      ELSE 0
      /\ \A k \in 1 .. Len(shape) : Staged(k, shape[k])
  BY DEF SpiInv, ShapeFollows, BytesAreStaged, Staged
<1>s. (\A k \in 1 .. Len(shape) : Staged(k, shape[k]))' => BytesAreStaged'
  BY DEF BytesAreStaged, Staged
<1>c. spc # "idle" => status = 0
  BY DEF SpiInv, TransfersAreInOrder
<1>e. Len(<<>>) = 0
  BY EmptySeq
<1>1. CASE Transfer
  BY <1>1, <1>t, <1>e DEF Transfer, ShapeFollows, BytesAreStaged
<1>2. CASE Send
  <2>1. /\ spc = "send" /\ spc' = "await" /\ bytes' = bytes + 1
        /\ txq' = Append(txq, bytes') /\ bytes' \in Int
        /\ UNCHANGED <<first, shape, cfg, timeouts>>
    BY <1>2, <1>t DEF Send, transfer
  <2>2. bytes' - Len(txq') = bytes - Len(txq)
    BY <1>t, <2>1, Appended
  <2>3. \A k \in 1 .. Len(shape') : Staged(k, shape[k])'
    BY <1>o, <2>1 DEF Staged, Late
  <2> QED
    BY <1>o, <1>s, <2>1, <2>2, <2>3 DEF ShapeFollows
<1>3. CASE Receive \/ ReadEmpty \/ NotCalled
  <2>1. /\ spc # "idle" /\ spc' # "idle"
        /\ UNCHANGED <<first, bytes, txq, shape, cfg, timeouts>>
    BY <1>3 DEF Receive, ReadEmpty, NotCalled, wire, transfer
  <2>2. \A k \in 1 .. Len(shape') : Staged(k, shape[k])'
    BY <1>o, <2>1 DEF Staged, Late
  <2> QED
    BY <1>o, <1>s, <2>1, <2>2 DEF ShapeFollows
<1>4. CASE TimeOut \/ Done
  <2>1. /\ spc # "idle" /\ spc' = "idle"
        /\ UNCHANGED <<first, bytes, txq, shape, cfg>>
        /\ \/ timeouts' = timeouts + 1 /\ status' = 1
           \/ timeouts' = timeouts /\ status' = 0
    BY <1>4, <1>c DEF TimeOut, Done, transfer
  <2>2. Late' = Late
    BY <1>t, <2>1 DEF Late
  <2>3. \A k \in 1 .. Len(shape') : Staged(k, shape[k])'
    BY <1>o, <2>1, <2>2 DEF Staged
  <2> QED
    BY <1>o, <1>s, <2>1, <2>3 DEF ShapeFollows
<1>5. CASE Shift
  <2>1. /\ UNCHANGED <<spc, bytes, first, cfg, timeouts, status>>
        /\ txq # <<>> /\ txq' = Tail(txq)
    BY <1>5 DEF Shift, transfer
  <2>2. Len(txq) \in Nat \ {0} /\ Len(txq') = Len(txq) - 1
    BY <1>t, <2>1, EmptySeq, HeadTailProperties
  <2>3. \A k \in 1 .. Len(shape) : Staged(k, shape[k])' <=> Staged(k, shape'[k])
    BY <2>1 DEF Staged, Late
  <2>4. CASE shape' = shape
    <3>1. Head(txq) <= first
      <4>1. ASSUME Head(txq) > first PROVE Len(shape') = Len(shape) + 1
        <5>1. shape' = Append(shape, <<wires, csmode>>)
          BY <1>5, <4>1 DEF Shift
        <5> QED
          BY <1>t, <5>1, Appended, <<wires, csmode>> \in Protocols \X {"auto", "hold"}
      <4>2. Head(txq) \in Int
        BY <1>t, <2>1, HeadTailProperties
      <4> QED
        BY <1>t, <2>4, <4>1, <4>2
    <3>2. Head(txq) = bytes - Len(txq) + 1
      <4>1. bytes - Len(txq) \in Int /\ CountsFrom(txq, bytes - Len(txq))
        BY <1>t DEF SpiInv, QueuesAreConsecutive, CountsFrom
      <4> QED
        BY <1>t, <2>1, <4>1, Consecutive
    <3>3. bytes - Len(txq) < first
      BY <1>t, <2>2, <3>1, <3>2
    <3>4. Len(shape') = IF bytes' - Len(txq') >= first'
                        THEN bytes' - Len(txq') - first' ELSE 0
      BY <1>t, <1>o, <2>1, <2>2, <2>4, <3>3
    <3>5. \A k \in 1 .. Len(shape') : Staged(k, shape[k])'
      BY <1>o, <2>1, <2>4 DEF Staged, Late
    <3> QED
      BY <1>s, <3>4, <3>5 DEF ShapeFollows
  <2>5. CASE shape' # shape
    <3> DEFINE p == <<wires, csmode>>
    <3>1. /\ shape' = Append(shape, p) /\ p \in Protocols \X {"auto", "hold"}
          /\ bytes - Len(txq) >= first
      BY <1>5, <1>t, <2>5, ShiftIsStaged
    <3>2. /\ Len(shape') = Len(shape) + 1
          /\ \A k \in 1 .. Len(shape) + 1 :
               shape'[k] = IF k = Len(shape) + 1 THEN p ELSE shape[k]
      BY <1>t, <3>1, Appended
    <3>3. Staged(Len(shape) + 1, p)
      <4>1. (Len(shape) + 1) - 1 = Len(shape)
        BY <1>t
      <4> QED
        BY <1>5, <2>5, <4>1, ShiftIsStaged DEF Staged
    <3>4. \A k \in 1 .. Len(shape') : Staged(k, shape'[k])
      <4> HIDE DEF p
      <4> SUFFICES ASSUME NEW k \in 1 .. Len(shape) + 1
                   PROVE  Staged(k, shape'[k])
        BY <3>2
      <4>1. CASE k = Len(shape) + 1
        BY <3>2, <3>3, <4>1
      <4>2. CASE k # Len(shape) + 1
        <5>1. k \in 1 .. Len(shape)
          BY <1>t, <4>2
        <5> QED
          BY <1>o, <3>2, <4>2, <5>1
      <4> QED
        BY <4>1, <4>2
    <3>5. \A k \in 1 .. Len(shape') : Staged(k, shape[k])'
      BY <2>1, <3>4 DEF Staged, Late
    <3>6. Len(shape') = IF bytes' - Len(txq') >= first'
                        THEN bytes' - Len(txq') - first' ELSE 0
      BY <1>t, <1>o, <2>1, <2>2, <3>1, <3>2
    <3> QED
      BY <1>s, <3>5, <3>6 DEF ShapeFollows
  <2> QED
    BY <2>4, <2>5
<1>6. CASE SetBaudRate \/ SpiClockChange \/ UNCHANGED spiVars
  <2>1. UNCHANGED <<spc, bytes, first, txq, shape, cfg, timeouts, status>>
    BY <1>6 DEF SetBaudRate, SpiClockChange, spiVars, wire, transfer
  <2>2. \A k \in 1 .. Len(shape') : Staged(k, shape[k])'
    BY <1>o, <2>1 DEF Staged, Late
  <2> QED
    BY <1>o, <1>s, <2>1, <2>2 DEF ShapeFollows
<1> QED
  BY <1>1, <1>2, <1>3, <1>4, <1>5, <1>6 DEF SpiNext, Caller

\* Whatever the mode, the stages and the pace of the controller, and however
\* many transfers have timed out before: the answers of sifive_spi0.c's transfer
\* come in order, as many places late as transfers timed out; its bytes go out
\* on the wires of their stage, but for what the driver runs ahead; the chip
\* select is free afterwards, and the buffer filled exactly when 0 is returned.
THEOREM TransfersCorrect == SpiSpec => [](SpiTypeOK /\ TransfersAreSound)
<1>1. SpiInv /\ [SpiNext]_spiVars => SpiInv'
  BY ShapesKept, CallsKept, BytesKept, WiresKept, ShapeKept, SpeedKept DEF SpiInv
<1>2. SpiInv => SpiTypeOK /\ TransfersAreSound
  BY DEF SpiInv, SpiShapes, TransfersAreInOrder, QueuesAreConsecutive,
         ShapeFollows, TransfersAreSound
<1> QED
  BY <1>1, <1>2, SpiStart, PTL DEF SpiSpec

-----------------------------------------------------------------------------
(* The PWM: PwmDriver.                                                     *)

\* Dividing by two once more.
LEMMA HalfAgain ==
  ASSUME NEW n \in Nat, NEW m \in Nat \ {0}
  PROVE  (n \div m) \div 2 = n \div (2 * m)
<1> DEFINE q == n \div m  r == n % m  h == q \div 2  e == q % 2
<1>1. q \in Nat /\ r \in 0 .. m - 1 /\ n = m * q + r
  BY Division
<1> HIDE DEF q, r
<1>2. h \in Nat /\ e \in 0 .. 1 /\ q = 2 * h + e
  BY <1>1
<1> HIDE DEF h, e
<1> DEFINE s == m * e + r
<1>3. s \in 0 .. 2 * m - 1
  <2>1. CASE e = 0
    BY <1>1, <2>1
  <2>2. CASE e = 1
    BY <1>1, <2>2
  <2> QED
    BY <1>2, <2>1, <2>2
<1>4. n = (2 * m) * h + s
  <2>1. m * (2 * h + e) = (2 * m) * h + m * e
    BY <1>2
  <2>2. m * q = (2 * m) * h + m * e
    BY <1>2, <2>1
  <2>3. (2 * m) * h \in Nat /\ m * e \in Nat
    BY <1>2
  <2> QED
    BY <1>1, <2>2, <2>3
<1>5. 2 * m \in Nat \ {0}
  OBVIOUS
<1> DEFINE b == 2 * m
<1>6. b \in Nat \ {0} /\ s \in 0 .. b - 1 /\ n = b * h + s
  BY <1>3, <1>4, <1>5
<1> HIDE DEF b, s
<1>7. n \div b = h
  BY <1>2, <1>6, DivisionIs
<1> QED
  BY <1>7 DEF b, h, q

LEMMA NextBit ==
  ASSUME NEW n \in Nat, NEW b \in Nat
  PROVE  /\ n \div Pow2[b] \in Nat /\ n \div Pow2[b + 1] \in Nat
         /\ (n \div Pow2[b]) % 2 \in {0, 1}
         /\ n \div Pow2[b] = 2 * (n \div Pow2[b + 1]) + ((n \div Pow2[b]) % 2)
<1>1. Pow2[b] \in Nat \ {0} /\ Pow2[b + 1] = 2 * Pow2[b]
                            /\ Pow2[b + 1] \in Nat \ {0}
  BY Pow2Types, Pow2Steps
<1> DEFINE p == Pow2[b]  q == n \div p  h == n \div Pow2[b + 1]
<1>2. p \in Nat \ {0} /\ h = n \div (2 * p)
  BY <1>1
<1>3. h \in Nat /\ q \in Nat
  BY <1>1, Division
<1> HIDE DEF p
<1>4. q \div 2 = h
  BY <1>2, HalfAgain
<1> HIDE DEF q, h
<1>5. q % 2 \in {0, 1} /\ q = 2 * (q \div 2) + (q % 2)
  BY <1>3
<1> QED
  BY <1>3, <1>4, <1>5 DEF q, h, p

\* A greater power divides no less.
LEMMA Pow2Order == \A a, b \in Nat : a <= b => Pow2[a] <= Pow2[b]
<1> DEFINE S == {b \in Nat : \E a \in Nat : a <= b /\ ~ (Pow2[a] <= Pow2[b])}
<1> SUFFICES ASSUME S # {} PROVE FALSE
  OBVIOUS
<1>1. PICK b \in S : \A m \in S : b <= m
  <2>1. S \in SUBSET Nat
    OBVIOUS
  <2> HIDE DEF S
  <2> QED
    BY <2>1, LeastNumber
<1>2. PICK a \in Nat : a <= b /\ ~ (Pow2[a] <= Pow2[b])
  BY <1>1
<1>3. b \in Nat /\ a # b
  BY <1>1, <1>2, Pow2Types
<1>4. b - 1 \in Nat /\ a <= b - 1 /\ ~ (b <= b - 1) /\ (b - 1) + 1 = b
  BY <1>2, <1>3
<1>5. Pow2[a] <= Pow2[b - 1]
  BY <1>1, <1>4
<1>6. Pow2[b] = 2 * Pow2[b - 1]
  BY <1>4, Pow2Steps
<1>7. Pow2[a] \in Nat /\ Pow2[b - 1] \in Nat
  BY <1>4, Pow2Types
<1> QED
  BY <1>2, <1>5, <1>6, <1>7

\* A greater divisor gives no greater quotient.
LEMMA DivisorOrder ==
  ASSUME NEW n \in Nat, NEW a \in Nat \ {0}, NEW b \in Nat \ {0}, a <= b
  PROVE  n \div b <= n \div a
<1> DEFINE p == n \div a  s == n % a  q == n \div b
<1>1. p \in Nat /\ s \in 0 .. a - 1 /\ n = a * p + s
  BY Division
<1>2. q \in Nat /\ b * q <= n
  BY Division, DivisionDown
<1> HIDE DEF p, s, q
<1>3. a * q <= b * q
  <2>1. q * a <= q * b
    BY <1>2, ProductOrder
  <2> QED
    BY <1>2, <2>1
<1>4. 0 \in 0 .. a - 1 /\ a * q \in Nat /\ b * q \in Nat
  BY <1>2
<1>5. a * q + 0 <= a * p + s
  BY <1>1, <1>2, <1>3, <1>4
<1>6. q <= p
  BY <1>1, <1>2, <1>4, <1>5, QuotientOrder
<1> QED
  BY <1>6 DEF p, q

LEMMA PrescaleTypes == MaxPrescale \in Nat /\ MaxPrescale + 1 = Pow2[ScaleBits]
<1>1. Pow2[ScaleBits] \in Nat \ {0}
  BY Pow2Types, PwmAssumption
<1> QED
  BY <1>1 DEF MaxPrescale

\* A prescaler with more bits is no smaller.
LEMMA BitsOrder ==
  ASSUME NEW p \in 0 .. MaxPrescale, NEW q \in 0 .. MaxPrescale,
         BitsOf(p) \subseteq BitsOf(q)
  PROVE  p <= q
<1>0. /\ ScaleBits \in Nat /\ p \in Nat /\ q \in Nat
      /\ p < Pow2[ScaleBits] /\ q < Pow2[ScaleBits]
      /\ Pow2[ScaleBits] \in Nat \ {0}
  BY PrescaleTypes, Pow2Types, PwmAssumption
<1> DEFINE Below(b) == p \div Pow2[b] <= q \div Pow2[b]
           S == {d \in 0 .. ScaleBits : ~ Below(ScaleBits - d)}
<1>1. S = {}
  <2> SUFFICES ASSUME S # {} PROVE FALSE
    OBVIOUS
  <2>1. PICK d \in S : \A m \in S : d <= m
    <3>1. S \in SUBSET Nat
      BY <1>0
    <3> HIDE DEF S
    <3> QED
      BY <3>1, LeastNumber
  <2>2. d \in 0 .. ScaleBits /\ d \in Nat /\ ~ Below(ScaleBits - d)
    BY <1>0, <2>1
  <2>3. d # 0
    <3>1. Below(ScaleBits)
      <4> DEFINE P == Pow2[ScaleBits]
      <4>0. P \in Nat \ {0} /\ p < P /\ q < P
        BY <1>0
      <4> HIDE DEF P
      <4>2. p \div P = 0 /\ q \div P = 0
        BY <1>0, <4>0, SmallDivision
      <4> QED
        BY <4>2 DEF P
    <3>2. d = 0 => ScaleBits - d = ScaleBits
      BY <1>0
    <3> HIDE DEF Below
    <3> QED
      BY <2>2, <3>1, <3>2
  <2>4. /\ d - 1 \in 0 .. ScaleBits /\ ~ (d <= d - 1)
        /\ ScaleBits - (d - 1) = (ScaleBits - d) + 1
        /\ ScaleBits - d \in Nat /\ ScaleBits - d \in 0 .. ScaleBits - 1
    BY <1>0, <2>2, <2>3
  <2> DEFINE b == ScaleBits - d
  <2>5. Below(b + 1)
    <3>1. d - 1 \notin S
      BY <2>1, <2>4
    <3> HIDE DEF Below
    <3> QED
      BY <2>4, <3>1
  <2>6. b \in Nat /\ b \in 0 .. ScaleBits - 1 /\ ~ Below(b)
    BY <2>2, <2>4
  <2> HIDE DEF b, S
  <2>7. (p \div Pow2[b]) % 2 = 1 => (q \div Pow2[b]) % 2 = 1
    BY <2>6 DEF BitsOf
  <2> DEFINE x == p \div Pow2[b]  h == p \div Pow2[b + 1]
             y == q \div Pow2[b]  g == q \div Pow2[b + 1]
  <2>8. /\ x % 2 \in {0, 1} /\ y % 2 \in {0, 1} /\ h \in Nat /\ g \in Nat
        /\ x = 2 * h + (x % 2) /\ y = 2 * g + (y % 2)
    BY <1>0, <2>6, NextBit
  <2>9. h <= g /\ ~ (x <= y) /\ (x % 2 = 1 => y % 2 = 1)
    BY <2>5, <2>6, <2>7
  <2> HIDE DEF x, y, h, g
  <2> QED
    BY <2>8, <2>9
<1>2. Below(0)
  <2>1. ScaleBits \in 0 .. ScaleBits /\ ScaleBits - ScaleBits = 0
    BY <1>0
  <2> HIDE DEF Below
  <2> QED
    BY <1>1, <2>1
<1>3. Pow2[0] = 1
  BY Pow2Steps
<1> QED
  BY <1>0, <1>2, <1>3

\* No two prescalers have the same bits.
LEMMA BitsTellApart ==
  ASSUME NEW p \in 0 .. MaxPrescale, NEW q \in 0 .. MaxPrescale,
         BitsOf(p) = BitsOf(q)
  PROVE  p = q
<1>1. p <= q /\ q <= p
  BY BitsOrder
<1>2. p \in Nat /\ q \in Nat
  BY PrescaleTypes
<1> QED
  BY <1>1, <1>2

LEMMA ValueOfBits ==
  ASSUME NEW p \in 0 .. MaxPrescale
  PROVE  ValueOf(BitsOf(p)) = p
<1> DEFINE v == CHOOSE w \in 0 .. MaxPrescale : BitsOf(w) = BitsOf(p)
<1>1. v \in 0 .. MaxPrescale /\ BitsOf(v) = BitsOf(p)
  OBVIOUS
<1>2. v = ValueOf(BitsOf(p))
  BY DEF ValueOf
<1> HIDE DEF v
<1> QED
  BY <1>1, <1>2, BitsTellApart

LEMMA CountTypes ==
  ASSUME NEW r \in Nat, NEW f \in Nat \ {0}, NEW p \in Nat
  PROVE  r \div Pow2[p] \in Nat /\ CountAt(r, f, p) \in Nat
<1> DEFINE a == r \div Pow2[p]
<1>1. a \in Nat
  BY Pow2Types, Division
<1> HIDE DEF a
<1>2. a \div f \in Nat
  BY <1>1, Division
<1> QED
  BY <1>1, <1>2 DEF a, CountAt

\* The loop of set_freq finds a prescaler with a count that fits, if there is
\* one, and a count that is not zero.
LEMMA PrescaleIsSound ==
  ASSUME NEW r \in Nat, NEW f \in Nat \ {0}, f <= r
  PROVE  /\ PrescaleFor(r, f) \in 0 .. MaxPrescale + 1
         /\ PrescaleFor(r, f) \in Nat
         /\ PrescaleFor(r, f) <= MaxPrescale
              => /\ CountAt(r, f, PrescaleFor(r, f)) \in Nat \ {0}
                 /\ CountAt(r, f, PrescaleFor(r, f)) <= MaxCount
         /\ PrescaleFor(r, f) > MaxPrescale
              => /\ CountAt(r, f, MaxPrescale) \in Nat \ {0}
                 /\ CountAt(r, f, MaxPrescale) > MaxCount
<1> DEFINE P == 0 .. MaxPrescale
           fits == {p \in P : CountAt(r, f, p) <= MaxCount}
           p == PrescaleFor(r, f)
<1>0. MaxPrescale \in Nat /\ MaxCount \in Nat /\ MaxCount > 1
  BY PrescaleTypes, PwmAssumption
<1>1. CASE fits = {}
  <2>1. p = MaxPrescale + 1
    BY <1>1 DEF PrescaleFor
  <2>2. MaxPrescale \in P
    BY <1>0
  <2>3. ~ (CountAt(r, f, MaxPrescale) <= MaxCount)
    BY <1>1, <2>2
  <2>4. CountAt(r, f, MaxPrescale) \in Nat
    BY <1>0, CountTypes
  <2> HIDE DEF p
  <2>5. CountAt(r, f, MaxPrescale) \in Nat \ {0}
          /\ CountAt(r, f, MaxPrescale) > MaxCount
    BY <1>0, <2>3, <2>4
  <2>6. p \in 0 .. MaxPrescale + 1 /\ p \in Nat /\ ~ (p <= MaxPrescale)
    BY <1>0, <2>1
  <2> QED
    BY <2>5, <2>6 DEF p
<1>2. CASE fits # {}
  <2>1. PICK n \in fits : \A m \in fits : n <= m
    <3>1. fits \in SUBSET Nat
      BY <1>0
    <3> HIDE DEF fits
    <3> QED
      BY <1>2, <3>1, LeastNumber
  <2>2. p \in fits /\ \A m \in fits : p <= m
    <3>1. p = Min(fits)
      BY <1>2 DEF PrescaleFor
    <3> HIDE DEF fits, p
    <3> QED
      BY <2>1, <3>1 DEF Min
  <2> HIDE DEF p
  <2>3. p \in Nat /\ p \in P /\ CountAt(r, f, p) <= MaxCount
          /\ CountAt(r, f, p) \in Nat
    BY <1>0, <2>2, CountTypes
  <2>4. CountAt(r, f, p) # 0
    <3>1. CASE p = 0
      <4>1. CountAt(r, f, p) = r \div f
        BY <3>1, Pow2Steps DEF CountAt
      <4>2. f \div f <= r \div f
        BY DivisionOrder
      <4>3. f \div f = 1
        BY DivisionIs
      <4>4. r \div f \in Nat
        BY Division
      <4> QED
        BY <4>1, <4>2, <4>3, <4>4
    <3>2. CASE p # 0
      <4> DEFINE o == p - 1  a == r \div Pow2[o]  h == r \div Pow2[p]
      <4>1. o \in Nat /\ o \in P /\ o + 1 = p /\ ~ (p <= o)
        BY <1>0, <2>3, <3>2
      <4>2. ~ (CountAt(r, f, o) <= MaxCount)
        BY <2>2, <4>1
      <4>3. a \div f \in Nat /\ a \in Nat /\ h \in Nat
              /\ a \div f = CountAt(r, f, o)
        BY <2>3, <4>1, CountTypes DEF CountAt
      <4>4. a % 2 \in {0, 1} /\ a = 2 * h + (a % 2)
        BY ZenonT(40), <4>1, NextBit
      <4> HIDE DEF o
      <4>5. a \div f >= 3
        BY <1>0, <4>2, <4>3
      <4> HIDE DEF a, h
      <4>6. f * 3 <= f * (a \div f) /\ f * (a \div f) <= a
        BY <4>3, <4>5, ProductOrder, DivisionDown
      <4>7. f * (a \div f) \in Nat
        BY <4>3
      <4>8. f * 3 <= a
        BY <4>3, <4>6, <4>7
      <4>9. f <= h
        BY <4>3, <4>4, <4>8
      <4>10. f \div f <= h \div f /\ f \div f = 1 /\ h \div f \in Nat
        BY <4>3, <4>9, DivisionOrder, DivisionIs, Division
      <4>11. CountAt(r, f, p) = h \div f
        BY DEF CountAt, h
      <4> QED
        BY <4>10, <4>11
    <3> QED
      BY <3>1, <3>2
  <2>5. p \in 0 .. MaxPrescale + 1 /\ ~ (p > MaxPrescale)
    BY <1>0, <2>3
  <2> QED
    BY <2>3, <2>4, <2>5 DEF p
<1> QED
  BY <1>1, <1>2

-----------------------------------------------------------------------------
\* The invariant.

CfgWords == [scale : SUBSET (0 .. ScaleBits - 1), run : SUBSET {"always",
  "oneshot"},
             center : SUBSET Channels, sticky : BOOLEAN,
               ip : SUBSET (0 .. NCmp - 1)]

\* What PWMCFG holds when no update is under way any more.
ScaleAfter == IF ppc = "idle" THEN pwmcfg.scale ELSE update.scale

RegistersMake(S) == freq # 0 /\ freq = OutputOf(ValueOf(S))

\* The prescaler of the last set_freq is among the bits, others may be too.
SlowedDown(S) ==
  freq # 0 /\ \E p \in 0 .. MaxPrescale : BitsOf(p) \subseteq S
                                          /\ freq = OutputOf(p)

PeriodIsTracked ==
  /\ sets = 0 => freq = 0 /\ pwmcfg.scale = {} /\ ScaleAfter = {}
  /\ sets # 0 => callbacks # 0
  /\ sets = 1 /\ count_val < MaxCount => RegistersMake(ScaleAfter)
  /\ sets # 0 /\ count_val < MaxCount => SlowedDown(ScaleAfter)
  /\ ppc = "pre" => freq <= pwm_goal

DutiesAreTracked == \A k \in due : pwmcmp[k] = Share(duty[k], count_val)

\* No word that is or will be in the register takes back a flag raised.
Keeps(c) == raised \subseteq c.ip /\ (raised # {} => c.sticky)
FlagsAreTracked == Keeps(pwmcfg) /\ (ppc # "idle" => Keeps(update))

PwmTypesInv ==
  /\ PwmTypeOK /\ pwmcfg \in CfgWords /\ update \in CfgWords

PwmInv ==
  /\ PwmTypesInv /\ PeriodIsTracked /\ DutiesAreTracked /\ FlagsAreTracked

LEMMA PwmConstants ==
  /\ MaxCount \in Nat /\ MaxCount > 1 /\ NCmp \in Nat /\ 0 \in 0 .. NCmp - 1
  /\ Channels \subseteq 0 .. NCmp - 1 /\ 0 \notin Channels
  /\ PwmRates \subseteq Nat \ {0} /\ Freqs \subseteq Nat \ {0}
  /\ \A r \in PwmRates, f \in Freqs : f <= r
  /\ Reset \in CfgWords /\ Reset.scale = {}
  BY PwmAssumption DEF Channels, Reset, CfgWords

LEMMA PwmStart == PwmInit => PwmInv
<1> SUFFICES ASSUME PwmInit PROVE PwmInv
  OBVIOUS
<1>1. PwmTypesInv
  <2>1. duty \in [Channels -> 0 .. 100] /\ pwmcmp[0] = 0
                                        /\ DOMAIN pwmcmp = 0 .. NCmp - 1
    BY PwmConstants DEF PwmInit
  <2> QED
    BY <2>1, PwmConstants DEF PwmInit, PwmTypesInv, PwmTypeOK
<1>2. PeriodIsTracked
  BY PwmConstants DEF PwmInit, PeriodIsTracked, ScaleAfter
<1>3. DutiesAreTracked /\ FlagsAreTracked
  BY DEF PwmInit, DutiesAreTracked, FlagsAreTracked, Keeps
<1> QED
  BY <1>1, <1>2, <1>3 DEF PwmInv

\* What set_freq computes from the rate, the frequency and the register.
LEMMA SetFreqWorks ==
  ASSUME NEW c \in CfgWords, NEW r \in Nat, NEW f \in Nat \ {0}, f <= r,
         DOMAIN pwmcmp = 0 .. NCmp - 1, SetFreqFrom(c, r, f)
  PROVE  /\ freq' \in Nat /\ count_val' \in Nat /\ pwmcmp'[0] \in 0 .. MaxCount
         /\ DOMAIN pwmcmp' = 0 .. NCmp - 1
         /\ update' \in CfgWords
         /\ update'.ip = c.ip /\ update'.sticky = c.sticky
         /\ count_val' < MaxCount =>
              \E p \in 0 .. MaxPrescale :
                /\ BitsOf(p) \subseteq update'.scale
                /\ c.scale = {} => ValueOf(update'.scale) = p
                /\ freq' # 0
                /\ freq' = (r \div Pow2[p]) \div (pwmcmp'[0] + 1)
<1> DEFINE p == PrescaleFor(r, f)
           count == CountAt(r, f, IF p > MaxPrescale THEN MaxPrescale ELSE p)
           a == r \div Pow2[p]
<1>0. MaxPrescale \in Nat /\ MaxCount \in Nat /\ MaxCount > 1
        /\ 0 \in 0 .. NCmp - 1
  BY PrescaleTypes, PwmConstants
<1>1. /\ freq' = a \div count /\ count_val' = count - 1
      /\ pwmcmp' = [pwmcmp EXCEPT ![0] = (count - 1) % (MaxCount + 1)]
      /\ update' = [c EXCEPT !.scale = @ \cup BitsOf(p)]
  BY DEF SetFreqFrom
<1>2. /\ p \in Nat /\ p \in 0 .. MaxPrescale + 1
      /\ p <= MaxPrescale => /\ count = CountAt(r, f, p) /\ count \in Nat \ {0}
                             /\ count <= MaxCount
      /\ p > MaxPrescale => count \in Nat \ {0} /\ count > MaxCount
  <2>1. /\ p \in Nat /\ p \in 0 .. MaxPrescale + 1
        /\ p <= MaxPrescale => /\ CountAt(r, f, p) \in Nat \ {0}
                               /\ CountAt(r, f, p) <= MaxCount
        /\ p > MaxPrescale => /\ CountAt(r, f, MaxPrescale) \in Nat \ {0}
                              /\ CountAt(r, f, MaxPrescale) > MaxCount
    BY PrescaleIsSound
  <2> HIDE DEF p
  <2> QED
    BY <1>0, <2>1
<1> HIDE DEF p
<1>3. count \in Nat \ {0}
  BY <1>0, <1>2
<1>4. a \in Nat
  BY <1>2, CountTypes
<1> HIDE DEF count
<1>5. /\ pwmcmp'[0] = (count - 1) % (MaxCount + 1)
      /\ DOMAIN pwmcmp' = 0 .. NCmp - 1
  BY <1>0, <1>1
<1>6. count - 1 \in Nat /\ MaxCount + 1 \in Nat \ {0}
  BY <1>0, <1>3
<1>7. pwmcmp'[0] \in 0 .. MaxCount
  <2> DEFINE m == count - 1  b == MaxCount + 1
  <2>1. m \in Nat /\ b \in Nat \ {0} /\ pwmcmp'[0] = m % b /\ b - 1 = MaxCount
    BY <1>0, <1>5, <1>6
  <2> HIDE DEF m, b
  <2>2. m % b \in 0 .. b - 1
    BY <2>1, Division
  <2> QED
    BY <2>1, <2>2
<1>8. freq' \in Nat
  BY <1>1, <1>3, <1>4, Division
<1>9. /\ update' \in CfgWords /\ update'.ip = c.ip /\ update'.sticky = c.sticky
      /\ c.scale = {} => update'.scale = BitsOf(p)
      /\ BitsOf(p) \subseteq update'.scale
  <2>1. BitsOf(p) \subseteq 0 .. ScaleBits - 1
    BY DEF BitsOf
  <2> QED
    BY <1>1, <2>1 DEF CfgWords
<1>10. ASSUME count_val' < MaxCount
       PROVE  /\ p \in 0 .. MaxPrescale
              /\ c.scale = {} => ValueOf(update'.scale) = p
              /\ freq' # 0
              /\ freq' = (r \div Pow2[p]) \div (pwmcmp'[0] + 1)
  <2>1. p <= MaxPrescale /\ p \in 0 .. MaxPrescale /\ count = CountAt(r, f, p)
    BY <1>0, <1>1, <1>2, <1>3, <1>10
  <2>2. c.scale = {} => ValueOf(update'.scale) = p
    BY <1>9, <2>1, ValueOfBits
  <2>3. count - 1 < MaxCount + 1
    BY <1>0, <1>1, <1>3, <1>10
  <2>4. pwmcmp'[0] = count - 1
    BY <1>5, <1>6, <2>3, SmallDivision
  <2>5. pwmcmp'[0] + 1 = count
    BY <1>3, <2>4
  <2>6. f * count <= a
    <3>1. count = a \div f
      BY <2>1 DEF CountAt
    <3> QED
      BY <1>4, <3>1, DivisionDown
  <2>7. 1 * count <= f * count
    <3>1. count * 1 <= count * f
      BY <1>3, ProductOrder
    <3> QED
      BY <1>3, <3>1
  <2>8. f * count \in Nat
    BY <1>3
  <2> HIDE DEF a
  <2>9. count <= a
    BY <1>3, <1>4, <2>6, <2>7, <2>8
  <2>10. count \div count <= a \div count /\ count \div count = 1
    <3>1. count * 1 + 0 = count /\ 0 \in 0 .. count - 1
      BY <1>3
    <3> QED
      BY <1>3, <1>4, <2>9, <3>1, DivisionOrder, DivisionIs
  <2>11. a \div count \in Nat
    BY <1>3, <1>4, Division
  <2>12. freq' # 0
    BY <1>1, <2>10, <2>11
  <2>13. freq' = (r \div Pow2[p]) \div (pwmcmp'[0] + 1)
    BY <1>1, <2>5 DEF a
  <2> QED
    BY <2>1, <2>2, <2>12, <2>13
<1> QED
  BY <1>1, <1>6, <1>5, <1>7, <1>8, <1>9, <1>10

\* The operations that change and write PWMCFG and nothing that the period or a
\* duty cycle depends on.
LEMMA UpdatesAreSound ==
  ASSUME PwmInv, UNCHANGED Others, ppc = "idle",
         pwmcfg' = pwmcfg, ppc' = "write", update' \in CfgWords,
         update'.scale = pwmcfg.scale, raised' \subseteq raised,
         raised' \subseteq update'.ip, raised' # {} => update'.sticky
  PROVE  PwmInv'
<1>0. UNCHANGED <<pwm_rate, freq, count_val, duty, pwmcmp, pwm_goal,
        callbacks, sets, due>>
  BY DEF Others
<1>1. PwmTypesInv'
  BY <1>0 DEF PwmInv, PwmTypesInv, PwmTypeOK, CfgWords
<1>2. PeriodIsTracked'
  BY <1>0 DEF PwmInv, PeriodIsTracked, ScaleAfter, RegistersMake, SlowedDown,
           OutputOf
<1>3. DutiesAreTracked'
  BY <1>0 DEF PwmInv, DutiesAreTracked
<1>4. FlagsAreTracked'
  BY DEF PwmInv, FlagsAreTracked, Keeps
<1> QED
  BY <1>1, <1>2, <1>3, <1>4 DEF PwmInv

LEMMA PwmStep == PwmInv /\ [PwmNext]_pwmVars => PwmInv'
<1> SUFFICES ASSUME PwmInv, [PwmNext]_pwmVars PROVE PwmInv'
  OBVIOUS
<1>0. /\ PwmTypeOK /\ pwmcfg \in CfgWords /\ update \in CfgWords
      /\ PeriodIsTracked /\ DutiesAreTracked /\ FlagsAreTracked
  BY DEF PwmInv, PwmTypesInv
<1>1. /\ freq \in Nat /\ pwm_rate \in PwmRates /\ pwm_goal \in PwmRates
      /\ DOMAIN pwmcmp = 0 .. NCmp - 1 /\ count_val \in Nat
      /\ PwmRates \subseteq Nat \ {0} /\ Freqs \subseteq Nat \ {0}
  BY <1>0, PwmConstants DEF PwmTypeOK
<1>2. Written(update) \in CfgWords /\ Written(update).scale = update.scale
  BY <1>0 DEF Written, CfgWords
<1>3. ppc # "idle" => Keeps(Written(update))
  BY <1>0 DEF Written, CfgWords, FlagsAreTracked, Keeps
<1>4. CASE Write
  <2>1. /\ ppc = "write" /\ ppc' = "idle" /\ pwmcfg' = Written(update)
        /\ update' = Reset
        /\ UNCHANGED <<pwm_rate, freq, count_val, duty, pwmcmp, pwm_goal,
             callbacks,
                       sets, due, raised>>
    BY <1>4 DEF Write
  <2>2. PwmTypesInv'
    BY <1>0, <1>2, <2>1, PwmConstants DEF PwmTypesInv, PwmTypeOK, CfgWords
  <2>3. PeriodIsTracked'
    BY <1>0, <1>2, <2>1 DEF PeriodIsTracked, ScaleAfter, RegistersMake, SlowedDown,
           OutputOf
  <2>4. DutiesAreTracked'
    BY <1>0, <2>1 DEF DutiesAreTracked
  <2>5. FlagsAreTracked'
    BY <1>3, <2>1 DEF FlagsAreTracked, Keeps
  <2> QED
    BY <2>2, <2>3, <2>4, <2>5 DEF PwmInv
<1>5. CASE Enable
  <2>1. /\ ppc = "idle" /\ pwmcfg' = Reset /\ freq' = 0 /\ count_val' = 0
        /\ sets' = 0 /\ due' = {} /\ raised' = {}
        /\ UNCHANGED <<ppc, update, pwm_rate, duty, pwmcmp, pwm_goal,
             callbacks>>
    BY <1>5 DEF Enable
  <2>2. PwmTypesInv'
    BY <1>0, <2>1, PwmConstants DEF PwmTypesInv, PwmTypeOK, CfgWords
  <2>3. PeriodIsTracked'
    BY <2>1, PwmConstants DEF PeriodIsTracked, ScaleAfter
  <2>4. DutiesAreTracked' /\ FlagsAreTracked'
    BY <2>1 DEF DutiesAreTracked, FlagsAreTracked, Keeps
  <2> QED
    BY <2>2, <2>3, <2>4 DEF PwmInv
<1>6. CASE SetFreq
  <2>1. PICK f \in Freqs : SetFreqFrom(pwmcfg, pwm_rate, f)
    BY <1>6 DEF SetFreq
  <2>2. /\ ppc = "idle" /\ ppc' = "write" /\ due' = {}
        /\ callbacks' = IF freq = 0 /\ callbacks < 2 THEN callbacks + 1
             ELSE callbacks
        /\ sets' = IF sets = 0 THEN 1 ELSE 2
        /\ UNCHANGED <<pwmcfg, pwm_rate, duty, pwm_goal, raised>>
    BY <1>6 DEF SetFreq
  <2>3. f <= pwm_rate /\ pwm_rate \in Nat /\ f \in Nat \ {0}
    BY <1>1, PwmConstants
  <2>4. /\ freq' \in Nat /\ count_val' \in Nat /\ pwmcmp'[0] \in 0 .. MaxCount
        /\ DOMAIN pwmcmp' = 0 .. NCmp - 1
        /\ update' \in CfgWords
        /\ update'.ip = pwmcfg.ip /\ update'.sticky = pwmcfg.sticky
        /\ count_val' < MaxCount =>
             \E p \in 0 .. MaxPrescale :
               /\ BitsOf(p) \subseteq update'.scale
               /\ pwmcfg.scale = {} => ValueOf(update'.scale) = p
               /\ freq' # 0
               /\ freq' = (pwm_rate \div Pow2[p]) \div (pwmcmp'[0] + 1)
    BY <1>0, <1>1, <2>1, <2>3, SetFreqWorks
  <2>5. PwmTypesInv'
    <3>1. callbacks' \in 0 .. 2 /\ sets' \in 0 .. 2
      BY <1>0, <2>2 DEF PwmTypeOK
    <3>2. update'.scale \subseteq 0 .. ScaleBits - 1
      BY <2>4 DEF CfgWords
    <3> QED
      BY <1>0, <2>2, <2>4, <3>1, <3>2 DEF PwmTypesInv, PwmTypeOK
  <2>6. PeriodIsTracked'
    <3>1. sets' # 0 /\ callbacks' # 0
      BY <1>0, <2>2 DEF PwmTypeOK, PeriodIsTracked
    <3>2. sets' = 1 => pwmcfg.scale = {}
      BY <1>0, <2>2 DEF PeriodIsTracked
    <3>3. sets' = 1 /\ count_val' < MaxCount => RegistersMake(ScaleAfter)'
      BY <2>2, <2>4, <3>2 DEF RegistersMake, ScaleAfter, OutputOf
    <3>4. count_val' < MaxCount => SlowedDown(ScaleAfter)'
      BY <2>2, <2>4 DEF SlowedDown, ScaleAfter, OutputOf
    <3> QED
      BY <2>2, <3>1, <3>3, <3>4 DEF PeriodIsTracked
  <2>7. DutiesAreTracked'
    BY <2>2 DEF DutiesAreTracked
  <2>8. FlagsAreTracked'
    BY <1>0, <2>2, <2>4 DEF FlagsAreTracked, Keeps
  <2> QED
    BY <2>5, <2>6, <2>7, <2>8 DEF PwmInv
<1>7. CASE SetDuty
  <2>1. PICK k \in Channels, d \in {d \in Duties : d <= 100},
          centre \in BOOLEAN :
          /\ pwmcmp' = [pwmcmp EXCEPT ![k] = Share(d, count_val)]
          /\ duty' = [duty EXCEPT ![k] = d]
          /\ due' = due \cup {k}
          /\ update' = [pwmcfg EXCEPT !.center = IF centre
               THEN @ \cup {k} ELSE @ \ {k}]
          /\ ppc' = "write" /\ pwmcfg' = pwmcfg
    BY <1>7 DEF SetDuty, Update
  <2>2. /\ ppc = "idle"
        /\ UNCHANGED <<pwm_rate, freq, count_val, pwm_goal, callbacks, sets,
             raised>>
    BY <1>7 DEF SetDuty
  <2>3. k \in 0 .. NCmp - 1 /\ k # 0 /\ d \in 0 .. 100
    BY PwmConstants, PwmAssumption
  <2>4. pwmcmp'[0] = pwmcmp[0] /\ DOMAIN pwmcmp' = 0 .. NCmp - 1
    BY <1>1, <2>1, <2>3, PwmConstants
  <2>5. /\ update' \in CfgWords /\ update'.scale = pwmcfg.scale
        /\ update'.ip = pwmcfg.ip /\ update'.sticky = pwmcfg.sticky
    BY <1>0, <2>1 DEF CfgWords
  <2>6. PwmTypesInv'
    <3>1. duty' \in [Channels -> 0 .. 100] /\ due' \subseteq Channels
      BY <1>0, <2>1, <2>3 DEF PwmTypeOK
    <3> QED
      BY <1>0, <2>1, <2>2, <2>4, <2>5, <3>1
         DEF PwmTypesInv, PwmTypeOK, CfgWords
  <2>7. PeriodIsTracked'
    BY <1>0, <2>1, <2>2, <2>4, <2>5
       DEF PeriodIsTracked, ScaleAfter, RegistersMake, SlowedDown,
           OutputOf
  <2>8. DutiesAreTracked'
    <3>1. due \subseteq Channels /\ duty \in [Channels -> 0 .. 100]
      BY <1>0 DEF PwmTypeOK
    <3>2. ASSUME NEW j \in due' PROVE pwmcmp'[j] = Share(duty'[j], count_val')
      <4>1. CASE j = k
        <5>1. pwmcmp'[k] = Share(d, count_val) /\ duty'[k] = d
          BY <1>1, <2>1, <2>3, <3>1
        <5> QED
          BY <2>2, <4>1, <5>1
      <4>2. CASE j # k
        <5>1. j \in due /\ j \in Channels /\ j \in 0 .. NCmp - 1
          BY <2>1, <3>1, <3>2, <4>2, PwmConstants
        <5>2. pwmcmp'[j] = pwmcmp[j] /\ duty'[j] = duty[j]
          BY <1>1, <2>1, <3>1, <4>2, <5>1
        <5> QED
          BY <1>0, <2>2, <5>1, <5>2 DEF DutiesAreTracked
      <4> QED
        BY <4>1, <4>2
    <3> QED
      BY <3>2 DEF DutiesAreTracked
  <2>9. FlagsAreTracked'
    BY <1>0, <2>1, <2>2, <2>5 DEF FlagsAreTracked, Keeps
  <2> QED
    BY <2>6, <2>7, <2>8, <2>9 DEF PwmInv
<1>8. CASE Trigger
  <2>1. PICK mode \in {"always", "oneshot"} :
          Update([pwmcfg EXCEPT !.run = @ \cup {mode}])
    BY <1>8 DEF Trigger
  <2>2. /\ update' \in CfgWords /\ update'.scale = pwmcfg.scale
        /\ update'.ip = pwmcfg.ip /\ update'.sticky = pwmcfg.sticky
    BY <1>0, <2>1 DEF Update, CfgWords
  <2>3. ppc = "idle" /\ UNCHANGED Others /\ raised' = raised
                     /\ ppc' = "write" /\ pwmcfg' = pwmcfg
    BY <1>8, <2>1 DEF Trigger, Update
  <2> QED
    BY <1>0, <2>2, <2>3, UpdatesAreSound DEF FlagsAreTracked, Keeps
<1>9. CASE Stop
  <2>1. Update(Stopped(pwmcfg))
    BY <1>9 DEF Stop
  <2>2. /\ update' \in CfgWords /\ update'.scale = pwmcfg.scale
        /\ update'.ip = pwmcfg.ip /\ update'.sticky = pwmcfg.sticky
    BY <1>0, <2>1 DEF Update, CfgWords, Stopped
  <2>3. ppc = "idle" /\ UNCHANGED Others /\ raised' = raised
                     /\ ppc' = "write" /\ pwmcfg' = pwmcfg
    BY <1>9, <2>1 DEF Stop, Update
  <2> QED
    BY <1>0, <2>2, <2>3, UpdatesAreSound DEF FlagsAreTracked, Keeps
<1>10. CASE CfgInterrupt
  <2>1. PICK on \in BOOLEAN :
          /\ Update([pwmcfg EXCEPT !.sticky = on])
          /\ raised' = IF on THEN raised ELSE {}
    BY <1>10 DEF CfgInterrupt
  <2>2. /\ update' \in CfgWords /\ update'.scale = pwmcfg.scale
        /\ update'.ip = pwmcfg.ip /\ update'.sticky = on
    BY <1>0, <2>1 DEF Update, CfgWords
  <2>3. ppc = "idle" /\ UNCHANGED Others /\ ppc' = "write" /\ pwmcfg' = pwmcfg
    BY <1>10, <2>1 DEF CfgInterrupt, Update
  <2>4. raised' \subseteq raised /\ (raised' # {}
          => on) /\ raised' \subseteq update'.ip
    BY <1>0, <2>1, <2>2 DEF FlagsAreTracked, Keeps
  <2> QED
    BY <2>2, <2>3, <2>4, UpdatesAreSound
<1>11. CASE ClrInterrupt
  <2>1. PICK k \in 0 .. NCmp - 1 :
          /\ Update([pwmcfg EXCEPT !.ip = @ \ {k}])
          /\ raised' = raised \ {k}
    BY <1>11 DEF ClrInterrupt
  <2>2. /\ update' \in CfgWords /\ update'.scale = pwmcfg.scale
        /\ update'.ip = pwmcfg.ip \ {k} /\ update'.sticky = pwmcfg.sticky
    BY <1>0, <2>1 DEF Update, CfgWords
  <2>3. ppc = "idle" /\ UNCHANGED Others /\ ppc' = "write" /\ pwmcfg' = pwmcfg
    BY <1>11, <2>1 DEF ClrInterrupt, Update
  <2>4. /\ raised' \subseteq raised /\ (raised' # {} => update'.sticky)
        /\ raised' \subseteq update'.ip
    BY <1>0, <2>1, <2>2 DEF FlagsAreTracked, Keeps
  <2> QED
    BY <2>2, <2>3, <2>4, UpdatesAreSound
<1>12. CASE PwmClockChange
  <2>1. PICK r \in PwmRates :
          /\ freq <= r /\ pwm_goal' = r
          /\ IF callbacks = 0
               THEN pwm_rate' = r /\ UNCHANGED <<ppc, update>>
               ELSE /\ update' = Stopped(pwmcfg)
                    /\ ppc' = IF callbacks = 1 THEN "pre" ELSE "forever"
                    /\ UNCHANGED pwm_rate
    BY <1>12 DEF PwmClockChange
  <2>2. /\ ppc = "idle"
        /\ UNCHANGED <<freq, count_val, duty, pwmcmp, pwmcfg, callbacks, sets,
             due, raised>>
    BY <1>12 DEF PwmClockChange
  <2>3. /\ Stopped(pwmcfg) \in CfgWords /\ Stopped(pwmcfg).scale = pwmcfg.scale
        /\ Stopped(pwmcfg).ip = pwmcfg.ip
        /\ Stopped(pwmcfg).sticky = pwmcfg.sticky
    BY <1>0 DEF Stopped, CfgWords
  <2>4. PwmTypesInv'
    BY <1>0, <2>1, <2>2, <2>3 DEF PwmTypesInv, PwmTypeOK, CfgWords
  <2>5. PeriodIsTracked'
    <3>1. CASE callbacks = 0
      BY <1>0, <2>1, <2>2, <3>1 DEF PwmTypeOK, PeriodIsTracked, ScaleAfter
    <3>2. CASE callbacks # 0
      BY <1>0, <2>1, <2>2, <2>3, <3>2
         DEF PeriodIsTracked, ScaleAfter, RegistersMake, SlowedDown,
           OutputOf
    <3> QED
      BY <3>1, <3>2
  <2>6. DutiesAreTracked'
    BY <1>0, <2>2 DEF DutiesAreTracked
  <2>7. FlagsAreTracked'
    BY <1>0, <2>1, <2>2, <2>3 DEF FlagsAreTracked, Keeps
  <2> QED
    BY <2>4, <2>5, <2>6, <2>7 DEF PwmInv
<1>13. CASE PreDone
  <2>1. /\ ppc = "pre" /\ pwmcfg' = Written(update) /\ pwm_rate' = pwm_goal
        /\ UNCHANGED <<duty, pwm_goal, callbacks, raised>>
    BY <1>13 DEF PreDone
  <2>2. CASE freq = 0
    <3>1. /\ ppc' = "idle" /\ update' = Reset
          /\ UNCHANGED <<freq, count_val, pwmcmp, sets, due>>
      BY <1>13, <2>2 DEF PreDone
    <3>2. PwmTypesInv'
      BY <1>0, <1>2, <2>1, <3>1, PwmConstants
         DEF PwmTypesInv, PwmTypeOK, CfgWords
    <3>3. PeriodIsTracked'
      BY <1>0, <1>2, <2>1, <2>2, <3>1
         DEF PeriodIsTracked, ScaleAfter, RegistersMake, SlowedDown,
           OutputOf
    <3>4. DutiesAreTracked'
      BY <1>0, <2>1, <3>1 DEF DutiesAreTracked
    <3>5. FlagsAreTracked'
      BY <1>3, <2>1, <3>1 DEF FlagsAreTracked, Keeps
    <3> QED
      BY <3>2, <3>3, <3>4, <3>5 DEF PwmInv
  <2>3. CASE freq # 0
    <3>1. /\ SetFreqFrom(pwmcfg', pwm_goal, freq)
          /\ ppc' = "post" /\ sets' = 2 /\ due' = {}
      BY <1>13, <2>3 DEF PreDone
    <3>2. freq <= pwm_goal /\ pwm_goal \in Nat /\ freq \in Nat \ {0}
      BY <1>0, <1>1, <2>1, <2>3 DEF PeriodIsTracked
    <3> DEFINE c == Written(update)
    <3>3. c \in CfgWords /\ SetFreqFrom(c, pwm_goal, freq)
      BY <1>2, <2>1, <3>1
    <3>4. Keeps(c)
      BY <1>3, <2>1
    <3>5. pwmcfg' = c
      BY <2>1
    <3> HIDE DEF c
    <3>6. /\ freq' \in Nat /\ count_val' \in Nat
          /\ pwmcmp'[0] \in 0 .. MaxCount
          /\ DOMAIN pwmcmp' = 0 .. NCmp - 1
          /\ update' \in CfgWords
          /\ update'.ip = c.ip /\ update'.sticky = c.sticky
          /\ count_val' < MaxCount =>
               \E p \in 0 .. MaxPrescale :
                 /\ BitsOf(p) \subseteq update'.scale
                 /\ freq' # 0
                 /\ freq' = (pwm_goal \div Pow2[p]) \div (pwmcmp'[0] + 1)
      BY <1>1, <3>2, <3>3, SetFreqWorks
    <3>7. PwmTypesInv'
      <4>1. update'.scale \subseteq 0 .. ScaleBits - 1
              /\ c.scale \subseteq 0 .. ScaleBits - 1
        BY <3>3, <3>6 DEF CfgWords
      <4> QED
        BY SMTT(30), <1>0, <2>1, <3>1, <3>3, <3>5, <3>6, <4>1 DEF PwmTypesInv, PwmTypeOK
    <3>8. PeriodIsTracked'
      <4>1. sets # 0 /\ callbacks # 0
        BY <1>0, <2>3 DEF PeriodIsTracked
      <4>2. count_val' < MaxCount => SlowedDown(ScaleAfter)'
        BY <2>1, <3>1, <3>6 DEF SlowedDown, ScaleAfter, OutputOf
      <4> QED
        BY <2>1, <3>1, <4>1, <4>2 DEF PeriodIsTracked
    <3>9. DutiesAreTracked'
      BY <3>1 DEF DutiesAreTracked
    <3>10. FlagsAreTracked'
      BY <2>1, <3>4, <3>5, <3>6 DEF FlagsAreTracked, Keeps
    <3> QED
      BY <3>7, <3>8, <3>9, <3>10 DEF PwmInv
  <2> QED
    BY <2>2, <2>3
<1>14. CASE PostDone
  <2>1. /\ ppc = "post" /\ pwmcfg' = Written(update) /\ ppc' = "idle"
        /\ update' = Reset
        /\ pwmcmp' = [k \in 0 .. NCmp - 1 |->
                        IF k # 0 /\ duty[k] # 0 THEN Share(duty[k], count_val)
                                                ELSE pwmcmp[k]]
        /\ due' = {k \in Channels : duty[k] # 0}
        /\ UNCHANGED <<pwm_rate, freq, count_val, duty, pwm_goal, callbacks,
             sets, raised>>
    BY <1>14 DEF PostDone
  <2>2. pwmcmp'[0] = pwmcmp[0] /\ DOMAIN pwmcmp' = 0 .. NCmp - 1
    BY <2>1, PwmConstants
  <2>3. PwmTypesInv'
    BY <1>0, <1>2, <2>1, <2>2, PwmConstants
       DEF PwmTypesInv, PwmTypeOK, CfgWords
  <2>4. PeriodIsTracked'
    BY <1>0, <1>2, <2>1, <2>2 DEF PeriodIsTracked, ScaleAfter, RegistersMake, SlowedDown,
           OutputOf
  <2>5. DutiesAreTracked'
    BY <2>1, PwmConstants DEF DutiesAreTracked
  <2>6. FlagsAreTracked'
    BY <1>3, <2>1 DEF FlagsAreTracked, Keeps
  <2> QED
    BY <2>3, <2>4, <2>5, <2>6 DEF PwmInv
<1>15. CASE ShotEnds
  <2>1. /\ pwmcfg' = [pwmcfg EXCEPT !.run = @ \ {"oneshot"}]
        /\ UNCHANGED <<ppc, update, raised, pwm_rate, freq, count_val, duty,
             pwmcmp,
                       pwm_goal, callbacks, sets, due>>
    BY <1>15 DEF ShotEnds, Others
  <2>2. /\ pwmcfg' \in CfgWords /\ pwmcfg'.scale = pwmcfg.scale
        /\ pwmcfg'.ip = pwmcfg.ip /\ pwmcfg'.sticky = pwmcfg.sticky
    BY <1>0, <2>1 DEF CfgWords
  <2>3. PwmTypesInv'
    BY <1>0, <2>1, <2>2 DEF PwmTypesInv, PwmTypeOK, CfgWords
  <2>4. PeriodIsTracked'
    BY <1>0, <2>1, <2>2 DEF PeriodIsTracked, ScaleAfter, RegistersMake, SlowedDown,
           OutputOf
  <2>5. DutiesAreTracked' /\ FlagsAreTracked'
    BY <1>0, <2>1, <2>2 DEF DutiesAreTracked, FlagsAreTracked, Keeps
  <2> QED
    BY <2>3, <2>4, <2>5 DEF PwmInv
<1>16. ASSUME NEW k \in 0 .. NCmp - 1, Match(k) PROVE PwmInv'
  <2>1. /\ pwmcfg.sticky /\ pwmcfg' = [pwmcfg EXCEPT !.ip = @ \cup {k}]
        /\ raised' = IF ppc = "idle" THEN raised \cup {k} ELSE raised
        /\ UNCHANGED <<ppc, update, pwm_rate, freq, count_val, duty, pwmcmp,
                       pwm_goal, callbacks, sets, due>>
    BY <1>16 DEF Match, Others
  <2>2. /\ pwmcfg' \in CfgWords /\ pwmcfg'.scale = pwmcfg.scale
        /\ pwmcfg'.ip = pwmcfg.ip \cup {k} /\ pwmcfg'.sticky = pwmcfg.sticky
    BY <1>0, <2>1 DEF CfgWords
  <2>3. PwmTypesInv'
    BY <1>0, <2>1, <2>2 DEF PwmTypesInv, PwmTypeOK, CfgWords
  <2>4. PeriodIsTracked'
    BY <1>0, <2>1, <2>2 DEF PeriodIsTracked, ScaleAfter, RegistersMake, SlowedDown,
           OutputOf
  <2>5. DutiesAreTracked'
    BY <1>0, <2>1 DEF DutiesAreTracked
  <2>6. FlagsAreTracked'
    BY <1>0, <2>1, <2>2 DEF FlagsAreTracked, Keeps
  <2> QED
    BY <2>3, <2>4, <2>5, <2>6 DEF PwmInv
<1>17. CASE UNCHANGED pwmVars
  <2>1. UNCHANGED <<pwm_rate, freq, count_val, duty, pwmcmp, pwmcfg, ppc,
          update, raised,
                    pwm_goal, callbacks, sets, due>>
    BY <1>17 DEF pwmVars, regs
  <2>2. PwmTypesInv'
    BY <1>0, <2>1 DEF PwmTypesInv, PwmTypeOK, CfgWords
  <2>3. PeriodIsTracked'
    BY <1>0, <2>1 DEF PeriodIsTracked, ScaleAfter, RegistersMake, SlowedDown,
           OutputOf
  <2>4. DutiesAreTracked' /\ FlagsAreTracked'
    BY <1>0, <2>1 DEF DutiesAreTracked, FlagsAreTracked, Keeps
  <2> QED
    BY <2>2, <2>3, <2>4 DEF PwmInv
<1> QED
  BY <1>4, <1>5, <1>6, <1>7, <1>8, <1>9, <1>10, <1>11, <1>12, <1>13, <1>14,
     <1>15,
     <1>16, <1>17 DEF PwmNext

LEMMA PwmInvHolds == PwmSpec => []PwmInv
  BY PwmStart, PwmStep, PTL DEF PwmSpec

\* For any width of the prescaler and the counter, any rates and any calls of
\* sifive_pwm0.c: while no update is under way the output is never faster than
\* the frequency reported, however often that was set and the clock changed,
\* and exactly as fast after the first set_freq; a duty cycle set since has its
\* share of the period; no flag is lost but one raised between the read and the
\* write of an update; and the variables keep their types.
THEOREM OutputCorrect == PwmSpec => [](PwmTypeOK /\ OutputIsSound)
<1>1. PwmInv => PwmTypeOK
  BY DEF PwmInv, PwmTypesInv
<1>2. PwmInv => OutputIsSound
  <2> SUFFICES ASSUME PwmInv PROVE OutputIsSound
    OBVIOUS
  <2>1. FlagsAreKept
    BY DEF PwmInv, FlagsAreTracked, Keeps, FlagsAreKept
  <2>2. OutputIsAsReported
    <3> SUFFICES ASSUME ppc = "idle" PROVE OutputIsAsReported
      BY DEF OutputIsAsReported
    <3>1. /\ sets = 1 /\ count_val < MaxCount => freq = OutputOf(Prescale)
          /\ \A k \in due : pwmcmp[k] = Share(duty[k], count_val)
      BY DEF PwmInv, PeriodIsTracked, DutiesAreTracked, RegistersMake,
             ScaleAfter, Prescale
    <3>2. ASSUME sets # 0, count_val < MaxCount, NEW q \in 0 .. MaxPrescale,
                 BitsOf(q) = pwmcfg.scale
          PROVE  OutputOf(q) <= freq
      <4>1. PICK p \in 0 .. MaxPrescale :
              BitsOf(p) \subseteq BitsOf(q) /\ freq = OutputOf(p)
        BY <3>2 DEF PwmInv, PeriodIsTracked, SlowedDown, ScaleAfter
      <4>2. p <= q /\ p \in Nat /\ q \in Nat
        BY <4>1, BitsOrder, PrescaleTypes
      <4> DEFINE a == Pow2[p]  b == Pow2[q]  c == pwmcmp[0] + 1
      <4>3. a \in Nat \ {0} /\ b \in Nat \ {0} /\ a <= b
        BY <4>2, Pow2Types, Pow2Order
      <4>4. c \in Nat \ {0} /\ pwm_rate \in Nat
        BY PwmConstants DEF PwmInv, PwmTypesInv, PwmTypeOK
      <4>5. OutputOf(p) = (pwm_rate \div a) \div c
              /\ OutputOf(q) = (pwm_rate \div b) \div c
        BY DEF OutputOf
      <4> HIDE DEF a, b, c
      <4>6. /\ pwm_rate \div b <= pwm_rate \div a
            /\ pwm_rate \div a \in Nat /\ pwm_rate \div b \in Nat
        BY <4>3, <4>4, DivisorOrder, Division
      <4>7. (pwm_rate \div b) \div c <= (pwm_rate \div a) \div c
        BY <4>4, <4>6, DivisionOrder
      <4> QED
        BY <4>1, <4>5, <4>7
    <3> QED
      BY <3>1, <3>2 DEF OutputIsAsReported
  <2> QED
    BY <2>1, <2>2 DEF OutputIsSound
<1> QED
  BY <1>1, <1>2, PwmInvHolds, PTL

-----------------------------------------------------------------------------
(* The watchdog: Watchdog.                                                 *)

WdogFlags == {"enalways", "coreawake", "rsten", "zerocmp"}

\* What a write that a call still has to make may be.
Planned(w, T, R) ==
  /\ w.op \in {"clear", "set", "scale", "compare", "feed"}
  /\ w.op = "set" => /\ w.arg \subseteq WdogFlags
                     /\ "rsten" \in w.arg => "full_reset" \in R
  /\ w.op = "scale" => w.arg \in 0 .. ScaleMask
  /\ w.op = "compare" => w.arg \in T

PlanIsLegal == \A n \in 1 .. Len(plan) : Planned(plan[n], timeout, wdog_result)

\* The history variables tell what the registers hold.
RegistersAreInForce ==
  /\ since = wdogcount
  /\ wdogcmp \in timeout
  /\ "rsten" \in bits => "full_reset" \in wdog_result

\* The scale is one that was accepted, but between the writes of set_rate.
NoScale(p) == \A n \in 1 .. Len(p) : p[n].op # "scale"

ScaleIsInForce ==
  \/ scale \in scales /\ NoScale(plan)
  \/ \E k \in scales : /\ plan = <<Scale(0), Scale(k)>> /\ scale \in scales
  \/ \E k \in scales : /\ plan = <<Scale(k)>> /\ scale \in scales \cup {0}

WdogInv ==
  /\ WdogTypeOK
  /\ \E S : plan \in Seq(S)
  /\ PlanIsLegal /\ RegistersAreInForce /\ ScaleIsInForce

LEMMA WdogStart == WdogInit => WdogInv
<1> SUFFICES ASSUME WdogInit PROVE WdogInv
  OBVIOUS
<1>1. plan \in Seq({}) /\ Len(plan) = 0
  BY EmptySeq DEF WdogInit
<1>2. WdogTypeOK
  BY <1>1, WatchdogAssumption DEF WdogInit, WdogTypeOK, Results
<1>3. PlanIsLegal /\ RegistersAreInForce /\ ScaleIsInForce
  BY <1>1
     DEF WdogInit, PlanIsLegal, RegistersAreInForce, ScaleIsInForce, NoScale
<1> QED
  BY <1>1, <1>2, <1>3 DEF WdogInv

\* The search of set_rate finds a scale.
LEMMA ClosestIsScale ==
  ASSUME NEW r \in Nat
  PROVE  ClosestScale(r) \in 0 .. ScaleMask
<1> DEFINE K == 0 .. ScaleMask - 1
           V == {Off(r, k) : k \in K}
           least == {k \in K : \A j \in K : Off(r, k) <= Off(r, j)}
<1>1. ScaleMask \in Nat /\ 0 \in K /\ K \subseteq Nat
  BY WatchdogAssumption
<1>2. ASSUME NEW k \in K PROVE Off(r, k) \in Nat
  <2> DEFINE new == ClockRate \div Pow2[k]
  <2>1. Pow2[k] \in Nat \ {0} /\ ClockRate \in Nat
    BY Pow2Types, <1>1, WatchdogAssumption
  <2>2. new \in Nat
    BY <2>1
  <2> HIDE DEF new
  <2>3. (IF r < new THEN new - r ELSE r - new) \in Nat
    BY <2>2
  <2> QED
    BY <2>3 DEF Off, new
<1>3. V \in SUBSET Nat /\ V # {}
  BY <1>1, <1>2
<1>4. PICK v \in V : \A w \in V : v <= w
  <2> HIDE DEF V
  <2> QED
    BY <1>3, LeastNumber
<1>5. least \in SUBSET Nat /\ least # {}
  BY <1>1, <1>4
<1>6. PICK k \in least : \A j \in least : k <= j
  <2> HIDE DEF least
  <2> QED
    BY <1>5, LeastNumber
<1>7. Min(least) \in least
  <2> HIDE DEF least
  <2> QED
    BY <1>6 DEF Min
<1> QED
  BY <1>1, <1>7 DEF ClosestScale

\* Sequences of writes.
IsPlan(p) == \E S : p \in Seq(S)

LEMMA ShortPlans ==
  ASSUME NEW v, NEW w
  PROVE  /\ IsPlan(<<v>>) /\ Len(<<v>>) = 1 /\ <<v>>[1] = v
         /\ IsPlan(<<v, w>>) /\ Len(<<v, w>>) = 2
         /\ <<v, w>>[1] = v /\ <<v, w>>[2] = w
<1>1. <<v>> \in Seq({v, w}) /\ <<v, w>> \in Seq({v, w})
  OBVIOUS
<1>2. IsPlan(<<v>>) /\ IsPlan(<<v, w>>)
  BY <1>1 DEF IsPlan
<1>3. Len(<<v>>) = 1 /\ Len(<<v, w>>) = 2
  OBVIOUS
<1>4. <<v>>[1] = v /\ <<v, w>>[1] = v /\ <<v, w>>[2] = w
  OBVIOUS
<1> QED
  BY <1>2, <1>3, <1>4

LEMMA LongPlan ==
  ASSUME NEW u, NEW v, NEW w
  PROVE  /\ IsPlan(<<u, v, w>>) /\ Len(<<u, v, w>>) = 3
         /\ <<u, v, w>>[1] = u /\ <<u, v, w>>[2] = v /\ <<u, v, w>>[3] = w
<1>1. <<u, v, w>> \in Seq({u, v, w})
  OBVIOUS
<1>2. IsPlan(<<u, v, w>>)
  BY <1>1 DEF IsPlan
<1>3. /\ Len(<<u, v, w>>) = 3 /\ <<u, v, w>>[1] = u /\ <<u, v, w>>[2] = v
      /\ <<u, v, w>>[3] = w
  OBVIOUS
<1> QED
  BY <1>2, <1>3

LEMMA AddNothing == ASSUME NEW u PROVE <<u>> \o <<>> = <<u>>
<1>1. <<u>> \in Seq({u})
  OBVIOUS
<1> QED
  BY <1>1, ConcatEmptySeq

LEMMA AddOne == ASSUME NEW u, NEW v PROVE <<u>> \o <<v>> = <<u, v>>
<1> DEFINE s == <<u>>  t == <<v>>  q == <<u, v>>
<1>1. /\ s \in Seq({u, v}) /\ Len(s) = 1 /\ s[1] = u
      /\ t \in Seq({u, v}) /\ Len(t) = 1 /\ t[1] = v
      /\ q \in Seq({u, v}) /\ Len(q) = 2 /\ q[1] = u /\ q[2] = v
  OBVIOUS
<1> HIDE DEF s, t, q
<1> DEFINE p == s \o t
<1>2. /\ p \in Seq({u, v}) /\ Len(p) = 1 + 1
      /\ \A m \in 1 .. 1 + 1 : p[m] = IF m <= 1 THEN s[m] ELSE t[m - 1]
  BY <1>1, ConcatProperties
<1> HIDE DEF p
<1>3. Len(p) = Len(q) /\ \A m \in 1 .. Len(p) : p[m] = q[m]
  BY <1>1, <1>2
<1>4. p = q
  BY <1>1, <1>2, <1>3, SeqEqual
<1> QED
  BY <1>4 DEF p, q, s, t

LEMMA AddTwo ==
  ASSUME NEW u, NEW v, NEW w PROVE <<u>> \o <<v, w>> = <<u, v, w>>
<1> DEFINE s == <<u>>  t == <<v, w>>  q == <<u, v, w>>  S == {u, v, w}
<1>1. /\ s \in Seq(S) /\ Len(s) = 1 /\ s[1] = u
      /\ t \in Seq(S) /\ Len(t) = 2 /\ t[1] = v /\ t[2] = w
      /\ q \in Seq(S) /\ Len(q) = 3 /\ q[1] = u /\ q[2] = v /\ q[3] = w
  OBVIOUS
<1> HIDE DEF s, t, q, S
<1> DEFINE p == s \o t
<1>2. /\ p \in Seq(S) /\ Len(p) = 1 + 2
      /\ \A m \in 1 .. 1 + 2 : p[m] = IF m <= 1 THEN s[m] ELSE t[m - 1]
  <2>1. /\ p \in Seq(S) /\ Len(p) = Len(s) + Len(t)
        /\ \A m \in 1 .. Len(s) + Len(t) :
             p[m] = IF m <= Len(s) THEN s[m] ELSE t[m - Len(s)]
    BY <1>1, ConcatProperties
  <2> HIDE DEF p
  <2> QED
    BY <1>1, <2>1
<1> HIDE DEF p
<1>3. Len(p) = Len(q) /\ \A m \in 1 .. Len(p) : p[m] = q[m]
  BY <1>1, <1>2
<1>4. p = q
  BY <1>1, <1>2, <1>3, SeqEqual
<1> QED
  BY <1>4 DEF p, q, s, t

\* The steps of the driver that start a call.
WdogCalls ==
  Feed \/ SetWdogRate \/ SetTimeout \/ SetResult \/ Run \/ ClearInterrupt

LEMMA CallsAreLegal ==
  ASSUME WdogInv, WdogCalls
  PROVE  /\ IsPlan(plan') /\ Len(plan') <= 3 /\ Len(plan') \in Nat
         /\ PlanIsLegal'
         /\ UNCHANGED Rest
         /\ timeout \subseteq timeout' /\ timeout' \subseteq 0 .. CmpMask
         /\ wdog_result \subseteq wdog_result'
         /\ wdog_result' \subseteq Results
         /\ scales' \subseteq 0 .. ScaleMask /\ ScaleIsInForce'
<1>0. timeout \subseteq 0 .. CmpMask /\ wdog_result \subseteq Results
  BY DEF WdogInv, WdogTypeOK
<1>m. scales \subseteq 0 .. ScaleMask /\ scale \in scales
  <2>1. plan = <<>>
    BY DEF WdogCalls, Feed, SetWdogRate, SetTimeout, SetResult, Run,
           ClearInterrupt, Call
  <2>2. \A v, w : <<v>> # <<>> /\ <<v, w>> # <<>>
    BY ShortPlans, EmptySeq
  <2> QED
    BY <2>1, <2>2 DEF WdogInv, WdogTypeOK, ScaleIsInForce
<1> DEFINE Goal(p) == /\ IsPlan(p) /\ Len(p) <= 3 /\ Len(p) \in Nat
                      /\ \A n \in 1 .. Len(p) : Planned(p[n], timeout',
                           wdog_result')
<1>1. ASSUME NEW v, Planned(v, timeout', wdog_result') 
      PROVE  Goal(<<v>>) /\ (v.op # "scale" => NoScale(<<v>>))
  <2> DEFINE p == <<v>>
  <2>1. IsPlan(p) /\ Len(p) = 1 /\ p[1] = v
    BY ShortPlans
  <2> HIDE DEF p
  <2>2. Goal(p) /\ (v.op # "scale" => NoScale(p))
    BY <1>1, <2>1 DEF NoScale
  <2> QED
    BY <2>2 DEF p
<1>2. ASSUME NEW v, NEW w, Planned(v, timeout', wdog_result'), Planned(w,
               timeout', wdog_result')
      PROVE  /\ Goal(<<v, w>>)
             /\ v.op # "scale" /\ w.op # "scale" => NoScale(<<v, w>>)
  <2> DEFINE p == <<v, w>>
  <2>1. IsPlan(p) /\ Len(p) = 2 /\ p[1] = v /\ p[2] = w
    BY ShortPlans
  <2> HIDE DEF p
  <2>2. Goal(p) /\ (v.op # "scale" /\ w.op # "scale" => NoScale(p))
    BY <1>2, <2>1 DEF NoScale
  <2> QED
    BY <2>2 DEF p
<1>3. ASSUME NEW u, NEW v, NEW w, Planned(u, timeout', wdog_result'),
               Planned(v, timeout', wdog_result'), Planned(w, timeout',
                 wdog_result')
      PROVE  /\ Goal(<<u, v, w>>)
             /\ u.op # "scale" /\ v.op # "scale" /\ w.op # "scale" =>
                  NoScale(<<u, v, w>>)
  <2> DEFINE p == <<u, v, w>>
  <2>1. IsPlan(p) /\ Len(p) = 3 /\ p[1] = u /\ p[2] = v /\ p[3] = w
    BY LongPlan
  <2> HIDE DEF p
  <2>2. /\ Goal(p)
        /\ u.op # "scale" /\ v.op # "scale" /\ w.op # "scale" => NoScale(p)
    BY <1>3, <2>1 DEF NoScale
  <2> QED
    BY <2>2 DEF p
<1>4. /\ \A S : Planned(Clear(S), timeout', wdog_result')
      /\ Planned(FeedWrite, timeout', wdog_result')
      /\ \A S : S \subseteq WdogFlags /\ ("rsten" \in S
           => "full_reset" \in wdog_result')
           => Planned(Set(S), timeout', wdog_result')
      /\ \A n \in 0 .. ScaleMask : Planned(Scale(n), timeout', wdog_result')
      /\ \A n \in timeout' : Planned(Compare(n), timeout', wdog_result')
      /\ \A S : Clear(S).op # "scale" /\ Set(S).op # "scale"
      /\ FeedWrite.op # "scale" /\ \A n : Compare(n).op # "scale"
  BY DEF Planned, Clear, Set, Scale, Compare, FeedWrite
<1> HIDE DEF Goal
<1>5. Goal(plan') => /\ IsPlan(plan') /\ Len(plan') <= 3 /\ Len(plan') \in Nat
                     /\ PlanIsLegal'
  BY DEF Goal, PlanIsLegal
<1>n. NoScale(plan') /\ scales' = scales /\ UNCHANGED Rest =>
        scales' \subseteq 0 .. ScaleMask /\ ScaleIsInForce'
  BY <1>m DEF ScaleIsInForce, Rest, NoScale
<1>6. CASE Feed
  <2>1. Goal(plan') /\ NoScale(plan')
    BY <1>1, <1>4, <1>6 DEF Feed, Call
  <2> QED
    BY <1>0, <1>5, <1>6, <1>n, <2>1 DEF Feed
<1>7. CASE SetWdogRate
  <2>1. PICK r \in WdogRates :
          LET k == IF r >= ClockRate THEN 0 ELSE ClosestScale(r)
          IN /\ plan' = IF r >= ClockRate THEN <<Scale(0)>>
                                          ELSE <<Scale(0), Scale(k)>>
             /\ scales' = scales \cup {k}
    BY <1>7 DEF SetWdogRate, Call
  <2>2. 0 \in 0 .. ScaleMask /\ ClosestScale(r) \in 0 .. ScaleMask
    BY ClosestIsScale, WatchdogAssumption
  <2>3. \E k \in 0 .. ScaleMask :
          /\ scales' = scales \cup {k}
          /\ plan' = <<Scale(k)>> \/ plan' = <<Scale(0), Scale(k)>>
    BY <2>1, <2>2
  <2>4. Goal(plan')
    BY <1>1, <1>2, <1>4, <2>2, <2>3
  <2>5. scale' = scale
    BY <1>7 DEF SetWdogRate, Rest
  <2>6. ScaleIsInForce'
    BY <1>m, <2>3, <2>5 DEF ScaleIsInForce, Scale
  <2>7. scales' \subseteq 0 .. ScaleMask
    BY <1>m, <2>3
  <2> QED
    BY <1>0, <1>5, <1>7, <2>4, <2>6, <2>7 DEF SetWdogRate
<1>8. CASE SetTimeout
  <2>1. PICK t \in Timeouts :
          /\ plan' = <<Compare(Capped(t))>>
          /\ timeout' = timeout \cup {Capped(t)}
    BY <1>8 DEF SetTimeout, Call
  <2>2. Capped(t) \in 0 .. CmpMask
    BY WatchdogAssumption DEF Capped
  <2>3. Goal(plan') /\ NoScale(plan')
    BY <1>1, <1>4, <2>1
  <2> QED
    BY <1>0, <1>5, <1>8, <1>n, <2>1, <2>2, <2>3 DEF SetTimeout
<1>9. CASE SetResult
  <2>1. PICK r \in Results :
          plan' = ResultWrites(r) /\ wdog_result' = wdog_result \cup {r}
    BY <1>9 DEF SetResult, Call
  <2>2. Goal(plan') /\ NoScale(plan')
    <3>1. CASE r = "interrupt"
      <4>1. plan' = <<Clear({"rsten", "zerocmp"}), Set({"zerocmp"})>>
        BY <2>1, <3>1, AddOne DEF ResultWrites
      <4> QED
        BY <1>2, <1>4, <4>1 DEF WdogFlags
    <3>2. CASE r = "full_reset"
      <4>1. plan' = <<Clear({"rsten", "zerocmp"}), Set({"rsten"})>>
        BY <2>1, <3>2, AddOne DEF ResultWrites
      <4> QED
        BY <1>2, <1>4, <2>1, <3>2, <4>1 DEF WdogFlags
    <3>3. CASE r = "no_result"
      <4>1. plan' = <<Clear({"rsten", "zerocmp"})>>
        BY <2>1, <3>3, AddNothing DEF ResultWrites
      <4> QED
        BY <1>1, <1>4, <4>1
    <3> QED
      BY <3>1, <3>2, <3>3 DEF Results
  <2> QED
    BY <1>0, <1>5, <1>9, <1>n, <2>1, <2>2 DEF SetResult
<1>10. CASE Run
  <2>1. PICK option \in {"stop", "run_always", "run_awake"} :
          plan' = RunWrites(option)
    BY <1>10 DEF Run, Call
  <2>2. Goal(plan') /\ NoScale(plan')
    <3>1. CASE option = "run_always"
      <4>1. plan' = <<Clear({"enalways", "coreawake"}), FeedWrite,
              Set({"enalways"})>>
        <5> DEFINE c == Clear({"enalways",
                     "coreawake"})  s == Set({"enalways"})
        <5>1. plan' = <<c>> \o <<FeedWrite, s>>
          BY <2>1, <3>1 DEF RunWrites
        <5> HIDE DEF c, s
        <5>2. <<c>> \o <<FeedWrite, s>> = <<c, FeedWrite, s>>
          BY AddTwo
        <5> QED
          BY <5>1, <5>2 DEF c, s
      <4> QED
        BY <1>3, <1>4, <4>1 DEF WdogFlags
    <3>2. CASE option = "run_awake"
      <4>1. plan' = <<Clear({"enalways", "coreawake"}), FeedWrite,
              Set({"coreawake"})>>
        <5> DEFINE c == Clear({"enalways",
                     "coreawake"})  s == Set({"coreawake"})
        <5>1. plan' = <<c>> \o <<FeedWrite, s>>
          BY <2>1, <3>2 DEF RunWrites
        <5> HIDE DEF c, s
        <5>2. <<c>> \o <<FeedWrite, s>> = <<c, FeedWrite, s>>
          BY AddTwo
        <5> QED
          BY <5>1, <5>2 DEF c, s
      <4> QED
        BY <1>3, <1>4, <4>1 DEF WdogFlags
    <3>3. CASE option = "stop"
      <4>1. plan' = <<Clear({"enalways", "coreawake"})>>
        BY <2>1, <3>3, AddNothing DEF RunWrites
      <4> QED
        BY <1>1, <1>4, <4>1
    <3> QED
      BY <3>1, <3>2, <3>3
  <2> QED
    BY <1>0, <1>5, <1>10, <1>n, <2>2 DEF Run
<1>11. CASE ClearInterrupt
  <2>1. Goal(plan') /\ NoScale(plan')
    BY <1>1, <1>4, <1>11 DEF ClearInterrupt, Call
  <2> QED
    BY <1>0, <1>5, <1>11, <1>n, <2>1 DEF ClearInterrupt
<1> QED
  BY <1>6, <1>7, <1>8, <1>9, <1>10, <1>11 DEF WdogCalls

\* What is left of a plan.
LEMMA PlanTail ==
  ASSUME NEW p, IsPlan(p), p # <<>>
  PROVE  /\ 1 \in 1 .. Len(p) /\ Head(p) = p[1]
         /\ \A n \in 1 .. Len(Tail(p)) :
              n + 1 \in 1 .. Len(p) /\ Tail(p)[n] = p[n + 1]
<1>1. PICK S : p \in Seq(S)
  BY DEF IsPlan
<1>2. Len(p) \in Nat /\ Len(p) # 0
  BY <1>1, EmptySeq
<1>3. /\ Head(p) = p[1] /\ Len(Tail(p)) = Len(p) - 1
      /\ \A n \in 1 .. Len(Tail(p)) : Tail(p)[n] = p[n + 1]
  BY <1>1, HeadTailProperties
<1> QED
  BY <1>2, <1>3

LEMMA TwoWrites ==
  ASSUME NEW v, NEW w
  PROVE  /\ Head(<<v, w>>) = v /\ Tail(<<v, w>>) = <<w>> /\ <<w>> # <<>>
         /\ Head(<<w>>) = w /\ Tail(<<w>>) = <<>> /\ Len(<<>>) = 0
<1> DEFINE s == <<v, w>>  t == <<w>>
<1>1. /\ s \in Seq({v, w}) /\ Len(s) = 2 /\ s[1] = v /\ s[2] = w
      /\ t \in Seq({v, w}) /\ Len(t) = 1 /\ t[1] = w
  OBVIOUS
<1> HIDE DEF s, t
<1>2. s # <<>> /\ t # <<>>
  BY <1>1, EmptySeq
<1>3. /\ Head(s) = v /\ Tail(s) \in Seq({v, w}) /\ Len(Tail(s)) = 1
      /\ Tail(s)[1] = w
  BY <1>1, <1>2, HeadTailProperties
<1>4. Head(t) = w /\ Tail(t) \in Seq({v, w}) /\ Len(Tail(t)) = 0
  BY <1>1, <1>2, HeadTailProperties
<1>5. ASSUME NEW m \in 1 .. Len(Tail(s))
      PROVE  Tail(s)[m] = t[m]
  <2>1. 1 .. Len(Tail(s)) = 1 .. 1
    BY <1>3
  <2>2. m \in 1 .. 1
    BY <2>1, Zenon
  <2>3. m = 1
    BY <2>2
  <2> QED
    BY <1>1, <1>3, <2>3
<1>6. Tail(s) = t
  BY <1>1, <1>3, <1>5, SeqEqual
<1>7. Tail(t) = <<>>
  BY <1>4, EmptySeq
<1> QED
  BY <1>2, <1>3, <1>4, <1>6, <1>7, EmptySeq DEF s, t

\* The next write of a call.
LEMMA NextWrite ==
  ASSUME WdogInv, plan # <<>>
  PROVE  /\ Planned(Head(plan), timeout, wdog_result) /\ IsPlan(Tail(plan))
         /\ Len(Tail(plan)) \in Nat /\ Len(Tail(plan)) <= 3
         /\ \A n \in 1 .. Len(Tail(plan)) : Planned(Tail(plan)[n], timeout,
              wdog_result)
         /\ Tail(plan) # <<>> <=> Len(Tail(plan)) # 0
<1>1. PICK S : plan \in Seq(S)
  BY DEF WdogInv
<1>2. Len(plan) \in Nat /\ Len(plan) <= 3 /\ Len(plan) # 0
  BY <1>1, EmptySeq DEF WdogInv, WdogTypeOK
<1>3. /\ Tail(plan) \in Seq(S) /\ Len(Tail(plan)) = Len(plan) - 1
      /\ \A n \in 1 .. Len(Tail(plan)) : Tail(plan)[n] = plan[n + 1]
      /\ Head(plan) = plan[1]
  BY <1>1, HeadTailProperties
<1>4. \A n \in 1 .. Len(Tail(plan)) : n + 1 \in 1 .. Len(plan)
  BY <1>2, <1>3
<1>5. 1 \in 1 .. Len(plan)
  BY <1>2
<1>6. Tail(plan) # <<>> <=> Len(Tail(plan)) # 0
  BY <1>3, EmptySeq
<1> QED
  BY <1>2, <1>3, <1>4, <1>5, <1>6 DEF WdogInv, PlanIsLegal, IsPlan

LEMMA WdogStep == WdogInv /\ [WdogNext]_wdogVars => WdogInv'
<1> SUFFICES ASSUME WdogInv, [WdogNext]_wdogVars PROVE WdogInv'
  OBVIOUS
<1>0. WdogTypeOK /\ IsPlan(plan) /\ PlanIsLegal /\ RegistersAreInForce
  BY DEF WdogInv, IsPlan
<1>1. ASSUME WdogTypeOK', IsPlan(plan'), PlanIsLegal', RegistersAreInForce',
             ScaleIsInForce'
      PROVE  WdogInv'
  BY <1>1 DEF WdogInv, IsPlan
<1>7. ASSUME UNCHANGED <<scale, scales, plan>>
      PROVE  ScaleIsInForce'
  <2>1. ScaleIsInForce
    BY DEF WdogInv
  <2>2. scale' = scale /\ scales' = scales /\ plan' = plan
    BY <1>7
  <2> HIDE <1>7
  <2> QED
    BY <2>1, <2>2 DEF ScaleIsInForce, NoScale
<1>2. CASE WdogCalls
  <2>1. /\ IsPlan(plan') /\ Len(plan') <= 3 /\ PlanIsLegal'
        /\ UNCHANGED <<bits, scale, wdogcmp, wdogcount, awake, since, bite>>
        /\ timeout \subseteq timeout' /\ timeout' \subseteq 0 .. CmpMask
        /\ wdog_result \subseteq wdog_result' /\ wdog_result' \subseteq Results
        /\ scales' \subseteq 0 .. ScaleMask /\ ScaleIsInForce'
    BY <1>2, CallsAreLegal DEF Rest
  <2>2. WdogTypeOK'
    BY <1>0, <2>1 DEF WdogTypeOK
  <2>3. RegistersAreInForce'
    BY <1>0, <2>1 DEF RegistersAreInForce
  <2> QED
    BY <1>1, <2>1, <2>2, <2>3
<1>3. CASE RegisterWrite
  <2> DEFINE w == Head(plan)  T == timeout  R == wdog_result
  <2>1. plan # <<>> /\ plan' = Tail(plan) /\ UNCHANGED <<awake, bite>>
    BY <1>3 DEF RegisterWrite
  <2>2. /\ Planned(w, T, R) /\ IsPlan(plan')
        /\ Len(plan') \in Nat /\ Len(plan') <= 3
        /\ \A n \in 1 .. Len(plan') : Planned(plan'[n], T, R)
        /\ plan' # <<>> <=> Len(plan') # 0
    BY <2>1, NextWrite
  <2>3. /\ bits' = CASE w.op = "clear" -> bits \ w.arg
                     [] w.op = "set" -> bits \cup w.arg
                     [] OTHER -> bits
        /\ scale' = IF w.op = "scale" THEN w.arg ELSE scale
        /\ wdogcmp' = IF w.op = "compare" THEN w.arg ELSE wdogcmp
        /\ wdogcount' = IF w.op = "feed" THEN 0 ELSE wdogcount
        /\ since' = IF w.op = "feed" THEN 0 ELSE since
        /\ timeout' = IF plan' = <<>> THEN {wdogcmp'} ELSE T
        /\ wdog_result' = IF plan' = <<>> THEN InForce(bits') ELSE R
        /\ scales' = IF plan' = <<>> THEN {scale'} ELSE scales
    BY <1>3 DEF RegisterWrite, ApplyScale
  <2> HIDE DEF w
  <2>4. /\ bits' \subseteq bits \cup WdogFlags
        /\ "rsten" \in bits' => "full_reset" \in R
    <3>1. CASE w.op = "clear"
      BY <1>0, <2>3, <3>1 DEF RegistersAreInForce
    <3>2. CASE w.op = "set"
      BY <1>0, <2>2, <2>3, <3>2 DEF RegistersAreInForce, Planned
    <3>3. CASE w.op \notin {"clear", "set"}
      BY <1>0, <2>3, <3>3 DEF RegistersAreInForce
    <3> QED
      BY <3>1, <3>2, <3>3
  <2>5. wdogcmp' \in T /\ T \subseteq 0 .. CmpMask
    BY <1>0, <2>2, <2>3 DEF RegistersAreInForce, Planned, WdogTypeOK
  <2>6. InForce(bits') \subseteq Results
        /\ ("rsten" \in bits' => "full_reset" \in InForce(bits'))
    BY DEF InForce, Results
  <2>7. scale' \in 0 .. ScaleMask
    BY <1>0, <2>2, <2>3 DEF Planned, WdogTypeOK
  <2>8. WdogTypeOK'
    <3>1. bits' \subseteq {"enalways", "coreawake", "rsten", "zerocmp", "ip"}
      BY <1>0, <2>4 DEF WdogTypeOK, WdogFlags
    <3>2. wdogcount' \in 0 .. MaxWdog /\ since' \in 0 .. MaxWdog
      BY <1>0, <2>3, WatchdogAssumption DEF WdogTypeOK
    <3>3. timeout' \subseteq 0 .. CmpMask /\ wdog_result' \subseteq Results
      BY <1>0, <2>3, <2>5, <2>6 DEF WdogTypeOK
    <3>4. scales' \subseteq 0 .. ScaleMask
      BY <1>0, <2>3, <2>7 DEF WdogTypeOK
    <3> QED
      BY <1>0, <2>1, <2>2, <2>5, <2>7, <3>1, <3>2, <3>3, <3>4 DEF WdogTypeOK
  <2>9. PlanIsLegal'
    <3>1. CASE plan' = <<>>
      BY <2>2, <3>1 DEF PlanIsLegal
    <3>2. CASE plan' # <<>>
      BY <2>2, <2>3, <3>2 DEF PlanIsLegal
    <3> QED
      BY <3>1, <3>2
  <2>10. RegistersAreInForce'
    BY <1>0, <2>3, <2>4, <2>5, <2>6 DEF RegistersAreInForce
  <2>11. ScaleIsInForce'
    <3>0. ScaleIsInForce /\ IsPlan(plan) /\ \A k : Scale(k).op = "scale"
      BY <1>0 DEF WdogInv, Scale, IsPlan
    <3>1. CASE scale \in scales /\ NoScale(plan)
      <4>1. w.op # "scale" /\ NoScale(plan')
        BY <2>1, <3>0, <3>1, PlanTail DEF NoScale, w
      <4> QED
        BY <2>2, <2>3, <3>1, <4>1 DEF ScaleIsInForce
    <3>2. ASSUME NEW k \in scales, plan = <<Scale(0), Scale(k)>>,
                 scale \in scales
          PROVE  ScaleIsInForce'
      <4>1. w = Scale(0) /\ plan' = <<Scale(k)>> /\ plan' # <<>>
        BY <2>1, <3>2, TwoWrites DEF w
      <4>2. scale' = 0 /\ scales' = scales
        BY <2>3, <4>1 DEF Scale
      <4> QED
        BY <4>1, <4>2 DEF ScaleIsInForce, Scale
    <3>3. ASSUME NEW k \in scales, plan = <<Scale(k)>>
          PROVE  ScaleIsInForce'
      <4>1. w = Scale(k) /\ plan' = <<>> /\ Len(plan') = 0
        BY <2>1, <3>3, TwoWrites DEF w
      <4>2. scale' = k /\ scales' = {k}
        BY <2>3, <4>1 DEF Scale
      <4> QED
        BY <4>1, <4>2 DEF ScaleIsInForce, NoScale
    <3> QED
      BY <3>0, <3>1, <3>2, <3>3 DEF ScaleIsInForce
  <2> QED
    BY <1>1, <2>2, <2>8, <2>9, <2>10, <2>11
<1>4. CASE CountUp
  <2>1. /\ wdogcount' = wdogcount + 1 /\ since' = since + 1 /\ bite' = "none"
        /\ wdogcount < MaxWdog
        /\ UNCHANGED <<bits, scale, wdogcmp, awake, plan, timeout, scales,
             wdog_result>>
    BY <1>4 DEF CountUp
  <2>2. WdogTypeOK'
    BY <1>0, <2>1, WatchdogAssumption DEF WdogTypeOK, RegistersAreInForce
  <2>3. ScaleIsInForce'
    BY <1>7, <2>1
  <2>4. IsPlan(plan') /\ PlanIsLegal' /\ RegistersAreInForce'
    BY <1>0, <2>1 DEF PlanIsLegal, RegistersAreInForce, IsPlan
  <2> QED
    BY <1>1, <2>2, <2>3, <2>4
<1>5. CASE Bite
  <2>1. CASE "rsten" \in bits
    <3>1. /\ bite' = "reset" /\ bits' = {} /\ scale' = 0
          /\ wdogcmp' = CmpMask /\ wdogcount' = 0 /\ since' = 0
          /\ plan' = <<>> /\ awake' = TRUE
          /\ timeout' = {CmpMask} /\ wdog_result' = {"no_result"}
          /\ scales' = {0}
      BY <1>5, <2>1 DEF Bite
    <3>2. IsPlan(plan') /\ Len(plan') = 0
      BY <3>1, EmptySeq DEF IsPlan
    <3>3. WdogTypeOK'
      BY <3>1, <3>2, WatchdogAssumption DEF WdogTypeOK, Results
    <3> QED
      BY <1>1, <3>1, <3>2, <3>3
         DEF PlanIsLegal, RegistersAreInForce, ScaleIsInForce, NoScale
  <2>2. CASE "rsten" \notin bits
    <3>1. /\ bite' = "interrupt" /\ bits' = bits \cup {"ip"}
          /\ wdogcount' = IF "zerocmp" \in bits THEN 0 ELSE wdogcount
          /\ since' = IF "zerocmp" \in bits THEN 0 ELSE since
          /\ UNCHANGED <<scale, wdogcmp, plan, awake, timeout, scales,
                         wdog_result>>
      BY <1>5, <2>2 DEF Bite
    <3>2. WdogTypeOK'
      BY <1>0, <3>1, WatchdogAssumption DEF WdogTypeOK
    <3>3. ScaleIsInForce'
      BY <1>7, <3>1
    <3>4. IsPlan(plan') /\ PlanIsLegal' /\ RegistersAreInForce'
      BY <1>0, <2>2, <3>1 DEF PlanIsLegal, RegistersAreInForce, IsPlan
    <3> QED
      BY <1>1, <3>2, <3>3, <3>4
  <2> QED
    BY <2>1, <2>2
<1>6. CASE Doze \/ UNCHANGED wdogVars
  <2>1. /\ UNCHANGED <<bits, scale, wdogcmp, wdogcount, plan, since, timeout,
                       scales, wdog_result, bite>>
        /\ awake' \in BOOLEAN
    BY <1>0, <1>6 DEF Doze, wdogVars, WdogTypeOK
  <2>2. WdogTypeOK'
    BY <1>0, <2>1 DEF WdogTypeOK
  <2>3. ScaleIsInForce'
    BY <1>7, <2>1
  <2>4. IsPlan(plan') /\ PlanIsLegal' /\ RegistersAreInForce'
    BY <1>0, <2>1 DEF PlanIsLegal, RegistersAreInForce, IsPlan
  <2> QED
    BY <1>1, <2>2, <2>3, <2>4
<1> QED
  BY <1>2, <1>3, <1>4, <1>5, <1>6 DEF WdogNext, WdogCalls

LEMMA WdogInvHolds == WdogSpec => []WdogInv
  BY WdogStart, WdogStep, PTL DEF WdogSpec

\* The variables keep their types.
THEOREM WdogTypes == WdogSpec => []WdogTypeOK
<1>1. WdogInv => WdogTypeOK
  BY DEF WdogInv
<1> QED
  BY <1>1, WdogInvHolds, PTL

\* A count that fills a comparator has counted that many of its steps.
LEMMA WholeSteps ==
  ASSUME NEW n \in Nat, NEW p \in Nat \ {0}, NEW c \in Nat, n \div p >= c
  PROVE  n >= c * p
<1> DEFINE q == n \div p
<1>1. q \in Nat /\ p * q <= n /\ c <= q
  BY Division, DivisionDown
<1> HIDE DEF q
<1>2. p * c <= p * q /\ p * c = c * p /\ p * q \in Nat /\ p * c \in Nat
  BY <1>1, ProductOrder
<1> QED
  BY <1>1, <1>2

\* For any width of the scale and the comparator: the watchdog raises its
\* interrupt or resets the chip no earlier than a timeout that was accepted, at
\* a rate that was accepted, whatever is configured, fed or switched in between;
\* only between the two writes of set_rate may it bite after a timeout of the
\* unscaled clock (sifive_wdog0.c).
THEOREM WatchdogBitesWhenDue == WdogSpec => BitesAreDue
<1>1. ASSUME WdogInv, [WdogNext]_wdogVars
      PROVE  [("ip" \notin bits /\ "ip" \in bits')
                 \/ (bite' = "reset" /\ bite # "reset")
               => /\ \E t \in timeout, k \in ScalesAtWork :
                       since >= t * Pow2[k]
                  /\ bite' = "reset" => "full_reset" \in wdog_result]_wdogVars
  <2>0. WdogTypeOK /\ RegistersAreInForce
    BY <1>1 DEF WdogInv
  <2> SUFFICES ASSUME WdogNext, \/ "ip" \notin bits /\ "ip" \in bits'
                                \/ bite' = "reset" /\ bite # "reset"
               PROVE  /\ \E t \in timeout, k \in ScalesAtWork :
                           since >= t * Pow2[k]
                      /\ bite' = "reset" => "full_reset" \in wdog_result
    BY <1>1
  <2>1. Bite
    <3>1. CASE WdogCalls
      <4>1. UNCHANGED Rest
        BY <1>1, <3>1, CallsAreLegal
      <4> QED
        BY <4>1 DEF Rest
    <3>2. CASE RegisterWrite
      <4>1. Planned(Head(plan), timeout, wdog_result)
        BY <1>1, <3>2, NextWrite DEF RegisterWrite
      <4>2. "ip" \in bits' => "ip" \in bits
        BY <3>2, <4>1 DEF RegisterWrite, ApplyScale, Planned, WdogFlags
      <4> QED
        BY <3>2, <4>2 DEF RegisterWrite
    <3>3. CASE CountUp
      BY <3>3 DEF CountUp
    <3>4. CASE Doze
      BY <3>4 DEF Doze
    <3> QED
      BY <3>1, <3>2, <3>3, <3>4 DEF WdogNext, WdogCalls
  <2>2. wdogcount \div Pow2[scale] >= wdogcmp
    BY <2>1 DEF Bite, Matches
  <2>3. /\ wdogcount \in Nat /\ wdogcmp \in Nat /\ scale \in Nat
        /\ since = wdogcount /\ wdogcmp \in timeout
    BY <2>0, WatchdogAssumption DEF WdogTypeOK, RegistersAreInForce
  <2>4. Pow2[scale] \in Nat \ {0}
    BY <2>3, Pow2Types
  <2>5. since >= wdogcmp * Pow2[scale]
    BY <2>2, <2>3, <2>4, WholeSteps
  <2>6. bite' = "reset" => "full_reset" \in wdog_result
    BY <2>0, <2>1 DEF Bite, RegistersAreInForce
  <2>7. scale \in ScalesAtWork
    BY <1>1 DEF WdogInv, WdogTypeOK, ScaleIsInForce, ScalesAtWork
  <2> QED
    BY <2>3, <2>5, <2>6, <2>7
<1> QED
  BY <1>1, WdogInvHolds, PTL DEF WdogSpec, BitesAreDue

-----------------------------------------------------------------------------
(* The real-time clock: RealTimeClock.                                     *)

\* The search of set_compare.
FitsIn(n, f) ==
  /\ DOMAIN f = (0 .. n) \X Nat
  /\ \A c \in 0 .. n, s \in Nat :
       f[<<c, s>>] = IF c < Word THEN [scale |-> s, cmp |-> c]
                     ELSE f[<<c \div Pow2[s + 1], s + 1>>]

LEMMA ShiftsDown ==
  ASSUME NEW c \in Nat, NEW s \in Nat, ~ (c < Word)
  PROVE  /\ c \div Pow2[s + 1] \in Nat /\ c \div Pow2[s + 1] < c /\ c # 0
         /\ 2 * (c \div Pow2[s + 1]) <= c
<1>1. s + 1 \in Nat /\ Pow2[s] \in Nat \ {0} /\ Pow2[s + 1] = 2 * Pow2[s]
  BY Pow2Types, Pow2Steps
<1> DEFINE p == Pow2[s]  q == c \div (2 * p)
<1>2. p \in Nat \ {0} /\ Pow2[s + 1] = 2 * p /\ 2 * p \in Nat \ {0}
  BY <1>1
<1>3. q \in Nat /\ (2 * p) * q <= c /\ q = c \div Pow2[s + 1]
  <2> HIDE DEF p
  <2> QED
    BY <1>2, Division, DivisionDown
<1>4. c # 0
  BY RtcAssumption
<1> HIDE DEF p, q
<1>5. q * 1 <= q * p /\ (2 * p) * q = 2 * (q * p) /\ q * p \in Nat
  BY <1>2, <1>3, ProductOrder
<1>6. 2 * q <= c
  BY <1>3, <1>5
<1> QED
  BY <1>3, <1>4, <1>6

LEMMA FitsExist == \A n \in Nat : \E f : FitsIn(n, f)
<1> DEFINE S == {n \in Nat : ~ \E f : FitsIn(n, f)}
<1> SUFFICES ASSUME S # {} PROVE FALSE
  OBVIOUS
<1>1. PICK n \in S : \A m \in S : n <= m
  <2>1. S \in SUBSET Nat
    OBVIOUS
  <2> HIDE DEF S
  <2> QED
    BY <2>1, LeastNumber
<1>2. n \in Nat /\ ~ \E f : FitsIn(n, f)
  BY <1>1
<1> DEFINE Step(f) ==
      [x \in (0 .. n) \X Nat |->
         IF x[1] < Word THEN [scale |-> x[2], cmp |-> x[1]]
         ELSE f[<<x[1] \div Pow2[x[2] + 1], x[2] + 1>>]]
<1>3. ASSUME NEW f, \A m \in 0 .. n : m < n => FitsIn(n - 1, f)
      PROVE  FitsIn(n, Step(f))
  <2> DEFINE g == Step(f)
  <2>1. DOMAIN g = (0 .. n) \X Nat
    OBVIOUS
  <2>2. ASSUME NEW c \in 0 .. n, NEW s \in Nat
        PROVE  g[<<c, s>>] = IF c < Word THEN [scale |-> s, cmp |-> c]
                             ELSE f[<<c \div Pow2[s + 1], s + 1>>]
    BY <2>2
  <2>3. ASSUME NEW c \in 0 .. n, NEW s \in Nat, ~ (c < Word)
        PROVE  f[<<c \div Pow2[s + 1], s + 1>>] = g[<<c \div Pow2[s + 1],
                 s + 1>>]
    <3> DEFINE d == c \div Pow2[s + 1]
    <3>1. d \in Nat /\ d < c /\ c \in Nat /\ s + 1 \in Nat
      BY <2>3, ShiftsDown
    <3> HIDE DEF d
    <3>2. d \in 0 .. n - 1 /\ d \in 0 .. n /\ FitsIn(n - 1, f)
      BY <1>2, <1>3, <3>1
    <3>3. f[<<d, s + 1>>] = IF d < Word THEN [scale |-> s + 1, cmp |-> d]
                     ELSE f[<<d \div Pow2[(s + 1) + 1], (s + 1) + 1>>]
      BY <3>1, <3>2 DEF FitsIn
    <3>4. g[<<d, s + 1>>] = IF d < Word THEN [scale |-> s + 1, cmp |-> d]
                     ELSE f[<<d \div Pow2[(s + 1) + 1], (s + 1) + 1>>]
      BY <2>2, <3>1, <3>2
    <3> QED
      BY <3>3, <3>4 DEF d
  <2> HIDE DEF g
  <2>4. FitsIn(n, g)
    BY <2>1, <2>2, <2>3 DEF FitsIn
  <2> QED
    BY <2>4 DEF g
<1> HIDE DEF Step
<1>4. CASE n = 0
  <2>1. \A m \in 0 .. n : ~ (m < n)
    BY <1>4
  <2> QED
    BY <1>2, <1>3, <2>1
<1>5. CASE n # 0
  <2>1. n - 1 \in Nat /\ ~ (n <= n - 1)
    BY <1>2, <1>5
  <2>2. PICK f : FitsIn(n - 1, f)
    BY <1>1, <2>1
  <2> QED
    BY <1>2, <1>3, <2>2
<1> QED
  BY <1>4, <1>5

LEMMA FitsAgree ==
  ASSUME NEW n \in Nat, NEW m \in Nat, NEW f, NEW g, FitsIn(n, f), FitsIn(m,
           g),
         NEW l \in Nat, l <= n, l <= m, NEW s \in Nat
  PROVE  f[<<l, s>>] = g[<<l, s>>]
<1> DEFINE S == {k \in Nat : k <= n /\ k <= m
             /\ \E t \in Nat : f[<<k, t>>] # g[<<k, t>>]}
<1> SUFFICES ASSUME S # {} PROVE FALSE
  OBVIOUS
<1>1. PICK k \in S : \A j \in S : k <= j
  <2>1. S \in SUBSET Nat
    OBVIOUS
  <2> HIDE DEF S
  <2> QED
    BY <2>1, LeastNumber
<1>2. PICK t \in Nat : f[<<k, t>>] # g[<<k, t>>]
  BY <1>1
<1>3. k \in Nat /\ k \in 0 .. n /\ k \in 0 .. m
  BY <1>1
<1>4. ~ (k < Word)
  BY <1>2, <1>3 DEF FitsIn
<1> DEFINE d == k \div Pow2[t + 1]
<1>5. d \in Nat /\ d < k /\ t + 1 \in Nat
  BY <1>3, <1>4, ShiftsDown
<1>6. f[<<k, t>>] = f[<<d, t + 1>>] /\ g[<<k, t>>] = g[<<d, t + 1>>]
  BY <1>3, <1>4 DEF FitsIn
<1> HIDE DEF d
<1>7. d <= n /\ d <= m /\ ~ (k <= d)
  BY <1>3, <1>5
<1>8. f[<<d, t + 1>>] = g[<<d, t + 1>>]
  BY <1>1, <1>5, <1>7
<1> QED
  BY <1>2, <1>6, <1>8

LEMMA ShiftsIs ==
  \A c, s \in Nat : Shifts[<<c, s>>] =
     IF c < Word THEN [scale |-> s, cmp |-> c]
                 ELSE Shifts[<<c \div Pow2[s + 1], s + 1>>]
<1> DEFINE F == [x \in Nat \X Nat |-> (CHOOSE f : FitsIn(x[1], f))[x]]
           G(H) == [x \in Nat \X Nat |->
                     IF x[1] < Word THEN [scale |-> x[2], cmp |-> x[1]]
                     ELSE H[<<x[1] \div Pow2[x[2] + 1], x[2] + 1>>]]
<1>1. ASSUME NEW n \in Nat, NEW f, FitsIn(n, f), NEW m \in Nat, m <= n,
             NEW s \in Nat
      PROVE  F[<<m, s>>] = f[<<m, s>>]
  <2>1. FitsIn(m, CHOOSE g : FitsIn(m, g))
    BY FitsExist
  <2>2. F[<<m, s>>] = (CHOOSE g : FitsIn(m, g))[<<m, s>>]
    OBVIOUS
  <2> QED
    BY <1>1, <2>1, <2>2, FitsAgree
<1>2. F = [x \in Nat \X Nat |-> F[x]]
  OBVIOUS
<1> HIDE DEF F
<1>3. ASSUME NEW c \in Nat, NEW s \in Nat
      PROVE  F[<<c, s>>] = IF c < Word THEN [scale |-> s, cmp |-> c]
                           ELSE F[<<c \div Pow2[s + 1], s + 1>>]
  <2>1. PICK f : FitsIn(c, f)
    BY FitsExist
  <2>2. F[<<c, s>>] = f[<<c, s>>] /\ c \in 0 .. c
    BY <1>1, <2>1
  <2>3. CASE c < Word
    BY <2>1, <2>2, <2>3 DEF FitsIn
  <2>4. CASE ~ (c < Word)
    <3> DEFINE d == c \div Pow2[s + 1]
    <3>1. d \in Nat /\ d <= c /\ s + 1 \in Nat
      BY <2>4, ShiftsDown
    <3>2. F[<<d, s + 1>>] = f[<<d, s + 1>>]
      BY <1>1, <2>1, <3>1
    <3>3. f[<<c, s>>] = f[<<d, s + 1>>]
      BY <2>1, <2>2, <2>4 DEF FitsIn
    <3> QED
      BY <2>2, <2>4, <3>2, <3>3
  <2> QED
    BY <2>3, <2>4
<1>4. F = G(F)
  <2>1. ASSUME NEW x \in Nat \X Nat
        PROVE  F[x] = IF x[1] < Word THEN [scale |-> x[2], cmp |-> x[1]]
                      ELSE F[<<x[1] \div Pow2[x[2] + 1], x[2] + 1>>]
    <3>1. PICK c \in Nat, s \in Nat : x = <<c, s>>
      OBVIOUS
    <3>2. x[1] = c /\ x[2] = s
      BY <3>1
    <3> QED
      BY <1>3, <3>1, <3>2
  <2> QED
    BY <1>2, <2>1
<1>5. Shifts = G(Shifts)
  BY <1>4 DEF Shifts
<1>6. ASSUME NEW c \in Nat, NEW s \in Nat
      PROVE  G(Shifts)[<<c, s>>] = IF c < Word THEN [scale |-> s, cmp |-> c]
                 ELSE Shifts[<<c \div Pow2[s + 1], s + 1>>]
  OBVIOUS
<1> HIDE DEF G
<1> QED
  BY <1>5, <1>6

\* What the search leaves: a word whose value, scaled, is not past the one
\* asked for.
Found(c, s) ==
  LET fit == Shifts[<<c, s>>]
  IN /\ fit.scale \in Nat /\ s <= fit.scale
     /\ fit.cmp \in 0 .. Word - 1
     /\ Pow2[fit.scale - s] * fit.cmp <= c

LEMMA ShiftsFind == \A c, s \in Nat : Found(c, s)
<1> DEFINE S == {c \in Nat : \E s \in Nat : ~ Found(c, s)}
<1> SUFFICES ASSUME S # {} PROVE FALSE
  OBVIOUS
<1>1. PICK c \in S : \A m \in S : c <= m
  <2>1. S \in SUBSET Nat
    OBVIOUS
  <2> HIDE DEF S
  <2> QED
    BY <2>1, LeastNumber
<1>2. PICK s \in Nat : ~ Found(c, s)
  BY <1>1
<1>3. c \in Nat
  BY <1>1
<1>4. CASE c < Word
  <2>1. Shifts[<<c, s>>] = [scale |-> s, cmp |-> c]
    BY <1>3, <1>4, ShiftsIs
  <2>2. c \in 0 .. Word - 1 /\ s - s = 0 /\ Pow2[0] = 1 /\ 1 * c <= c
    BY <1>3, <1>4, Pow2Steps, RtcAssumption
  <2> QED
    BY <1>2, <2>1, <2>2 DEF Found
<1>5. CASE ~ (c < Word)
  <2> DEFINE d == c \div Pow2[s + 1]  fit == Shifts[<<d, s + 1>>]
  <2>1. d \in Nat /\ d < c /\ 2 * d <= c /\ s + 1 \in Nat
    BY <1>3, <1>5, ShiftsDown
  <2>2. Shifts[<<c, s>>] = fit
    BY <1>3, <1>5, ShiftsIs
  <2> HIDE DEF d
  <2>3. Found(d, s + 1)
    BY <1>1, <1>3, <2>1
  <2>4. /\ fit.scale \in Nat /\ s + 1 <= fit.scale /\ fit.cmp \in 0 .. Word - 1
        /\ Pow2[fit.scale - (s + 1)] * fit.cmp <= d
    BY <2>3 DEF Found
  <2> DEFINE k == fit.scale - (s + 1)  n == fit.cmp
  <2>5. k \in Nat /\ fit.scale - s = k + 1 /\ n \in Nat
    BY <2>4, RtcAssumption
  <2>6. Pow2[k + 1] = 2 * Pow2[k] /\ Pow2[k] \in Nat
    BY <2>5, Pow2Steps, Pow2Types
  <2> DEFINE p == Pow2[k]
  <2>7. p \in Nat /\ Pow2[k + 1] = 2 * p /\ p * n <= d
    BY <2>4, <2>6
  <2> HIDE DEF fit, k, n, p
  <2>8. (2 * p) * n = 2 * (p * n) /\ p * n \in Nat
    BY <2>5, <2>7
  <2>9. (2 * p) * n <= c
    BY <1>3, <2>1, <2>7, <2>8
  <2>10. Pow2[fit.scale - s] * n <= c
    BY <2>5, <2>7, <2>9
  <2> QED
    BY <1>2, <2>2, <2>4, <2>10 DEF Found, n
<1> QED
  BY <1>4, <1>5

-----------------------------------------------------------------------------
\* The two words of a count.
LEMMA WordsFit ==
  ASSUME NEW h \in 0 .. HiWords - 1, NEW l \in 0 .. Word - 1
  PROVE  h * Word + l \in 0 .. Word * HiWords - 1
<1>1. h \in Nat /\ h + 1 \in Nat /\ h + 1 <= HiWords /\ Word \in Nat
        /\ HiWords \in Nat
  BY RtcAssumption
<1>2. Word * (h + 1) <= Word * HiWords
  BY <1>1, ProductOrder
<1>3. Word * (h + 1) = h * Word + Word /\ h * Word \in Nat
        /\ Word * HiWords \in Nat
  BY <1>1
<1> DEFINE a == h * Word  b == Word * HiWords
<1>4. a \in Nat /\ b \in Nat /\ a + Word <= b /\ l \in Nat /\ l < Word
  BY <1>1, <1>2, <1>3
<1> HIDE DEF a, b
<1>5. a + l \in 0 .. b - 1
  BY <1>1, <1>4
<1> QED
  BY <1>5 DEF a, b

LEMMA CountSplits ==
  ASSUME NEW n \in 0 .. Word * HiWords - 1
  PROVE  /\ n \in Nat /\ n \div Word \in 0 .. HiWords - 1
              /\ n % Word \in 0 .. Word - 1
         /\ n = (n \div Word) * Word + (n % Word)
<1>1. Word \in Nat \ {0} /\ HiWords \in Nat /\ Word * HiWords \in Nat
  BY RtcAssumption
<1> DEFINE q == n \div Word  r == n % Word  b == Word * HiWords
<1>2. n \in Nat /\ n < b
  BY <1>1
<1>3. q \in Nat /\ r \in 0 .. Word - 1 /\ n = Word * q + r
  BY <1>1, <1>2, Division
<1> HIDE DEF q, r
<1>4. Word * q \in Nat /\ Word * q <= n /\ Word * q = q * Word
  BY <1>1, <1>3
<1>5. q < HiWords
  <2> SUFFICES ASSUME HiWords <= q PROVE FALSE
    BY <1>1, <1>3
  <2>1. b <= Word * q
    BY <1>1, <1>3, ProductOrder
  <2> HIDE DEF b
  <2> QED
    BY <1>1, <1>2, <1>4, <2>1 DEF b
<1>6. q \in 0 .. HiWords - 1
  BY <1>1, <1>3, <1>5
<1> QED
  BY <1>2, <1>3, <1>4, <1>6 DEF q, r

\* A call between its two reads has a high word that is not ahead.
HighIsNotAhead == rpc = "low" => high <= rtccount \div Word

RtcInv == RtcTypeOK /\ HighIsNotAhead /\ ClockIsNeverAhead

LEMMA RtcStart == RtcInit => RtcInv
<1> SUFFICES ASSUME RtcInit PROVE RtcInv
  OBVIOUS
<1>1. Word * HiWords \in Nat /\ Word * HiWords > 0
  BY RtcAssumption
<1>2. 0 \in 0 .. Word * HiWords - 1
  <2> DEFINE b == Word * HiWords
  <2>1. b \in Nat /\ b > 0
    BY <1>1
  <2> HIDE DEF b
  <2>2. 0 \in 0 .. b - 1
    BY <2>1
  <2> QED
    BY <2>2 DEF b
<1>3. RtcTypeOK
  <2>1. /\ 0 \in 0 .. Word - 1 /\ 0 \in 0 .. HiWords - 1
        /\ 0 \in 0 .. RtcScaleMask /\ 0 \in Nat
    BY RtcAssumption
  <2> DEFINE N == 0 .. Word * HiWords - 1
  <2>2. 0 \in N
    BY <1>2
  <2> HIDE DEF N
  <2>3. /\ rtccount \in N /\ ahead \in N /\ got \in {Unwanted} \cup N
        /\ rtcrun \in BOOLEAN /\ rtcscale \in 0 .. RtcScaleMask
        /\ rtccmp \in 0 .. Word - 1 /\ rpc = "idle"
        /\ high \in 0 .. HiWords - 1 /\ low \in 0 .. Word - 1
        /\ rtc_wanted \in Compares \cup {0} /\ answer \in Nat
    BY <2>1, <2>2 DEF RtcInit
  <2> QED
    BY <2>3 DEF RtcTypeOK, N
<1>4. ClockIsNeverAhead
  BY Pow2Steps DEF RtcInit, ClockIsNeverAhead, Unwanted
<1> QED
  BY <1>3, <1>4 DEF RtcInit, RtcInv, HighIsNotAhead

\* What set_compare leaves.
LEMMA ComparesInTime ==
  ASSUME RtcTypeOK, SetCompare
  PROVE  /\ rtc_wanted' \in Compares /\ answer' \in Nat
         /\ rtcscale' \in 0 .. RtcScaleMask /\ rtccmp' \in 0 .. Word - 1
         /\ answer' <= rtc_wanted'
         /\ rtc_wanted' < 2 * Word => rtc_wanted' - answer' < Pow2[rtcscale']
<1>1. PICK c \in Compares :
        /\ rtc_wanted' = c
        /\ rtcscale' = Shifts[<<c, 0>>].scale % (RtcScaleMask + 1)
        /\ rtccmp' = Shifts[<<c, 0>>].cmp
        /\ answer' = Comparator(rtcscale', rtccmp')
  BY DEF SetCompare
<1> DEFINE k == Shifts[<<c, 0>>].scale  n == Shifts[<<c,
             0>>].cmp  M == RtcScaleMask + 1
<1>2. /\ c \in Nat /\ k \in Nat /\ n \in 0 .. Word - 1 /\ Pow2[k - 0] * n <= c
      /\ M \in Nat /\ M >= 2
  BY ShiftsFind, RtcAssumption DEF Found
<1>3. n \in Nat /\ k - 0 = k /\ M \in Nat \ {0}
  BY <1>2, RtcAssumption
<1> DEFINE j == k % M  p == Pow2[k]  q == Pow2[j]
<1>4. j \in Nat /\ j \in 0 .. M - 1 /\ j <= k
  <2> DEFINE d == k \div M
  <2> HIDE DEF k, M
  <2>1. j \in Nat /\ j \in 0 .. M - 1 /\ d \in Nat /\ k = M * d + j
    BY <1>2, <1>3, Division
  <2> HIDE DEF j, d
  <2>2. M * d \in Nat
    BY <1>2, <2>1
  <2> QED
    BY <1>2, <2>1, <2>2
<1>5. p \in Nat /\ q \in Nat /\ q <= p /\ p * n <= c
  BY <1>2, <1>3, <1>4, Pow2Order, Pow2Types
<1>6. answer' = n * q /\ rtcscale' = j
  BY <1>1 DEF Comparator
<1>7. /\ rtccmp' \in 0 .. Word - 1 /\ rtcscale' \in 0 .. RtcScaleMask
      /\ rtc_wanted' \in Compares /\ rtc_wanted' = c
  BY <1>1, <1>2, <1>4, RtcAssumption
<1>8. c < 2 * Word => c - n * q < q
  <2>0. Pow2[0] = 1 /\ Pow2[1] = 2
    BY Pow2Steps
  <2>1. CASE c < Word
    <3>1. Shifts[<<c, 0>>] = [scale |-> 0, cmp |-> c]
      BY <1>2, <2>1, ShiftsIs
    <3>2. k = 0 /\ n = c /\ j = 0
      BY <1>2, <1>4, <3>1
    <3>3. q = 1
      BY <2>0, <3>2
    <3> HIDE DEF k, n, q, j
    <3> QED
      BY <1>2, <3>2, <3>3
  <2>2. CASE ~ (c < Word) /\ c < 2 * Word
    <3> DEFINE d == c \div 2  e == c % 2
    <3>1. d \in Nat /\ e \in 0 .. 1 /\ c = 2 * d + e
      BY <1>2
    <3>2. Shifts[<<c, 0>>] = Shifts[<<d, 1>>]
      <4>1. 0 + 1 = 1 /\ 0 \in Nat
        OBVIOUS
      <4> QED
        BY ZenonT(40), <1>2, <2>0, <2>2, <4>1, ShiftsIs
    <3> HIDE DEF d, e
    <3>3. d < Word
      BY <1>2, <2>2, <3>1, RtcAssumption
    <3>4. Shifts[<<d, 1>>] = [scale |-> 1, cmp |-> d]
      BY <3>1, <3>3, ShiftsIs
    <3>5. k = 1 /\ n = d
      BY <3>2, <3>4
    <3>6. j = 1
      <4> HIDE DEF k, M, n
      <4>1. 1 = M * 0 + 1 /\ 1 \in 0 .. M - 1 /\ 0 \in Nat /\ 1 \in Nat
        BY <1>2
      <4>2. 1 % M = 1
        BY <1>3, <4>1, DivisionIs
      <4> QED
        BY <3>5, <4>2
    <3>7. q = 2
      BY <2>0, <3>6
    <3> HIDE DEF k, n, q, j
    <3> QED
      BY <1>2, <3>1, <3>5, <3>7
  <2> QED
    BY <2>1, <2>2
<1> HIDE DEF k, n, M, j, p, q
<1>9. n * q \in Nat /\ n * q <= n * p /\ n * p = p * n
  BY <1>3, <1>5, ProductOrder
<1>10. n * q <= c
  BY <1>2, <1>5, <1>9
<1> QED
  BY <1>6, <1>7, <1>8, <1>9, <1>10 DEF q

LEMMA RtcStep == RtcInv /\ [RtcNext]_rtcVars => RtcInv'
<1> SUFFICES ASSUME RtcInv, [RtcNext]_rtcVars PROVE RtcInv'
  OBVIOUS
<1> DEFINE N == 0 .. Word * HiWords - 1
<1>0. RtcTypeOK /\ HighIsNotAhead /\ ClockIsNeverAhead /\ Word \in Nat \ {0}
  BY RtcAssumption DEF RtcInv
<1>1. /\ N \subseteq Nat /\ rtccount \in N /\ rtccount \in Nat
      /\ rtccount \div Word \in 0 .. HiWords - 1
      /\ rtccount % Word \in 0 .. Word - 1
      /\ rtccount = (rtccount \div Word) * Word + (rtccount % Word)
  BY <1>0, CountSplits DEF RtcTypeOK
<1>2. HiWords \in Nat \ {0} /\ 0 \in 0 .. HiWords - 1 /\ 0 \in 0 .. Word - 1
  BY RtcAssumption
<1>3. ASSUME NEW h \in 0 .. HiWords - 1, NEW l \in 0 .. Word - 1
      PROVE  h * Word + l \in N
  BY WordsFit
<1> HIDE DEF N
<1>4. CASE RtcTick
  <2>1. /\ rtccount' = rtccount + 1 /\ rtccount' \in N
        /\ UNCHANGED <<rtcrun, rtcscale, rtccmp, rtc_wanted, answer, rpc, high,
                       low, got, ahead>>
    <3> DEFINE b == Word * HiWords
    <3>1. b \in Nat /\ rtccount < b - 1
      BY <1>0, <1>2, <1>4 DEF RtcTick
    <3> HIDE DEF b
    <3>2. rtccount + 1 \in 0 .. b - 1
      BY <1>1, <3>1
    <3> QED
      BY <1>4, <3>2 DEF RtcTick, compare, call, N, b
  <2>2. RtcTypeOK'
    BY <1>0, <2>1 DEF RtcTypeOK, N
  <2> DEFINE m == rtccount + 1
  <2>7. m \in Nat /\ rtccount <= m /\ rtccount' = m
    BY <1>1, <2>1
  <2> HIDE DEF m
  <2>3. rtccount \div Word <= rtccount' \div Word
    BY <1>0, <1>1, <2>7, DivisionOrder
  <2>4. rtccount' \div Word \in Nat /\ rtccount \div Word \in Nat
    BY <1>0, <1>1, <2>7, Division
  <2>5. HighIsNotAhead'
    BY <1>0, <2>1, <2>3, <2>4, <1>2 DEF HighIsNotAhead, RtcTypeOK
  <2>6. ClockIsNeverAhead'
    BY <1>0, <2>1 DEF ClockIsNeverAhead
  <2> QED
    BY <2>2, <2>5, <2>6 DEF RtcInv
<1>5. CASE GetCount \/ ReadHigh
  <2>1. /\ rpc' = "low" /\ high' = rtccount \div Word
        /\ UNCHANGED <<rtccount, rtcrun, rtcscale, rtccmp, rtc_wanted, answer,
                       low, got, ahead>>
    BY <1>5 DEF GetCount, ReadHigh, compare
  <2>2. RtcTypeOK'
    BY <1>0, <1>1, <2>1 DEF RtcTypeOK
  <2>3. HighIsNotAhead'
    BY <1>1, <1>2, <2>1 DEF HighIsNotAhead
  <2>4. ClockIsNeverAhead'
    BY <1>0, <2>1 DEF ClockIsNeverAhead
  <2> QED
    BY <2>2, <2>3, <2>4 DEF RtcInv
<1>6. CASE ReadLow
  <2>1. /\ rpc = "low" /\ rpc' = "idle" /\ high' = 0 /\ low' = 0
        /\ got' = high * Word + (rtccount % Word) /\ ahead' = rtccount
        /\ UNCHANGED <<rtccount, rtcrun, rtcscale, rtccmp, rtc_wanted, answer>>
    BY <1>6 DEF ReadLow, compare
  <2>2. high \in 0 .. HiWords - 1 /\ high <= rtccount \div Word
    BY <1>0, <2>1 DEF RtcTypeOK, HighIsNotAhead
  <2>3. got' \in N
    BY <1>1, <1>3, <2>1, <2>2
  <2>4. RtcTypeOK'
    BY <1>0, <1>2, <2>1, <2>3 DEF RtcTypeOK, N
  <2> DEFINE d == rtccount \div Word  r == rtccount % Word
  <2>5. /\ d \in Nat /\ r \in Nat /\ r \in 0 .. Word - 1 /\ high \in Nat
        /\ high <= d
        /\ got' = high * Word + r /\ ahead' = d * Word + r /\ ahead' % Word = r
    BY <1>0, <1>1, <1>2, <2>1, <2>2
  <2> HIDE DEF d, r
  <2>6. Word * high <= Word * d
    BY <1>0, <2>5, ProductOrder
  <2>7. /\ Word * high = high * Word /\ Word * d = d * Word
        /\ high * Word \in Nat /\ d * Word \in Nat
    BY <1>0, <2>5
  <2>8. got' <= ahead' /\ got' = Word * high + r /\ got' \in Nat
    BY <2>5, <2>6, <2>7
  <2>9. got' % Word = r
    BY <1>0, <2>5, <2>8, DivisionIs
  <2>10. ClockIsNeverAhead'
    BY <1>0, <2>1, <2>5, <2>8, <2>9 DEF ClockIsNeverAhead
  <2>11. HighIsNotAhead'
    BY <2>1 DEF HighIsNotAhead
  <2> QED
    BY <2>4, <2>10, <2>11 DEF RtcInv
<1>7. CASE SetCount
  <2>1. /\ rpc' = "write high"
        /\ UNCHANGED <<rtccount, rtcrun, rtcscale, rtccmp, rtc_wanted, answer,
                       got, ahead>>
    BY <1>7 DEF SetCount, compare
  <2>2. PICK n \in N : high' = n \div Word /\ low' = n % Word
    BY <1>7 DEF SetCount, N
  <2>3. high' \in 0 .. HiWords - 1 /\ low' \in 0 .. Word - 1
    BY <2>2, CountSplits DEF N
  <2>4. RtcTypeOK'
    BY <1>0, <2>1, <2>3 DEF RtcTypeOK
  <2> QED
    BY <1>0, <2>1, <2>4 DEF RtcInv, HighIsNotAhead, ClockIsNeverAhead
<1>8. CASE WriteHigh
  <2>1. /\ rpc' = "write low" /\ rtccount' = high * Word + (rtccount % Word)
        /\ UNCHANGED <<rtcrun, rtcscale, rtccmp, rtc_wanted, answer,
                       got, ahead, high, low>>
    BY <1>8 DEF WriteHigh, compare
  <2>2. rtccount' \in N
    BY <1>0, <1>1, <1>3, <2>1 DEF RtcTypeOK
  <2>3. RtcTypeOK'
    BY <1>0, <2>1, <2>2 DEF RtcTypeOK, N
  <2> QED
    BY <1>0, <2>1, <2>3 DEF RtcInv, HighIsNotAhead, ClockIsNeverAhead
<1>9. CASE WriteLow
  <2>1. /\ rpc' = "high" /\ rtccount' = (rtccount \div Word) * Word + low
        /\ UNCHANGED <<rtcrun, rtcscale, rtccmp, rtc_wanted, answer,
                       got, ahead, high, low>>
    BY <1>9 DEF WriteLow, compare
  <2>2. rtccount' \in N
    BY <1>0, <1>1, <1>3, <2>1 DEF RtcTypeOK
  <2>3. RtcTypeOK'
    BY <1>0, <2>1, <2>2 DEF RtcTypeOK, N
  <2> QED
    BY <1>0, <2>1, <2>3 DEF RtcInv, HighIsNotAhead, ClockIsNeverAhead
<1>10. CASE SetCompare
  <2>1. /\ rpc = "idle"
        /\ UNCHANGED <<rtccount, rtcrun, rpc, high, low, got, ahead>>
    BY <1>10 DEF SetCompare, call
  <2>2. RtcTypeOK'
    BY <1>0, <1>10, <2>1, ComparesInTime DEF RtcTypeOK
  <2>3. ClockIsNeverAhead'
    BY <1>0, <1>10, <2>1, ComparesInTime DEF ClockIsNeverAhead
  <2> QED
    BY <1>0, <2>1, <2>2, <2>3 DEF RtcInv, HighIsNotAhead
<1>11. CASE RtcRun \/ UNCHANGED rtcVars
  <2>1. /\ UNCHANGED <<rtccount, rtcscale, rtccmp, rtc_wanted, answer, rpc,
                       high, low, got, ahead>>
        /\ rtcrun' \in BOOLEAN
    BY <1>0, <1>11 DEF RtcRun, rtcVars, compare, call, RtcTypeOK
  <2>2. RtcTypeOK'
    BY <1>0, <2>1 DEF RtcTypeOK
  <2> QED
    BY <1>0, <2>1, <2>2 DEF RtcInv, HighIsNotAhead, ClockIsNeverAhead
<1> QED
  BY <1>4, <1>5, <1>6, <1>7, <1>8, <1>9, <1>10, <1>11 DEF RtcNext

\* For any width of a word and any count: a read of the real-time clock in two
\* words is never ahead of it (sifive_rtc0.c, get_count), and a compare that is
\* set is due no later than asked; and the variables keep their types.
THEOREM ClockCorrect == RtcSpec => [](RtcTypeOK /\ ClockIsNeverAhead)
<1>1. RtcInv => RtcTypeOK /\ ClockIsNeverAhead
  BY DEF RtcInv
<1> QED
  BY <1>1, RtcStart, RtcStep, PTL DEF RtcSpec

-----------------------------------------------------------------------------
(* The UART and its interrupts: UartInterrupts.                            *)

AllBits == Flags \cup CountBits

UartUpdates ==
  { u \in [reg : Registers, on : SUBSET AllBits, off : SUBSET AllBits] :
      Bits(u) \subseteq BitsIn(u.reg) /\ u.on \cap u.off = {} }

UartShapes ==
  /\ {ureg, uasked, overwritten} \subseteq [Registers -> SUBSET AllBits]
  /\ \A r \in Registers : ureg[r] \cup uasked[r] \cup overwritten[r]
                              \subseteq BitsIn(r)
  /\ filled \in [{"tx", "rx"} -> 0..Depth]
  /\ todo \in Seq(UartUpdates)

\* The value main is about to write back holds what was asked for, but for the
\* handler's bits that are lost already, or are once main writes.
SeenIsCurrent ==
  /\ seen = Unread => during = {}
  /\ seen # Unread =>
       LET r == todo[1].reg
       IN  /\ todo # <<>>
           /\ seen \subseteq BitsIn(r) /\ during \subseteq BitsIn(r)
           /\ uasked[r] \ seen \subseteq overwritten[r] \cup during
           /\ seen \ uasked[r] \subseteq overwritten[r] \cup during

\* A level that is lost was asked for all the same: what main reads and writes
\* back holds no bit of a watermark that nobody asked for.
SeenAddsUp ==
  seen # Unread /\ todo[1].reg # "ie" =>
    seen \cap CountBits \subseteq uasked[todo[1].reg]

UartInv == /\ UartShapes /\ RequestsAreKept /\ WatermarksAddUp
           /\ SeenIsCurrent /\ SeenAddsUp /\ RoomForByte

\* Where main's putc is, and whether a handler has overtaken it.
Overtaking == overtaken \in BOOLEAN /\ putting \in {"no", "polls", "room"}

LEMMA OvertakingHolds == UartSpec => []Overtaking
<1>1. UartInit => Overtaking
  BY DEF UartInit, Overtaking
<1>2. Overtaking /\ [UartNext]_uartVars => Overtaking'
  BY Zenon
     DEF Overtaking, uartVars, UartNext, MainCall, ReadRegister, WriteRegister,
         Putc, FindRoom, WriteData, GetcMain, HandlerCall, HandlerPuts,
         HandlerGets, TransmitFrame, Arrive
<1> QED
  BY <1>1, <1>2, PTL DEF UartSpec

LEMMA BitsAreNamed == \A r \in Registers : BitsIn(r) \subseteq AllBits
                                           /\ 99 \notin BitsIn(r)
  BY UartAssumption DEF BitsIn, AllBits, Flags, UART_TXEN, UART_TXWM, UART_RXWM

LEMMA CallsAreUpdates ==
  \A c \in ControlCalls \cup {PreRateChange} : c \in Seq(UartUpdates)
    /\ c # <<>>
<1> USE
   DEF UartUpdates, Bits, Registers, BitsIn, AllBits, Flags, UART_TXEN,
       UART_TXWM, UART_RXWM
<1>1. \A f \in Flags : SetBits("ie", {f}) \in UartUpdates
                       /\ ClearBits("ie", {f}) \in UartUpdates
  BY DEF SetBits, ClearBits
<1>2. \A l \in Levels : SetBits("txctrl", l) \in UartUpdates
                        /\ SetBits("rxctrl", l) \in UartUpdates
  BY UartAssumption DEF SetBits
<1>3. SetBits("txctrl", {UART_TXEN}) \in UartUpdates
      /\ SetBits("rxctrl", {UART_TXEN}) \in UartUpdates
  BY DEF SetBits
<1>4. ClearBits("txctrl", CountBits) \in UartUpdates
      /\ SetBits("txctrl", {16}) \in UartUpdates
  BY UartAssumption DEF SetBits, ClearBits
<1> HIDE DEF UartUpdates, Bits, Registers, BitsIn, AllBits, Flags
<1>5. /\ \A u \in UartUpdates : <<u>> \in Seq(UartUpdates) /\ <<u>> # <<>>
      /\ \A u, v \in UartUpdates : <<u, v>> \in Seq(UartUpdates)
           /\ <<u, v>> # <<>>
  OBVIOUS
<1>6. \A f \in Flags : /\ InterruptEnable(f) \in Seq(UartUpdates) \ {<<>>}
                       /\ InterruptDisable(f) \in Seq(UartUpdates) \ {<<>>}
  BY <1>1, <1>5 DEF InterruptEnable, InterruptDisable
<1>7. \A l \in Levels : /\ SetTxWatermark(l) \in Seq(UartUpdates) \ {<<>>}
                        /\ SetRxWatermark(l) \in Seq(UartUpdates) \ {<<>>}
  BY <1>2, <1>5 DEF SetTxWatermark, SetRxWatermark
<1>8. /\ UartSetBaudRate \in Seq(UartUpdates) \ {<<>>}
      /\ PreRateChange \in Seq(UartUpdates) \ {<<>>}
  BY <1>3, <1>4, <1>5 DEF UartSetBaudRate, PreRateChange
<1> QED
  BY <1>6, <1>7, <1>8 DEF ControlCalls

\* Only an interrupt is ever switched off by a handler.
LEMMA HandlersClearFlags ==
  \A c \in ControlCalls : c[1].reg # "ie" => c[1].off = {}
  BY DEF ControlCalls, InterruptEnable, InterruptDisable, SetTxWatermark,
         SetRxWatermark, UartSetBaudRate, SetBits, ClearBits

\* Initialised, the registers hold what init asked for.
LEMMA UartInitInv == UartInit => UartInv
<1> SUFFICES ASSUME UartInit PROVE UartInv
  OBVIOUS
<1>1. UartShapes
  BY UartAssumption
     DEF UartInit, UartShapes, Registers, AllBits, BitsIn, Flags,
         UART_TXEN, UART_TXWM, UART_RXWM
<1>2. RequestsAreKept /\ WatermarksAddUp /\ SeenIsCurrent /\ SeenAddsUp
      /\ RoomForByte
  BY DEF UartInit, RequestsAreKept, WatermarksAddUp, SeenIsCurrent, SeenAddsUp,
         RoomForByte, Registers
<1> QED
  BY <1>1, <1>2 DEF UartInv

\* An update that is applied to a value that holds what was asked for, but for
\* some bits, leaves what is asked for after it, but for those bits without its
\* own.
LEMMA AppliedIsOwed ==
  ASSUME NEW u \in UartUpdates, NEW value, NEW a, NEW but,
         a \ value \subseteq but, value \ a \subseteq but
  PROVE  /\ ((a \ u.off) \cup u.on) \ Applied(u, value) \subseteq but \ Bits(u)
         /\ Applied(u, value) \ ((a \ u.off) \cup u.on) \subseteq but \ Bits(u)
  BY DEF Applied, UartUpdates, Bits

\* What an update leaves of the types.
LEMMA AppliedIsTyped ==
  ASSUME NEW u \in UartUpdates, NEW value, value \subseteq BitsIn(u.reg)
  PROVE  Applied(u, value) \subseteq BitsIn(u.reg)
  BY DEF Applied, UartUpdates, Bits

LEMMA AskIsTyped ==
  ASSUME UartShapes, NEW u \in UartUpdates
  PROVE  /\ Ask(u) \in [Registers -> SUBSET AllBits]
         /\ \A r \in Registers \ {u.reg} : Ask(u)[r] = uasked[r]
         /\ Ask(u)[u.reg] = (uasked[u.reg] \ u.off) \cup u.on
         /\ Ask(u)[u.reg] \subseteq BitsIn(u.reg)
<1>1. uasked \in [Registers -> SUBSET AllBits] /\ u.reg \in Registers
      /\ u.on \subseteq AllBits /\ u.on \subseteq BitsIn(u.reg)
  BY DEF UartShapes, UartUpdates, Bits
<1>2. uasked[u.reg] \subseteq AllBits /\ uasked[u.reg] \subseteq BitsIn(u.reg)
  BY <1>1 DEF UartShapes
<1> QED
  BY <1>1, <1>2 DEF Ask

\* Main's write: what it read, with its bits changed, is what is asked for, but
\* for what the handler asked for meanwhile.
LEMMA WriteKeepsInv == UartInv /\ WriteRegister => UartInv'
<1> SUFFICES ASSUME UartInv, WriteRegister PROVE UartInv'
  OBVIOUS
<1> USE DEF UartInv
<1> DEFINE u == todo[1]
           lost == (overwritten[u.reg] \cup during) \ Bits(u)
<1>0. /\ seen # Unread
      /\ ureg' = [ureg EXCEPT ![u.reg] = Applied(u, seen)]
      /\ uasked' = Ask(u)
      /\ overwritten' = [overwritten EXCEPT ![u.reg] = (@ \cup during) \ Bits(u)]
      /\ todo' = Tail(todo) /\ seen' = Unread /\ during' = {}
      /\ UNCHANGED <<filled, putting, overtaken>>
  BY DEF WriteRegister
<1>1. todo \in Seq(UartUpdates) /\ todo # <<>>
  BY <1>0 DEF UartShapes, SeenIsCurrent
<1>2. u \in UartUpdates /\ Tail(todo) \in Seq(UartUpdates)
  BY <1>1
<1>3. u.reg \in Registers /\ ureg \in [Registers -> SUBSET AllBits]
      /\ overwritten \in [Registers -> SUBSET AllBits]
  BY <1>2 DEF UartShapes, UartUpdates
<1>4. /\ seen \subseteq BitsIn(u.reg) /\ during \subseteq BitsIn(u.reg)
      /\ uasked[u.reg] \ seen \subseteq overwritten[u.reg] \cup during
      /\ seen \ uasked[u.reg] \subseteq overwritten[u.reg] \cup during
  BY <1>0 DEF SeenIsCurrent
<1>5. Applied(u, seen) \subseteq BitsIn(u.reg) /\ lost \subseteq BitsIn(u.reg)
  BY <1>2, <1>3, <1>4, AppliedIsTyped DEF UartShapes
<1>6. Applied(u, seen) \subseteq AllBits /\ lost \subseteq AllBits
  BY <1>3, <1>5, BitsAreNamed
<1> HIDE DEF lost
<1>7. /\ ureg'[u.reg] = Applied(u, seen) /\ overwritten'[u.reg] = lost
      /\ \A r \in Registers \ {u.reg} : ureg'[r] = ureg[r]
                                       /\ overwritten'[r] = overwritten[r]
      /\ {ureg', overwritten'} \subseteq [Registers -> SUBSET AllBits]
  BY <1>0, <1>3, <1>6 DEF lost
<1>a. /\ uasked' \in [Registers -> SUBSET AllBits]
      /\ \A r \in Registers \ {u.reg} : uasked'[r] = uasked[r]
      /\ uasked'[u.reg] = (uasked[u.reg] \ u.off) \cup u.on
      /\ uasked'[u.reg] \subseteq BitsIn(u.reg)
  BY <1>0, <1>2, AskIsTyped
<1>8. UartShapes'
  <2>1. \A r \in Registers : ureg'[r] \cup uasked'[r] \cup overwritten'[r]
                                \subseteq BitsIn(r)
    BY <1>3, <1>5, <1>7, <1>a DEF UartShapes
  <2> QED
    BY <1>0, <1>2, <1>7, <1>a, <2>1 DEF UartShapes
<1>9. RequestsAreKept'
  <2>1. /\ uasked'[u.reg] \ ureg'[u.reg] \subseteq overwritten'[u.reg]
        /\ ureg'[u.reg] \ uasked'[u.reg] \subseteq overwritten'[u.reg]
    <3> DEFINE was == uasked[u.reg]  but == overwritten[u.reg] \cup during
    <3>1. was \ seen \subseteq but /\ seen \ was \subseteq but /\ lost = but \ Bits(u)
      BY <1>4 DEF lost
    <3> HIDE DEF was, but
    <3>2. /\ ((was \ u.off) \cup u.on) \ Applied(u, seen) \subseteq lost
          /\ Applied(u, seen) \ ((was \ u.off) \cup u.on) \subseteq lost
      BY <1>2, <3>1, AppliedIsOwed
    <3> QED
      BY <1>7, <1>a, <3>2 DEF was
  <2> QED
    BY <1>7, <1>a, <2>1 DEF RequestsAreKept
<1>10. WatermarksAddUp'
  <2>1. u.reg # "ie" => ureg'[u.reg] \cap CountBits \subseteq uasked'[u.reg]
    BY <1>0, <1>7, <1>a DEF SeenAddsUp, Applied
  <2> QED
    BY <1>7, <1>a, <2>1 DEF WatermarksAddUp, Registers
<1>11. SeenIsCurrent' /\ SeenAddsUp' /\ RoomForByte'
  BY <1>0 DEF SeenIsCurrent, SeenAddsUp, RoomForByte
<1> QED
  BY <1>8, <1>9, <1>10, <1>11

\* The handler's write stands until main writes back what it read before.
LEMMA HandlerKeepsInv ==
  ASSUME UartInv, NEW made \in ControlCalls, HandlerCall(made)
  PROVE  UartInv'
<1> USE DEF UartInv
<1> DEFINE u == made[1]
           reads == seen # Unread /\ todo[1].reg = u.reg
<1>1. u \in UartUpdates
  BY CallsAreUpdates
<1>2. u.reg \in Registers /\ Bits(u) \subseteq BitsIn(u.reg)
      /\ {ureg, overwritten} \subseteq [Registers -> SUBSET AllBits]
  BY <1>1 DEF UartShapes, UartUpdates
<1>3. /\ ureg' = [ureg EXCEPT ![u.reg] = Applied(u, @)]
      /\ uasked' = Ask(u)
      /\ overwritten' = [overwritten EXCEPT ![u.reg] = @ \ Bits(u)]
      /\ during' = IF reads THEN during \cup Bits(u) ELSE during
      /\ UNCHANGED <<filled, todo, seen, putting, overtaken>>
  BY DEF HandlerCall
<1>4. Applied(u, ureg[u.reg]) \subseteq BitsIn(u.reg)
      /\ overwritten[u.reg] \subseteq BitsIn(u.reg)
  BY <1>1, <1>2, AppliedIsTyped DEF UartShapes
<1>5. /\ ureg'[u.reg] = Applied(u, ureg[u.reg])
      /\ overwritten'[u.reg] = overwritten[u.reg] \ Bits(u)
      /\ \A r \in Registers \ {u.reg} : ureg'[r] = ureg[r]
                                       /\ overwritten'[r] = overwritten[r]
      /\ {ureg', overwritten'} \subseteq [Registers -> SUBSET AllBits]
  BY <1>2, <1>3, <1>4, BitsAreNamed
<1>a. /\ uasked' \in [Registers -> SUBSET AllBits]
      /\ \A r \in Registers \ {u.reg} : uasked'[r] = uasked[r]
      /\ uasked'[u.reg] = (uasked[u.reg] \ u.off) \cup u.on
      /\ uasked'[u.reg] \subseteq BitsIn(u.reg)
  BY <1>1, <1>3, AskIsTyped
<1>6. UartShapes'
  <2>1. \A r \in Registers : ureg'[r] \cup uasked'[r] \cup overwritten'[r]
                                \subseteq BitsIn(r)
    BY <1>2, <1>4, <1>5, <1>a DEF UartShapes
  <2> QED
    BY <1>3, <1>5, <1>a, <2>1 DEF UartShapes
<1>7. RequestsAreKept'
  <2>1. /\ uasked[u.reg] \ ureg[u.reg] \subseteq overwritten[u.reg]
        /\ ureg[u.reg] \ uasked[u.reg] \subseteq overwritten[u.reg]
    BY <1>2 DEF RequestsAreKept
  <2>2. /\ uasked'[u.reg] \ ureg'[u.reg] \subseteq overwritten'[u.reg]
        /\ ureg'[u.reg] \ uasked'[u.reg] \subseteq overwritten'[u.reg]
    <3> DEFINE now == ureg[u.reg]  was == uasked[u.reg]
               but == overwritten[u.reg]
    <3>1. was \ now \subseteq but /\ now \ was \subseteq but
      BY <2>1
    <3> HIDE DEF now, was, but
    <3>2. /\ ((was \ u.off) \cup u.on) \ Applied(u, now) \subseteq but \ Bits(u)
          /\ Applied(u, now) \ ((was \ u.off) \cup u.on) \subseteq but \ Bits(u)
      BY <1>1, <3>1, AppliedIsOwed
    <3> QED
      BY <1>5, <1>a, <3>2 DEF now, was, but
  <2> QED
    BY <1>5, <1>a, <2>2 DEF RequestsAreKept
<1>8. u.reg # "ie" => uasked[u.reg] \subseteq uasked'[u.reg]
  BY <1>a, HandlersClearFlags
<1>9. WatermarksAddUp'
  <2>1. u.reg # "ie" => ureg'[u.reg] \cap CountBits \subseteq uasked'[u.reg]
    BY <1>2, <1>5, <1>8, <1>a DEF WatermarksAddUp, Registers, Applied
  <2> QED
    BY <1>5, <1>a, <2>1 DEF WatermarksAddUp, Registers
<1>10. SeenIsCurrent' /\ SeenAddsUp'
  <2>1. CASE seen = Unread
    BY <1>3, <2>1 DEF SeenIsCurrent, SeenAddsUp
  <2>2. CASE seen # Unread
    <3> DEFINE r == todo[1].reg
    <3>1. todo[1] \in UartUpdates /\ r \in Registers
      BY <2>2 DEF SeenIsCurrent, UartShapes, UartUpdates
    <3>2. /\ todo # <<>> /\ seen \subseteq BitsIn(r) /\ during \subseteq BitsIn(r)
          /\ uasked[r] \ seen \subseteq overwritten[r] \cup during
          /\ seen \ uasked[r] \subseteq overwritten[r] \cup during
          /\ r # "ie" => seen \cap CountBits \subseteq uasked[r]
      BY <2>2 DEF SeenIsCurrent, SeenAddsUp
    <3>3. CASE r = u.reg
      <4>1. during' = during \cup Bits(u)
        BY <1>3, <2>2, <3>3
      <4>2. /\ uasked'[r] \ seen \subseteq overwritten'[r] \cup during'
            /\ seen \ uasked'[r] \subseteq overwritten'[r] \cup during'
        BY <1>5, <1>a, <3>2, <3>3, <4>1 DEF Bits
      <4>3. during' \subseteq BitsIn(r)
        BY <1>2, <3>2, <3>3, <4>1
      <4>4. r # "ie" => seen \cap CountBits \subseteq uasked'[r]
        BY <1>8, <3>2, <3>3
      <4> QED
        BY <1>3, <2>2, <3>2, <4>2, <4>3, <4>4 DEF SeenIsCurrent, SeenAddsUp
    <3>4. CASE r # u.reg
      <4>1. uasked'[r] = uasked[r] /\ overwritten'[r] = overwritten[r]
            /\ during' = during
        BY <1>3, <1>5, <1>a, <3>1, <3>4
      <4> QED
        BY <1>3, <2>2, <3>2, <4>1 DEF SeenIsCurrent, SeenAddsUp
    <3> QED
      BY <3>3, <3>4
  <2> QED
    BY <2>1, <2>2
<1>11. RoomForByte'
  BY <1>3 DEF RoomForByte
<1> QED
  BY <1>6, <1>7, <1>9, <1>10, <1>11

\* The steps that only move bytes or main's place.
LEMMA OthersKeepInv ==
  ASSUME UartInv, Overtaking,
         \/ \E c \in ControlCalls \cup {PreRateChange} : MainCall(c)
         \/ ReadRegister \/ Putc \/ FindRoom \/ WriteData \/ GetcMain
         \/ HandlerPuts \/ HandlerGets \/ TransmitFrame \/ Arrive
  PROVE  UartInv'
<1> USE DEF UartInv
<1>1. filled["tx"] \in 0..Depth /\ filled["rx"] \in 0..Depth /\ Depth \in Nat
  BY UartAssumption DEF UartShapes
<1>2. ASSUME NEW c \in ControlCalls \cup {PreRateChange}, MainCall(c)
      PROVE  UartInv'
  <2>1. seen = Unread /\ seen' = Unread
    BY <1>2 DEF MainCall, MainIdle, SeenIsCurrent
  <2>2. c \in Seq(UartUpdates)
    BY CallsAreUpdates
  <2> QED
    BY <1>2, <2>1, <2>2
       DEF MainCall, UartShapes, RequestsAreKept, WatermarksAddUp,
           SeenIsCurrent, SeenAddsUp, RoomForByte, asks
<1>3. CASE ReadRegister
  <2>1. todo[1] \in UartUpdates /\ todo[1].reg \in Registers
    BY <1>3 DEF ReadRegister, UartShapes, UartUpdates
  <2>2. /\ todo # <<>> /\ seen' = ureg[todo[1].reg] /\ during = {}
        /\ UNCHANGED <<ureg, filled, todo, putting, overtaken, asks>>
    BY <1>3 DEF ReadRegister, SeenIsCurrent
  <2>3. UNCHANGED <<uasked, during, overwritten>>
    BY <2>2 DEF asks
  <2>4. UartShapes' /\ RequestsAreKept' /\ WatermarksAddUp' /\ RoomForByte'
    BY <2>2, <2>3 DEF UartShapes, RequestsAreKept, WatermarksAddUp, RoomForByte
  <2>5. SeenIsCurrent'
    BY <2>1, <2>2, <2>3 DEF SeenIsCurrent, UartShapes, RequestsAreKept
  <2>6. SeenAddsUp'
    BY <2>1, <2>2, <2>3 DEF SeenAddsUp, WatermarksAddUp, Registers
  <2> QED
    BY <2>4, <2>5, <2>6
<1>4. CASE Putc \/ FindRoom
  BY <1>1, <1>4 DEF Putc, FindRoom, TxReady, UartShapes, RequestsAreKept, WatermarksAddUp,
           SeenIsCurrent, SeenAddsUp, RoomForByte, asks
<1>5. CASE WriteData \/ GetcMain
  BY <1>1, <1>5 DEF WriteData, GetcMain, MainIdle, Stored, UartShapes,
                    RequestsAreKept, WatermarksAddUp,
           SeenIsCurrent, SeenAddsUp, RoomForByte, asks
<1>6. CASE HandlerPuts
  <2>1. filled' \in [{"tx", "rx"} -> 0..Depth]
    BY <1>1, <1>6 DEF HandlerPuts, Stored, UartShapes
  <2>2. putting' = putting /\ (putting = "room" => overtaken')
    BY <1>6 DEF HandlerPuts
  <2> QED
    BY <1>6, <2>1, <2>2
       DEF HandlerPuts, UartShapes, RequestsAreKept, WatermarksAddUp,
           SeenIsCurrent, SeenAddsUp, RoomForByte, asks
<1>8. CASE HandlerGets
  BY <1>1, <1>8 DEF HandlerGets, UartShapes, RequestsAreKept, WatermarksAddUp,
           SeenIsCurrent, SeenAddsUp, RoomForByte, asks
<1>7. CASE TransmitFrame \/ Arrive
  BY <1>1, <1>7
     DEF TransmitFrame, Arrive, UartShapes, RequestsAreKept, WatermarksAddUp,
           SeenIsCurrent, SeenAddsUp, RoomForByte, asks
<1> QED
  BY <1>2, <1>3, <1>4, <1>5, <1>6, <1>7, <1>8

LEMMA UartStutterKeepsInv == UartInv /\ UNCHANGED uartVars => UartInv'
  BY DEF UartInv, uartVars, UartShapes, RequestsAreKept, WatermarksAddUp,
           SeenIsCurrent, SeenAddsUp, RoomForByte, asks

LEMMA UartInvHolds == UartSpec => []UartInv
<1>1. UartInv /\ Overtaking /\ [UartNext]_uartVars => UartInv'
  <2> SUFFICES ASSUME UartInv, Overtaking, [UartNext]_uartVars PROVE UartInv'
    OBVIOUS
  <2>1. CASE UartNext
    BY <2>1, WriteKeepsInv, HandlerKeepsInv, OthersKeepInv DEF UartNext
  <2>2. CASE UNCHANGED uartVars
    BY <2>2, UartStutterKeepsInv
  <2> QED
    BY <2>1, <2>2
<1> QED
  BY <1>1, UartInitInv, OvertakingHolds, PTL DEF UartSpec

-----------------------------------------------------------------------------
\* An interrupt flag, a watermark's bit or an enable bit is as it was last asked
\* for, by main or by its handler, unless the handler asked between main's read
\* and main's write of the register (sifive_uart0.c, |= and &=).
THEOREM RequestsCorrect == UartSpec => []RequestsAreKept
  BY UartInvHolds, PTL DEF UartInv

\* putc stores its byte in a full FIFO, and so drops it, only when the handler
\* wrote one after putc found room.
THEOREM RoomCorrect == UartSpec => []RoomForByte
  BY UartInvHolds, PTL DEF UartInv

\* The registers and the FIFOs hold what they can.
THEOREM UartTypes == UartSpec => []UartTypeOK
<1>1. UartInv /\ Overtaking => UartTypeOK
  <2> SUFFICES ASSUME UartInv, Overtaking PROVE UartTypeOK
    OBVIOUS
  <2>1. todo \in Seq(UartUpdates)
          /\ \A k \in 1..Len(todo) : todo[k] \in UartUpdates
    BY DEF UartInv, UartShapes
  <2>2. \A k \in 1..Len(todo) : todo[k].reg \in Registers
    BY <2>1 DEF UartUpdates
  <2>3. /\ \A r \in Registers : uasked[r] \cup overwritten[r] \subseteq BitsIn(r)
        /\ during # {} => seen # Unread /\ during \subseteq BitsIn(todo[1].reg)
    BY DEF UartInv, UartShapes, SeenIsCurrent
  <2> QED
    BY <2>2, <2>3
       DEF UartInv, UartShapes, SeenIsCurrent, Overtaking, UartTypeOK
<1> QED
  BY <1>1, UartInvHolds, OvertakingHolds, PTL

\* The watermark that a control register holds.
LEMMA WatermarkRange ==
  ASSUME NEW r, r \subseteq BitsIn("txctrl")
  PROVE  /\ GetTxWatermark(r) \in Nat
         /\ GetTxWatermark(r) <= GetTxWatermark(CountBits)
         /\ GetTxWatermark(CountBits) \in Nat
         /\ r \cap CountBits # {} => GetTxWatermark(r) > 0
<1>1. \A b \in CountBits : b = 16 \/ b = 17 \/ b = 18
  BY UartAssumption
<1>2. ASSUME NEW b, NEW v \in Nat
      PROVE  /\ Weight(r, b, v) \in Nat /\ Weight(CountBits, b, v) \in Nat
             /\ Weight(r, b, v) <= Weight(CountBits, b, v)
             /\ b \in r \cap CountBits => Weight(r, b, v) = v
  BY DEF Weight
<1> DEFINE a == Weight(r, 16, 1)  b == Weight(r, 17, 2)  c == Weight(r, 18, 4)
           x == Weight(CountBits, 16, 1)  y == Weight(CountBits, 17, 2)
           z == Weight(CountBits, 18, 4)
<1>3. /\ {a, b, c, x, y, z} \subseteq Nat /\ a <= x /\ b <= y /\ c <= z
      /\ 16 \in r \cap CountBits => a = 1
      /\ 17 \in r \cap CountBits => b = 2
      /\ 18 \in r \cap CountBits => c = 4
  BY <1>2
<1>4. r \cap CountBits # {} => a = 1 \/ b = 2 \/ c = 4
  BY <1>1, <1>3
<1> HIDE DEF a, b, c, x, y, z
<1>5. /\ a + b + c \in Nat /\ x + y + z \in Nat /\ a + b + c <= x + y + z
      /\ r \cap CountBits # {} => a + b + c > 0
  BY <1>3, <1>4
<1> QED
  BY <1>5 DEF GetTxWatermark, a, b, c, x, y, z

\* With more room in the FIFOs than a watermark can ask for, as on the board: a
\* request is kept unless main was updating the same register when the handler
\* made it, a watermark is the levels asked for since the last change of the
\* clock together, the room putc found is there unless the handler has taken it,
\* and a full receive FIFO is announced, as is an empty transmit FIFO after a
\* request for it that is kept.
THEOREM InterruptsCorrect ==
  RoomAboveWatermark /\ UartSpec => []InterruptsAreKept
<1>1. RoomAboveWatermark /\ UartInv => WakesInTime
  <2> SUFFICES ASSUME RoomAboveWatermark, UartInv PROVE WakesInTime
    OBVIOUS
  <2>1. /\ ureg["txctrl"] \subseteq BitsIn("txctrl")
        /\ ureg["rxctrl"] \subseteq BitsIn("txctrl")
        /\ Depth \in Nat
    BY UartAssumption DEF UartInv, UartShapes, Registers, BitsIn
  <2>2. filled["rx"] = Depth => filled["rx"] > GetTxWatermark(ureg["rxctrl"])
    BY <2>1, WatermarkRange DEF RoomAboveWatermark
  <2>3. uasked["txctrl"] \ overwritten["txctrl"] \subseteq ureg["txctrl"]
    BY DEF UartInv, RequestsAreKept, Registers
  <2>4. (uasked["txctrl"] \cap CountBits) \ overwritten["txctrl"] # {}
        /\ filled["tx"] = 0 => filled["tx"] < GetTxWatermark(ureg["txctrl"])
    BY <2>1, <2>3, WatermarkRange
  <2> QED
    BY <2>2, <2>4 DEF WakesInTime, Pending, Flags
<1>2. ASSUME RoomAboveWatermark PROVE UartSpec => []InterruptsAreKept
  <2>1. UartInv => InterruptsAreKept
    BY <1>1, <1>2 DEF UartInv, InterruptsAreKept
  <2> QED
    BY <2>1, UartInvHolds, PTL
<1> QED
  BY <1>2

-----------------------------------------------------------------------------
(* The devices together.                                                   *)

LEMMA DevicesInitParts ==
  DevicesInit => /\ TreeInit /\ Init /\ ClockInit /\ PinInit /\ SpiInit
                 /\ PwmInit /\ WdogInit /\ RtcInit /\ UartInit
  BY DEF DevicesInit, TreeInit

\* A step of the devices is a step of one part, or none, for every part.
LEMMA DevicesStepParts ==
  ASSUME [DevicesNext]_devicesVars
  PROVE  /\ [TreeNext]_treeVars /\ [Next]_vars /\ [ClockNext]_clockVars
         /\ [PinNext]_pinVars /\ [SpiNext]_spiVars
         /\ [PwmNext]_pwmVars /\ [WdogNext]_wdogVars
         /\ [RtcNext]_rtcVars /\ [UartNext]_uartVars
<1>1. CASE TreeRuns
  <2>1. [TreeNext]_treeVars /\ UNCHANGED <<pinVars, spiVars, pwmVars, wdogVars,
                                          rtcVars, uartVars>>
    BY <1>1 DEF TreeRuns
  <2> QED
    BY <2>1, TreeStepParts
<1>2. ASSUME UNCHANGED treeVars PROVE [TreeNext]_treeVars /\ [Next]_vars /\ [ClockNext]_clockVars
  BY <1>2 DEF treeVars
<1>3. CASE PinsRun
  BY <1>3, <1>2 DEF PinsRun
<1>4. CASE SpiRuns
  BY <1>4, <1>2 DEF SpiRuns
<1>5. CASE PwmRuns
  BY <1>5, <1>2 DEF PwmRuns
<1>6. CASE WdogRuns
  BY <1>6, <1>2 DEF WdogRuns
<1>7. CASE RtcRuns
  BY <1>7, <1>2 DEF RtcRuns
<1>8. CASE UartRuns
  BY <1>8, <1>2 DEF UartRuns
<1>9. CASE UNCHANGED devicesVars
  BY <1>9, <1>2 DEF devicesVars
<1> QED
  BY <1>1, <1>3, <1>4, <1>5, <1>6, <1>7, <1>8, <1>9 DEF DevicesNext

LEMMA DevicesParts ==
  DevicesSpec => /\ TreeSpec /\ Spec /\ ClockSpec /\ PinSpec /\ SpiSpec
                 /\ PwmSpec /\ WdogSpec /\ RtcSpec /\ UartSpec
  BY DevicesInitParts, DevicesStepParts, PTL
     DEF DevicesSpec, TreeSpec, Spec, ClockSpec, PinSpec, SpiSpec, PwmSpec, WdogSpec,
         RtcSpec, UartSpec

\* All variables of the drivers, the clock tree and the pins keep their types in
\* the composition, under the assumptions TLC evaluates.
THEOREM DevicesTypes == DevicesSpec => []DevicesTypeOK
<1>1. ClockSpec => []ClockTypeOK
  BY ClockTypes, DevicesAssumption DEF DevicesAssumption
<1>2. DevicesSpec => /\ []TypeOK /\ []ClockTypeOK /\ []PinTypeOK
                     /\ []SpiTypeOK /\ []PwmTypeOK /\ []WdogTypeOK
                     /\ []RtcTypeOK /\ []UartTypeOK
  BY <1>1, DevicesParts, PllTypes, PinTypes, TransfersCorrect, OutputCorrect,
     WdogTypes, ClockCorrect, UartTypes, PTL
<1>3. ASSUME TypeOK, ClockTypeOK, PinTypeOK, SpiTypeOK,
             PwmTypeOK, WdogTypeOK, RtcTypeOK, UartTypeOK
      PROVE  DevicesTypeOK
  BY <1>3 DEF DevicesTypeOK
<1> QED
  BY <1>2, <1>3, PTL

\* In the composition the SPI driver's answers come in order, as late as
\* transfers timed out, and the UART's requests, watermarks and wake-ups are
\* kept but for requests made while the other side updates the same register.
THEOREM LinksCorrect == DevicesSpec => []LinksAreSound
<1>1. UartSpec => []InterruptsAreKept
  BY InterruptsCorrect, DevicesAssumption DEF DevicesAssumption
<1>2. DevicesSpec => []TransfersAreSound /\ []InterruptsAreKept
  BY <1>1, DevicesParts, TransfersCorrect, PTL
<1> QED
  BY <1>2, PTL DEF LinksAreSound

\* A clock is changed only while nobody depends on it: the rate and the PLL
\* while no initialised device has a byte on its line, but a UART whose byte
\* went out at more than 214 MHz, the PLL's settings while the core is off it.
THEOREM ChangesCorrect == DevicesSpec => ChangesAreSafe
<1>1. (ClockSpec => ChangedWhenDrained) /\ (TreeSpec => PllChangesWhenDrained)
  BY RateChangesWhenDrained, PllIsDrained, DevicesAssumption
     DEF DevicesAssumption
<1> QED
  BY <1>1, DevicesParts, UnselectedCorrect, PTL DEF ChangesAreSafe
==============================================================================
