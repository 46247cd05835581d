----------------------------- MODULE WideTimer -----------------------------
(***************************************************************************)
(* The 64-bit counters of a 32-bit core: mcycle, which the delays are      *)
(* counted in, mtime, and the comparator mtimecmp that raises the timer    *)
(* interrupt.  Each is two words that are read and written one at a time   *)
(* while the counters run and while the timer interrupt may be taken.      *)
(*                                                                         *)
(* Two contexts run on the hart: "main", and "isr", the default timer      *)
(* handler, which interrupts main between any two of its accesses and      *)
(* runs to its end before main goes on.                                    *)
(***************************************************************************)
EXTENDS Integers

CONSTANTS
  Base,         \* the number of values of one word, 2^32 on the chip
  TickRate,     \* what metal_clock_get_rate_hz says of the core's clock
  Micros,       \* arguments of delay_us
  Millis,       \* arguments of delay_ms
  Again         \* ticks after which the default handler wants to run again

ASSUME BaseAssumption == Base \in Nat /\ Base > 1
ASSUME DelayAssumption ==
  /\ TickRate \in Nat /\ Again \in Nat
  /\ Micros \subseteq Nat /\ Millis \subseteq Nat

Word == 0 .. Base - 1
Wide == [hi : Word, lo : Word]

Value(w) == w.hi * Base + w.lo

Leq(v, w) == v.hi < w.hi \/ (v.hi = w.hi /\ v.lo <= w.lo)

Last == [hi |-> Base - 1, lo |-> Base - 1]

\* Mutant: no carry into the high word.
Next64_NoCarry(w) == [w EXCEPT !.lo = @ + 1]

Next64(w) == IF w.lo < Base - 1 THEN [w EXCEPT !.lo = @ + 1]
                                ELSE [hi |-> (w.hi + 1) % Base, lo |-> 0]

\* w + n modulo 2^64.
Plus(w, n) == LET low == w.lo + n
              IN [hi |-> (w.hi + low \div Base) % Base, lo |-> low % Base]

WideCounters == {"mcycle", "mtime"}
Contexts == {"main", "isr"}

VARIABLES
  count,        \* count[c]: the running counter c
  mtimecmp,     \* the comparator
  sub_int,      \* the CLINT is known as the CPU's timer controller
  tpc,          \* tpc[x]: where context x is
  job,          \* job[x]: what x is doing
  hi,           \* hi[x]: the local hi of the loop that reads a counter
  lo,           \* lo[x]
  wait,         \* ticks the running delay is to last
  start,        \* the delay's first reading
  goal,         \* goal[x]: the comparator value x is writing
  since,        \* history: the counter when x's read began
  called,       \* history: mcycle when the delay was called
  before        \* history: the comparator before main's running update

timerVars == <<count, mtimecmp, sub_int, tpc, job, hi, lo, wait, start, goal,
               since, called, before>>

Zero == [hi |-> 0, lo |-> 0]

TimerInit ==
  /\ count = [c \in WideCounters |-> Zero]
  /\ mtimecmp = Last
  /\ sub_int = FALSE
  /\ tpc = [x \in Contexts |-> "idle"]
  /\ job = [x \in Contexts |-> "none"]
  /\ hi = [x \in Contexts |-> 0]
  /\ lo = [x \in Contexts |-> 0]
  /\ wait = 0 /\ start = Zero /\ called = Zero
  /\ goal = [x \in Contexts |-> Zero]
  /\ since = [x \in Contexts |-> Zero]
  /\ before = Last

\* The types of the variables.
TimerTypeOK ==
  /\ count \in [WideCounters -> Wide] /\ mtimecmp \in Wide
  /\ sub_int \in BOOLEAN
  /\ tpc \in [Contexts -> {"idle", "hi", "lo", "check", "read", "park", "low",
                           "high"}]
  /\ job \in [Contexts -> {"none", "cycles", "time", "begin", "delay",
                           "compare", "rearm"}]
  /\ hi \in [Contexts -> Word] /\ lo \in [Contexts -> Word]
  /\ wait \in Nat /\ start \in Wide /\ called \in Wide /\ before \in Wide
  /\ goal \in [Contexts -> Wide] /\ since \in [Contexts -> Wide]

\* The counter a job reads.
Source(j) == IF j \in {"cycles", "begin", "delay"} THEN "mcycle" ELSE "mtime"

MTIP == Leq(mtimecmp, count["mtime"])

Runs(x) == x = "isr" \/ tpc["isr"] = "idle"

Goto(x, l) == tpc' = [tpc EXCEPT ![x] = l]

Hardware == <<count, mtimecmp, sub_int>>
Delaying == <<wait, start, called>>

-----------------------------------------------------------------------------
(* The counters.                                                            *)

\* A counter counts until it has reached its last value: 64 bits of 160 MHz
\* last for longer than three thousand years.
Count(c) ==
  /\ count[c] # Last
  /\ count' = [count EXCEPT ![c] = Next64(@)]
  /\ UNCHANGED <<mtimecmp, sub_int, tpc, job, hi, lo, wait, start, goal,
                 since, called, before>>

\* The CLINT registers its default handlers, and itself, with the CPU.
ClintInit ==
  /\ ~sub_int /\ tpc["main"] = "idle"
  /\ sub_int' = TRUE
  /\ UNCHANGED <<count, mtimecmp, tpc, job, hi, lo, wait, start, goal,
                 since, called, before>>

-----------------------------------------------------------------------------
(* Reading a counter: hi, lo, hi again, until both readings of hi agree.    *)

Ask(x, j) ==
  /\ job' = [job EXCEPT ![x] = j]
  /\ since' = [since EXCEPT ![x] = count[Source(j)]]
  /\ Goto(x, "hi")

ReadHi(x) ==
  /\ Runs(x) /\ tpc[x] = "hi"
  /\ hi' = [hi EXCEPT ![x] = count[Source(job[x])].hi]
  /\ Goto(x, "lo")
  /\ UNCHANGED <<Hardware, Delaying, job, lo, goal, since, before>>

ReadLo(x) ==
  /\ Runs(x) /\ tpc[x] = "lo"
  /\ lo' = [lo EXCEPT ![x] = count[Source(job[x])].lo]
  /\ Goto(x, "check")
  /\ UNCHANGED <<Hardware, Delaying, job, hi, goal, since, before>>

\* Mutant: the high word is not compared.
ReadHiAgain_Unchecked(x) ==
  /\ Runs(x) /\ tpc[x] = "check"
  /\ Goto(x, "read")
  /\ UNCHANGED <<Hardware, Delaying, job, hi, lo, goal, since, before>>

ReadHiAgain(x) ==
  /\ Runs(x) /\ tpc[x] = "check"
  /\ Goto(x, IF count[Source(job[x])].hi = hi[x] THEN "read" ELSE "hi")
  /\ UNCHANGED <<Hardware, Delaying, job, hi, lo, goal, since, before>>

Reading(x) == [hi |-> hi[x], lo |-> lo[x]]

Leave(x) ==
  /\ Goto(x, "idle")
  /\ job' = [job EXCEPT ![x] = "none"]
  /\ hi' = [hi EXCEPT ![x] = 0]
  /\ lo' = [lo EXCEPT ![x] = 0]
  /\ since' = [since EXCEPT ![x] = Zero]
  /\ goal' = [goal EXCEPT ![x] = Zero]

-----------------------------------------------------------------------------
(* What main does with it.                                                  *)

\* metal_cpu_get_timer: mcycle.
GetCycles ==
  /\ Runs("main") /\ tpc["main"] = "idle"
  /\ Ask("main", "cycles")
  /\ UNCHANGED <<Hardware, Delaying, hi, lo, goal, before>>

\* metal_cpu_get_mtime.  As long as no timer controller is registered it
\* returns 0 at once, and nothing in the state changes.
GetTime ==
  /\ Runs("main") /\ tpc["main"] = "idle" /\ sub_int
  /\ Ask("main", "time")
  /\ UNCHANGED <<Hardware, Delaying, hi, lo, goal, before>>

Got ==
  /\ Runs("main") /\ tpc["main"] = "read" /\ job["main"] \in {"cycles", "time"}
  /\ Leave("main")
  /\ UNCHANGED <<Hardware, Delaying, before>>

DelayUs(us) == LET ticks == (us * TickRate) \div 1000000
               IN IF ticks = 0 THEN 1 ELSE ticks

DelayMs(ms) == (ms * TickRate) \div 1000

Delay ==
  /\ Runs("main") /\ tpc["main"] = "idle"
  /\ wait' \in {DelayUs(us) : us \in Micros} \cup {DelayMs(ms) : ms \in Millis}
  /\ called' = count["mcycle"]
  /\ Ask("main", "begin")
  /\ UNCHANGED <<Hardware, start, hi, lo, goal, before>>

Begun ==
  /\ Runs("main") /\ tpc["main"] = "read" /\ job["main"] = "begin"
  /\ start' = Reading("main")
  /\ Ask("main", "delay")
  /\ UNCHANGED <<Hardware, wait, called, hi, lo, goal, before>>

\* Mutant: the delay ends one tick early.
Elapsed_Early == Value(Reading("main")) - Value(start) >= wait - 1

Elapsed == Value(Reading("main")) - Value(start) >= wait

Poll ==
  /\ Runs("main") /\ tpc["main"] = "read" /\ job["main"] = "delay"
  /\ ~Elapsed
  /\ Ask("main", "delay")
  /\ UNCHANGED <<Hardware, Delaying, hi, lo, goal, before>>

Delayed ==
  /\ Runs("main") /\ tpc["main"] = "read" /\ job["main"] = "delay"
  /\ Elapsed
  /\ Leave("main")
  /\ wait' = 0 /\ start' = Zero /\ called' = Zero
  /\ UNCHANGED <<Hardware, before>>

-----------------------------------------------------------------------------
(* The comparator: hi to its maximum, then lo, then hi.                     *)

SetCompare ==
  /\ Runs("main") /\ tpc["main"] = "idle" /\ sub_int
  /\ \E w \in Wide : goal' = [goal EXCEPT !["main"] = w]
  /\ job' = [job EXCEPT !["main"] = "compare"]
  /\ before' = mtimecmp
  /\ Goto("main", "park")
  /\ UNCHANGED <<Hardware, Delaying, hi, lo, since>>

\* Mutant: the high word is not parked.
Park_Skipped(x) ==
  /\ Runs(x) /\ tpc[x] = "park"
  /\ Goto(x, "low")
  /\ UNCHANGED <<count, mtimecmp, sub_int, Delaying, job, hi, lo, goal, since,
                 before>>

Park(x) ==
  /\ Runs(x) /\ tpc[x] = "park"
  /\ mtimecmp' = [mtimecmp EXCEPT !.hi = Base - 1]
  /\ Goto(x, "low")
  /\ UNCHANGED <<count, sub_int, Delaying, job, hi, lo, goal, since, before>>

WriteLo(x) ==
  /\ Runs(x) /\ tpc[x] = "low"
  /\ mtimecmp' = [mtimecmp EXCEPT !.lo = goal[x].lo]
  /\ Goto(x, "high")
  /\ UNCHANGED <<count, sub_int, Delaying, job, hi, lo, goal, since, before>>

WriteHi(x) ==
  /\ Runs(x) /\ tpc[x] = "high"
  /\ mtimecmp' = [mtimecmp EXCEPT !.hi = goal[x].hi]
  /\ before' = IF x = "main" THEN Last ELSE before
  /\ Leave(x)
  /\ UNCHANGED <<count, sub_int, Delaying>>

-----------------------------------------------------------------------------
(* The default timer handler reads mtime and sets the comparator past it.   *)

TimerInterrupt ==
  /\ MTIP /\ sub_int /\ tpc["isr"] = "idle"
  /\ Ask("isr", "rearm")
  /\ UNCHANGED <<Hardware, Delaying, hi, lo, goal, before>>

Rearm ==
  /\ tpc["isr"] = "read"
  /\ goal' = [goal EXCEPT !["isr"] = Plus(Reading("isr"), Again)]
  /\ Goto("isr", "park")
  /\ UNCHANGED <<Hardware, Delaying, job, hi, lo, since, before>>

Access(x) == ReadHi(x) \/ ReadLo(x) \/ ReadHiAgain(x)
             \/ Park(x) \/ WriteLo(x) \/ WriteHi(x)

MainTimer == GetCycles \/ GetTime \/ Got \/ Delay \/ Begun \/ Poll \/ Delayed
             \/ SetCompare \/ ClintInit

TimerNext ==
  \/ \E c \in WideCounters : Count(c)
  \/ \E x \in Contexts : Access(x)
  \/ MainTimer
  \/ TimerInterrupt
  \/ Rearm

TimerSpec == TimerInit /\ [][TimerNext]_timerVars

-----------------------------------------------------------------------------
(* Properties.                                                              *)

\* riscv_cpu.c, mcycle_get and mtime_get: the value put together from words
\* that were read apart is one the counter had between the beginning and the
\* end of the call, whatever carries and interrupts came between the reads.
ReadsAreCurrent ==
  \A x \in Contexts : tpc[x] = "read" =>
    Leq(since[x], Reading(x)) /\ Leq(Reading(x), count[Source(job[x])])

\* riscv_clint0.c, mtimecmp_set: while the words of the comparator are being
\* replaced no interrupt is pending unless the old or the new value is due;
\* until mtime itself is in its last 2^32 ticks, where the parked high word no
\* longer keeps the comparator above it.
NoSpuriousInterrupt ==
  /\ job["main"] = "compare" /\ tpc["isr"] = "idle" /\ MTIP
  /\ count["mtime"].hi < Base - 1
  => Leq(before, count["mtime"]) \/ Leq(goal["main"], count["mtime"])

\* delay.c: a delay that ends has lasted as many cycles as it was asked for.
DelayLasts ==
  tpc["main"] = "read" /\ job["main"] = "delay" /\ Elapsed =>
    Value(count["mcycle"]) - Value(called) >= wait
============================================================================
