------------------------------- MODULE Watchdog -------------------------------
(***************************************************************************)
(* The watchdog timer.  Every call is one or more writes of its registers, *)
(* each unlocked by a write of the key, while the counter counts.  A write *)
(* of the configuration changes bits of the word it read.                  *)
(***************************************************************************)
EXTENDS Integers, Sequences, FiniteSetsExt, PowersOfTwo

CONSTANTS
  ClockRate,   \* rate of the low-frequency clock
  WdogRates,   \* rates callers ask for
  Timeouts,    \* timeouts they ask for
  CmpMask,     \* METAL_WDOGCMP_MASK, 0xFFFF
  ScaleMask,   \* METAL_WDOGCFG_SCALE_MASK
  MaxWdog      \* bound: the counter stops there

ASSUME WatchdogAssumption ==
  /\ {ClockRate, CmpMask, ScaleMask, MaxWdog} \subseteq Nat \ {0}
  /\ WdogRates \cup Timeouts \subseteq Nat

Results == {"no_result", "interrupt", "full_reset"}

VARIABLES
  bits,        \* the flags set in WDOGCFG
  scale,       \* its scale field
  wdogcmp,     \* WDOGCMP
  wdogcount,   \* WDOGCOUNT
  awake,       \* the core is awake
  plan,        \* the writes the running call still has to make
  since,       \* history: counts since the last feed, start or wrap
  timeout,     \* history: the timeouts in force, two during set_timeout
  scales,      \* history: the scales accepted, two during set_rate
  wdog_result, \* history: the results in force, two during set_result
  bite         \* what the last match did: "none", "interrupt" or "reset"

wdogVars == <<bits, scale, wdogcmp, wdogcount, awake, plan, since, timeout,
              scales, wdog_result, bite>>

WdogInit ==
  /\ bits = {} /\ scale = 0 /\ wdogcmp = CmpMask /\ wdogcount = 0
  /\ awake = TRUE /\ plan = <<>> /\ since = 0
  /\ timeout = {CmpMask} /\ scales = {0}
  /\ wdog_result = {"no_result"} /\ bite = "none"

\* The types of the variables.
WdogTypeOK ==
  /\ bits \subseteq {"enalways", "coreawake", "rsten", "zerocmp", "ip"}
  /\ scale \in 0 .. ScaleMask /\ wdogcmp \in 0 .. CmpMask
  /\ wdogcount \in 0 .. MaxWdog /\ since \in 0 .. MaxWdog
  /\ awake \in BOOLEAN /\ Len(plan) <= 3
  /\ timeout \subseteq 0 .. CmpMask /\ wdog_result \subseteq Results
  /\ scales \subseteq 0 .. ScaleMask
  /\ bite \in {"none", "interrupt", "reset"}

-----------------------------------------------------------------------------
(* The calls, each as the writes it makes.                                  *)

Clear(S) == [op |-> "clear", arg |-> S]
Set(S) == [op |-> "set", arg |-> S]
Scale(n) == [op |-> "scale", arg |-> n]
Compare(n) == [op |-> "compare", arg |-> n]
FeedWrite == [op |-> "feed", arg |-> 0]

Call(writes) ==
  /\ plan = <<>>
  /\ plan' = writes

Rest == <<bits, scale, wdogcmp, wdogcount, awake, since, bite>>

Feed ==
  /\ Call(<<FeedWrite>>)
  /\ UNCHANGED <<Rest, timeout, scales, wdog_result>>

\* The scale whose rate differs least from the one asked for, the lower of two:
\* the loop never tries the last scale.
Off(r, k) == LET new == ClockRate \div Pow2[k]
             IN IF r < new THEN new - r ELSE r - new

ClosestScale(r) ==
  LET least == {k \in 0 .. ScaleMask - 1 :
                  \A j \in 0 .. ScaleMask - 1 : Off(r, k) <= Off(r, j)}
  IN Min(least)

\* With a rate below the clock's the old scale is cleared before the new one is
\* written: in between the watchdog counts at the rate of the clock.
SetWdogRate ==
  /\ \E r \in WdogRates :
       LET k == IF r >= ClockRate THEN 0 ELSE ClosestScale(r)
       IN /\ Call(IF r >= ClockRate THEN <<Scale(0)>> ELSE <<Scale(0), Scale(k)>>)
          /\ scales' = scales \cup {k}
  /\ UNCHANGED <<Rest, timeout, wdog_result>>

\* The timeout is capped, and written once: a compare value of 0 in between
\* would match.
Capped(t) == IF t > CmpMask THEN CmpMask ELSE t

\* Mutant: the old timeout is cleared before the new one is written.
SetTimeout_ClearsFirst ==
  /\ \E t \in Timeouts :
       /\ Call(<<Compare(0), Compare(Capped(t))>>)
       /\ timeout' = timeout \cup {Capped(t)}
  /\ UNCHANGED <<Rest, scales, wdog_result>>

SetTimeout ==
  /\ \E t \in Timeouts :
       /\ Call(<<Compare(Capped(t))>>)
       /\ timeout' = timeout \cup {Capped(t)}
  /\ UNCHANGED <<Rest, scales, wdog_result>>

ResultWrites(r) ==
  <<Clear({"rsten", "zerocmp"})>> \o
  CASE r = "interrupt" -> <<Set({"zerocmp"})>>
    [] r = "full_reset" -> <<Set({"rsten"})>>
    [] OTHER -> <<>>

SetResult ==
  /\ \E r \in Results :
       Call(ResultWrites(r)) /\ wdog_result' = wdog_result \cup {r}
  /\ UNCHANGED <<Rest, timeout, scales>>

RunWrites(option) ==
  <<Clear({"enalways", "coreawake"})>> \o
  CASE option = "run_always" -> <<FeedWrite, Set({"enalways"})>>
    [] option = "run_awake" -> <<FeedWrite, Set({"coreawake"})>>
    [] OTHER -> <<>>

Run ==
  /\ \E option \in {"stop", "run_always", "run_awake"} :
       Call(RunWrites(option))
  /\ UNCHANGED <<Rest, timeout, scales, wdog_result>>

ClearInterrupt ==
  /\ Call(<<Clear({"ip"})>>)
  /\ UNCHANGED <<Rest, timeout, scales, wdog_result>>

\* One write.  With the last one of a call, what it asked for alone is in
\* force.
ApplyScale(w) ==
  /\ bits' = CASE w.op = "clear" -> bits \ w.arg
               [] w.op = "set" -> bits \cup w.arg
               [] OTHER -> bits
  /\ scale' = IF w.op = "scale" THEN w.arg ELSE scale
  /\ wdogcmp' = IF w.op = "compare" THEN w.arg ELSE wdogcmp
  /\ wdogcount' = IF w.op = "feed" THEN 0 ELSE wdogcount
  /\ since' = IF w.op = "feed" THEN 0 ELSE since

InForce(b) == IF "rsten" \in b THEN {"full_reset"}
              ELSE IF "zerocmp" \in b THEN {"interrupt"} ELSE {"no_result"}

RegisterWrite ==
  /\ plan # <<>>
  /\ ApplyScale(Head(plan))
  /\ plan' = Tail(plan)
  /\ timeout' = IF plan' = <<>> THEN {wdogcmp'} ELSE timeout
  /\ scales' = IF plan' = <<>> THEN {scale'} ELSE scales
  /\ wdog_result' = IF plan' = <<>> THEN InForce(bits') ELSE wdog_result
  /\ UNCHANGED <<awake, bite>>

-----------------------------------------------------------------------------
(* The hardware.                                                            *)

Counting == "enalways" \in bits \/ ("coreawake" \in bits /\ awake)

Matches == wdogcount \div Pow2[scale] >= wdogcmp

CountUp ==
  /\ Counting /\ wdogcount < MaxWdog /\ ~(Matches /\ "ip" \notin bits)
  /\ wdogcount' = wdogcount + 1
  /\ since' = since + 1
  /\ bite' = "none"
  /\ UNCHANGED <<bits, scale, wdogcmp, awake, plan, timeout, scales,
                 wdog_result>>

Bite ==
  /\ Counting /\ Matches
  /\ IF "rsten" \in bits
       THEN /\ bite' = "reset" /\ bits' = {} /\ scale' = 0
            /\ wdogcmp' = CmpMask /\ wdogcount' = 0 /\ since' = 0
            /\ plan' = <<>> /\ awake' = TRUE
            /\ timeout' = {CmpMask} /\ scales' = {0}
            /\ wdog_result' = {"no_result"}
       ELSE /\ "ip" \notin bits
            /\ bite' = "interrupt" /\ bits' = bits \cup {"ip"}
            /\ wdogcount' = IF "zerocmp" \in bits THEN 0 ELSE wdogcount
            /\ since' = IF "zerocmp" \in bits THEN 0 ELSE since
            /\ UNCHANGED <<scale, wdogcmp, plan, awake, timeout, scales,
                           wdog_result>>

Doze ==
  /\ awake' = ~awake
  /\ UNCHANGED <<bits, scale, wdogcmp, wdogcount, plan, since, timeout,
                 scales, wdog_result, bite>>

WdogNext ==
  \/ Feed \/ SetWdogRate \/ SetTimeout \/ SetResult \/ Run \/ ClearInterrupt
  \/ RegisterWrite \/ CountUp \/ Bite \/ Doze

WdogSpec == WdogInit /\ [][WdogNext]_wdogVars

-----------------------------------------------------------------------------
\* The scales the watchdog may count at: those accepted, and 0 once set_rate has
\* cleared the field and not yet written the new scale.
ScalesAtWork ==
  IF \E k \in 0 .. ScaleMask : plan = <<Scale(k)>> THEN scales \cup {0} ELSE scales

(* When the watchdog raises its interrupt or resets the chip, it has counted *)
(* a whole timeout since it was last fed or started, at a rate that was      *)
(* accepted and is in force, also in the middle of set_timeout, run and the  *)
(* other calls - except between the two writes of set_rate, where the scale  *)
(* is 0 (wdog0.c:102-105): there it may bite after a timeout of the          *)
(* unscaled clock, earlier than either rate allows.  It resets the chip only *)
(* when a full reset is what was asked for last, or is being asked for.      *)
BitesAreDue ==
  [][("ip" \notin bits /\ "ip" \in bits') \/ (bite' = "reset" /\ bite # "reset")
       => /\ \E t \in timeout, k \in ScalesAtWork :
               since >= t * Pow2[k]
          /\ bite' = "reset" => "full_reset" \in wdog_result]_wdogVars
============================================================================
