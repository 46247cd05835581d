---------------------------- MODULE RealTimeClock ----------------------------
(***************************************************************************)
(* The real-time clock: a counter of two words, which is read and written  *)
(* one word at a time while it counts, and a comparator of one word with   *)
(* a scale.                                                                *)
(***************************************************************************)
EXTENDS Integers, PowersOfTwo

CONSTANTS
  Word,         \* the number of values of one word, 2^32
  HiWords,      \* the number of values the count's high word has
  Compares,     \* values callers compare with
  RtcScaleMask  \* METAL_RTCCFG_RTCSCALE_MASK, 15

ASSUME RtcAssumption ==
  /\ {Word, HiWords, RtcScaleMask} \subseteq Nat \ {0} /\ Word > 1
  /\ Compares \subseteq Nat

VARIABLES
  rtccount,     \* the count
  rtcrun,       \* RTCCFG.ENALWAYS
  rtcscale,     \* RTCCFG.RTCSCALE
  rtccmp,       \* RTCCMP0
  rpc,          \* "idle", or the access a call makes next
  high,         \* the local high word of get_count, or of what set_count writes
  low,          \* the low word set_count writes
  got,          \* what the last get_count returned, Unwanted before
  ahead,        \* history: the count when that get_count read its last word
  rtc_wanted,   \* what the last set_compare asked for
  answer        \* what it returned

Unwanted == -1

rtcVars == <<rtccount, rtcrun, rtcscale, rtccmp, rpc, high, low, got,
             ahead, rtc_wanted, answer>>
call == <<rpc, high, low>>
compare == <<rtcscale, rtccmp, rtc_wanted, answer>>

RtcInit ==
  /\ rtccount = 0 /\ rtcrun = FALSE
  /\ rtcscale = 0 /\ rtccmp = 0
  /\ rpc = "idle" /\ high = 0 /\ low = 0
  /\ got = Unwanted /\ ahead = 0 /\ rtc_wanted = 0 /\ answer = 0

\* The types of the variables.
RtcTypeOK ==
  /\ rtccount \in 0 .. Word * HiWords - 1 /\ ahead \in 0 .. Word * HiWords - 1
  /\ rtcrun \in BOOLEAN /\ rtcscale \in 0 .. RtcScaleMask
  /\ rtccmp \in 0 .. Word - 1
  /\ rpc \in {"idle", "low", "write high", "write low", "high"}
  /\ high \in 0 .. HiWords - 1 /\ low \in 0 .. Word - 1
  /\ got \in {Unwanted} \cup 0 .. Word * HiWords - 1
  /\ rtc_wanted \in Compares \cup {0} /\ answer \in Nat

RtcTick ==
  /\ rtcrun /\ rtccount < Word * HiWords - 1
  /\ rtccount' = rtccount + 1
  /\ UNCHANGED <<rtcrun, compare, call, got, ahead>>

\* get_count reads the high word, then the low one, and does not look again.
GetCount ==
  /\ rpc = "idle"
  /\ rpc' = "low"
  /\ high' = rtccount \div Word
  /\ UNCHANGED <<rtccount, rtcrun, compare, low, got, ahead>>

ReadLow ==
  /\ rpc = "low"
  /\ got' = high * Word + (rtccount % Word)
  /\ ahead' = rtccount
  /\ rpc' = "idle" /\ high' = 0 /\ low' = 0
  /\ UNCHANGED <<rtccount, rtcrun, compare>>

\* set_count writes the high word, then the low one, and then reads the count.
SetCount ==
  /\ rpc = "idle"
  /\ \E n \in 0 .. Word * HiWords - 1 : high' = n \div Word /\ low' = n % Word
  /\ rpc' = "write high"
  /\ UNCHANGED <<rtccount, rtcrun, compare, got, ahead>>

WriteHigh ==
  /\ rpc = "write high"
  /\ rtccount' = high * Word + (rtccount % Word)
  /\ rpc' = "write low"
  /\ UNCHANGED <<rtcrun, compare, high, low, got, ahead>>

WriteLow ==
  /\ rpc = "write low"
  /\ rtccount' = (rtccount \div Word) * Word + low
  /\ rpc' = "high"
  /\ UNCHANGED <<rtcrun, compare, high, low, got, ahead>>

ReadHigh ==
  /\ rpc = "high"
  /\ high' = rtccount \div Word
  /\ rpc' = "low"
  /\ UNCHANGED <<rtccount, rtcrun, compare, low, got, ahead>>

\* The loop of set_compare, on comp_shifted and shift: each turn shifts by one
\* more than the one before, until one word holds the value.
Shifts[turn \in Nat \X Nat] ==
  LET c == turn[1]
      s == turn[2]
  IN IF c < Word THEN [scale |-> s, cmp |-> c]
                 ELSE Shifts[<<c \div Pow2[s + 1], s + 1>>]

\* get_compare.
\* Mutant: get_compare shifts by one too many.
Comparator_OneTooMany(k, c) == c * Pow2[k + 1]

Comparator(k, c) == c * Pow2[k]

SetCompare ==
  /\ rpc = "idle"
  /\ \E c \in Compares :
       LET fit == Shifts[<<c, 0>>]
       IN /\ rtc_wanted' = c
          /\ rtcscale' = fit.scale % (RtcScaleMask + 1)
          /\ rtccmp' = fit.cmp
          /\ answer' = Comparator(rtcscale', rtccmp')
  /\ UNCHANGED <<rtccount, rtcrun, call, got, ahead>>

RtcRun ==
  /\ rpc = "idle"
  /\ rtcrun' \in BOOLEAN
  /\ UNCHANGED <<rtccount, compare, call, got, ahead>>

RtcNext ==
  \/ RtcTick \/ GetCount \/ ReadLow \/ SetCount \/ WriteHigh \/ WriteLow
  \/ ReadHigh \/ SetCompare \/ RtcRun

RtcSpec == RtcInit /\ [][RtcNext]_rtcVars

-----------------------------------------------------------------------------
(* A count that get_count returns is the count at that moment, or, when the *)
(* low word wrapped between its two reads, whole ranges of that word behind *)
(* it: never ahead.  And the comparator set_compare leaves is not past what *)
(* was asked for, and less than a step of its scale before it when at most  *)
(* one shift was needed (sifive_rtc0.c, get_count and set_compare).         *)
ClockIsNeverAhead ==
  /\ got # Unwanted => got <= ahead /\ got % Word = ahead % Word
  /\ answer <= rtc_wanted
  /\ rtc_wanted < 2 * Word => rtc_wanted - answer < Pow2[rtcscale]
============================================================================
