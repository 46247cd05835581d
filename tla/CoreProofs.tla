----------------------------- MODULE CoreProofs ------------------------------
(***************************************************************************)
(* Proofs about the parts of the core complex: the start-up of any number  *)
(* of harts, the timer and the delays for any width of a word, the         *)
(* performance counters, memory protection and the core-local interrupt    *)
(* controller; and, with the proofs about the traps, that the composition  *)
(* has the types of all.                                                   *)
(*                                                                         *)
(* Each part has an inductive invariant of its own (HartInv, TimerInv,     *)
(* HpmInv, PmpInv, ClicInv), stated first and proved action by action.     *)
(***************************************************************************)
EXTENDS MCCore, TrapDispatchProofs, TLAPS, WellFoundedInduction

-----------------------------------------------------------------------------
(* The start-up of the harts: HartStart.                                   *)

\* The boot hart has run crt0.S to its end.
Booting == {"reset", "data", "bss", "construct"}

\* Where the boot hart is tells what it has made good.
MemoryFollowsBoot ==
  /\ \A h \in Harts : at[h] \in {"data", "bss", "construct"} => h = BootHart
  /\ at[BootHart] \in {"reset", "data", "bss"} => ~bss
  /\ at[BootHart] \notin {"reset", "data"} => data
  /\ at[BootHart] \notin {"reset", "data", "bss"} => bss
  /\ at[BootHart] \in Booting => ran = 0
  /\ at[BootHart] = "construct" => ~init_done
  /\ at[BootHart] \notin Booting => init_done /\ ran = Constructors

\* Who may be where in the meeting, and whose bit is set.
MeetingInOrder ==
  /\ \A h \in Harts : at[h] \in {"await", "release"} => h = 0
  /\ at[0] # "spin"
  /\ \A h \in Harts : at[h] \in Before => ~msip[h]
  /\ at[0] \in Before \cup {"await"} =>
       \A h \in Harts \ {0} : \/ at[h] \in Before
                              \/ at[h] = "spin" /\ msip[h]
  /\ at[0] = "await" =>
       /\ N > 1 /\ loop < N
       /\ \A h \in Harts : 0 < h /\ h < loop => at[h] = "spin"
  /\ at[0] = "release" =>
       /\ N > 1 /\ loop < N
       /\ \A h \in Harts : loop <= h => at[h] = "spin" /\ msip[h]
  /\ at[0] \notin Before \cup {"await"} =>
       \A h \in Harts : at[h] \notin Before

LockIsHeld ==
  /\ \A h \in Harts : at[h] = "holding" => locked
  /\ \A g, h \in Harts : at[g] = "holding" /\ at[h] = "holding" => g = h

HartInv == HartTypeOK /\ MemoryFollowsBoot /\ MeetingInOrder /\ LockIsHeld

LEMMA HartsAreNumbers == Harts \subseteq Nat /\ 0 \in Harts
  BY HartAssumption DEF Harts

LEMMA HartInitInv == HartInit => HartInv
<1> SUFFICES ASSUME HartInit PROVE HartInv
  OBVIOUS
<1> USE HartAssumption, HartsAreNumbers DEF HartInit
<1>1. HartTypeOK
  <2>1. at \in [Harts -> Stages] /\ msip \in [Harts -> BOOLEAN]
    BY DEF Stages
  <2>2. loop \in 1 .. N /\ ran \in {0, Constructors}
    OBVIOUS
  <2> QED
    BY <2>1, <2>2 DEF HartTypeOK
<1>2. MemoryFollowsBoot
  BY DEF MemoryFollowsBoot, Booting
<1>3. MeetingInOrder
  BY DEF MeetingInOrder, Before
<1>4. LockIsHeld
  BY DEF LockIsHeld
<1> QED
  BY <1>1, <1>2, <1>3, <1>4 DEF HartInv

LEMMA HartStep == HartInv /\ [HartNext]_hartVars => HartInv'
<1> SUFFICES ASSUME HartInv, [HartNext]_hartVars PROVE HartInv'
  OBVIOUS
<1> USE HartAssumption, HartsAreNumbers
    DEF HartInv, HartTypeOK, MemoryFollowsBoot, MeetingInOrder, LockIsHeld,
         Stages, Booting, Before, Memory, Move
<1>1. ASSUME NEW h \in Harts, Reset(h) PROVE HartInv'
  BY <1>1 DEF Reset
<1>2. ASSUME NEW h \in Harts, CopyData(h) PROVE HartInv'
  BY ZenonT(40), <1>2 DEF CopyData
<1>3. ASSUME NEW h \in Harts, ZeroBss(h) PROVE HartInv'
  BY ZenonT(40), <1>3 DEF ZeroBss
<1>4. ASSUME NEW h \in Harts, Construct(h) PROVE HartInv'
  BY <1>4 DEF Construct
<1>5. ASSUME NEW h \in Harts, Meet(h) PROVE HartInv'
  <2>1. HartTypeOK'
    <3>1. at' \in [Harts -> Stages] /\ msip' \in [Harts -> BOOLEAN]
      BY ZenonT(40), <1>5 DEF Meet
    <3>2. loop' \in 1 .. N
      BY <1>5 DEF Meet
    <3> QED
      BY <3>1, <3>2, <1>5 DEF Meet
  <2>2. MemoryFollowsBoot'
    BY <1>5 DEF Meet
  <2>3. MeetingInOrder'
    BY <1>5 DEF Meet, Harts
  <2>4. LockIsHeld'
    BY <1>5 DEF Meet
  <2> QED
    BY <2>1, <2>2, <2>3, <2>4
<1>6. ASSUME NEW h \in Harts, Released(h) PROVE HartInv'
  BY <1>6 DEF Released
<1>7. ASSUME NEW h \in Harts, SecondaryMain(h) PROVE HartInv'
  BY <1>7 DEF SecondaryMain
<1>8. ASSUME NEW h \in Harts, InitAgain(h) PROVE HartInv'
  BY <1>8 DEF InitAgain
<1>9. ASSUME NEW h \in Harts, TakeLock(h) PROVE HartInv'
  BY <1>9 DEF TakeLock
<1>10. ASSUME NEW h \in Harts, Swap(h) PROVE HartInv'
  BY <1>10 DEF Swap
<1>14. ASSUME NEW h \in Harts, Give(h) PROVE HartInv'
  BY <1>14 DEF Give
<1>15. ASSUME NEW h \in Harts, Exit(h) PROVE HartInv'
  BY <1>15 DEF Exit
<1>16. ASSUME NEW h \in Harts, Fini(h) PROVE HartInv'
  BY <1>16 DEF Fini
<1>17. ASSUME NEW h \in Harts, Destruct(h) PROVE HartInv'
  BY <1>17 DEF Destruct
<1>11. CASE Await
  <2>1. HartTypeOK'
    BY <1>11 DEF Await, Harts
  <2>2. MemoryFollowsBoot'
    BY <1>11 DEF Await
  <2>3. MeetingInOrder'
    BY <1>11 DEF Await, Harts
  <2>4. LockIsHeld'
    BY <1>11 DEF Await
  <2> QED
    BY <2>1, <2>2, <2>3, <2>4
<1>12. CASE Release
  <2>1. HartTypeOK'
    BY <1>12 DEF Release, Harts
  <2>2. MemoryFollowsBoot'
    BY <1>12 DEF Release
  <2>3. MeetingInOrder'
    BY <1>12 DEF Release, Harts
  <2>4. LockIsHeld'
    BY <1>12 DEF Release
  <2> QED
    BY <2>1, <2>2, <2>3, <2>4
<1>13. CASE UNCHANGED hartVars
  BY <1>13 DEF hartVars
<1> QED
  BY <1>1, <1>2, <1>3, <1>4, <1>5, <1>6, <1>7, <1>8, <1>9, <1>10, <1>11,
     <1>12, <1>13,
     <1>14, <1>15, <1>16, <1>17 DEF HartNext, Boot, Use

LEMMA HartInvHolds == HartSpec => []HartInv
  BY HartInitInv, HartStep, PTL DEF HartSpec

\* For any number of harts: main, constructors and the heap see memory that is
\* set up, constructors run once, and no hart passes the meeting of
\* synchronize_harts before all arrived (crt0.S, synchronize_harts.c).
THEOREM StartUpCorrect == HartSpec => [](HartTypeOK /\ SharedStateIsSound)
<1>1. HartInv => HartTypeOK /\ SharedStateIsSound
  BY HartsAreNumbers, HartAssumption
     DEF HartInv, HartTypeOK, MemoryFollowsBoot, MeetingInOrder, LockIsHeld,
          SharedStateIsSound, Started, Before, Booting
<1> QED
  BY <1>1, HartInvHolds, PTL

Arrived == {h \in Harts : at[h] \notin Before}
Passed == {h \in Harts : at[h] \in Started \/ (at[h] = "spin" /\ ~msip[h])}
MemoryReady == data /\ bss /\ ran = Constructors /\ init_done

LEMMA BarrierInitMaps == HartInit => Barrier!BarrierInit
  BY HartsAreNumbers DEF HartInit, Barrier!BarrierInit, Before, Started

LEMMA BarrierStepMaps ==
  HartInv /\ [HartNext]_hartVars => [Barrier!BarrierNext]_(Barrier!barrierVars)
<1> SUFFICES ASSUME HartInv, [HartNext]_hartVars
             PROVE [Barrier!BarrierNext]_(Barrier!barrierVars)
  OBVIOUS
<1> USE HartAssumption, HartsAreNumbers
    DEF Arrived, Passed, MemoryReady, HartInv, HartTypeOK, Stages, Before,
         Booting, Started, Memory, Move
<1> DEFINE Stutter == /\ Arrived' = Arrived /\ Passed' = Passed
                      /\ MemoryReady' = MemoryReady
<1>s. ASSUME Stutter PROVE [Barrier!BarrierNext]_(Barrier!barrierVars)
  BY <1>s DEF Barrier!barrierVars
<1>1. ASSUME NEW h \in Harts, Reset(h) PROVE Stutter
  BY <1>1 DEF Reset
<1>2. ASSUME NEW h \in Harts, CopyData(h) PROVE Stutter
  BY <1>2 DEF CopyData, MemoryFollowsBoot
<1>3. ASSUME NEW h \in Harts, ZeroBss(h) PROVE Stutter
  BY <1>3 DEF ZeroBss, MemoryFollowsBoot
<1>4. ASSUME NEW h \in Harts, Construct(h)
      PROVE /\ ~MemoryReady /\ MemoryReady'
             /\ Arrived' = Arrived /\ Passed' = Passed
  BY <1>4 DEF Construct, MemoryFollowsBoot
<1>5. ASSUME NEW h \in Harts, Meet(h)
      PROVE /\ h \notin Arrived
            /\ h = BootHart => MemoryReady
            /\ Arrived' = Arrived \cup {h}
            /\ MemoryReady' = MemoryReady
            /\ \/ Passed' = Passed
               \/ Arrived' = Harts /\ Passed' = Passed \cup {h}
  <2>1. /\ at[h] = "meet" /\ h \notin Arrived
        /\ h = BootHart => MemoryReady
        /\ MemoryReady' = MemoryReady
    BY <1>5 DEF Meet, MemoryFollowsBoot
  <2>2. CASE h # 0
    <3>1. at' = [at EXCEPT ![h] = "spin"] /\ msip' = [msip EXCEPT ![h] = TRUE]
      BY <1>5, <2>2 DEF Meet
    <3>2. Arrived' = Arrived \cup {h}
      BY <2>1, <3>1
    <3>3. Passed' = Passed
      BY <2>1, <3>1
    <3> QED
      BY <2>1, <3>2, <3>3
  <2>3. CASE h = 0
    <3>1. /\ at' = [at EXCEPT ![0] = IF N > 1 THEN "await" ELSE "met"]
          /\ msip' = msip
      BY <1>5, <2>3 DEF Meet
    <3>2. Arrived' = Arrived \cup {0}
      BY <2>1, <2>3, <3>1
    <3>3. CASE N > 1
      <4>1. Passed' = Passed
        BY <2>1, <2>3, <3>1, <3>3
      <4> QED
        BY <2>1, <2>3, <3>2, <4>1
    <3>4. CASE ~(N > 1)
      <4>1. Harts = {0}
        BY <3>4 DEF Harts
      <4>2. Passed' = Passed \cup {0}
        BY <2>1, <2>3, <3>1, <3>4, <4>1
      <4> QED
        BY <2>1, <2>3, <3>2, <4>1, <4>2
    <3> QED
      BY <3>3, <3>4
  <2> QED
    BY <2>2, <2>3
<1>6. ASSUME NEW h \in Harts, Released(h) PROVE Stutter
  BY <1>6 DEF Released
<1>7. ASSUME NEW h \in Harts, SecondaryMain(h) PROVE Stutter
  BY <1>7 DEF SecondaryMain
<1>8. ASSUME NEW h \in Harts, InitAgain(h) PROVE Stutter
  BY <1>8 DEF InitAgain, MemoryFollowsBoot, MeetingInOrder
<1>9. ASSUME NEW h \in Harts, NEW s \in Started, at[h] \in Started,
             Move(h, s), UNCHANGED <<msip, Memory>>
      PROVE  Stutter
  BY <1>9
<1>10. ASSUME NEW h \in Harts,
              TakeLock(h) \/ Swap(h) \/ Give(h) \/ Exit(h) \/ Fini(h)
       PROVE  Stutter
  <2> USE DEF TakeLock, Swap, Give, Exit, Fini
  <2>1. PICK s \in Started : Move(h, s)
    BY <1>10
  <2> QED
    BY <1>10, <1>9, <2>1
<1>14. ASSUME NEW h \in Harts, Destruct(h) PROVE Stutter
  BY <1>14 DEF Destruct
<1>11. CASE Await
  <2>1. Stutter
    BY <1>11 DEF Await
  <2> QED
    BY <2>1, <1>s
<1>12. ASSUME Release
       PROVE \E S \in SUBSET Harts : Arrived = Harts /\ Passed' = Passed \cup S
                /\ Arrived' = Arrived /\ MemoryReady' = MemoryReady
  <2>1. at[0] = "release" /\ N > 1 /\ loop \in Harts \ {0} /\ at[loop] = "spin"
    BY <1>12 DEF Release, MeetingInOrder, Harts
  <2>2. Arrived = Harts /\ MemoryReady' = MemoryReady
    BY <1>12, <2>1 DEF Release, MeetingInOrder
  <2>3. msip' = [msip EXCEPT ![loop] = FALSE]
    BY <1>12 DEF Release
  <2>4. CASE loop + 1 < N
    <3>1. at' = at
      BY <1>12, <2>4 DEF Release
    <3>2. Passed' = Passed \cup {loop} /\ Arrived' = Arrived
      BY <2>1, <2>3, <3>1
    <3> QED
      BY <2>1, <2>2, <3>2
  <2>5. CASE ~(loop + 1 < N)
    <3>1. at' = [at EXCEPT ![0] = "met"]
      BY <1>12, <2>5 DEF Release
    <3>2. Passed' = Passed \cup {0, loop} /\ Arrived' = Arrived
      BY <2>1, <2>3, <3>1
    <3> QED
      BY <2>1, <2>2, <3>2
  <2> QED
    BY <2>4, <2>5
<1>13. CASE UNCHANGED hartVars
  BY <1>13, <1>s DEF hartVars
<1> QED
  BY <1>s, <1>1, <1>2, <1>3, <1>4, <1>5, <1>6, <1>7, <1>8, <1>9, <1>10,
     <1>11, <1>12, <1>13,
     <1>14
     DEF HartNext, Boot, Use, Barrier!BarrierNext, Barrier!Initialise,
         Barrier!Arrive, Barrier!Pass

\* The flags and loops of synchronize_harts implement a barrier: nobody passes
\* before everybody has arrived. Started and msip map to who arrived and
\* passed.
THEOREM BarrierImplemented == HartSpec => BarrierSpec
  BY BarrierInitMaps, BarrierStepMaps, HartInvHolds, PTL
     DEF HartSpec, BarrierSpec, Barrier!BarrierSpec

-----------------------------------------------------------------------------
(* The counters and the delays: WideTimer.                                 *)

Compared == {"park", "low", "high"}
Reads == {"hi", "lo", "check", "read"}

\* The counter that x reads.
Now(x) == count[Source(job[x])]

JobsFollowSteps ==
  /\ \A x \in Contexts : (tpc[x] = "idle") <=> (job[x] = "none")
  /\ job["main"] # "rearm"
  /\ job["isr"] \in {"none", "rearm"}
  /\ tpc["main"] \in Compared <=> job["main"] = "compare"

\* What x has read so far belongs to one value the counter had since it began.
ReadSoFar(x) ==
  /\ tpc[x] \in Reads => Leq(since[x], Now(x))
  /\ tpc[x] = "lo" => hi[x] <= Now(x).hi
  /\ tpc[x] = "check" =>
       \E v \in Wide : /\ v.lo = lo[x] /\ hi[x] <= v.hi
                       /\ Leq(since[x], v) /\ Leq(v, Now(x))

ReadIsTrue(x) ==
  /\ ReadSoFar(x)
  /\ tpc[x] = "read" => Leq(since[x], Reading(x)) /\ Leq(Reading(x), Now(x))

ReadsAreTrue == \A x \in Contexts : ReadIsTrue(x)

DelayBegan ==
  /\ job["main"] = "begin" => since["main"] = called
  /\ job["main"] = "delay" => Leq(called, start)

\* The old or the new comparator value is due, or mtime is near its end.
Due == \/ Leq(before, count["mtime"]) \/ Leq(goal["main"], count["mtime"])
       \/ count["mtime"].hi = Base - 1

ComparatorIsParked ==
  job["main"] = "compare" =>
    /\ tpc["isr"] # "idle" => Due
    /\ tpc["main"] = "park" => Due \/ mtimecmp = before
    /\ tpc["main"] \in {"low", "high"} => Due \/ mtimecmp.hi = Base - 1

TimerInv ==
  /\ TimerTypeOK /\ JobsFollowSteps /\ ReadsAreTrue
  /\ DelayBegan /\ ComparatorIsParked

LEMMA WideAreOrdered ==
  /\ \A v \in Wide : v.hi \in Word /\ v.lo \in Word /\ Leq(v, v)
  /\ \A u, v, w \in Wide : Leq(u, v) /\ Leq(v, w) => Leq(u, w)
  /\ Zero \in Wide /\ Last \in Wide
  BY BaseAssumption DEF Wide, Word, Leq, Zero, Last

LEMMA NextIsLater ==
  ASSUME NEW w \in Wide, w # Last
  PROVE  Next64(w) \in Wide /\ Leq(w, Next64(w)) /\ w.hi <= Next64(w).hi
  BY BaseAssumption DEF Wide, Word, Leq, Last, Next64

LEMMA PlusIsWide ==
  ASSUME NEW w \in Wide, NEW n \in Nat
  PROVE  Plus(w, n) \in Wide
  BY BaseAssumption DEF Wide, Word, Plus

LEMMA WaitsAreNat ==
  /\ \A us \in Micros : DelayUs(us) \in Nat
  /\ \A ms \in Millis : DelayMs(ms) \in Nat
  BY DelayAssumption DEF DelayUs, DelayMs

LEMMA TimerInitInv == TimerInit => TimerInv
<1> SUFFICES ASSUME TimerInit PROVE TimerInv
  OBVIOUS
<1> USE WideAreOrdered, BaseAssumption DEF TimerInit, Contexts
<1>1. TimerTypeOK
  <2>1. 0 \in Word
    BY DEF Word
  <2> QED
    BY <2>1 DEF TimerTypeOK, WideCounters
<1>2. JobsFollowSteps /\ ReadsAreTrue
  BY DEF JobsFollowSteps, ReadsAreTrue, ReadIsTrue, ReadSoFar, Compared, Reads
<1>3. DelayBegan /\ ComparatorIsParked
  BY DEF DelayBegan, ComparatorIsParked
<1> QED
  BY <1>1, <1>2, <1>3 DEF TimerInv

LEMMA TimerTypesKept == TimerInv /\ [TimerNext]_timerVars => TimerTypeOK'
<1> SUFFICES ASSUME TimerInv, [TimerNext]_timerVars PROVE TimerTypeOK'
  OBVIOUS
<1> USE WideAreOrdered
   DEF TimerInv, TimerTypeOK, JobsFollowSteps, Contexts, Goto, Hardware,
     Delaying, WideCounters
<1>1. ASSUME NEW c \in WideCounters, Count(c) PROVE TimerTypeOK'
  BY <1>1, NextIsLater DEF Count
<1>2. ASSUME NEW x \in Contexts, ReadHi(x) PROVE TimerTypeOK'
  BY <1>2 DEF ReadHi, Source
<1>3. ASSUME NEW x \in Contexts, ReadLo(x) PROVE TimerTypeOK'
  BY <1>3 DEF ReadLo, Source
<1>4. ASSUME NEW x \in Contexts, ReadHiAgain(x) PROVE TimerTypeOK'
  BY <1>4 DEF ReadHiAgain
<1>5. ASSUME NEW x \in Contexts, Park(x) PROVE TimerTypeOK'
  BY <1>5, BaseAssumption DEF Park, Wide, Word
<1>6. ASSUME NEW x \in Contexts, WriteLo(x) PROVE TimerTypeOK'
  BY <1>6 DEF WriteLo, Wide
<1>7. ASSUME NEW x \in Contexts, WriteHi(x) PROVE TimerTypeOK'
  BY <1>7, BaseAssumption DEF WriteHi, Leave, Wide, Word
<1>8. ASSUME GetCycles PROVE TimerTypeOK'
  BY <1>8 DEF GetCycles, Ask, Source
<1>9. ASSUME GetTime PROVE TimerTypeOK'
  BY <1>9 DEF GetTime, Ask, Source
<1>10. ASSUME Got PROVE TimerTypeOK'
  BY <1>10, BaseAssumption DEF Got, Leave, Word
<1>11. ASSUME Delay PROVE TimerTypeOK'
  BY <1>11, WaitsAreNat DEF Delay, Ask, Source
<1>12. ASSUME Begun PROVE TimerTypeOK'
  BY <1>12 DEF Begun, Ask, Source, Reading, Wide
<1>13. ASSUME Poll PROVE TimerTypeOK'
  BY <1>13 DEF Poll, Ask, Source
<1>14. ASSUME Delayed PROVE TimerTypeOK'
  BY <1>14, BaseAssumption DEF Delayed, Leave, Word
<1>15. ASSUME SetCompare PROVE TimerTypeOK'
  BY <1>15 DEF SetCompare
<1>16. ASSUME ClintInit PROVE TimerTypeOK'
  BY <1>16 DEF ClintInit
<1>17. ASSUME TimerInterrupt PROVE TimerTypeOK'
  BY <1>17 DEF TimerInterrupt, Ask, Source
<1>18. ASSUME Rearm PROVE TimerTypeOK'
  BY <1>18, PlusIsWide, DelayAssumption DEF Rearm, Reading, Wide
<1>19. ASSUME UNCHANGED timerVars PROVE TimerTypeOK'
  BY <1>19 DEF timerVars
<1> QED
  BY <1>1, <1>2, <1>3, <1>4, <1>5, <1>6, <1>7, <1>8, <1>9, <1>10, <1>11,
     <1>12, <1>13, <1>14, <1>15, <1>16, <1>17, <1>18, <1>19
     DEF TimerNext, Access, MainTimer

LEMMA JobsKept == TimerInv /\ [TimerNext]_timerVars => JobsFollowSteps'
<1> SUFFICES ASSUME TimerInv, [TimerNext]_timerVars PROVE JobsFollowSteps'
  OBVIOUS
<1> USE
   DEF TimerInv, TimerTypeOK, JobsFollowSteps, Contexts, Goto, Compared, Runs
<1>1. ASSUME NEW c \in WideCounters, Count(c) PROVE JobsFollowSteps'
  BY <1>1 DEF Count
<1>2. ASSUME NEW x \in Contexts, ReadHi(x) PROVE JobsFollowSteps'
  BY <1>2 DEF ReadHi
<1>3. ASSUME NEW x \in Contexts, ReadLo(x) PROVE JobsFollowSteps'
  BY <1>3 DEF ReadLo
<1>4. ASSUME NEW x \in Contexts, ReadHiAgain(x) PROVE JobsFollowSteps'
  BY <1>4 DEF ReadHiAgain
<1>5. ASSUME NEW x \in Contexts, Park(x) PROVE JobsFollowSteps'
  BY <1>5 DEF Park
<1>6. ASSUME NEW x \in Contexts, WriteLo(x) PROVE JobsFollowSteps'
  BY <1>6 DEF WriteLo
<1>7. ASSUME NEW x \in Contexts, WriteHi(x) PROVE JobsFollowSteps'
  BY <1>7 DEF WriteHi, Leave
<1>8. ASSUME GetCycles PROVE JobsFollowSteps'
  BY <1>8 DEF GetCycles, Ask
<1>9. ASSUME GetTime PROVE JobsFollowSteps'
  BY <1>9 DEF GetTime, Ask
<1>10. ASSUME Got PROVE JobsFollowSteps'
  BY <1>10 DEF Got, Leave
<1>11. ASSUME Delay PROVE JobsFollowSteps'
  BY <1>11 DEF Delay, Ask
<1>12. ASSUME Begun PROVE JobsFollowSteps'
  BY <1>12 DEF Begun, Ask
<1>13. ASSUME Poll PROVE JobsFollowSteps'
  BY <1>13 DEF Poll, Ask
<1>14. ASSUME Delayed PROVE JobsFollowSteps'
  BY <1>14 DEF Delayed, Leave
<1>15. ASSUME SetCompare PROVE JobsFollowSteps'
  BY <1>15 DEF SetCompare
<1>16. ASSUME ClintInit PROVE JobsFollowSteps'
  BY <1>16 DEF ClintInit
<1>17. ASSUME TimerInterrupt PROVE JobsFollowSteps'
  BY <1>17 DEF TimerInterrupt, Ask
<1>18. ASSUME Rearm PROVE JobsFollowSteps'
  BY <1>18 DEF Rearm
<1>19. ASSUME UNCHANGED timerVars PROVE JobsFollowSteps'
  BY <1>19 DEF timerVars
<1> QED
  BY <1>1, <1>2, <1>3, <1>4, <1>5, <1>6, <1>7, <1>8, <1>9, <1>10, <1>11,
     <1>12, <1>13, <1>14, <1>15, <1>16, <1>17, <1>18, <1>19
     DEF TimerNext, Access, MainTimer

\* What x has read stays true while nothing of it changes, and later still.
LEMMA ReadIsFramed ==
  ASSUME TimerInv, NEW x \in Contexts,
         tpc'[x] = tpc[x], job'[x] = job[x], hi'[x] = hi[x], lo'[x] = lo[x],
         since'[x] = since[x], count' = count
  PROVE  ReadIsTrue(x)'
<1>1. ReadIsTrue(x)
  BY DEF TimerInv, ReadsAreTrue
<1> QED
  BY <1>1 DEF ReadIsTrue, ReadSoFar, Reading, Now

LEMMA ReadIsStillTrue ==
  ASSUME TimerInv, NEW c \in WideCounters, Count(c), NEW x \in Contexts
  PROVE  ReadIsTrue(x)'
<1>1. /\ ReadIsTrue(x) /\ TimerTypeOK
      /\ tpc' = tpc /\ job' = job /\ hi' = hi /\ lo' = lo /\ since' = since
  BY DEF TimerInv, ReadsAreTrue, Count
<1>2. Now(x) \in Wide /\ Now(x)' \in Wide /\ Leq(Now(x), Now(x)')
      /\ Now(x).hi <= Now(x)'.hi
  BY <1>1, NextIsLater, WideAreOrdered
     DEF Count, TimerTypeOK, Now, Source, WideCounters, Wide, Word
<1>3. /\ since[x] \in Wide /\ Reading(x) \in Wide
      /\ hi[x] \in Word
  BY <1>1 DEF TimerTypeOK, Reading, Wide
<1>4. \A v \in Wide : Leq(v, Now(x)) => Leq(v, Now(x)')
  BY <1>2, WideAreOrdered
<1>5. hi[x] <= Now(x).hi => hi[x] <= Now(x)'.hi
  BY <1>2, <1>3, BaseAssumption DEF Wide, Word
<1>6. Reading(x)' = Reading(x)
  BY <1>1 DEF Reading
<1> QED
  BY <1>1, <1>3, <1>4, <1>5, <1>6 DEF ReadIsTrue, ReadSoFar

LEMMA ReadsKept == TimerInv /\ [TimerNext]_timerVars => ReadsAreTrue'
<1> SUFFICES ASSUME TimerInv, [TimerNext]_timerVars, NEW y \in Contexts
             PROVE  ReadIsTrue(y)'
  BY DEF ReadsAreTrue
<1> USE DEF Contexts, Goto, Hardware, Delaying
<1>t. TimerTypeOK /\ ReadIsTrue(y) /\ JobsFollowSteps
  BY DEF TimerInv, ReadsAreTrue
<1>f. ASSUME tpc'[y] = tpc[y], job'[y] = job[y],
             hi'[y] = hi[y], lo'[y] = lo[y],
             since'[y] = since[y], count' = count
      PROVE  ReadIsTrue(y)'
  BY <1>f, ReadIsFramed
<1>i. ASSUME tpc'[y] \notin Reads PROVE ReadIsTrue(y)'
  BY <1>i DEF ReadIsTrue, ReadSoFar, Reads
<1>b. ASSUME NEW j, Source(j) \in WideCounters, job'[y] = j,
             since'[y] = count[Source(j)], tpc'[y] = "hi", count' = count
      PROVE  ReadIsTrue(y)'
  <2>1. Now(y)' = since'[y] /\ since'[y] \in Wide
    BY <1>b, <1>t DEF Now, TimerTypeOK
  <2> QED
    BY <2>1, <1>b, WideAreOrdered DEF ReadIsTrue, ReadSoFar, Reads
<1>s. \A j : Source(j) \in WideCounters
  BY DEF Source, WideCounters
<1>1. ASSUME NEW c \in WideCounters, Count(c) PROVE ReadIsTrue(y)'
  BY <1>1, ReadIsStillTrue
<1>2. ASSUME NEW x \in Contexts, ReadHi(x) PROVE ReadIsTrue(y)'
  <2>1. CASE x = y
    <3>1. /\ tpc[y] = "hi" /\ tpc'[y] = "lo" /\ hi'[y] = Now(y).hi
          /\ Now(y)' = Now(y) /\ Now(y) \in Wide /\ since'[y] = since[y]
      BY <1>2, <2>1, <1>t, <1>s DEF ReadHi, TimerTypeOK, Now
    <3> QED
      BY <3>1, <1>t, BaseAssumption
         DEF ReadIsTrue, ReadSoFar, Reads, Wide, Word
  <2>2. CASE x # y
    BY <1>2, <2>2, <1>f, <1>t DEF ReadHi, TimerTypeOK
  <2> QED
    BY <2>1, <2>2
<1>3. ASSUME NEW x \in Contexts, ReadLo(x) PROVE ReadIsTrue(y)'
  <2>1. CASE x = y
    <3>1. /\ tpc[y] = "lo" /\ tpc'[y] = "check" /\ lo'[y] = Now(y).lo
          /\ Now(y)' = Now(y) /\ Now(y) \in Wide /\ since'[y] = since[y]
          /\ hi'[y] = hi[y]
      BY <1>3, <2>1, <1>t, <1>s DEF ReadLo, TimerTypeOK, Now
    <3>2. hi[y] <= Now(y).hi /\ Leq(since[y], Now(y)) /\ Leq(Now(y), Now(y))
      BY <3>1, <1>t, WideAreOrdered DEF ReadIsTrue, ReadSoFar, Reads
    <3> QED
      BY <3>1, <3>2 DEF ReadIsTrue, ReadSoFar, Reads
  <2>2. CASE x # y
    BY <1>3, <2>2, <1>f, <1>t DEF ReadLo, TimerTypeOK
  <2> QED
    BY <2>1, <2>2
<1>4. ASSUME NEW x \in Contexts, ReadHiAgain(x) PROVE ReadIsTrue(y)'
  <2>1. CASE x = y
    <3>1. /\ tpc[y] = "check" /\ Now(y)' = Now(y) /\ since'[y] = since[y]
          /\ tpc'[y] = IF Now(y).hi = hi[y] THEN "read" ELSE "hi"
          /\ Reading(y)' = Reading(y)
      BY <1>4, <2>1, <1>t DEF ReadHiAgain, TimerTypeOK, Now, Reading
    <3>2. PICK v \in Wide : /\ v.lo = lo[y] /\ hi[y] <= v.hi
                            /\ Leq(since[y], v) /\ Leq(v, Now(y))
      BY <3>1, <1>t DEF ReadIsTrue, ReadSoFar
    <3>3. Leq(since[y], Now(y))
      BY <3>1, <1>t DEF ReadIsTrue, ReadSoFar, Reads
    <3>4. CASE Now(y).hi = hi[y]
      <4>1. hi[y] \in Word /\ Now(y) \in Wide
        BY <1>t, <1>s DEF TimerTypeOK, Now
      <4>2. v = Reading(y)
        BY <3>2, <3>4, <4>1, BaseAssumption DEF Leq, Wide, Word, Reading
      <4> QED
        BY <3>1, <3>2, <3>3, <3>4, <4>2 DEF ReadIsTrue, ReadSoFar, Reads
    <3>5. CASE Now(y).hi # hi[y]
      BY <3>1, <3>3, <3>5 DEF ReadIsTrue, ReadSoFar, Reads
    <3> QED
      BY <3>4, <3>5
  <2>2. CASE x # y
    BY <1>4, <2>2, <1>f, <1>t DEF ReadHiAgain, TimerTypeOK
  <2> QED
    BY <2>1, <2>2
<1>5. ASSUME NEW x \in Contexts, Park(x) \/ WriteLo(x) \/ WriteHi(x)
      PROVE  ReadIsTrue(y)'
  BY <1>5, <1>f, <1>i, <1>t
     DEF Park, WriteLo, WriteHi, Leave, Reads, TimerTypeOK
<1>6. CASE GetCycles \/ GetTime \/ Delay \/ Poll
  BY <1>6, <1>f, <1>b, <1>s, <1>t
     DEF GetCycles, GetTime, Delay, Poll, Ask, TimerTypeOK
<1>7. CASE Begun
  BY <1>7, <1>f, <1>b, <1>s, <1>t DEF Begun, Ask, TimerTypeOK
<1>8. CASE Got \/ Delayed \/ SetCompare \/ Rearm
  BY <1>8, <1>f, <1>i, <1>t
     DEF Got, Delayed, Leave, SetCompare, Rearm, Reads, TimerTypeOK
<1>9. CASE TimerInterrupt
  BY <1>9, <1>f, <1>b, <1>s, <1>t DEF TimerInterrupt, Ask, TimerTypeOK
<1>10. CASE ClintInit \/ UNCHANGED timerVars
  BY <1>10, <1>f DEF ClintInit, timerVars
<1> QED
  BY <1>1, <1>2, <1>3, <1>4, <1>5, <1>6, <1>7, <1>8, <1>9, <1>10
     DEF TimerNext, Access, MainTimer

LEMMA DelayKept == TimerInv /\ [TimerNext]_timerVars => DelayBegan'
<1> SUFFICES ASSUME TimerInv, [TimerNext]_timerVars PROVE DelayBegan'
  OBVIOUS
<1> USE
   DEF TimerInv, TimerTypeOK, JobsFollowSteps, Contexts, Goto, Hardware,
     Delaying, DelayBegan, ReadsAreTrue, ReadIsTrue, Runs, Source, Reads
<1>1. ASSUME NEW c \in WideCounters, Count(c) PROVE DelayBegan'
  BY <1>1 DEF Count
<1>2. ASSUME NEW x \in Contexts, ReadHi(x) PROVE DelayBegan'
  BY <1>2 DEF ReadHi
<1>3. ASSUME NEW x \in Contexts, ReadLo(x) PROVE DelayBegan'
  BY <1>3 DEF ReadLo
<1>4. ASSUME NEW x \in Contexts, ReadHiAgain(x) PROVE DelayBegan'
  BY <1>4 DEF ReadHiAgain
<1>5. ASSUME NEW x \in Contexts, Park(x) PROVE DelayBegan'
  BY <1>5 DEF Park
<1>6. ASSUME NEW x \in Contexts, WriteLo(x) PROVE DelayBegan'
  BY <1>6 DEF WriteLo
<1>7. ASSUME NEW x \in Contexts, WriteHi(x) PROVE DelayBegan'
  BY <1>7 DEF WriteHi, Leave
<1>8. ASSUME GetCycles PROVE DelayBegan'
  BY <1>8 DEF GetCycles, Ask
<1>9. ASSUME GetTime PROVE DelayBegan'
  BY <1>9 DEF GetTime, Ask
<1>10. ASSUME Got PROVE DelayBegan'
  BY <1>10 DEF Got, Leave
<1>11. ASSUME Delay PROVE DelayBegan'
  BY <1>11 DEF Delay, Ask
<1>12. ASSUME Begun PROVE DelayBegan'
  BY <1>12 DEF Begun, Ask
<1>13. ASSUME Poll PROVE DelayBegan'
  BY <1>13 DEF Poll, Ask
<1>14. ASSUME Delayed PROVE DelayBegan'
  BY <1>14 DEF Delayed, Leave
<1>15. ASSUME SetCompare PROVE DelayBegan'
  BY <1>15 DEF SetCompare
<1>16. ASSUME ClintInit PROVE DelayBegan'
  BY <1>16 DEF ClintInit
<1>17. ASSUME TimerInterrupt PROVE DelayBegan'
  BY <1>17 DEF TimerInterrupt, Ask
<1>18. ASSUME Rearm PROVE DelayBegan'
  BY <1>18 DEF Rearm
<1>19. ASSUME UNCHANGED timerVars PROVE DelayBegan'
  BY <1>19 DEF timerVars
<1> QED
  BY <1>1, <1>2, <1>3, <1>4, <1>5, <1>6, <1>7, <1>8, <1>9, <1>10, <1>11,
     <1>12, <1>13, <1>14, <1>15, <1>16, <1>17, <1>18, <1>19
     DEF TimerNext, Access, MainTimer

LEMMA ComparatorKept ==
  TimerInv /\ [TimerNext]_timerVars => ComparatorIsParked'
<1> SUFFICES ASSUME TimerInv, [TimerNext]_timerVars PROVE ComparatorIsParked'
  OBVIOUS
<1> USE
   DEF TimerInv, TimerTypeOK, JobsFollowSteps, Contexts, Goto, Hardware,
     Delaying, ComparatorIsParked, Due, Compared, Runs
<1>1. ASSUME NEW c \in WideCounters, Count(c) PROVE ComparatorIsParked'
  BY <1>1, NextIsLater, WideAreOrdered, BaseAssumption DEF Count, Wide, Word
<1>2. ASSUME NEW x \in Contexts, ReadHi(x) PROVE ComparatorIsParked'
  BY <1>2 DEF ReadHi
<1>3. ASSUME NEW x \in Contexts, ReadLo(x) PROVE ComparatorIsParked'
  BY <1>3 DEF ReadLo
<1>4. ASSUME NEW x \in Contexts, ReadHiAgain(x) PROVE ComparatorIsParked'
  BY <1>4 DEF ReadHiAgain
<1>5. ASSUME NEW x \in Contexts, Park(x) PROVE ComparatorIsParked'
  BY <1>5 DEF Park
<1>6. ASSUME NEW x \in Contexts, WriteLo(x) PROVE ComparatorIsParked'
  BY <1>6 DEF WriteLo
<1>7. ASSUME NEW x \in Contexts, WriteHi(x) PROVE ComparatorIsParked'
  BY <1>7 DEF WriteHi, Leave
<1>8. ASSUME GetCycles PROVE ComparatorIsParked'
  BY <1>8 DEF GetCycles, Ask
<1>9. ASSUME GetTime PROVE ComparatorIsParked'
  BY <1>9 DEF GetTime, Ask
<1>10. ASSUME Got PROVE ComparatorIsParked'
  BY <1>10 DEF Got, Leave
<1>11. ASSUME Delay PROVE ComparatorIsParked'
  BY <1>11 DEF Delay, Ask
<1>12. ASSUME Begun PROVE ComparatorIsParked'
  BY <1>12 DEF Begun, Ask
<1>13. ASSUME Poll PROVE ComparatorIsParked'
  BY <1>13 DEF Poll, Ask
<1>14. ASSUME Delayed PROVE ComparatorIsParked'
  BY <1>14 DEF Delayed, Leave
<1>15. ASSUME SetCompare PROVE ComparatorIsParked'
  BY <1>15 DEF SetCompare
<1>16. ASSUME ClintInit PROVE ComparatorIsParked'
  BY <1>16 DEF ClintInit
<1>17. ASSUME TimerInterrupt PROVE ComparatorIsParked'
  <2>1. ASSUME mtimecmp.hi = Base - 1 PROVE Due
    <3>1. Leq(mtimecmp, count["mtime"])
      BY <1>17 DEF TimerInterrupt, MTIP
    <3>2. mtimecmp \in Wide /\ count["mtime"] \in Wide
      BY DEF WideCounters
    <3>3. count["mtime"].hi = Base - 1
      BY <2>1, <3>1, <3>2, BaseAssumption DEF Leq, Wide, Word
    <3> QED
      BY <3>3
  <2>2. ASSUME mtimecmp = before PROVE Due
    BY <1>17, <2>2 DEF TimerInterrupt, MTIP
  <2>3. job["main"] = "compare" => Due
    BY <1>17, <2>1, <2>2 DEF TimerInterrupt
  <2> QED
    BY <1>17, <2>3 DEF TimerInterrupt, Ask
<1>18. ASSUME Rearm PROVE ComparatorIsParked'
  BY <1>18 DEF Rearm
<1>19. ASSUME UNCHANGED timerVars PROVE ComparatorIsParked'
  BY <1>19 DEF timerVars
<1> QED
  BY <1>1, <1>2, <1>3, <1>4, <1>5, <1>6, <1>7, <1>8, <1>9, <1>10, <1>11,
     <1>12, <1>13, <1>14, <1>15, <1>16, <1>17, <1>18, <1>19
     DEF TimerNext, Access, MainTimer

LEMMA TimerInvHolds == TimerSpec => []TimerInv
<1>1. TimerInv /\ [TimerNext]_timerVars => TimerInv'
  BY TimerTypesKept, JobsKept, ReadsKept, DelayKept,
     ComparatorKept DEF TimerInv
<1> QED
  BY TimerInitInv, <1>1, PTL DEF TimerSpec

\* A later value is a greater number.
LEMMA LeqIsValue ==
  ASSUME NEW v \in Wide, NEW w \in Wide, Leq(v, w)
  PROVE  Value(v) \in Nat /\ Value(w) \in Nat /\ Value(v) <= Value(w)
<1> DEFINE a == v.hi * Base
           b == w.hi * Base
<1>1. /\ v.hi \in Nat /\ w.hi \in Nat /\ v.lo \in 0 .. Base - 1
      /\ w.lo \in 0 .. Base - 1 /\ Base \in Nat
  BY BaseAssumption DEF Wide, Word
<1>2. a \in Nat /\ b \in Nat
  BY <1>1
<1>3. CASE v.hi = w.hi /\ v.lo <= w.lo
  BY <1>1, <1>2, <1>3 DEF Value
<1>4. CASE v.hi < w.hi
  <2>1. PICK k \in Nat : w.hi = v.hi + 1 + k
    <3>1. w.hi - v.hi - 1 \in Nat /\ w.hi = v.hi + 1 + (w.hi - v.hi - 1)
      BY <1>1, <1>4
    <3> QED
      BY <3>1
  <2>2. b = a + Base + k * Base /\ k * Base \in Nat
    BY <1>1, <2>1
  <2> HIDE DEF a, b
  <2>3. a + v.lo <= b + w.lo
    BY <1>1, <1>2, <2>2
  <2> QED
    BY <1>1, <1>2, <2>3 DEF Value, a, b
<1> QED
  BY <1>3, <1>4 DEF Leq

\* For any width of a word: what get_mtime and the cycle reads return is a
\* value the counter had between the call and the return, though its two words
\* are read apart, in main and in the interrupt that interrupts it.
THEOREM CountersReadCorrectly == TimerSpec => []ReadsAreCurrent
<1>1. TimerInv => ReadsAreCurrent
  BY DEF TimerInv, ReadsAreTrue, ReadIsTrue, ReadsAreCurrent, Now
<1> QED
  BY <1>1, TimerInvHolds, PTL

\* The variables of the timer keep their types.
THEOREM TimerTypes == TimerSpec => []TimerTypeOK
  BY TimerInvHolds, PTL DEF TimerInv

\* Writing the comparator in three steps raises no interrupt that neither its
\* old nor its new value would raise (riscv_clint0.c).
THEOREM ComparatorIsQuiet == TimerSpec => []NoSpuriousInterrupt
<1>1. TimerInv => NoSpuriousInterrupt
  <2> SUFFICES ASSUME TimerInv, job["main"] = "compare", tpc["isr"] = "idle",
                      MTIP, count["mtime"].hi < Base - 1
               PROVE  Due
    BY BaseAssumption
       DEF NoSpuriousInterrupt, Due, TimerInv, TimerTypeOK, WideCounters,
         Wide, Word
  <2>1. mtimecmp.hi # Base - 1
    BY BaseAssumption
       DEF MTIP, Leq, TimerInv, TimerTypeOK, WideCounters, Wide, Word
  <2>2. Due \/ mtimecmp = before
    BY <2>1 DEF TimerInv, ComparatorIsParked, JobsFollowSteps, Compared
  <2> QED
    BY <2>2 DEF MTIP, Due
<1> QED
  BY <1>1, TimerInvHolds, PTL

\* A delay polled on the cycle counter (utils/delay.c) lasts at
\* least as long as it was asked to.
THEOREM DelaysLast == TimerSpec => []DelayLasts
<1>1. TimerInv => DelayLasts
  <2> SUFFICES ASSUME TimerInv, tpc["main"] = "read", job["main"] = "delay",
                      Elapsed
               PROVE  Value(count["mcycle"]) - Value(called) >= wait
    BY DEF DelayLasts
  <2> DEFINE r == Reading("main")
             c == count["mcycle"]
  <2>1. /\ r \in Wide /\ c \in Wide /\ called \in Wide /\ start \in Wide
        /\ wait \in Nat
    BY DEF TimerInv, TimerTypeOK, Reading, Wide, Contexts, WideCounters
  <2>2. Leq(r, c) /\ Leq(called, start)
    BY DEF TimerInv, ReadsAreTrue, ReadIsTrue, DelayBegan, Now, Source,
         Contexts
  <2>3. Value(r) - Value(start) >= wait
    BY DEF Elapsed
  <2> HIDE DEF r, c
  <2>4. /\ Value(r) \in Nat /\ Value(c) \in Nat /\ Value(r) <= Value(c)
        /\ Value(called) \in Nat /\ Value(start) \in Nat
        /\ Value(called) <= Value(start)
    BY <2>1, <2>2, LeqIsValue
  <2>5. Value(c) - Value(called) >= wait
    BY <2>1, <2>3, <2>4
  <2> QED
    BY <2>5 DEF c
<1> QED
  BY <1>1, TimerInvHolds, PTL

-----------------------------------------------------------------------------
(* The performance counters: HpmCounters.                                  *)

\* Quotient and remainder by the base of a word.
HighWord(n) == n \div HpmBase
LowWord(n) == n % HpmBase

LEMMA WordsOf ==
  ASSUME NEW n \in Nat
  PROVE  HighWord(n) \in Nat /\ LowWord(n) \in 0 .. HpmBase - 1
         /\ n = HpmBase * HighWord(n) + LowWord(n)
<1>1. /\ n \div HpmBase \in Nat
      /\ n % HpmBase \in 0 .. HpmBase - 1
  BY HpmAssumption
<1>2. \A q, r \in Nat :
         n \div HpmBase = q /\ n % HpmBase = r => n = HpmBase * q + r
  BY HpmAssumption
<1>3. /\ HighWord(n) \in Nat /\ LowWord(n) \in 0 .. HpmBase - 1
      /\ LowWord(n) \in Nat
  BY <1>1, HpmAssumption DEF HighWord, LowWord
<1>4. n \div HpmBase = HighWord(n) /\ n % HpmBase = LowWord(n)
  BY DEF HighWord, LowWord
<1> QED
  BY <1>2, <1>3, <1>4

LEMMA WordTypes == \A n \in Nat : HighWord(n) \in Nat /\ LowWord(n) \in Nat
<1> SUFFICES ASSUME NEW n \in Nat
             PROVE  HighWord(n) \in Nat /\ LowWord(n) \in Nat
  OBVIOUS
<1> QED
  BY SMTT(30), WordsOf, HpmAssumption

Counts == 0 .. HpmBase * HpmHigh - 1

LEMMA CountsAreNat ==
  /\ Counts \subseteq Nat /\ 0 \in Counts
  /\ \A n \in Counts, m \in Nat : m <= n => m \in Counts
  /\ \A n \in Counts : n < HpmBase * HpmHigh - 1 => n + 1 \in Counts
<1>1. \A b, h \in Nat \ {0} : b * h \in Nat \ {0}
  OBVIOUS
<1>2. HpmBase * HpmHigh \in Nat \ {0}
  BY <1>1, HpmAssumption
<1> DEFINE top == HpmBase * HpmHigh
<1> HIDE DEF top
<1>3. top \in Nat \ {0} /\ Counts = 0 .. top - 1
  BY <1>2 DEF top, Counts
<1>4. \A n \in Counts : n < top - 1 => n + 1 \in Counts
  BY <1>3
<1> QED
  BY <1>3, <1>4 DEF top

LEMMA WordsAreUnique ==
  ASSUME NEW p \in Nat, NEW q \in Nat, NEW r \in 0 .. HpmBase - 1,
         NEW s \in 0 .. HpmBase - 1, HpmBase * p + r <= HpmBase * q + s
  PROVE  p <= q
<1> SUFFICES ASSUME p > q PROVE FALSE
  OBVIOUS
<1>1. PICK k \in Nat : p = q + 1 + k
  <2>1. p - q - 1 \in Nat /\ p = q + 1 + (p - q - 1)
    OBVIOUS
  <2> QED
    BY <2>1
<1> DEFINE a == HpmBase * q
           b == HpmBase * k
<1>2. HpmBase * p = a + HpmBase + b /\ a \in Nat /\ b \in Nat
  BY <1>1, HpmAssumption
<1> HIDE DEF a, b
<1>3. a + HpmBase + b + r <= a + s
  BY <1>2 DEF a
<1> QED
  BY <1>2, <1>3, HpmAssumption

LEMMA QuotientsAreOrdered ==
  ASSUME NEW m \in Nat, NEW n \in Nat, m <= n
  PROVE  HighWord(m) <= HighWord(n)
<1>1. HighWord(m) \in Nat /\ LowWord(m) \in 0 .. HpmBase - 1
      /\ m = HpmBase * HighWord(m) + LowWord(m)
  BY WordsOf
<1>2. HighWord(n) \in Nat /\ LowWord(n) \in 0 .. HpmBase - 1
      /\ n = HpmBase * HighWord(n) + LowWord(n)
  BY WordsOf
<1>3. HpmBase * HighWord(m) + LowWord(m) <= HpmBase * HighWord(n) + LowWord(n)
  BY <1>1, <1>2
<1> QED
  BY <1>1, <1>2, <1>3, WordsAreUnique

\* Counting on by one carries, or adds one to the low word.
LEMMA LowWordOfNext ==
  ASSUME NEW n \in Nat
  PROVE  LowWord(n + 1) <= LowWord(n) + 1
<1>1. HighWord(n) \in Nat /\ LowWord(n) \in 0 .. HpmBase - 1
      /\ n = HpmBase * HighWord(n) + LowWord(n)
  BY WordsOf
<1>2. HighWord(n + 1) \in Nat /\ LowWord(n + 1) \in 0 .. HpmBase - 1
      /\ n + 1 = HpmBase * HighWord(n + 1) + LowWord(n + 1)
  BY WordsOf
<1>3. HighWord(n) <= HighWord(n + 1)
  BY QuotientsAreOrdered
<1>4. HpmBase * HighWord(n) <= HpmBase * HighWord(n + 1)
  BY <1>1, <1>2, <1>3, HpmAssumption
<1>5. HpmBase * HighWord(n) \in Nat /\ HpmBase * HighWord(n + 1) \in Nat
  BY <1>1, <1>2, HpmAssumption
<1> QED
  BY <1>1, <1>2, <1>4, <1>5

\* The word of a number that fits in one.
LEMMA SmallIsLow ==
  ASSUME NEW n \in Nat
  PROVE  /\ n - LowWord(n) \in Nat /\ LowWord(n - LowWord(n)) = 0
         /\ LowWord(LowWord(n)) = LowWord(n) /\ LowWord(n) <= n
<1>1. HighWord(n) \in Nat /\ LowWord(n) \in 0 .. HpmBase - 1
      /\ n = HpmBase * HighWord(n) + LowWord(n)
  BY WordsOf
<1>2. HpmBase * HighWord(n) \in Nat
  BY <1>1, HpmAssumption
<1>3. n - LowWord(n) = HpmBase * HighWord(n)
  BY <1>1, <1>2
<1>4. \A q \in Nat, r \in 0 .. HpmBase - 1 : (HpmBase * q + r) % HpmBase = r
  BY HpmAssumption
<1>5. (HpmBase * HighWord(n)) % HpmBase = 0
  <2>1. (HpmBase * HighWord(n) + 0) % HpmBase = 0
    BY <1>1, <1>4, HpmAssumption
  <2> QED
    BY <1>2, <2>1
<1>6. LowWord(n) % HpmBase = LowWord(n)
  BY <1>1, HpmAssumption
<1> QED
  BY <1>1, <1>2, <1>3, <1>5, <1>6 DEF LowWord

\* Arithmetic the steps below cite.
LEMMA NatArithmetic ==
  /\ \A n \in Nat : n + 1 \in Nat
  /\ \A n, m \in Nat : n - m <= n
  /\ \A n \in Nat : 0 <= n
  OBVIOUS

LEMMA LowIsCounted ==
  /\ \A n \in Nat : LowWord(n + 1) <= LowWord(n) + 1
  /\ \A n, f \in Nat : n <= f => n + 1 <= f + 1
  /\ \A n, f \in Nat : LowWord(n) <= f => LowWord(n + 1) <= f + 1
<1>1. \A n, f \in Nat : n <= f => n + 1 <= f + 1
  OBVIOUS
<1>2. ASSUME NEW n \in Nat, NEW f \in Nat, LowWord(n) <= f
      PROVE  LowWord(n + 1) <= f + 1
  <2>1. LowWord(n) \in Nat /\ LowWord(n + 1) \in Nat
    BY WordTypes
  <2> QED
    BY <1>2, <2>1, LowWordOfNext
<1> QED
  BY <1>1, <1>2, LowWordOfNext

Counting == {"high", "low", "again", "read", "clear", "clear low",
             "clear high", "cleared"}
CountNow == hpmcounter[which]

CallsInOrder ==
  /\ hpc = "idle" => tvec = "handler"
  /\ hpc \in Counting => which \in Watched /\ tvec = "handler"

\* What has been read belongs to one count the counter had since the call.
HpmReadSoFar ==
  /\ hpc \in {"high", "low", "again", "read"} => request <= CountNow
  /\ hpc = "low" => vh <= HighWord(CountNow)
  /\ hpc = "again" => \E v \in Nat : /\ LowWord(v) = vl /\ vh <= HighWord(v)
                                     /\ request <= v /\ v <= CountNow
  /\ hpc = "read" => /\ request <= vh * HpmBase + vl
                     /\ vh * HpmBase + vl <= CountNow

\* What the counter holds has been counted since the clear began.
ClearedSoFar ==
  /\ hpc = "clear high" => LowWord(CountNow) <= fresh
  /\ hpc = "cleared" => CountNow <= fresh

HpmInv == HpmTypeOK /\ CallsInOrder /\ HpmReadSoFar /\ ClearedSoFar

LEMMA HpmInitInv == HpmInit => HpmInv
<1> SUFFICES ASSUME HpmInit PROVE HpmInv
  OBVIOUS
<1>2. hpmcounter \in [Watched -> Counts]
  BY CountsAreNat DEF HpmInit
<1>3. 0 \in Counters
  BY HpmAssumption DEF Counters
<1> QED
  BY <1>2, <1>3
     DEF HpmInit, Counts, HpmInv, HpmTypeOK, CallsInOrder, HpmReadSoFar,
       ClearedSoFar, Counting

LEMMA HpmTypesKept == HpmInv /\ [HpmNext]_hpmVars => HpmTypeOK'
<1> SUFFICES ASSUME HpmInv, [HpmNext]_hpmVars PROVE HpmTypeOK'
  OBVIOUS
<1>t. hpmcounter \in [Watched -> Counts]
  BY DEF HpmInv, HpmTypeOK, Counts
<1>z. /\ 0 \in Counters /\ Found \in Int
      /\ MaxCounter \in Counters /\ Counters \subseteq Nat
      /\ (Found <= MaxCounter => Found \in Counters)
  BY HpmAssumption DEF Counters, Found, First
<1>w. hpc \in Counting => CountNow \in Counts /\ CountNow \in Nat
  BY CountsAreNat, <1>t DEF HpmInv, CallsInOrder, CountNow
<1> USE DEF HpmInv, HpmTypeOK, access, reading, Rest, NoCall
<1>1. ASSUME HpmInitialise PROVE HpmTypeOK'
  <2>1. hpm_count' \in Counters
    BY <1>1, <1>z DEF HpmInitialise
  <2>2. hpmcounter' \in [Watched -> Counts]
    BY <1>1, <1>t, CountsAreNat DEF HpmInitialise
  <2> QED
    BY <1>1, <2>1, <2>2 DEF HpmInitialise, Counts
<1>2. ASSUME SetEvent PROVE HpmTypeOK'
  BY <1>2 DEF SetEvent
<1>3. ASSUME NEW c \in Watched, HpmTick(c) PROVE HpmTypeOK'
  <2>1. hpmcounter[c] + 1 \in Counts
    BY <1>3, <1>t, CountsAreNat DEF HpmTick
  <2>2. hpmcounter' \in [Watched -> Counts]
    BY <1>3, <2>1, <1>t DEF HpmTick
  <2>3. fresh' \in Nat
    <3>1. fresh \in Nat /\ fresh' \in {fresh, fresh + 1}
      BY <1>3 DEF HpmTick
    <3> QED
      BY <3>1, NatArithmetic, Zenon
  <2> QED
    BY <1>3, <2>2, <2>3 DEF HpmTick, Counts
<1>4. ASSUME ReadCounter PROVE HpmTypeOK'
  BY <1>4, <1>t, CountsAreNat DEF ReadCounter
<1>5. ASSUME ReadHigh PROVE HpmTypeOK'
  BY <1>5, <1>w, WordTypes DEF ReadHigh, HighWord, CountNow, Counting
<1>6. ASSUME ReadLow PROVE HpmTypeOK'
  BY <1>6, <1>w, WordTypes DEF ReadLow, LowWord, CountNow, Counting
<1>7. ASSUME ReadAgain PROVE HpmTypeOK'
  BY <1>7 DEF ReadAgain
<1>8. ASSUME ClearCounter PROVE HpmTypeOK'
  BY <1>8 DEF ClearCounter
<1>9. ASSUME NEW from, NEW to \in Counting,
             WriteHigh(from, to), from \in Counting
      PROVE  HpmTypeOK'
  <2>1. CountNow % HpmBase \in Counts
    <3>1. hpc = from
      BY <1>9 DEF WriteHigh
    <3>2. LowWord(CountNow) \in Nat /\ LowWord(CountNow) <= CountNow
      BY <1>9, <3>1, <1>w, SmallIsLow, WordTypes
    <3> QED
      BY <1>9, <3>1, <3>2, <1>w, CountsAreNat DEF LowWord
  <2>2. hpmcounter' \in [Watched -> Counts]
    BY <1>9, <2>1, <1>t DEF WriteHigh, CountNow
  <2> QED
    BY <1>9, <2>2 DEF WriteHigh, Counts, Counting
<1>10. ASSUME WriteLow PROVE HpmTypeOK'
  <2>1. CountNow - (CountNow % HpmBase) \in Counts
    <3>1. hpc \in Counting
      BY <1>10 DEF WriteLow, Counting
    <3>2. CountNow - LowWord(CountNow) \in Nat /\ LowWord(CountNow) \in Nat
      BY <3>1, <1>w, SmallIsLow, WordTypes
    <3>3. CountNow - LowWord(CountNow) <= CountNow /\ CountNow \in Counts
      BY <3>1, <3>2, <1>w, NatArithmetic, Zenon
    <3>4. CountNow - LowWord(CountNow) \in Counts
      BY <3>2, <3>3, CountsAreNat
    <3> QED
      BY <3>4 DEF LowWord
  <2>2. hpmcounter' \in [Watched -> Counts]
    BY <1>10, <2>1, <1>t DEF WriteLow, CountNow
  <2> QED
    BY <1>10, <2>2 DEF WriteLow, Counts
<1>11. ASSUME HpmReturn PROVE HpmTypeOK'
  BY <1>11 DEF HpmReturn
<1>12. ASSUME ChangeAccess PROVE HpmTypeOK'
  BY <1>12, <1>z DEF ChangeAccess
<1>13. ASSUME WriteAccess PROVE HpmTypeOK'
  BY <1>13 DEF WriteAccess
<1>14. ASSUME TakeTrap \/ EnableInterrupts PROVE HpmTypeOK'
  BY <1>14 DEF TakeTrap, EnableInterrupts
<1>15. ASSUME Label PROVE HpmTypeOK'
  BY <1>15 DEF Label
<1>16. CASE UNCHANGED hpmVars
  BY <1>16 DEF hpmVars
<1> QED
  BY <1>1, <1>2, <1>3, <1>4, <1>5, <1>6, <1>7, <1>8, <1>9, <1>10, <1>11,
     <1>12, <1>13, <1>14, <1>15, <1>16
     DEF HpmNext, Clearing, Counting

LEMMA HpmCallsKept == HpmInv /\ [HpmNext]_hpmVars => CallsInOrder'
  BY DEF HpmInv, CallsInOrder, hpmVars, HpmNext, HpmInitialise, SetEvent,
         HpmTick, ReadCounter, ReadHigh, ReadLow, ReadAgain, ClearCounter,
         Clearing, WriteHigh, WriteLow, HpmReturn, ChangeAccess, WriteAccess,
         TakeTrap, EnableInterrupts, Label, Counting, access, reading, Rest

LEMMA HpmReadKept == HpmInv /\ [HpmNext]_hpmVars => HpmReadSoFar'
<1> SUFFICES ASSUME HpmInv, [HpmNext]_hpmVars PROVE HpmReadSoFar'
  OBVIOUS
<1>i. ASSUME hpc' \notin {"high", "low", "again", "read"} PROVE HpmReadSoFar'
  BY <1>i DEF HpmReadSoFar
<1>f. ASSUME UNCHANGED <<hpc, which, hpmcounter, reading>> PROVE HpmReadSoFar'
  BY <1>f DEF HpmReadSoFar, CountNow, HpmInv, reading
<1>w. /\ hpc \in Counting => which \in Watched /\ CountNow \in Nat
      /\ vh \in Nat /\ vl \in Nat /\ request \in Nat
      /\ hpmcounter \in [Watched -> Nat]
  <2>1. hpmcounter \in [Watched -> Nat]
    BY CountsAreNat DEF HpmInv, HpmTypeOK, Counts
  <2> QED
    BY <2>1 DEF HpmInv, HpmTypeOK, CallsInOrder, CountNow
<1>1. CASE HpmInitialise
  <2>1. hpc' = "idle"
    BY <1>1 DEF HpmInitialise
  <2> QED
    BY <2>1, <1>i
<1>2. CASE SetEvent
  BY <1>2, <1>f DEF SetEvent
<1>3. ASSUME NEW c \in Watched, HpmTick(c) PROVE HpmReadSoFar'
  <2>1. CASE hpc \in Counting
    <3>1. /\ hpc' = hpc /\ which' = which /\ vh' = vh /\ vl' = vl
          /\ request' = request
          /\ CountNow' \in {CountNow, CountNow + 1} /\ CountNow \in Nat
      BY <1>3, <1>w, <2>1 DEF HpmTick, CountNow, reading
    <3>2. /\ HighWord(CountNow) <= HighWord(CountNow')
          /\ HighWord(CountNow) \in Nat /\ HighWord(CountNow') \in Nat
      BY <3>1, QuotientsAreOrdered, WordTypes
    <3>3. CountNow <= CountNow' /\ CountNow' \in Nat
      BY <3>1
    <3>4. HpmReadSoFar
      BY DEF HpmInv
    <3>5. hpc = "low" => vh <= HighWord(CountNow')
      BY <1>w, <3>2, <3>4 DEF HpmReadSoFar
    <3>6. hpc \in {"high", "low", "again", "read"} => request <= CountNow'
      BY <1>w, <3>1, <3>3, <3>4 DEF HpmReadSoFar
    <3>7. hpc = "again" =>
            \E v \in Nat : /\ LowWord(v) = vl /\ vh <= HighWord(v)
                           /\ request <= v /\ v <= CountNow'
      BY <3>1, <3>3, <3>4 DEF HpmReadSoFar
    <3>8. hpc = "read" => vh * HpmBase + vl <= CountNow'
      <4>1. vh * HpmBase + vl \in Nat
        BY <1>w, HpmAssumption
      <4> QED
        BY <4>1, <3>1, <3>3, <3>4 DEF HpmReadSoFar
    <3> QED
      BY <3>1, <3>4, <3>5, <3>6, <3>7, <3>8 DEF HpmReadSoFar
  <2>2. CASE hpc \notin Counting
    BY <1>3, <2>2, <1>i DEF HpmTick, Counting
  <2> QED
    BY <2>1, <2>2
<1>4. CASE ReadCounter
  BY <1>4, <1>w DEF ReadCounter, HpmReadSoFar, CountNow
<1>5. CASE ReadHigh
  <2>1. /\ hpc = "high" /\ hpc' = "low" /\ vh' = HighWord(CountNow)
        /\ CountNow' = CountNow
        /\ request' = request /\ CountNow \in Nat
    BY <1>5, <1>w DEF ReadHigh, HighWord, CountNow, Rest, Counting
  <2> QED
    BY <2>1, WordsOf DEF HpmReadSoFar, HpmInv
<1>6. CASE ReadLow
  <2>1. /\ hpc = "low" /\ hpc' = "again" /\ vl' = LowWord(CountNow)
        /\ CountNow' = CountNow
        /\ request' = request /\ CountNow \in Nat /\ vh' = vh
    BY <1>6, <1>w DEF ReadLow, LowWord, CountNow, Rest, Counting
  <2> QED
    BY <2>1 DEF HpmReadSoFar, HpmInv
<1>7. CASE ReadAgain
  <2>1. /\ hpc = "again" /\ hpc' = IF HighWord(CountNow) = vh THEN "read"
             ELSE "high"
        /\ CountNow' = CountNow /\ request' = request /\ CountNow \in Nat
        /\ vh' = vh /\ vl' = vl
    BY <1>7, <1>w DEF ReadAgain, HighWord, CountNow, Rest, Counting, reading
  <2>2. PICK v \in Nat : /\ LowWord(v) = vl /\ vh <= HighWord(v)
                         /\ request <= v /\ v <= CountNow
    BY <2>1 DEF HpmInv, HpmReadSoFar
  <2>3. HighWord(v) <= HighWord(CountNow) /\ HighWord(v) \in Nat
                                          /\ HighWord(CountNow) \in Nat
        /\ v = HpmBase * HighWord(v) + LowWord(v)
    BY <2>1, QuotientsAreOrdered, WordsOf, <2>2
  <2>4. CASE HighWord(CountNow) = vh
    <3>1. HighWord(v) = vh
      BY <2>2, <2>3, <2>4, <1>w
    <3>2. HpmBase * vh = vh * HpmBase
      BY <1>w, HpmAssumption
    <3>3. v = vh * HpmBase + vl
      BY <3>1, <3>2, <2>2, <2>3
    <3> QED
      BY <2>1, <2>2, <2>4, <3>3 DEF HpmReadSoFar, HpmInv
  <2>5. CASE HighWord(CountNow) # vh
    BY <2>1, <2>5 DEF HpmReadSoFar, HpmInv
  <2> QED
    BY <2>4, <2>5
<1>8. CASE ClearCounter \/ Clearing \/ HpmReturn
  <2>1. hpc' \in {"clear", "clear low", "clear high", "cleared", "idle"}
    BY <1>8 DEF ClearCounter, Clearing, WriteHigh, WriteLow, HpmReturn
  <2> QED
    BY <2>1, <1>i
<1>9. CASE ChangeAccess \/ WriteAccess \/ TakeTrap \/ EnableInterrupts \/ Label
  <2>1. hpc' \in {"access", "label", "idle"}
    BY <1>9 DEF ChangeAccess, WriteAccess, TakeTrap, EnableInterrupts, Label
  <2> QED
    BY <2>1, <1>i
<1>10. CASE UNCHANGED hpmVars
  BY <1>10, <1>f DEF hpmVars, reading
<1> QED
  BY <1>1, <1>2, <1>3, <1>4, <1>5, <1>6, <1>7, <1>8, <1>9, <1>10 DEF HpmNext

LEMMA HpmClearKept == HpmInv /\ [HpmNext]_hpmVars => ClearedSoFar'
<1> SUFFICES ASSUME HpmInv, [HpmNext]_hpmVars,
                    hpc' \in {"clear high", "cleared"}
             PROVE  ClearedSoFar'
  BY DEF ClearedSoFar
<1>w. /\ hpc \in Counting => which \in Watched /\ CountNow \in Nat
      /\ fresh \in Nat /\ hpmcounter \in [Watched -> Nat]
  <2>1. hpmcounter \in [Watched -> Nat]
    BY CountsAreNat DEF HpmInv, HpmTypeOK, Counts
  <2> QED
    BY <2>1 DEF HpmInv, HpmTypeOK, CallsInOrder, CountNow
<1>1. ASSUME NEW c \in Watched, HpmTick(c) PROVE ClearedSoFar'
  <2>1. /\ hpc' = hpc /\ hpc \in {"clear high", "cleared"} /\ CountNow \in Nat
        /\ \/ CountNow' = CountNow /\ fresh' = fresh
           \/ CountNow' = CountNow + 1 /\ fresh' = fresh + 1
    BY <1>1, <1>w DEF HpmTick, CountNow, Counting
  <2>2. ClearedSoFar /\ fresh \in Nat
    BY <1>w DEF HpmInv
  <2>3. CASE CountNow' = CountNow /\ fresh' = fresh
    BY <2>1, <2>2, <2>3 DEF ClearedSoFar
  <2>4. CASE CountNow' = CountNow + 1 /\ fresh' = fresh + 1
    <3>1. hpc = "clear high" => LowWord(CountNow') <= fresh'
      BY <2>1, <2>2, <2>4, LowIsCounted, Zenon DEF ClearedSoFar
    <3>2. hpc = "cleared" => CountNow' <= fresh'
      BY <2>1, <2>2, <2>4, LowIsCounted, Zenon DEF ClearedSoFar
    <3> QED
      BY <2>1, <3>1, <3>2 DEF ClearedSoFar, LowWord
  <2> QED
    BY <2>1, <2>3, <2>4
<1>2. CASE WriteLow
  <2>1. /\ CountNow \in Nat /\ CountNow' = CountNow - LowWord(CountNow)
        /\ hpc' = "clear high"
        /\ fresh' = fresh
    BY <1>2, <1>w DEF WriteLow, CountNow, LowWord, Counting
  <2>2. LowWord(CountNow') = 0
    BY <2>1, SmallIsLow
  <2>3. fresh \in Nat
    BY <1>w
  <2>4. LowWord(CountNow)' = 0
    BY <2>2 DEF LowWord
  <2>5. LowWord(CountNow)' <= fresh'
    BY <2>1, <2>3, <2>4, NatArithmetic, Zenon
  <2> QED
    BY <2>1, <2>5 DEF ClearedSoFar
<1>3. CASE WriteHigh("clear high", "cleared")
  <2>1. /\ CountNow \in Nat /\ CountNow' = LowWord(CountNow)
        /\ hpc = "clear high"
        /\ hpc' = "cleared" /\ fresh' = fresh
    BY <1>3, <1>w DEF WriteHigh, CountNow, LowWord, Counting
  <2> QED
    BY <2>1 DEF ClearedSoFar, HpmInv
<1>4. CASE UNCHANGED <<hpc, which, hpmcounter, fresh>>
  BY <1>4 DEF ClearedSoFar, CountNow, HpmInv
<1> QED
  BY <1>1, <1>2, <1>3, <1>4
     DEF hpmVars, HpmNext, HpmInitialise, SetEvent, ReadCounter, ReadHigh,
         ReadLow, ReadAgain, ClearCounter, Clearing, WriteHigh, HpmReturn,
         ChangeAccess, WriteAccess, TakeTrap, EnableInterrupts, Label

LEMMA HpmInvHolds == HpmSpec => []HpmInv
<1>1. HpmInv /\ [HpmNext]_hpmVars => HpmInv'
  BY HpmTypesKept, HpmCallsKept, HpmReadKept, HpmClearKept DEF HpmInv
<1> QED
  BY HpmInitInv, <1>1, PTL DEF HpmSpec

\* For any width of a word and any set of counters: types hold, a read returns
\* a count the counter had meanwhile, a cleared counter holds no more than it
\* counted since, and the trap vector is back when a call is over (hpm.c).
THEOREM HpmCorrect == HpmSpec => [](HpmTypeOK /\ CountsAreTrue)
<1>1. HpmInv => HpmTypeOK /\ CountsAreTrue
  BY DEF HpmInv, CallsInOrder, HpmReadSoFar, ClearedSoFar, CountsAreTrue,
       CountNow
<1> QED
  BY <1>1, HpmInvHolds, PTL

-----------------------------------------------------------------------------
(* Memory protection: PmpRegions.                                          *)

-----------------------------------------------------------------------------
(* The arguments of the running set_region.                                 *)
RunningCall ==
  /\ step # "idle" => ~pmpcfg[region].L
  /\ init \in 1 .. NumRegions /\ step # "idle" =>
       region = init - 1 /\ config = Fresh /\ address = {}
  /\ init = 0 => step = "idle"
  /\ init = NumRegions + 1 /\ step # "idle" =>
       /\ step = "address" /\ region = 0 /\ config = Fresh
       /\ pmpcfg[0] = Fresh /\ address = AllOnes /\ rc = 0
  \* after the first region is cleared
  /\ init \in Nat /\ init > 1 /\ ~pmpcfg[0].L => pmpcfg[0] = Fresh
  /\ init = 1 /\ ~pmpcfg[0].L /\ step = "idle" => pmpcfg[0] = Fresh

\* No register and no request has bits below the grain, but for the ones that
\* metal_pmp_init writes to detect it and takes back at once.
NoRemainders ==
  /\ \A r \in Regions \ {0} : pmpaddr[r] \cap Grain = {}
  /\ pmpaddr[0] \cap Grain # {} =>
       /\ pmpaddr[0] = AllOnes /\ pmpcfg[0] = Fresh /\ ~LockedByAbove(0)
       /\ \/ init = NumRegions + 1 /\ step = "idle" /\ rc = 0
          \/ /\ init = No /\ step = "address" /\ region = 0 /\ address = {}
             /\ config = Fresh
  /\ step # "idle" /\ init # NumRegions + 1 => address \cap Grain = {}

\* The address comes before the lock.
AddressFirst ==
  step \in {"clear", "set"} =>
    pmpaddr[region] = address \/ LockedByAbove(region)

PmpInv ==
  PmpTypeOK /\ RunningCall /\ (WholeGrains => NoRemainders /\ AddressFirst)

-----------------------------------------------------------------------------
LEMMA NatOrder ==
  \E R : IsWellFoundedOn(R, Nat) /\ \A x, y \in Nat : y < x => <<y, x>> \in R
<1> DEFINE R == OpToRel(<, Nat)
<1>1. IsWellFoundedOn(R, Nat)
  BY NatLessThanWellFounded
<1>2. \A x, y \in Nat : y < x => <<y, x>> \in R
  BY DEF OpToRel
<1> HIDE DEF R
<1> QED
  BY <1>1, <1>2

\* A set of numbers that is not empty has a least one.
LEMMA LeastIsIn == ASSUME NEW S \in SUBSET Nat, S # {} PROVE Min(S) \in S
<1>1. PICK R : /\ IsWellFoundedOn(R, Nat)
               /\ \A x, y \in Nat : y < x => <<y, x>> \in R
  BY NatOrder
<1>2. PICK x \in S : \A y \in S : ~ (<<y, x>> \in R)
  BY <1>1, WFMin
<1>3. \A y \in S : ~ (y < x)
  BY <1>1, <1>2
<1>4. \A y \in S : x <= y
  BY <1>3
<1> QED
  BY <1>4 DEF Min

LEMMA AddressTypes ==
  /\ {} \in Addresses /\ AllOnes \in Addresses /\ Asked \subseteq Addresses
  /\ Regions \subseteq Nat /\ 0 \in Regions /\ NumRegions \in Nat \ {0}
  /\ Fresh \in Config
  /\ \A r \in Regions : r + 1 \in 0 .. NumRegions + 1 /\ r <= NumRegions
  /\ \A a \in Addresses : DetectedGranularity(a) \in Nat
<1>1. ASSUME NEW a \in Addresses PROVE DetectedGranularity(a) \in Nat
  <2>1. a \in SUBSET Nat /\ AddrBits \in Nat
    BY PmpAssumption DEF Addresses, AllOnes
  <2>2. a # {} => Min(a) \in Nat
    BY <2>1, LeastIsIn
  <2> QED
    BY <2>1, <2>2 DEF DetectedGranularity
<1> QED
  BY <1>1, PmpAssumption
     DEF Addresses, AllOnes, Regions, Fresh, Config, Modes

\* What a call of set_region does before its first write.
LEMMA SetRegionStarts ==
  ASSUME NEW r \in Nat, NEW c \in Config, NEW a, SetRegion(r, c, a)
  PROVE  /\ rc' \in {0, 2, 3, 4}
         /\ \/ /\ rc' = 0 /\ r \in Regions /\ ~pmpcfg[r].L
               /\ region' = r /\ config' = c /\ address' = a
               /\ step' = "address"
            \/ UNCHANGED <<args, step>> /\ (rc' # 0 \/ r \notin Regions)
         /\ r \in Regions /\ c = Fresh /\ ~pmpcfg[r].L => rc' = 0
<1>1. r \in Regions => r <= NumRegions /\ r \in Nat
  BY AddressTypes
<1>2. Fresh.A = "off"
  BY DEF Fresh
<1>3. rc' = Refusal(r, c, a) /\ rc' \in {0, 2, 3, 4}
  BY DEF SetRegion, Refusal
<1>4. rc' = 0 /\ r \in Regions => ~pmpcfg[r].L
  BY <1>3 DEF Refusal
<1>5. r \in Regions /\ c = Fresh /\ ~pmpcfg[r].L => rc' = 0
  BY <1>1, <1>2, <1>3, PmpAssumption DEF Refusal
<1> QED
  BY <1>3, <1>4, <1>5 DEF SetRegion

LEMMA CallTypes ==
  ASSUME PmpInv, Call
  PROVE  \E r \in Nat, c \in Config, a \in Addresses :
           /\ SetRegion(r, c, a)
           /\ WholeGrains => a \cap Grain = {}
<1> USE AddressTypes
<1>1. /\ pmpcfg \in [Regions -> Config] /\ pmpaddr \in [Regions -> Addresses]
      /\ step = "idle" /\ init = No
  BY DEF Call, PmpInv, PmpTypeOK
<1>2. ASSUME NEW r \in Regions
      PROVE  /\ ReadAddress(r) \in Addresses
             /\ WholeGrains => ReadAddress(r) \cap Grain = {}
  <2>1. ReadAddress(r) \subseteq pmpaddr[r] /\ pmpaddr[r] \in Addresses
    BY <1>1 DEF ReadAddress
  <2>2. ReadAddress(r) \in Addresses
    BY <2>1 DEF Addresses
  <2>3. No # NumRegions + 1
    BY PmpAssumption DEF No
  <2>4. WholeGrains => pmpaddr[r] \cap Grain = {}
    BY <1>1, <2>3 DEF PmpInv, NoRemainders
  <2> QED
    BY <2>1, <2>2, <2>4
<1>3. CASE SetWhole
  <2>1. PICK r \in 0 .. NumRegions + 1, c \in Config, a \in Asked :
          SetRegion(r, c, a)
    BY <1>3 DEF SetWhole
  <2>2. r \in Nat /\ a \in Addresses
    BY PmpAssumption
  <2> QED
    BY <2>1, <2>2 DEF WholeGrains
<1>4. CASE SetPart
  <2>1. PICK r \in Regions :
    \/ SetRegion(r, [pmpcfg[r] EXCEPT !.L = TRUE], ReadAddress(r))
    \/ \E a \in Asked : SetRegion(r, pmpcfg[r], a)
    \/ \E m \in Modes : SetRegion(r, [pmpcfg[r] EXCEPT !.A = m],
                                  ReadAddress(r))
    \/ \E p \in Perms : SetRegion(r, [pmpcfg[r] EXCEPT !.P = p],
                                  ReadAddress(r))
    BY <1>4 DEF SetPart
  <2>2. r \in Nat /\ pmpcfg[r] \in Config
    BY <1>1
  <2>3. /\ [pmpcfg[r] EXCEPT !.L = TRUE] \in Config
        /\ \A m \in Modes : [pmpcfg[r] EXCEPT !.A = m] \in Config
        /\ \A p \in Perms : [pmpcfg[r] EXCEPT !.P = p] \in Config
    BY <2>2 DEF Config
  <2>4. CASE SetRegion(r, [pmpcfg[r] EXCEPT !.L = TRUE], ReadAddress(r))
    BY <1>2, <2>2, <2>3, <2>4
  <2>5. CASE \E a \in Asked : SetRegion(r, pmpcfg[r], a)
    BY <2>2, <2>5 DEF WholeGrains
  <2>6. CASE \E m \in Modes : SetRegion(r, [pmpcfg[r] EXCEPT !.A = m],
                                        ReadAddress(r))
    BY <1>2, <2>2, <2>3, <2>6
  <2>7. CASE \E p \in Perms : SetRegion(r, [pmpcfg[r] EXCEPT !.P = p],
                                        ReadAddress(r))
    BY <1>2, <2>2, <2>3, <2>7
  <2> QED
    BY <2>1, <2>4, <2>5, <2>6, <2>7
<1> QED
  BY <1>3, <1>4 DEF Call

LEMMA PmpInitInv == PmpInit => PmpInv
  BY AddressTypes
     DEF PmpInit, PmpInv, PmpTypeOK, RunningCall, NoRemainders, AddressFirst,
         Fresh, No

\* Every step, a call of set_region with the values it is made with.
PmpStep ==
  \/ /\ step = "idle" /\ init = No
     /\ \E r \in Nat, c \in Config, a \in Addresses :
          SetRegion(r, c, a) /\ (WholeGrains => a \cap Grain = {})
     /\ UNCHANGED <<pmpcfg, pmpaddr, granularity, init>>
  \/ WriteAddress \/ ClearConfig \/ SetConfig
  \/ StartInit \/ ClearRegion \/ Probe \/ Detect
  \/ UNCHANGED pmpVars

LEMMA PmpSteps == PmpInv /\ [PmpNext]_pmpVars => PmpStep
<1>1. PmpInv /\ Call => PmpStep
  BY CallTypes DEF Call, PmpStep
<1> QED
  BY <1>1 DEF PmpNext, PmpStep

LEMMA PmpTypesKept == PmpInv /\ PmpStep => PmpTypeOK'
<1> SUFFICES ASSUME PmpInv, PmpStep PROVE PmpTypeOK'
  OBVIOUS
<1> USE AddressTypes
<1>t. PmpTypeOK
  BY DEF PmpInv
<1>1. ASSUME NEW r \in Nat, NEW c \in Config, NEW a \in Addresses,
             SetRegion(r, c, a)
      PROVE  /\ rc' \in {0, 2, 3, 4} /\ config' \in Config
             /\ step' \in {"idle", "address", "clear", "set"}
             /\ region' \in Regions /\ address' \in Addresses
  BY <1>1, <1>t, SetRegionStarts DEF PmpTypeOK, args
<1>2. CASE \E r \in Nat, c \in Config, a \in Addresses :
             SetRegion(r, c, a) /\ UNCHANGED <<pmpcfg, pmpaddr, granularity,
                                               init>>
  BY <1>2, <1>1, <1>t DEF PmpTypeOK
<1>3. CASE WriteAddress
  BY <1>3, <1>t DEF WriteAddress, PmpReturn, PmpTypeOK, args, Addresses
<1>4. CASE ClearConfig
  BY <1>4, <1>t DEF ClearConfig, PmpTypeOK, args
<1>5. CASE SetConfig
  BY <1>5, <1>t DEF SetConfig, PmpReturn, PmpTypeOK, Addresses
<1>6. CASE StartInit
  BY <1>6, <1>t, PmpAssumption DEF StartInit, PmpTypeOK, args
<1>7. CASE ClearRegion
  <2>1. /\ init \in Nat /\ SetRegion(init, Fresh, {}) /\ {} \in Addresses
        /\ init' \in 0 .. NumRegions + 1
    BY <1>7 DEF ClearRegion, Addresses
  <2>2. UNCHANGED <<pmpcfg, pmpaddr, granularity>>
    BY <1>7 DEF ClearRegion
  <2> QED
    BY <2>1, <2>2, <1>1, <1>t DEF PmpTypeOK
<1>8. CASE Probe
  <2>1. /\ pmpcfg[0] \in Config /\ SetRegion(0, pmpcfg[0], AllOnes)
        /\ init' \in 0 .. NumRegions + 1
    BY <1>8, <1>t DEF Probe, PmpTypeOK
  <2>2. UNCHANGED <<pmpcfg, pmpaddr, granularity>>
    BY <1>8 DEF Probe
  <2> QED
    BY <2>1, <2>2, <1>1, <1>t DEF PmpTypeOK
<1>9. CASE Detect
  <2>1. UNCHANGED <<pmpcfg, pmpaddr>> /\ init' = No
    BY <1>9 DEF Detect
  <2>2. CASE rc = 0
    <3>1. ReadAddress(0) \in Addresses /\ {} \in Addresses
      BY <1>t DEF PmpTypeOK, ReadAddress, Addresses
    <3>2. granularity' \in Nat /\ SetRegion(0, pmpcfg[0], {})
      BY <1>9, <2>2, <3>1 DEF Detect
    <3> QED
      BY <1>1, <1>t, <2>1, <3>1, <3>2 DEF PmpTypeOK
  <2>3. CASE rc # 0
    BY <1>9, <2>1, <2>3, <1>t DEF Detect, PmpTypeOK, args
  <2> QED
    BY <2>2, <2>3
<1>10. CASE UNCHANGED pmpVars
  BY <1>10, <1>t DEF pmpVars, PmpTypeOK
<1> QED
  BY <1>2, <1>3, <1>4, <1>5, <1>6, <1>7, <1>8, <1>9, <1>10 DEF PmpStep

LEMMA RunningCallKept == PmpInv /\ PmpStep => RunningCall'
<1> SUFFICES ASSUME PmpInv, PmpStep PROVE RunningCall'
  OBVIOUS
<1> USE AddressTypes
<1>t. PmpTypeOK /\ RunningCall
  BY DEF PmpInv
<1>n. /\ No = -1 /\ Fresh.L = FALSE /\ NumRegions \in Nat \ {0}
      /\ Regions = 0 .. NumRegions - 1
      /\ init \in {-1} \cup 0 .. NumRegions + 1
  BY <1>t DEF No, Fresh, PmpTypeOK, Regions
<1>2. CASE /\ step = "idle" /\ init = No
           /\ \E r \in Nat, c \in Config, a \in Addresses : SetRegion(r, c, a)
           /\ UNCHANGED <<pmpcfg, pmpaddr, granularity, init>>
  BY <1>2, <1>n, SetRegionStarts DEF RunningCall, args
<1>3. CASE WriteAddress
  BY SMTT(30), <1>3, <1>t, <1>n DEF WriteAddress, PmpReturn, RunningCall, args, PmpTypeOK
<1>4. CASE ClearConfig
  BY <1>4, <1>t, <1>n DEF ClearConfig, RunningCall, args, PmpTypeOK
<1>5. CASE SetConfig
  BY <1>5, <1>t, <1>n DEF SetConfig, PmpReturn, RunningCall, args, PmpTypeOK
<1>6. CASE StartInit
  BY <1>6, <1>t, <1>n DEF StartInit, RunningCall, args
<1>7. CASE ClearRegion
  <2>1. /\ init \in Regions /\ SetRegion(init, Fresh, {}) /\ init' = init + 1
        /\ UNCHANGED pmpcfg /\ step = "idle" /\ init \in Nat
    BY <1>7 DEF ClearRegion
  <2>2. \/ /\ rc' = 0 /\ ~pmpcfg[init].L /\ region' = init /\ config' = Fresh
           /\ address' = {} /\ step' = "address"
        \/ UNCHANGED <<args, step>> /\ pmpcfg[init].L
    BY <2>1, SetRegionStarts
  <2> QED
    BY <1>t, <1>n, <2>1, <2>2 DEF RunningCall, args
<1>8. CASE Probe
  <2>1. /\ SetRegion(0, pmpcfg[0], AllOnes) /\ init' = NumRegions + 1
        /\ UNCHANGED pmpcfg /\ step = "idle" /\ init = NumRegions
        /\ pmpcfg[0] \in Config
    BY <1>8, <1>t DEF Probe, PmpTypeOK
  <2>2. ~pmpcfg[0].L => pmpcfg[0] = Fresh
    BY <1>t, <1>n, <2>1 DEF RunningCall
  <2>3. \/ /\ rc' = 0 /\ ~pmpcfg[0].L /\ region' = 0 /\ config' = pmpcfg[0]
           /\ address' = AllOnes /\ step' = "address"
        \/ UNCHANGED <<args, step>>
    BY <2>1, SetRegionStarts
  <2> QED
    BY <1>n, <2>1, <2>2, <2>3 DEF RunningCall, args
<1>9. CASE Detect
  <2>1. /\ init' = No /\ UNCHANGED pmpcfg /\ step = "idle"
        /\ pmpcfg[0] \in Config
    BY <1>9, <1>t DEF Detect, PmpTypeOK
  <2>2. UNCHANGED <<args, step>> \/ SetRegion(0, pmpcfg[0], {})
    BY <1>9 DEF Detect, args
  <2>3. \/ region' = 0 /\ ~pmpcfg[0].L
        \/ UNCHANGED <<args, step>>
    BY <2>1, <2>2, SetRegionStarts
  <2> QED
    BY <1>n, <2>1, <2>3 DEF RunningCall, args
<1>10. CASE UNCHANGED pmpVars
  BY <1>10, <1>t DEF pmpVars, RunningCall
<1> QED
  BY <1>2, <1>3, <1>4, <1>5, <1>6, <1>7, <1>8, <1>9, <1>10 DEF PmpStep

LEMMA GrainIsSmall == WholeGrains => AllOnes \ Grain # {}
<1>1. AddrBits \in Nat /\ GrainBits \in Nat
  BY PmpAssumption
<1>2. GrainBits < AddrBits => AddrBits - 1 \in AllOnes \ Grain
  BY <1>1 DEF AllOnes, Grain
<1> QED
  BY <1>2 DEF WholeGrains

LEMMA NoRemaindersKept ==
  ASSUME PmpInv, WholeGrains, PmpStep
  PROVE  NoRemainders'
<1> USE AddressTypes
<1>t. PmpTypeOK /\ RunningCall /\ NoRemainders
  BY DEF PmpInv
<1>n. /\ No = -1 /\ Fresh.L = FALSE /\ Fresh.A = "off"
      /\ NumRegions \in Nat \ {0} /\ init \in {-1} \cup 0 .. NumRegions + 1
      /\ pmpaddr \in [Regions -> Addresses] /\ pmpcfg \in [Regions -> Config]
      /\ {} \cap Grain = {} /\ AllOnes \ Grain # {}
      /\ region \in Regions
  <2>1. AllOnes \ Grain # {}
    BY GrainIsSmall
  <2> QED
    BY <1>t, <2>1 DEF No, Fresh, PmpTypeOK
\* Nothing but where the call is changes.
<1>f. ASSUME UNCHANGED <<pmpaddr, pmpcfg>>,
             \A r \in Regions : pmpaddr[r] \cap Grain = {},
             step' # "idle" /\ init' # NumRegions + 1 =>
               address' \cap Grain = {}
      PROVE  NoRemainders'
  BY <1>f DEF NoRemainders
<1>2. CASE /\ step = "idle" /\ init = No
           /\ \E r \in Nat, c \in Config, a \in Addresses :
                SetRegion(r, c, a) /\ (WholeGrains => a \cap Grain = {})
           /\ UNCHANGED <<pmpcfg, pmpaddr, granularity, init>>
  <2>0. step = "idle" /\ init = No
    BY <1>2
  <2>1. \A r \in Regions : pmpaddr[r] \cap Grain = {}
    BY <2>0, <1>t, <1>n DEF NoRemainders
  <2>2. step' # "idle" => address' \cap Grain = {}
    BY <1>2, SetRegionStarts DEF args
  <2> QED
    BY <1>2, <2>1, <2>2, <1>f
<1>3. CASE WriteAddress
  <2>1. /\ step = "address" /\ UNCHANGED <<pmpcfg, init, rc>>
        /\ \A r \in Regions \ {region} : pmpaddr'[r] = pmpaddr[r]
        /\ \/ step' = "idle"
           \/ step' = "clear" /\ UNCHANGED args /\ pmpcfg[region] # config
        /\ pmpcfg[region] = config => step' = "idle"
    BY <1>3, <1>n DEF WriteAddress, PmpReturn, args
  <2>2. \/ pmpaddr'[region] = address /\ ~LockedByAbove(region)
        \/ /\ pmpaddr'[region] = pmpaddr[region]
           /\ ReadAddress(region) = address \/ LockedByAbove(region)
    BY <1>3, <1>n DEF WriteAddress
  <2>3. LockedByAbove(0)' = LockedByAbove(0)
    BY <2>1 DEF LockedByAbove
  <2>4. CASE init = NumRegions + 1
    <3>1. /\ region = 0 /\ config = Fresh /\ pmpcfg[0] = Fresh
          /\ address = AllOnes /\ rc = 0
      BY <1>t, <2>1, <2>4 DEF RunningCall
    <3>2. \A r \in Regions : pmpaddr[r] \cap Grain = {}
      BY <1>t, <1>n, <2>1, <2>4 DEF NoRemainders
    <3>3. /\ step' = "idle" /\ init' = NumRegions + 1 /\ rc' = 0
          /\ pmpcfg'[0] = Fresh
          /\ \/ pmpaddr'[0] = AllOnes /\ ~LockedByAbove(0)'
             \/ pmpaddr'[0] = pmpaddr[0]
      BY <2>1, <2>2, <2>3, <2>4, <3>1
    <3> QED
      BY <2>1, <3>1, <3>2, <3>3 DEF NoRemainders
  <2>5. CASE init # NumRegions + 1
    <3>1. address \cap Grain = {}
      BY <1>t, <2>1, <2>5 DEF NoRemainders
    <3>2. pmpaddr'[region] \cap Grain = {}
      <4>1. CASE pmpaddr'[region] = address
        BY <3>1, <4>1
      <4>2. CASE /\ pmpaddr'[region] = pmpaddr[region]
                 /\ ReadAddress(region) = address \/ LockedByAbove(region)
        <5>1. CASE pmpaddr[region] \cap Grain = {}
          BY <4>2, <5>1
        <5>2. CASE pmpaddr[region] \cap Grain # {}
          <6>1. /\ region = 0 /\ pmpaddr[0] = AllOnes /\ pmpcfg[0] = Fresh
                /\ ~LockedByAbove(0) /\ address = {}
            BY <1>t, <1>n, <2>1, <2>5, <5>2 DEF NoRemainders
          <6>2. ReadAddress(region) = AllOnes \ Grain
            BY <1>n, <6>1 DEF ReadAddress
          <6> QED
            BY <1>n, <4>2, <6>1, <6>2
        <5> QED
          BY <5>1, <5>2
      <4> QED
        BY <2>2, <4>1, <4>2
    <3>3. \A r \in Regions : pmpaddr'[r] \cap Grain = {}
      <4>1. ASSUME NEW r \in Regions, r # region
            PROVE  pmpaddr[r] \cap Grain = {}
        <5>1. ~ (init = No /\ step = "address" /\ region = 0 /\ r = 0)
          BY <4>1
        <5> QED
          BY <1>t, <1>n, <2>1, <2>5, <4>1 DEF NoRemainders
      <4> QED
        BY <2>1, <3>2, <4>1
    <3>4. step' # "idle" => address' \cap Grain = {}
      BY <2>1, <3>1 DEF args
    <3> QED
      BY <3>3, <3>4 DEF NoRemainders
  <2> QED
    BY <2>4, <2>5
<1>4. CASE ClearConfig \/ SetConfig
  <2>1. /\ UNCHANGED <<pmpaddr, init>> /\ step \in {"clear", "set"}
        /\ step' # "idle" => address' = address
        /\ init # NumRegions + 1
    BY <1>4, <1>t DEF ClearConfig, SetConfig, PmpReturn, args, RunningCall
  <2>2. \A r \in Regions : pmpaddr[r] \cap Grain = {}
    BY <1>t, <2>1 DEF NoRemainders
  <2> QED
    BY <1>t, <2>1, <2>2 DEF NoRemainders
<1>5. CASE StartInit
  <2>1. /\ UNCHANGED <<pmpaddr, pmpcfg, step>> /\ step = "idle" /\ init = No
    BY <1>5 DEF StartInit
  <2>2. \A r \in Regions : pmpaddr[r] \cap Grain = {}
    BY <1>t, <1>n, <2>1 DEF NoRemainders
  <2> QED
    BY <1>f, <2>1, <2>2
<1>6. CASE ClearRegion
  <2>1. /\ UNCHANGED <<pmpaddr, pmpcfg>> /\ step = "idle" /\ init \in Nat
        /\ init # NumRegions + 1 /\ SetRegion(init, Fresh, {})
    BY <1>6, <1>n DEF ClearRegion, Regions
  <2>2. \A r \in Regions : pmpaddr[r] \cap Grain = {}
    BY <1>t, <1>n, <2>1 DEF NoRemainders
  <2>3. step' # "idle" => address' = {}
    BY <2>1, SetRegionStarts
  <2> QED
    BY <1>f, <1>n, <2>1, <2>2, <2>3
<1>7. CASE Probe
  <2>1. /\ UNCHANGED <<pmpaddr, pmpcfg>> /\ step = "idle"
        /\ init = NumRegions /\ init' = NumRegions + 1
    BY <1>7 DEF Probe
  <2>2. \A r \in Regions : pmpaddr[r] \cap Grain = {}
    BY <1>t, <1>n, <2>1 DEF NoRemainders
  <2> QED
    BY <1>f, <2>1, <2>2
<1>8. CASE Detect
  <2>1. /\ UNCHANGED <<pmpaddr, pmpcfg>> /\ step = "idle"
        /\ init = NumRegions + 1 /\ init' = No
    BY <1>8 DEF Detect
  <2>2. \A r \in Regions \ {0} : pmpaddr[r] \cap Grain = {}
    BY <1>t DEF NoRemainders
  <2>3. CASE pmpaddr[0] \cap Grain = {}
    <3>1. step' # "idle" => address' = {}
      <4>1. pmpcfg[0] \in Config
        BY <1>n
      <4>2. UNCHANGED <<args, step>> \/ SetRegion(0, pmpcfg[0], {})
        BY <1>8 DEF Detect, args
      <4> QED
        BY <2>1, <4>1, <4>2, SetRegionStarts
    <3> QED
      BY <1>f, <1>n, <2>1, <2>2, <2>3, <3>1
  <2>4. CASE pmpaddr[0] \cap Grain # {}
    <3>1. /\ pmpaddr[0] = AllOnes /\ pmpcfg[0] = Fresh /\ ~LockedByAbove(0)
          /\ rc = 0
      BY <1>t, <1>n, <2>1, <2>4 DEF NoRemainders
    <3>2. SetRegion(0, Fresh, {})
      BY <1>8, <3>1 DEF Detect
    <3>3. /\ region' = 0 /\ config' = Fresh /\ address' = {}
          /\ step' = "address"
      BY <1>n, <3>1, <3>2, SetRegionStarts
    <3>4. ~LockedByAbove(0)'
      BY <2>1, <3>1 DEF LockedByAbove
    <3> QED
      BY <1>n, <2>1, <2>2, <3>1, <3>3, <3>4 DEF NoRemainders
  <2> QED
    BY <2>3, <2>4
<1>9. CASE UNCHANGED pmpVars
  BY <1>9, <1>t DEF pmpVars, NoRemainders, LockedByAbove
<1> QED
  BY <1>2, <1>3, <1>4, <1>5, <1>6, <1>7, <1>8, <1>9 DEF PmpStep

LEMMA AddressFirstKept ==
  ASSUME PmpInv, WholeGrains, PmpStep
  PROVE  AddressFirst'
<1> USE AddressTypes
<1>t. PmpTypeOK /\ RunningCall /\ NoRemainders /\ AddressFirst
  BY DEF PmpInv
<1>n. /\ pmpaddr \in [Regions -> Addresses] /\ pmpcfg \in [Regions -> Config]
      /\ region \in Regions /\ Fresh.L = FALSE /\ config \in Config
      /\ AllOnes \ Grain # {}
  BY <1>t, GrainIsSmall DEF PmpTypeOK, Fresh
\* No call is past the address.
<1>f. step' \notin {"clear", "set"} => AddressFirst'
  BY DEF AddressFirst
<1>1. ASSUME NEW r \in Nat, NEW c \in Config, NEW a, SetRegion(r, c, a),
             step = "idle"
      PROVE  step' \notin {"clear", "set"}
  BY <1>1, SetRegionStarts
<1>2. CASE /\ step = "idle" /\ init = No
           /\ \E r \in Nat, c \in Config, a \in Addresses :
                SetRegion(r, c, a) /\ (WholeGrains => a \cap Grain = {})
           /\ UNCHANGED <<pmpcfg, pmpaddr, granularity, init>>
  BY <1>1, <1>2, <1>f
<1>3. CASE WriteAddress
  <2>1. /\ step = "address" /\ UNCHANGED <<pmpcfg>>
        /\ \A r \in Regions \ {region} : pmpaddr'[r] = pmpaddr[r]
        /\ step' = "idle" \/ (step' = "clear" /\ UNCHANGED args)
        /\ step' # "idle" => pmpcfg[region] # config
    <3>1. \A r \in Regions \ {region} : pmpaddr'[r] = pmpaddr[r]
      BY <1>3, <1>n DEF WriteAddress
    <3>2. step = "address" /\ UNCHANGED <<pmpcfg>>
      BY <1>3 DEF WriteAddress
    <3>3. CASE pmpcfg[region] = config
      <4>1. PmpReturn
        BY <1>3, <3>3 DEF WriteAddress
      <4>2. step' = "idle"
        BY <4>1 DEF PmpReturn
      <4> QED
        BY <3>1, <3>2, <4>2
    <3>4. CASE pmpcfg[region] # config
      <4>1. step' = "clear" /\ UNCHANGED args
        BY <1>3, <3>4 DEF WriteAddress
      <4> QED
        BY <3>1, <3>2, <3>4, <4>1
    <3> QED
      BY <3>3, <3>4
  <2>4. ASSUME step' = "clear" PROVE AddressFirst'
    <3>1. /\ region' = region /\ address' = address
          /\ LockedByAbove(region)' = LockedByAbove(region)
      BY <2>1, <2>4 DEF args, LockedByAbove
    <3>2. \/ pmpaddr'[region] = address \/ LockedByAbove(region)
          \/ /\ pmpaddr'[region] = pmpaddr[region]
             /\ ReadAddress(region) = address
      BY <1>3, <1>n DEF WriteAddress
    <3>3. CASE /\ pmpaddr'[region] = pmpaddr[region]
               /\ ReadAddress(region) = address
      <4>1. pmpaddr[region] \cap Grain = {}
        <5>1. ~ (region = 0 /\ pmpcfg[0] = Fresh /\ config = Fresh)
          BY <2>1, <2>4
        <5>2. step = "address"
          BY <2>1
        <5> QED
          BY <1>t, <1>n, <5>1, <5>2 DEF NoRemainders
      <4>2. ReadAddress(region) = pmpaddr[region]
        BY <4>1 DEF ReadAddress
      <4> QED
        BY <3>1, <3>3, <4>2 DEF AddressFirst
    <3> QED
      BY <3>1, <3>2, <3>3 DEF AddressFirst
  <2> QED
    BY <2>1, <2>4 DEF AddressFirst
<1>4. CASE ClearConfig
  <2>1. /\ step = "clear" /\ step' = "set"
        /\ pmpcfg' = [pmpcfg EXCEPT ![region] = Fresh]
        /\ UNCHANGED <<pmpaddr, region, address>>
    BY <1>4 DEF ClearConfig, args
  <2>3. LockedByAbove(region)' = LockedByAbove(region)
    BY <1>n, <2>1 DEF LockedByAbove, Regions
  <2> QED
    BY <1>t, <2>1, <2>3 DEF AddressFirst
<1>5. CASE SetConfig
  BY <1>5, <1>f DEF SetConfig, PmpReturn
<1>6. CASE StartInit
  BY <1>6, <1>f DEF StartInit
<1>7. CASE ClearRegion
  BY <1>1, <1>7, <1>f DEF ClearRegion
<1>8. CASE Probe
  BY <1>1, <1>8, <1>f, <1>n DEF Probe
<1>9. CASE Detect
  BY <1>1, <1>9, <1>f, <1>n DEF Detect
<1>10. CASE UNCHANGED pmpVars
  BY <1>10, <1>t DEF pmpVars, AddressFirst, LockedByAbove
<1> QED
  BY <1>2, <1>3, <1>4, <1>5, <1>6, <1>7, <1>8, <1>9, <1>10 DEF PmpStep

LEMMA PmpInvHolds == PmpSpec => []PmpInv
<1>1. PmpInv /\ [PmpNext]_pmpVars => PmpInv'
  <2> SUFFICES ASSUME PmpInv, [PmpNext]_pmpVars PROVE PmpInv'
    OBVIOUS
  <2>1. PmpStep
    BY PmpSteps
  <2>2. WholeGrains => NoRemainders' /\ AddressFirst'
    BY <2>1, NoRemaindersKept, AddressFirstKept
  <2> QED
    BY <2>1, <2>2, PmpTypesKept, RunningCallKept DEF PmpInv
<1> QED
  BY PmpInitInv, <1>1, PTL DEF PmpSpec

\* The variables of memory protection keep their types.
THEOREM PmpTypes == PmpSpec => []PmpTypeOK
<1>1. PmpInv => PmpTypeOK
  BY DEF PmpInv
<1> QED
  BY <1>1, PmpInvHolds, PTL

LEMMA OneRegionOnly ==
  ASSUME PmpInv, [PmpNext]_pmpVars
  PROVE  OnlyItsRegion
<1>1. pmpcfg \in [Regions -> Config] /\ pmpaddr \in [Regions -> Addresses]
  BY DEF PmpInv, PmpTypeOK
<1> QED
  BY <1>1
     DEF OnlyItsRegion, PmpNext, Call, WriteAddress, ClearConfig, SetConfig,
         StartInit, ClearRegion, Probe, Detect, pmpVars

LEMMA LocksStay ==
  ASSUME PmpInv, [PmpNext]_pmpVars
  PROVE  LocksHold
<1>1. /\ pmpcfg \in [Regions -> Config] /\ pmpaddr \in [Regions -> Addresses]
      /\ step # "idle" => ~pmpcfg[region].L
  BY DEF PmpInv, PmpTypeOK, RunningCall
<1>2. CASE WriteAddress
  <2>1. /\ UNCHANGED pmpcfg /\ ~pmpcfg[region].L
        /\ \/ UNCHANGED pmpaddr
           \/ /\ pmpaddr' = [pmpaddr EXCEPT ![region] = address]
              /\ ~LockedByAbove(region)
    BY <1>1, <1>2 DEF WriteAddress
  <2> QED
    BY <1>1, <2>1 DEF LocksHold
<1>3. CASE ClearConfig \/ SetConfig
  <2>1. /\ UNCHANGED pmpaddr /\ ~pmpcfg[region].L
        /\ \A r \in Regions \ {region} : pmpcfg'[r] = pmpcfg[r]
    BY <1>1, <1>3 DEF ClearConfig, SetConfig
  <2> QED
    BY <2>1 DEF LocksHold
<1>4. CASE UNCHANGED <<pmpcfg, pmpaddr>>
  BY <1>4 DEF LocksHold
<1> QED
  BY <1>2, <1>3, <1>4
     DEF PmpNext, Call, StartInit, ClearRegion, Probe, Detect, pmpVars

LEMMA LocksComeLast ==
  ASSUME PmpInv, WholeGrains, [PmpNext]_pmpVars
  PROVE  LockedAsAsked
<1>1. /\ pmpcfg \in [Regions -> Config] /\ Fresh.L = FALSE
  BY DEF PmpInv, PmpTypeOK, Fresh
<1>2. CASE SetConfig
  <2>1. /\ pmpcfg' = [pmpcfg EXCEPT ![region] = config] /\ step = "set"
        /\ UNCHANGED pmpaddr
    BY <1>2 DEF SetConfig
  <2>2. pmpaddr[region] = address \/ LockedByAbove(region)
    BY <2>1 DEF PmpInv, AddressFirst
  <2> QED
    BY <1>1, <2>1, <2>2 DEF LockedAsAsked
<1>3. CASE ClearConfig
  <2>1. pmpcfg' = [pmpcfg EXCEPT ![region] = Fresh]
    BY <1>3 DEF ClearConfig
  <2> QED
    BY <1>1, <2>1 DEF LockedAsAsked
<1>4. CASE UNCHANGED pmpcfg
  BY <1>4 DEF LockedAsAsked
<1> QED
  BY <1>2, <1>3, <1>4
     DEF PmpNext, Call, WriteAddress, StartInit, ClearRegion, Probe, Detect,
         pmpVars

\* With requests in whole grains, which on this core is every request: a region
\* that becomes locked has the configuration and the address of the call that
\* locks it, unless the locked top-of-range region above had its address; what
\* is locked stays; and a call changes its own region alone (pmp.c,
\* metal_pmp_set_region).
THEOREM LockedRegionsAreKept ==
  WholeGrains /\ PmpSpec => RegionsAreKept
<1>1. CASE WholeGrains
  <2>1. PmpInv /\ [PmpNext]_pmpVars
          => [LockedAsAsked /\ LocksHold /\ OnlyItsRegion]_pmpVars
    BY <1>1, LocksComeLast, LocksStay, OneRegionOnly
  <2> QED
    BY PmpInvHolds, <2>1, PTL DEF PmpSpec, RegionsAreKept
<1> QED
  BY <1>1

-----------------------------------------------------------------------------
(* The core-local interrupt controller: ClicController.                    *)

\* The bits of a level that was set are in the control byte, and the vector bit
\* is what the last call that wrote it said.
LevelIsHeld(d) ==
  levelSet[d] # Unset =>
    \A b \in LevelField : b \in clicintctl[d] <=> b \in levelSet[d]

FlagIsHeld(d) ==
  flagSet[d] # "none" =>
    (VectorBit \in clicintctl[d] <=> flagSet[d] = "yes")

ClicInv == ClicTypeOK /\ \A d \in Ids : LevelIsHeld(d) /\ FlagIsHeld(d)

LEMMA FieldTypes ==
  /\ \A k : Low(k) \subseteq Bits
  /\ \A nm, nl : PriorityBits(nm, nl) \subseteq Implemented
  /\ Implemented = Bits \ Low(ByteBits - NumIntBits)
  /\ VectorBit \in Implemented
  /\ Levels \subseteq SUBSET Bits /\ Unset \notin SUBSET Bits
<1>a. /\ ByteBits \in Nat \ {0} /\ NumIntBits \in Nat \ {0}
      /\ NumIntBits <= ByteBits /\ Levels \subseteq SUBSET (0 .. ByteBits - 1)
  BY ClicAssumption
<1>2. VectorBit \in Implemented
  BY <1>a DEF VectorBit, Implemented, Low, Bits
<1>3. Unset \notin SUBSET Bits
  BY <1>a DEF Unset, Bits
<1>5. \A nm, nl : PriorityBits(nm, nl) \subseteq Implemented
  BY DEF PriorityBits, Implemented, Low
<1> QED
  BY <1>a, <1>2, <1>3, <1>5 DEF Low, Bits, Implemented

\* The fields of the byte: the level's own bits are implemented, in the mask of
\* set_level and in no mask of a priority; the vector bit is in the mask of the
\* priority exactly when a bit is left for that, and in the mask of the level
\* exactly when none is but the mode leaves the level some.
LEMMA FieldsApart ==
  ASSUME ClicTypeOK
  PROVE  /\ \A b \in LevelField :
              /\ b \in Implemented /\ b \in LevelBits(nmbits, nlbits)
              /\ b # VectorBit
              /\ nmbits + nlbits <= NumIntBits =>
                   b \notin PriorityBits(nmbits, nlbits)
              /\ b \in LevelBits(nmbits, LevelWidth)
              /\ b \in Nat /\ nmbits \in Nat
              /\ b + nmbits \notin Low(ByteBits - LevelWidth)
         /\ VectorBit \in PriorityBits(nmbits, nlbits)
              <=> nmbits + nlbits < NumIntBits
         /\ VectorBit \in LevelBits(nmbits, nlbits)
              <=> nmbits < NumIntBits /\ nmbits + nlbits >= NumIntBits
<1>a. /\ ByteBits \in Nat \ {0} /\ NumIntBits \in Nat \ {0}
      /\ NumIntBits <= ByteBits
  BY ClicAssumption
<1>b. nmbits \in 0 .. 2 /\ nlbits \in 0 .. ByteBits
  BY DEF ClicTypeOK, Privileges
<1>w. /\ LevelWidth \in Nat
      /\ \/ nmbits + nlbits >= NumIntBits /\ NumIntBits >= nmbits
            /\ LevelWidth = NumIntBits - nmbits
         \/ nmbits + nlbits >= NumIntBits /\ NumIntBits < nmbits
            /\ LevelWidth = 0
         \/ nmbits + nlbits < NumIntBits /\ LevelWidth = nlbits
  BY <1>a, <1>b DEF LevelWidth
<1>1. ASSUME NEW b \in LevelField
      PROVE  /\ b \in Implemented /\ b \in LevelBits(nmbits, nlbits)
             /\ b # VectorBit
             /\ nmbits + nlbits <= NumIntBits =>
                  b \notin PriorityBits(nmbits, nlbits)
             /\ b \in LevelBits(nmbits, LevelWidth)
             /\ b \in Nat /\ nmbits \in Nat
             /\ b + nmbits \notin Low(ByteBits - LevelWidth)
  <2>1. /\ b \in LevelBits(nmbits, LevelWidth) /\ b # VectorBit
        /\ b \in Bits /\ b < ByteBits - nmbits
        /\ ~ (b < ByteBits - nmbits - LevelWidth)
    BY DEF LevelField, LevelBits, Low
  <2>2. b \in Int /\ b >= 0
    BY <1>a, <2>1 DEF Bits
  <2>3. /\ ~ (b < ByteBits - nmbits - nlbits)
        /\ ~ (b < ByteBits - NumIntBits)
    BY <1>a, <1>b, <1>w, <2>1, <2>2
  <2>4. b \in Implemented /\ b \in LevelBits(nmbits, nlbits)
    BY <2>1, <2>3 DEF Implemented, LevelBits, Low
  <2>5. b \notin PriorityBits(nmbits, nlbits)
    BY <2>3 DEF PriorityBits, Low
  <2>6. ~ (b + nmbits < ByteBits - LevelWidth)
    BY <1>a, <1>b, <1>w, <2>1, <2>2
  <2> QED
    BY <1>b, <2>1, <2>2, <2>4, <2>5, <2>6 DEF Low
<1>2. VectorBit \in Bits
  BY FieldTypes
<1>3. VectorBit \in PriorityBits(nmbits, nlbits)
        <=> nmbits + nlbits < NumIntBits
  BY <1>a, <1>b, <1>2 DEF PriorityBits, VectorBit, Low
<1>4. VectorBit \in LevelBits(nmbits, nlbits)
        <=> nmbits < NumIntBits /\ nmbits + nlbits >= NumIntBits
  BY <1>a, <1>b, <1>2 DEF LevelBits, VectorBit, Low
<1> QED
  BY <1>1, <1>3, <1>4

\* What the three ways to write a byte make of the level and of the vector bit.
LEMMA BytesWritten ==
  ASSUME ClicTypeOK, NEW byte \in SUBSET Implemented, NEW v
  PROVE  /\ \A b \in LevelField :
              /\ b \in WithPriority(byte, v) <=> b \in byte
              /\ b \in WithLevel(byte, v) <=> b \in v
              /\ b \in WithVector(byte) <=> b \in byte
              /\ b \in WithoutVector(byte) <=> b \in byte
         /\ VectorBit \in WithPriority(byte, v) <=>
              IF nmbits + nlbits < NumIntBits THEN VectorBit \in v
                                              ELSE VectorBit \in byte
         /\ VectorBit \in WithLevel(byte, v) <=>
              IF nmbits < NumIntBits /\ nmbits + nlbits >= NumIntBits
                THEN VectorBit \in v ELSE VectorBit \in byte
<1>1. /\ nmbits \in Int /\ nlbits \in Int /\ NumIntBits \in Int
      /\ nmbits + nlbits \in Int
  BY ClicAssumption DEF ClicTypeOK, Privileges
<1>2. VectorBit \in Implemented
  BY FieldTypes
<1>3. nmbits + nlbits < NumIntBits => nmbits + nlbits <= NumIntBits
  BY <1>1
<1>4. ASSUME NEW b \in LevelField
      PROVE  /\ b \in WithPriority(byte, v) <=> b \in byte
             /\ b \in WithLevel(byte, v) <=> b \in v
             /\ b \in WithVector(byte) <=> b \in byte
             /\ b \in WithoutVector(byte) <=> b \in byte
  BY <1>4, FieldsApart
     DEF WithPriority, WithLevel, WithVector, WithoutVector, Field
<1>5. VectorBit \in WithPriority(byte, v) <=>
        IF nmbits + nlbits < NumIntBits THEN VectorBit \in v
                                        ELSE VectorBit \in byte
  BY <1>2, <1>3, FieldsApart DEF WithPriority, Field
<1>6. VectorBit \in WithLevel(byte, v) <=>
        IF nmbits < NumIntBits /\ nmbits + nlbits >= NumIntBits
          THEN VectorBit \in v ELSE VectorBit \in byte
  BY <1>2, FieldsApart DEF WithLevel, Field
<1> QED
  BY <1>4, <1>5, <1>6

LEMMA ClicInitInv == ClicInit => ClicInv
<1> SUFFICES ASSUME ClicInit PROVE ClicInv
  OBVIOUS
<1>1. 0 \in 0 .. ByteBits /\ 0 \in 0 .. MaxCalls
  BY ClicAssumption
<1>2. clicintctl \in [Ids -> SUBSET (Bits \ Low(ByteBits - NumIntBits))]
  BY DEF ClicInit
<1>3. levelSet \in [Ids -> (SUBSET Bits) \cup {Unset}]
  BY DEF ClicInit
<1>4. ClicTypeOK
  <2>1. /\ handler \in [Ids -> {"null", "user", "default"}]
        /\ mtvt \in [Ids -> {"null", "user", "default", "clic"}]
    BY DEF ClicInit
  <2>2. /\ nmbits \in Privileges /\ nlbits \in 0 .. ByteBits
        /\ nvbit \in {0, 1} /\ clicCalls \in 0 .. MaxCalls
    BY <1>1 DEF ClicInit, Privileges
  <2> QED
    BY <1>2, <1>3, <2>1, <2>2 DEF ClicInit, ClicTypeOK
<1> QED
  BY <1>4 DEF ClicInit, ClicInv, LevelIsHeld, FlagIsHeld

LEMMA ControlTypes ==
  ASSUME NEW byte \in SUBSET Implemented, ClicTypeOK
  PROVE  /\ \A mask, v : Field(byte, mask, v) \in SUBSET Implemented
         /\ \A p : WithPriority(byte, p) \in SUBSET Implemented
         /\ \A l : WithLevel(byte, l) \in SUBSET Implemented
         /\ WithVector(byte) \in SUBSET Implemented
         /\ WithoutVector(byte) \in SUBSET Implemented
  BY FieldTypes DEF Field, WithPriority, WithLevel, WithVector, WithoutVector

LEMMA ClicTypesKept == ClicTypeOK /\ [ClicNext]_clicVars => ClicTypeOK'
<1> SUFFICES ASSUME ClicTypeOK, [ClicNext]_clicVars PROVE ClicTypeOK'
  OBVIOUS
<1>t. /\ clicintctl \in [Ids -> SUBSET Implemented]
      /\ levelSet \in [Ids -> (SUBSET Bits) \cup {Unset}]
  BY DEF ClicTypeOK, Implemented
<1>c. Counted => clicCalls' \in 0 .. MaxCalls
  BY ClicAssumption DEF Counted, ClicTypeOK
<1>w. ASSUME NEW d \in Ids, NEW byte \in SUBSET Implemented,
             WriteControl(d, byte)
      PROVE  clicintctl' \in [Ids -> SUBSET Implemented]
  BY <1>w, <1>t DEF WriteControl
<1>1. CASE InitController
  <2>1. nlbits' \in 0 .. ByteBits
    BY <1>1, ClicAssumption DEF InitController
  <2>2. clicintctl' \in [Ids -> SUBSET Implemented]
    BY <1>1, <1>t, ControlTypes DEF InitController
  <2>3. levelSet' \in [Ids -> (SUBSET Bits) \cup {Unset}]
    BY <1>1 DEF InitController
  <2> QED
    BY <1>1, <1>c, <2>1, <2>2, <2>3
       DEF InitController, ClicTypeOK, Implemented, Privileges
<1>2. CASE SetPrivilege \/ ClicSetThreshold
  BY <1>2, <1>c
     DEF SetPrivilege, ClicSetThreshold, ClicTypeOK, tables
<1>3. CASE ClicSetMode
  BY <1>3, <1>c DEF ClicSetMode, ClicTypeOK, tables
<1>4. CASE ClicSetPriority
  <2>1. clicintctl' \in [Ids -> SUBSET Implemented]
    BY <1>4, <1>t, <1>w, ControlTypes DEF ClicSetPriority
  <2> QED
    BY <1>4, <1>c, <2>1
       DEF ClicSetPriority, OnlyControls, ClicTypeOK, tables, cliccfg,
           Implemented, FlagSays
<1>5. CASE SetPreemptiveLevel
  <2>1. PICK d \in Ids, l \in Levels :
          /\ WriteControl(d, WithPriority(WithLevel(clicintctl[d], l), l))
          /\ levelSet' = [levelSet EXCEPT ![d] = l]
    BY <1>5 DEF SetPreemptiveLevel
  <2>2. WithPriority(WithLevel(clicintctl[d], l), l) \in SUBSET Implemented
    BY <1>t, ControlTypes
  <2>3. clicintctl' \in [Ids -> SUBSET Implemented]
    BY <1>w, <2>1, <2>2
  <2>4. levelSet' \in [Ids -> (SUBSET Bits) \cup {Unset}]
    BY <1>t, <2>1, FieldTypes
  <2> QED
    BY <1>5, <1>c, <2>3, <2>4
       DEF SetPreemptiveLevel, FlagSays, OnlyControls, ClicTypeOK, tables, cliccfg,
           Implemented
<1>6. CASE SetVectored
  <2>1. clicintctl' \in [Ids -> SUBSET Implemented]
    BY <1>6, <1>t, <1>w, ControlTypes DEF SetVectored
  <2> QED
    BY <1>6, <1>c, <2>1
       DEF SetVectored, OnlyControls, ClicTypeOK, tables, cliccfg,
           Implemented, FlagSays
<1>7. CASE EnableInterrupt \/ PendInterrupt \/ SoftwareInterrupt
  <2>1. 0 \in Ids
    BY ClicAssumption DEF Ids
  <2> QED
    BY <1>7, <1>c, <2>1
       DEF EnableInterrupt, PendInterrupt, SoftwareInterrupt, ClicTypeOK,
           tables, cliccfg
<1>8. CASE RegisterHandler \/ RegisterVector
  BY <1>8, <1>c
     DEF RegisterHandler, RegisterVector, ClicTypeOK, tables, cliccfg, Isr
<1>9. CASE TakeInterrupt \/ UNCHANGED clicVars
  BY <1>9 DEF TakeInterrupt, clicVars, ClicTypeOK, tables, cliccfg
<1> QED
  BY <1>1, <1>2, <1>3, <1>4, <1>5, <1>6, <1>7, <1>8, <1>9
     DEF ClicNext, InterruptCalls

LEMMA LevelsHeldKept ==
  ASSUME ClicInv, [ClicNext]_clicVars
  PROVE  \A d \in Ids : LevelIsHeld(d)' /\ FlagIsHeld(d)'
<1>t. /\ clicintctl \in [Ids -> SUBSET Implemented]
      /\ levelSet \in [Ids -> (SUBSET Bits) \cup {Unset}]
      /\ flagSet \in [Ids -> {"none", "yes", "no"}] /\ ClicTypeOK
  BY DEF ClicInv, ClicTypeOK, Implemented
<1>h. \A d \in Ids : LevelIsHeld(d) /\ FlagIsHeld(d)
  BY DEF ClicInv
<1>1. ASSUME levelSet' = [d \in Ids |-> Unset],
             \/ flagSet' = [d \in Ids |-> "none"]
             \/ UNCHANGED <<flagSet, clicintctl>>
      PROVE  \A d \in Ids : LevelIsHeld(d)' /\ FlagIsHeld(d)'
  BY <1>1, <1>h DEF LevelIsHeld, FlagIsHeld, VectorBit
\* One byte is written: its level and its flag are those of before, or the ones
\* recorded.
<1>2. ASSUME UNCHANGED <<nmbits, nlbits>>,
             NEW e \in Ids, NEW byte, WriteControl(e, byte),
             \A d \in Ids \ {e} : levelSet'[d] = levelSet[d]
                                  /\ flagSet'[d] = flagSet[d],
             \/ /\ levelSet'[e] = levelSet[e]
                /\ \A b \in LevelField : b \in byte <=> b \in clicintctl[e]
             \/ \A b \in LevelField : b \in byte <=> b \in levelSet'[e],
             \/ /\ flagSet'[e] = flagSet[e]
                /\ VectorBit \in byte <=> VectorBit \in clicintctl[e]
             \/ VectorBit \in byte <=> flagSet'[e] = "yes"
      PROVE  \A d \in Ids : LevelIsHeld(d)' /\ FlagIsHeld(d)'
  <2> SUFFICES ASSUME NEW d \in Ids PROVE LevelIsHeld(d)' /\ FlagIsHeld(d)'
    OBVIOUS
  <2>1. clicintctl' = [clicintctl EXCEPT ![e] = byte]
    BY <1>2 DEF WriteControl
  <2>2. LevelField' = LevelField
    BY <1>2 DEF LevelField, LevelBits, LevelWidth, VectorBit
  <2>3. /\ d = e => clicintctl'[d] = byte
        /\ d # e => clicintctl'[d] = clicintctl[d]
    BY <1>t, <2>1
  <2>4. CASE d = e
    <3>1. LevelIsHeld(d)'
      BY <1>2, <1>h, <2>2, <2>3, <2>4 DEF LevelIsHeld
    <3>2. FlagIsHeld(d)'
      BY <1>2, <1>h, <2>3, <2>4 DEF FlagIsHeld, VectorBit
    <3> QED
      BY <3>1, <3>2
  <2>5. CASE d # e
    <3>1. levelSet'[d] = levelSet[d] /\ flagSet'[d] = flagSet[d]
      BY <1>2, <2>5
    <3> QED
      BY <1>h, <2>2, <2>3, <2>5, <3>1 DEF LevelIsHeld, FlagIsHeld, VectorBit
  <2> QED
    BY <2>4, <2>5
\* What the history of the flag says of one interrupt.
<1>f. ASSUME NEW e \in Ids, NEW on \in BOOLEAN, FlagSays(e, on)
      PROVE  /\ \A d \in Ids \ {e} : flagSet'[d] = flagSet[d]
             /\ flagSet'[e] = "yes" <=> on
  BY <1>f, <1>t DEF FlagSays
<1>3. CASE InitController \/ SetPrivilege \/ ClicSetThreshold
  BY <1>1, <1>3 DEF InitController, SetPrivilege, ClicSetThreshold
<1>4. CASE ClicSetPriority
  <2>1. PICK d \in Ids, p \in Levels :
          /\ WriteControl(d, WithPriority(clicintctl[d], p))
          /\ IF nmbits + nlbits < NumIntBits
               THEN FlagSays(d, VectorBit \in p) ELSE UNCHANGED flagSet
    BY <1>4 DEF ClicSetPriority
  <2>2. UNCHANGED <<nmbits, nlbits, levelSet>>
    BY <1>4 DEF ClicSetPriority, OnlyControls, cliccfg
  <2>3. clicintctl[d] \in SUBSET Implemented
    BY <1>t
  <2>4. \A b \in LevelField :
          b \in WithPriority(clicintctl[d], p) <=> b \in clicintctl[d]
    BY <1>t, <2>3, BytesWritten
  <2>5. CASE nmbits + nlbits < NumIntBits
    <3>1. FlagSays(d, VectorBit \in p) /\ (VectorBit \in p) \in BOOLEAN
      BY <2>1, <2>5
    <3>2. VectorBit \in WithPriority(clicintctl[d], p) <=> VectorBit \in p
      BY <1>t, <2>3, <2>5, BytesWritten
    <3>3. /\ \A e \in Ids \ {d} : flagSet'[e] = flagSet[e]
          /\ flagSet'[d] = "yes" <=> VectorBit \in p
      BY <1>f, <3>1
    <3> QED
      BY <1>2, <2>1, <2>2, <2>4, <3>2, <3>3
  <2>6. CASE ~ (nmbits + nlbits < NumIntBits)
    <3>1. VectorBit \in WithPriority(clicintctl[d], p)
            <=> VectorBit \in clicintctl[d]
      BY <1>t, <2>3, <2>6, BytesWritten
    <3> QED
      BY <1>2, <2>1, <2>2, <2>4, <2>6, <3>1
  <2> QED
    BY <2>5, <2>6
<1>5. CASE SetPreemptiveLevel
  <2>1. PICK d \in Ids, l \in Levels :
          /\ WriteControl(d, WithPriority(WithLevel(clicintctl[d], l), l))
          /\ levelSet' = [levelSet EXCEPT ![d] = l]
          /\ IF nmbits < NumIntBits
               THEN FlagSays(d, VectorBit \in l) ELSE UNCHANGED flagSet
    BY <1>5 DEF SetPreemptiveLevel
  <2>2. UNCHANGED <<nmbits, nlbits>>
    BY <1>5 DEF SetPreemptiveLevel, OnlyControls, cliccfg
  <2>3. levelSet'[d] = l /\ \A e \in Ids \ {d} : levelSet'[e] = levelSet[e]
    BY <1>t, <2>1
  <2>4. /\ clicintctl[d] \in SUBSET Implemented
        /\ WithLevel(clicintctl[d], l) \in SUBSET Implemented
    BY <1>t, ControlTypes
  <2> DEFINE byte == WithPriority(WithLevel(clicintctl[d], l), l)
  <2>5. \A b \in LevelField : b \in byte <=> b \in levelSet'[d]
    BY <1>t, <2>3, <2>4, BytesWritten
  <2>6. /\ nmbits < NumIntBits => (VectorBit \in byte <=> VectorBit \in l)
        /\ ~ (nmbits < NumIntBits) =>
             (VectorBit \in byte <=> VectorBit \in clicintctl[d])
    <3>1. /\ nmbits \in Nat /\ nlbits \in Nat /\ NumIntBits \in Nat
      BY <1>t, ClicAssumption DEF ClicTypeOK, Privileges
    <3>2. /\ nmbits + nlbits >= NumIntBits <=> ~ (nmbits + nlbits < NumIntBits)
          /\ nmbits + nlbits < NumIntBits => nmbits < NumIntBits
      BY <3>1
    <3>3. VectorBit \in byte <=>
            IF nmbits + nlbits < NumIntBits
              THEN VectorBit \in l
              ELSE VectorBit \in WithLevel(clicintctl[d], l)
      BY <1>t, <2>4, BytesWritten
    <3>4. VectorBit \in WithLevel(clicintctl[d], l) <=>
            IF nmbits < NumIntBits /\ nmbits + nlbits >= NumIntBits
              THEN VectorBit \in l ELSE VectorBit \in clicintctl[d]
      BY <1>t, <2>4, BytesWritten
    <3> HIDE DEF byte
    <3> QED
      BY <3>2, <3>3, <3>4
  <2> HIDE DEF byte
  <2>7. WriteControl(d, byte)
    BY <2>1 DEF byte
  <2>8. CASE nmbits < NumIntBits
    <3>1. FlagSays(d, VectorBit \in l) /\ (VectorBit \in l) \in BOOLEAN
      BY <2>1, <2>8
    <3>2. /\ \A e \in Ids \ {d} : flagSet'[e] = flagSet[e]
          /\ flagSet'[d] = "yes" <=> VectorBit \in l
      BY <1>f, <3>1
    <3> QED
      BY <1>2, <2>2, <2>3, <2>5, <2>6, <2>7, <2>8, <3>2
  <2>9. CASE ~ (nmbits < NumIntBits)
    BY <1>2, <2>1, <2>2, <2>3, <2>5, <2>6, <2>7, <2>9
  <2> QED
    BY <2>8, <2>9
<1>6. CASE SetVectored
  <2>1. PICK d \in Ids :
          \/ /\ WriteControl(d, WithVector(clicintctl[d]))
             /\ FlagSays(d, TRUE)
          \/ /\ WriteControl(d, WithoutVector(clicintctl[d]))
             /\ FlagSays(d, FALSE)
    BY <1>6 DEF SetVectored
  <2>2. UNCHANGED <<nmbits, nlbits, levelSet>>
    BY <1>6 DEF SetVectored, OnlyControls, cliccfg
  <2>3. clicintctl[d] \in SUBSET Implemented
    BY <1>t
  <2>4. \A b \in LevelField :
          /\ b \in WithVector(clicintctl[d]) <=> b \in clicintctl[d]
          /\ b \in WithoutVector(clicintctl[d]) <=> b \in clicintctl[d]
    BY <1>t, <2>3, BytesWritten
  <2>5. CASE /\ WriteControl(d, WithVector(clicintctl[d]))
             /\ FlagSays(d, TRUE)
    <3>1. VectorBit \in WithVector(clicintctl[d])
      BY DEF WithVector
    <3>2. /\ \A e \in Ids \ {d} : flagSet'[e] = flagSet[e]
          /\ flagSet'[d] = "yes"
      BY <1>f, <2>5
    <3> QED
      BY <1>2, <2>2, <2>4, <2>5, <3>1, <3>2
  <2>6. CASE /\ WriteControl(d, WithoutVector(clicintctl[d]))
             /\ FlagSays(d, FALSE)
    <3>1. VectorBit \notin WithoutVector(clicintctl[d])
      BY DEF WithoutVector
    <3>2. /\ \A e \in Ids \ {d} : flagSet'[e] = flagSet[e]
          /\ flagSet'[d] # "yes"
      BY <1>f, <2>6
    <3> QED
      BY <1>2, <2>2, <2>4, <2>6, <3>1, <3>2
  <2> QED
    BY <2>1, <2>5, <2>6
<1>7. CASE UNCHANGED <<nmbits, nlbits, clicintctl, levelSet, flagSet>>
  BY <1>7, <1>h
     DEF LevelIsHeld, FlagIsHeld, LevelField, LevelBits, LevelWidth, VectorBit
<1> QED
  BY <1>3, <1>4, <1>5, <1>6, <1>7
     DEF ClicNext, InterruptCalls, clicVars, ClicSetMode, EnableInterrupt,
         PendInterrupt, SoftwareInterrupt, RegisterHandler, RegisterVector,
         TakeInterrupt, cliccfg

LEMMA ClicInvHolds == ClicSpec => []ClicInv
<1>1. ClicInv /\ [ClicNext]_clicVars => ClicInv'
  BY ClicTypesKept, LevelsHeldKept DEF ClicInv
<1> QED
  BY ClicInitInv, <1>1, PTL DEF ClicSpec

\* For any width of a control byte, any number of interrupts and any division of
\* the byte by cliccfg: types hold; a level that was set is the level that is
\* read, moved up by nmbits, whatever is done with priorities and vectoring,
\* which share its byte; and the vector bit is what the last call that writes it
\* said, set_priority among them (sifive_clic0.c).
THEOREM LevelsCorrect == ClicSpec => [](ClicTypeOK /\ LevelsAreKept)
<1>1. ASSUME ClicInv PROVE LevelsAreKept
  <2> SUFFICES ASSUME NEW d \in Ids
               PROVE  /\ levelSet[d] # Unset => \A b \in LevelField :
                           b + nmbits \in GetLevel(d) <=> b \in levelSet[d]
                      /\ flagSet[d] # "none" =>
                           (IsVectored(d) <=> flagSet[d] = "yes")
    BY DEF LevelsAreKept
  <2>t. /\ ClicTypeOK /\ LevelIsHeld(d) /\ FlagIsHeld(d)
        /\ Implemented = Bits \ Low(ByteBits - NumIntBits)
        /\ VectorBit \in Implemented
    BY <1>1, FieldTypes DEF ClicInv
  <2>1. IsVectored(d) <=> VectorBit \in clicintctl[d]
    BY <2>t DEF IsVectored, Control
  <2>2. ASSUME NEW b \in LevelField
        PROVE  b + nmbits \in GetLevel(d) <=> b \in clicintctl[d]
    <3>1. /\ b \in Implemented /\ b \in LevelBits(nmbits, LevelWidth)
          /\ b \in Nat /\ nmbits \in Nat
          /\ b + nmbits \notin Low(ByteBits - LevelWidth)
      BY <2>t, <2>2, FieldsApart
    <3>2. GetLevel(d) = {c + nmbits : c \in Control(d)
                                         \cap LevelBits(nmbits, LevelWidth)}
                          \cup Low(ByteBits - LevelWidth)
      BY <3>1 DEF GetLevel
    <3>3. \A c \in LevelBits(nmbits, LevelWidth) :
            c \in Int /\ (c + nmbits = b + nmbits => c = b)
      BY <3>1, ClicAssumption DEF LevelBits, Low, Bits
    <3>4. b \in Control(d) <=> b \in clicintctl[d]
      BY <2>t, <3>1 DEF Control
    <3> QED
      BY <3>1, <3>2, <3>3, <3>4
  <2> QED
    BY <2>t, <2>1, <2>2 DEF LevelIsHeld, FlagIsHeld
<1>2. ClicInv => ClicTypeOK
  BY DEF ClicInv
<1> QED
  BY <1>1, <1>2, ClicInvHolds, PTL

-----------------------------------------------------------------------------
(* The composition: a behaviour of MCCore is one of every part.            *)

LEMMA CoreInitParts ==
  CoreInit => /\ HartInit /\ TrapInit /\ TimerInit
              /\ HpmInit /\ PmpInit /\ ClicInit
  BY DEF CoreInit

\* A step of the core complex is a step of one part, or none, for every part.
LEMMA CoreStepParts ==
  ASSUME [CoreNext]_coreVars
  PROVE  /\ [HartNext]_hartVars /\ [TrapNext]_trapVars
         /\ [TimerNext]_timerVars /\ [HpmNext]_hpmVars
         /\ [PmpNext]_pmpVars /\ [ClicNext]_clicVars
<1>1. CASE HartsRun
  BY <1>1 DEF HartsRun
<1>2. CASE TrapsRun
  BY <1>2 DEF TrapsRun
<1>3. CASE TimerRuns
  BY <1>3 DEF TimerRuns
<1>4. CASE HpmRuns
  BY <1>4 DEF HpmRuns
<1>5. CASE PmpRuns
  BY <1>5 DEF PmpRuns
<1>6. CASE ClicRuns
  BY <1>6 DEF ClicRuns
<1>7. CASE UNCHANGED coreVars
  BY <1>7 DEF coreVars
<1> QED
  BY <1>1, <1>2, <1>3, <1>4, <1>5, <1>6, <1>7 DEF CoreNext

LEMMA CoreParts ==
  CoreSpec => /\ HartSpec /\ TrapSpec /\ TimerSpec
              /\ HpmSpec /\ PmpSpec /\ ClicSpec
  BY CoreInitParts, CoreStepParts, PTL
     DEF CoreSpec, HartSpec, TrapSpec, TimerSpec, HpmSpec, PmpSpec, ClicSpec

\* All variables of the core complex, from harts to interrupt controllers, keep
\* their types in the composition that is checked.
THEOREM CoreTypes == CoreSpec => []CoreTypeOK
<1>1. CoreSpec => /\ []HartTypeOK /\ []TrapTypeOK /\ []TimerTypeOK
                  /\ []HpmTypeOK /\ []PmpTypeOK /\ []ClicTypeOK
  BY CoreParts, StartUpCorrect, TrapTypes, TimerTypes, HpmCorrect, PmpTypes,
     LevelsCorrect, PTL
<1>2. ASSUME HartTypeOK, TrapTypeOK, TimerTypeOK,
             HpmTypeOK, PmpTypeOK, ClicTypeOK
      PROVE  CoreTypeOK
  BY <1>2 DEF CoreTypeOK
<1> QED
  BY <1>1, <1>2, PTL
==============================================================================
