----------------------------- MODULE HartStart -----------------------------
(***************************************************************************)
(* From reset to main: crt0.S on every hart, the constructors on the boot  *)
(* hart, and __metal_synchronize_harts, in which the harts meet through    *)
(* their MSIP bits.  RAM holds anything at reset; the boot hart makes it   *)
(* good while the others are already running.  After main a hart may take  *)
(* and give a metal_lock.                                                  *)
(***************************************************************************)
EXTENDS Naturals, FiniteSets

CONSTANTS
  N,            \* __METAL_DT_MAX_HARTS
  BootHart,     \* __metal_boot_hart
  Workers,      \* harts whose secondary_main the program has redefined
  Constructors  \* how many constructors are linked in

Harts == 0 .. N - 1

ASSUME HartAssumption ==
  /\ N \in Nat \ {0}
  /\ BootHart \in Harts
  /\ Workers \subseteq Harts
  /\ Constructors \in Nat

Stages == {"reset", "data", "bss", "construct", "meet", "await", "release",
           "spin", "met", "main", "parked", "taking", "holding", "exit", "fini",
           "off"}

VARIABLES
  at,           \* at[h]: where hart h is
  msip,         \* msip[h]: its software interrupt pending bit
  loop,         \* the loop variable of hart 0's two loops
  data,         \* the .data and ITIM sections have been copied
  bss,          \* the .bss section has been zeroed
  init_done,    \* the static of metal_init, in .bss
  fini_done,    \* the static of metal_fini, in .bss
  ran,          \* history: constructors that have run
  locked        \* _state of a metal_lock, in .data

hartVars == <<at, msip, loop, data, bss, init_done, fini_done, ran, locked>>

Memory == <<data, bss, init_done, fini_done, ran>>

HartInit ==
  /\ at = [h \in Harts |-> "reset"]
  /\ msip = [h \in Harts |-> FALSE]
  /\ loop = 1
  /\ data = FALSE /\ bss = FALSE
  /\ init_done \in BOOLEAN /\ fini_done \in BOOLEAN /\ locked \in BOOLEAN
  /\ ran = 0

\* The types of the variables.
HartTypeOK ==
  /\ at \in [Harts -> Stages] /\ msip \in [Harts -> BOOLEAN]
  /\ loop \in 1 .. N
  /\ {data, bss, init_done, fini_done, locked} \subseteq BOOLEAN
  /\ ran \in {0, Constructors}

Move(h, stage) == at' = [at EXCEPT ![h] = stage]

-----------------------------------------------------------------------------
(* crt0.S: the boot hart initialises, the others go straight to the meeting. *)

Reset(h) ==
  /\ at[h] = "reset"
  /\ Move(h, IF h = BootHart THEN "data" ELSE "meet")
  /\ UNCHANGED <<msip, loop, Memory, locked>>

\* The lock's initial value comes with .data.
CopyData(h) ==
  /\ at[h] = "data"
  /\ data' = TRUE
  /\ locked' = FALSE
  /\ Move(h, "bss")
  /\ UNCHANGED <<msip, loop, bss, init_done, fini_done, ran>>

ZeroBss(h) ==
  /\ at[h] = "bss"
  /\ bss' = TRUE
  /\ init_done' = FALSE /\ fini_done' = FALSE
  /\ Move(h, "construct")
  /\ UNCHANGED <<msip, loop, data, ran, locked>>

\* metal_init: the constructors in link order, the first time it is called.
Construct(h) ==
  /\ at[h] = "construct"
  /\ ran' = IF init_done THEN ran ELSE ran + Constructors
  /\ init_done' = TRUE
  /\ Move(h, "meet")
  /\ UNCHANGED <<msip, loop, data, bss, fini_done, locked>>

-----------------------------------------------------------------------------
(* __metal_synchronize_harts.                                               *)

Meet(h) ==
  /\ at[h] = "meet"
  /\ IF h = 0
       THEN /\ Move(h, IF N > 1 THEN "await" ELSE "met")
            /\ loop' = 1
            /\ UNCHANGED msip
       ELSE /\ msip' = [msip EXCEPT ![h] = TRUE]
            /\ Move(h, "spin")
            /\ UNCHANGED loop
  /\ UNCHANGED <<Memory, locked>>

\* Mutant: hart 0 waits for one of the others only.
Await_OnlyOne ==
  /\ at[0] = "await"
  /\ msip[loop]
  /\ loop' = 1 /\ Move(0, "release")
  /\ UNCHANGED <<msip, Memory, locked>>

\* Hart 0 waits for the bit of each of the others in turn ...
Await ==
  /\ at[0] = "await"
  /\ msip[loop]
  /\ IF loop + 1 < N THEN loop' = loop + 1 /\ UNCHANGED at
                     ELSE loop' = 1 /\ Move(0, "release")
  /\ UNCHANGED <<msip, Memory, locked>>

\* Mutant: the loop that clears the bits ends one early.
Release_EndsEarly ==
  /\ at[0] = "release"
  /\ msip' = [msip EXCEPT ![loop] = FALSE]
  /\ IF loop + 2 < N THEN loop' = loop + 1 /\ UNCHANGED at
                     ELSE loop' = 1 /\ Move(0, "met")
  /\ UNCHANGED <<Memory, locked>>

\* ... and clears them one after the other.
Release ==
  /\ at[0] = "release"
  /\ msip' = [msip EXCEPT ![loop] = FALSE]
  /\ IF loop + 1 < N THEN loop' = loop + 1 /\ UNCHANGED at
                     ELSE loop' = 1 /\ Move(0, "met")
  /\ UNCHANGED <<Memory, locked>>

Released(h) ==
  /\ at[h] = "spin"
  /\ ~msip[h]
  /\ Move(h, "met")
  /\ UNCHANGED <<msip, loop, Memory, locked>>

-----------------------------------------------------------------------------
(* secondary_main, exit, and the lock.                                      *)

\* By default a secondary hart waits for interrupts for ever.
SecondaryMain(h) ==
  /\ at[h] = "met"
  /\ Move(h, IF h = BootHart \/ h \in Workers THEN "main" ELSE "parked")
  /\ UNCHANGED <<msip, loop, Memory, locked>>

\* Mutant: every call of metal_init runs the constructors.
InitAgain_EveryTime(h) ==
  /\ at[h] = "main"
  /\ ran' = ran + Constructors
  /\ init_done' = TRUE
  /\ UNCHANGED <<at, msip, loop, data, bss, fini_done, locked>>

\* A program may call metal_init again.
InitAgain(h) ==
  /\ at[h] = "main"
  /\ ran' = IF init_done THEN ran ELSE ran + Constructors
  /\ init_done' = TRUE
  /\ UNCHANGED <<at, msip, loop, data, bss, fini_done, locked>>

TakeLock(h) ==
  /\ at[h] = "main"
  /\ Move(h, "taking")
  /\ UNCHANGED <<msip, loop, Memory, locked>>

\* amoswap: what was there decides; the back-off before the next attempt
\* changes nothing.
Swap(h) ==
  /\ at[h] = "taking"
  /\ locked' = TRUE
  /\ Move(h, IF locked THEN "taking" ELSE "holding")
  /\ UNCHANGED <<msip, loop, Memory>>

Give(h) ==
  /\ at[h] = "holding"
  /\ locked' = FALSE
  /\ Move(h, "main")
  /\ UNCHANGED <<msip, loop, Memory>>

Exit(h) ==
  /\ at[h] = "main"
  /\ Move(h, "exit")
  /\ UNCHANGED <<msip, loop, Memory, locked>>

\* metal_fini, registered with atexit by the boot hart.  Two harts that exit
\* together may both find that it has not run.
Fini(h) ==
  /\ at[h] = "exit"
  /\ Move(h, IF fini_done THEN "off" ELSE "fini")
  /\ UNCHANGED <<msip, loop, Memory, locked>>

Destruct(h) ==
  /\ at[h] = "fini"
  /\ fini_done' = TRUE
  /\ Move(h, "off")
  /\ UNCHANGED <<msip, loop, data, bss, init_done, ran, locked>>

Boot(h) == Reset(h) \/ CopyData(h) \/ ZeroBss(h) \/ Construct(h) \/ Meet(h)
           \/ Released(h) \/ SecondaryMain(h)

Use(h) ==
  InitAgain(h) \/ TakeLock(h) \/ Swap(h) \/ Give(h) \/ Exit(h) \/ Fini(h)
          \/ Destruct(h)

HartNext == Await \/ Release \/ \E h \in Harts : Boot(h) \/ Use(h)

\* Every hart executes its instructions; what a program does in main is its own.
HartFairness == WF_hartVars(Await \/ Release)
                /\ \A h \in Harts : WF_hartVars(Boot(h))

HartSpec == HartInit /\ [][HartNext]_hartVars
HartFairSpec == HartSpec /\ HartFairness

-----------------------------------------------------------------------------
(* Properties.                                                              *)

Started == {"met", "main", "parked", "taking", "holding", "exit", "fini",
            "off"}

Before == {"reset", "data", "bss", "construct", "meet"}

\* __metal_synchronize_harts, with crt0.S around it, is a barrier that the
\* boot hart reaches with memory initialised.
Barrier == INSTANCE HartBarrier WITH
  arrived <- {h \in Harts : at[h] \notin Before},
  passed <- {h \in Harts : at[h] \in Started \/ (at[h] = "spin" /\ ~msip[h])},
  ready <- data /\ bss /\ ran = Constructors /\ init_done

BarrierSpec == Barrier!BarrierSpec

\* Whatever RAM held at reset, a hart that has passed finds .data and .bss
\* good and the constructors run exactly once, though metal_init is called
\* again, and at most one hart holds the lock.
SharedStateIsSound ==
  /\ \A h \in Harts : at[h] \in Started => data /\ bss /\ ran = Constructors
  /\ \A g, h \in Harts : at[g] = "holding" /\ at[h] = "holding" => g = h

\* Every hart gets through the start-up.
EveryHartStarts == \A h \in Harts : <>(at[h] \in Started)
============================================================================
