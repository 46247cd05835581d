----------------------------- MODULE HpmCounters -----------------------------
(***************************************************************************)
(* The performance counters of the core: two words each, read and cleared  *)
(* one word at a time while they count; the events they count; and the     *)
(* access bits, which are changed with the trap vector pointed at the end  *)
(* of the change, in case the core has no such register.                   *)
(*                                                                         *)
(* An interrupt taken while the vector points there enters the middle of   *)
(* the function, and not its handler.                                      *)
(***************************************************************************)
EXTENDS Integers

CONSTANTS
  HpmBase,       \* values of one word, 2^32
  HpmHigh,       \* values the high word has in the model
  Events,        \* event counters the core has, from counter 3 on
  MaxCounter,    \* METAL_HPM_COUNTER_31
  Watched,       \* the counters whose count is modelled
  HasAccess      \* the core has the mcounteren register

ASSUME HpmAssumption ==
  /\ {HpmBase, HpmHigh, MaxCounter} \subseteq Nat
  /\ HpmBase > 1 /\ HpmHigh > 0
  /\ Events \in 0 .. MaxCounter - 3
  /\ Watched \subseteq (0 .. MaxCounter) \ {1}
  /\ HasAccess \in BOOLEAN

Time == 1                      \* METAL_HPM_TIME, which is not a CSR
First == 3                     \* METAL_HPM_COUNTER_3
Counters == 0 .. MaxCounter
Real == {0, 2} \cup (First .. First + Events - 1)

VARIABLES
  hpm_count,     \* cpu->hpm_count
  event,         \* event[c]: the event register of c has bits set
  hpmcounter,    \* hpmcounter[c]: the count
  mcounteren,    \* the counters whose access is enabled
  tvec,          \* "handler", or "label", the end of an access change
  hpc,           \* the step of the running call
  which,         \* its counter
  vh, vl,        \* the locals of read_counter
  change,        \* the value mcounteren is to get
  request,       \* history: the count when read_counter began
  fresh,         \* history: ticks of counter which since its clear began
  irq            \* interrupts are enabled

hpmVars == <<hpm_count, event, hpmcounter, mcounteren, tvec, hpc, which, vh, vl,
             change, request, fresh, irq>>
access == <<mcounteren, tvec, change, irq>>
reading == <<vh, vl, request>>

NoCall == -1

HpmInit ==
  /\ hpm_count = 0 /\ event = {} /\ hpmcounter = [c \in Watched |-> 0]
  /\ mcounteren = {} /\ tvec = "handler" /\ hpc = "idle" /\ which = NoCall
  /\ vh = 0 /\ vl = 0 /\ change = {} /\ request = 0 /\ fresh = 0 /\ irq = TRUE

\* The types of the variables.
HpmTypeOK ==
  /\ hpm_count \in Counters /\ event \subseteq Counters
  /\ hpmcounter \in [Watched -> 0 .. HpmBase * HpmHigh - 1]
  /\ mcounteren \subseteq Counters /\ tvec \in {"handler", "label"}
  /\ hpc \in {"idle", "high", "low", "again", "read", "clear", "clear low",
              "clear high", "cleared", "access", "label"}
  /\ which \in Watched \cup {NoCall} /\ vh \in Nat /\ vl \in Nat
  /\ change \subseteq Counters /\ request \in Nat /\ fresh \in Nat
  /\ irq \in BOOLEAN

InRange(c) == c < hpm_count

-----------------------------------------------------------------------------
(* metal_hpm_init: a counter whose event register keeps nothing ends the    *)
(* search, and every counter below, the cycle counter too, is cleared.      *)

Found == First + Events

HpmInitialise ==
  /\ hpc = "idle" /\ hpm_count = 0
  /\ hpm_count' = IF Found > MaxCounter THEN MaxCounter ELSE Found
  /\ event' = {}
  /\ hpmcounter' = [c \in Watched |->
                       IF c < hpm_count' THEN 0 ELSE hpmcounter[c]]
  /\ UNCHANGED <<access, reading, hpc, which, fresh>>

\* set_event and clr_event: counters 0 to 2 have no event register.
SetEvent ==
  /\ hpc = "idle"
  /\ \E c \in Counters, on \in BOOLEAN :
       /\ InRange(c) /\ c >= First
       /\ event' = IF on THEN event \cup {c} ELSE event \ {c}
  /\ UNCHANGED <<hpm_count, hpmcounter, access, reading, hpc, which, fresh>>

\* The cycle and instruction counters run always, the others with an event.
HpmTick(c) ==
  /\ c \in Real /\ (c < First \/ c \in event)
  /\ hpmcounter[c] < HpmBase * HpmHigh - 1
  /\ hpmcounter' = [hpmcounter EXCEPT ![c] = @ + 1]
  /\ fresh' = IF c = which /\ hpc \in {"clear low", "clear high", "cleared"}
                THEN fresh + 1 ELSE fresh
  /\ UNCHANGED <<hpm_count, event, access, reading, hpc, which>>

-----------------------------------------------------------------------------
(* read_counter: high, low, and high again until the two agree.             *)

Rest == <<hpm_count, event, access>>

ReadCounter ==
  /\ hpc = "idle"
  /\ \E c \in Watched : InRange(c) /\ which' = c /\ request' = hpmcounter[c]
  /\ hpc' = "high"
  /\ UNCHANGED <<Rest, hpmcounter, vh, vl, fresh>>

ReadHigh ==
  /\ hpc = "high"
  /\ vh' = hpmcounter[which] \div HpmBase /\ hpc' = "low"
  /\ UNCHANGED <<Rest, hpmcounter, vl, request, which, fresh>>

ReadLow ==
  /\ hpc = "low"
  /\ vl' = hpmcounter[which] % HpmBase /\ hpc' = "again"
  /\ UNCHANGED <<Rest, hpmcounter, vh, request, which, fresh>>

\* Mutant: the high word is not compared.
ReadAgain_Unchecked ==
  /\ hpc = "again"
  /\ hpc' = "read"
  /\ UNCHANGED <<Rest, hpmcounter, reading, which, fresh>>

ReadAgain ==
  /\ hpc = "again"
  /\ hpc' = IF hpmcounter[which] \div HpmBase = vh THEN "read" ELSE "high"
  /\ UNCHANGED <<Rest, hpmcounter, reading, which, fresh>>

\* clear_counter: high, low, and high again.
ClearCounter ==
  /\ hpc = "idle"
  /\ \E c \in Watched : InRange(c) /\ which' = c
  /\ hpc' = "clear" /\ fresh' = 0
  /\ UNCHANGED <<Rest, hpmcounter, reading>>

WriteHigh(from, to) ==
  /\ hpc = from
  /\ hpmcounter' = [hpmcounter EXCEPT ![which] = @ % HpmBase]
  /\ hpc' = to
  /\ UNCHANGED <<Rest, reading, which, fresh>>

WriteLow ==
  /\ hpc = "clear low"
  /\ hpmcounter' = [hpmcounter EXCEPT ![which] = @ - (@ % HpmBase)]
  /\ hpc' = "clear high"
  /\ UNCHANGED <<Rest, reading, which, fresh>>

Clearing == WriteHigh("clear", "clear low") \/ WriteLow
            \/ WriteHigh("clear high", "cleared")

HpmReturn ==
  /\ hpc \in {"read", "cleared"}
  /\ hpc' = "idle" /\ which' = NoCall
  /\ vh' = 0 /\ vl' = 0 /\ request' = 0 /\ fresh' = 0
  /\ UNCHANGED <<Rest, hpmcounter>>

-----------------------------------------------------------------------------
(* enable_access, disable_access and hpm_disable: point the vector at the   *)
(* label, change mcounteren, and at the label put the vector back.          *)

ChangeAccess ==
  /\ hpc = "idle"
  /\ \/ /\ \E c \in Counters :
             /\ InRange(c)
             /\ change' \in {mcounteren \cup {c}, mcounteren \ {c}}
        /\ UNCHANGED hpm_count
     \/ change' = {} /\ hpm_count' = 0
  /\ tvec' = "label" /\ hpc' = "access"
  /\ UNCHANGED <<event, hpmcounter, reading, mcounteren, which, fresh, irq>>

\* The write of mcounteren; without the register it traps to the label, and a
\* trap disables interrupts.
WriteAccess ==
  /\ hpc = "access"
  /\ IF HasAccess THEN mcounteren' = change /\ UNCHANGED irq
                  ELSE irq' = FALSE /\ UNCHANGED mcounteren
  /\ hpc' = "label"
  /\ UNCHANGED <<hpm_count, event, hpmcounter, reading, tvec, change, which,
                 fresh>>

\* An interrupt enters at the label as well.  Nothing returns from it.
TakeTrap ==
  /\ irq /\ hpc \in {"access", "label"}
  /\ irq' = FALSE /\ hpc' = "label"
  /\ UNCHANGED <<hpm_count, event, hpmcounter, reading, mcounteren, tvec,
                 change, which, fresh>>

\* Somebody who finds interrupts disabled may enable them.
EnableInterrupts ==
  /\ hpc = "idle" /\ ~irq /\ irq' = TRUE
  /\ UNCHANGED <<hpm_count, event, hpmcounter, reading, mcounteren, tvec,
                 change, hpc, which, fresh>>

Label ==
  /\ hpc = "label"
  /\ tvec' = "handler" /\ change' = {} /\ hpc' = "idle"
  /\ UNCHANGED <<hpm_count, event, hpmcounter, reading, mcounteren, which,
                 fresh, irq>>

HpmNext ==
  \/ HpmInitialise \/ SetEvent \/ ReadCounter
  \/ ReadHigh \/ ReadLow \/ ReadAgain
  \/ ClearCounter \/ Clearing \/ HpmReturn
  \/ ChangeAccess \/ WriteAccess \/ TakeTrap \/ EnableInterrupts \/ Label
  \/ \E c \in Watched : HpmTick(c)

HpmSpec == HpmInit /\ [][HpmNext]_hpmVars

-----------------------------------------------------------------------------
(* A read returns a count the counter had while it was read, though its two *)
(* words are read apart; a cleared counter holds no more than what it       *)
(* counted since the clear began, though it went on counting and carried    *)
(* between the three writes; and the trap handler is in place again after   *)
(* every change of access, whether it trapped, was interrupted or not       *)
(* (hpm.c, read_counter, clear_counter, enable_access, disable_access).     *)
CountsAreTrue ==
  /\ hpc = "read" => LET v == vh * HpmBase + vl
                     IN request <= v /\ v <= hpmcounter[which]
  /\ hpc = "cleared" => hpmcounter[which] <= fresh
  /\ hpc = "idle" => tvec = "handler"
============================================================================
