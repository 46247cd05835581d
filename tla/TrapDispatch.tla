---------------------------- MODULE TrapDispatch ----------------------------
(***************************************************************************)
(* From a rising edge on a pin to the handler registered for it: the GPIO  *)
(* and the PLIC latch it, the hart takes the external interrupt through    *)
(* mtvec, the CPU's controller calls the PLIC's handler, and that one      *)
(* claims the line, calls what is registered for it and completes it.  The *)
(* program configures all of them, in the order interrupt.h asks for,      *)
(* between any two instructions of which a trap may be taken.              *)
(***************************************************************************)
EXTENDS Naturals, FiniteSets

CONSTANTS
  Pins,         \* GPIO pins that interrupt
  PinLine(_),   \* __metal_driver_sifive_gpio0_interrupt_lines
  NumLines,     \* the PLIC's num_interrupts; line 0 means none
  MaxPriority,  \* the PLIC's max_priority
  Programs      \* the programs considered: what each of them uses

\* Two of the exceptions: the default software handler calls the one whose
\* number is that of the software interrupt.
Exceptions == {"break", "ecall"}

\* The software and timer interrupts, and one local external line.
Local == {"SW", "TMR", "LC"}

ASSUME TrapAssumption ==
  /\ \A p \in Pins : PinLine(p) \in Nat \ {0}
  /\ NumLines \in Nat \ {0} /\ MaxPriority \in Nat
  /\ Programs \subseteq [pins : SUBSET Pins, locals : SUBSET Local,
                         exceptions : SUBSET Exceptions,
                         modes : SUBSET {"direct", "vectored", "other"},
                         priorities : SUBSET Nat, thresholds : SUBSET Nat,
                         global : BOOLEAN, undoes : BOOLEAN]

\* Anything else a controller is asked for is refused.
VectorModes == {"direct", "vectored"}
IsLine(l) == l < NumLines

PinsOf(l) == {p \in Pins : PinLine(p) = l}
Used == {PinLine(p) : p \in Pins}

VARIABLES
  uses,         \* what the running program uses
  mtvec,        \* where traps go: "early", "own", "direct" or "vectored"
  mstatus_mie,  \* mstatus.MIE as main left it; a trap clears it meanwhile
  mie,          \* interrupts enabled in mie
  intc,         \* the CPU's tables: [init_done, int, sub, exc]
  clint_init,   \* the CLINT's init_done
  lc_init,      \* the local external controller's init_done
  global_init,  \* the global external controller's init_done
  mip,          \* the local interrupts that are pending
  plic,         \* [init_done, table, owner, prio, enable, threshold,
                \*  pending, claimed]
  gpio,         \* [rise_ie, rise_ip]: sets of pins
  doing,        \* the registration main is in the middle of
  pc,           \* "main", or the function the hart is in
  mcause,       \* cause of the trap being handled
  code,         \* what metal_shutdown was called with, 0 before
  registered,   \* history: pins the program has registered a handler for
  owed          \* history: pins that rose, registered and enabled, and that
                \*  their handler has not cleared yet

trapVars == <<uses, mtvec, mstatus_mie, mie, intc, clint_init, lc_init,
              global_init, mip, plic, gpio, doing, pc, mcause, code,
              registered, owed>>

Nothing == [op |-> "none", pin |-> 0, isr |-> FALSE]

TrapInit ==
  /\ uses \in Programs
  /\ mtvec \in {"early", "own"}
  /\ mstatus_mie = FALSE /\ mie = {}
  /\ intc = [init_done |-> FALSE,
             int |-> [c \in Local \cup {"EXT"} |-> "null"],
             sub |-> {},
             exc |-> [e \in Exceptions |-> "null"]]
  /\ clint_init = FALSE /\ lc_init = FALSE /\ global_init = FALSE
  /\ mip = {}
  /\ plic = [init_done |-> FALSE,
             table |-> [l \in Used |-> "null"],
             owner |-> [l \in Used |-> 0],
             prio |-> [l \in Used |-> 0],
             enable |-> {}, threshold |-> 0, pending |-> {}, claimed |-> 0]
  /\ gpio = [rise_ie |-> {}, rise_ip |-> {}]
  /\ doing = Nothing /\ pc = "main" /\ mcause = "none" /\ code = 0
  /\ registered = {} /\ owed = {}

\* The types of the variables.
TrapTypeOK ==
  /\ uses \in Programs /\ mstatus_mie \in BOOLEAN
  /\ mtvec \in {"early", "own", "direct", "vectored"}
  /\ mie \subseteq Local \cup {"EXT"} /\ mip \subseteq Local
  /\ {clint_init, lc_init, global_init} \subseteq BOOLEAN
  /\ plic.pending \cup plic.enable \subseteq Used
  /\ plic.claimed \in Used \cup {0} /\ plic.threshold \in Nat
  /\ gpio.rise_ie \cup gpio.rise_ip \subseteq Pins
  /\ code \in Nat
  /\ registered \cup owed \subseteq Pins

Csrs == <<mtvec, mstatus_mie, mie>>
Inits == <<clint_init, lc_init, global_init>>
Tables == <<intc, Inits>>
Devices == <<plic, gpio>>
Core == <<pc, mcause, code>>
History == <<registered, owed>>

-----------------------------------------------------------------------------
(* The hardware.                                                            *)

\* The lines whose interrupt is high.
High(g) == {PinLine(p) : p \in g.rise_ie \cap g.rise_ip}

\* A gateway forwards a high line unless that line is claimed.
Latch(plc, g) ==
  [plc EXCEPT !.pending = @ \cup ((High(g) \cap Used) \ {plc.claimed})]

\* Of the pending and enabled lines, the one of highest priority, the lowest
\* number among equals.
Candidates == {l \in plic.pending \cap plic.enable : plic.prio[l] > 0}
Outranks(l, k) ==
  \/ plic.prio[l] > plic.prio[k]
  \/ plic.prio[l] = plic.prio[k] /\ l < k

Best(l) ==
  IF Candidates = {} THEN l = 0
  ELSE l \in Candidates /\ \A k \in Candidates \ {l} : Outranks(l, k)

MEIP == \E l \in Candidates : plic.prio[l] > plic.threshold

Edge(p) ==
  /\ code = 0 /\ p \in uses.pins
  /\ gpio' = [gpio EXCEPT !.rise_ip = @ \cup {p}]
  /\ plic' = Latch(plic, gpio')
  /\ owed' = IF p \in gpio.rise_ie \cap registered THEN owed \cup {p} ELSE owed
  /\ UNCHANGED <<uses, Csrs, Tables, mip, doing, Core, registered>>

\* A program that uses the timer sees its comparator reached (WideTimer), one
\* that uses the local line sees that raised.
LocalDue(c) ==
  /\ code = 0 /\ c \in uses.locals \ mip
  /\ c = "TMR" => "TMR" \in intc.sub
  /\ mip' = mip \cup {c}
  /\ UNCHANGED <<uses, Csrs, Tables, Devices, doing, Core, History>>

PendingCauses == mie \cap (mip \cup (IF MEIP THEN {"EXT"} ELSE {}))

Trap(c) ==
  /\ pc = "main"
  /\ pc' = "entry" /\ mcause' = c
  /\ UNCHANGED <<uses, Csrs, Tables, mip, Devices, doing, code, History>>

\* The local line comes first, then the external, the software and the timer
\* interrupt.
Urgent(c) ==
  /\ c \in PendingCauses
  /\ \/ c = "LC"
     \/ c = "EXT" /\ "LC" \notin PendingCauses
     \/ c = "SW" /\ PendingCauses \cap {"LC", "EXT"} = {}
     \/ PendingCauses = {"TMR"}

Interrupt == mstatus_mie /\ \E c \in PendingCauses : Urgent(c) /\ Trap(c)

Exception == \E e \in uses.exceptions : Trap(e)

-----------------------------------------------------------------------------
(* Configuration, called by main in the order interrupt.h prescribes.       *)

Main == pc = "main" /\ doing = Nothing

\* __metal_driver_riscv_cpu_controller_interrupt_init
WithCpu == IF intc.init_done THEN intc
           ELSE [init_done |-> TRUE,
                 int |-> [c \in DOMAIN intc.int |-> "null"],
                 sub |-> {},
                 exc |-> [e \in Exceptions |-> "default_exception"]]

\* csrs mie and csrc mie
WithMie(c, enable) == IF enable THEN mie \cup {c} ELSE mie \ {c}

CpuVector == IF ~intc.init_done /\ mtvec = "early" THEN "direct" ELSE mtvec

CpuInit ==
  /\ Main /\ ~intc.init_done
  /\ intc' = WithCpu
  /\ mtvec' = CpuVector
  /\ UNCHANGED <<uses, mstatus_mie, mie, Inits, mip, Devices, doing, Core,
                 History>>

\* Each of the controller's lines gets the default handler of its kind, and
\* the controller as sub_int.
Default(c) == [SW |-> "default_sw", TMR |-> "default_timer",
               LC |-> "default_interrupt", EXT |-> "default_interrupt"][c]

ClintTraps ==
  /\ Main /\ uses.locals \cap {"SW", "TMR"} # {}
  /\ intc.init_done /\ ~clint_init
  /\ clint_init' = TRUE
  /\ intc' = [intc EXCEPT !.int["SW"] = Default("SW"),
                          !.int["TMR"] = Default("TMR"),
                          !.sub = @ \cup {"SW", "TMR"}]
  /\ UNCHANGED <<uses, Csrs, lc_init, global_init, mip, Devices, doing, Core,
                 History>>

LocalExternalInit ==
  /\ Main /\ "LC" \in uses.locals /\ intc.init_done /\ ~lc_init
  /\ lc_init' = TRUE
  /\ intc' = [intc EXCEPT !.int["LC"] = Default("LC"), !.sub = @ \cup {"LC"}]
  /\ UNCHANGED <<uses, Csrs, clint_init, global_init, mip, Devices, doing,
                 Core, History>>

\* The parent is initialised too, given the PLIC's handler and enabled.
Enrolled == [WithCpu EXCEPT !.int["EXT"] = "plic", !.sub = @ \cup {"EXT"}]

WithPlic == IF plic.init_done THEN plic
            ELSE [plic EXCEPT !.init_done = TRUE, !.enable = {},
                              !.threshold = 0,
                              !.prio = [l \in Used |-> 0],
                              !.table = [l \in Used |-> "null"],
                              !.owner = [l \in Used |-> 0]]

PlicInit ==
  /\ Main /\ uses.pins # {} /\ ~plic.init_done
  /\ intc' = Enrolled
  /\ mtvec' = CpuVector
  /\ mie' = WithMie("EXT", TRUE)
  /\ plic' = WithPlic
  /\ UNCHANGED <<uses, mstatus_mie, Inits, mip, gpio, doing, Core, History>>

\* The controller of the global external interrupts initialises its parent,
\* the PLIC, and registers each of its lines there without a handler.
GlobalExternalInit ==
  /\ Main /\ uses.global /\ ~global_init
  /\ global_init' = TRUE
  /\ IF plic.init_done THEN UNCHANGED <<intc, mtvec, mie>>
       ELSE /\ intc' = Enrolled /\ mtvec' = CpuVector
            /\ mie' = WithMie("EXT", TRUE)
  /\ plic' = [WithPlic EXCEPT !.table = [l \in Used |-> "default_line"],
                              !.prio = [l \in Used |-> 1]]
  /\ registered' = {}
  /\ UNCHANGED <<uses, mstatus_mie, clint_init, lc_init, mip, gpio, doing,
                 Core, owed>>

\* A local interrupt, with the program's handler or, for NULL, the default,
\* which takes the priv it is registered with for its controller.
Ready(c) == IF c = "LC" THEN lc_init ELSE clint_init

LocalRegister(c, isr) ==
  /\ Main /\ Ready(c)
  /\ \/ isr /\ intc' = [intc EXCEPT !.int[c] = "user"]
     \/ /\ ~isr
        /\ \E sub \in {intc.sub \cup {c}, intc.sub \ {c}} :
             intc' = [intc EXCEPT !.sub = sub, !.int[c] = Default(c)]
  /\ UNCHANGED <<uses, Csrs, Inits, mip, Devices, doing, Core, History>>

LocalEnable(c, enable) ==
  /\ Main /\ Ready(c)
  /\ mie' = WithMie(c, enable)
  /\ UNCHANGED <<uses, mtvec, mstatus_mie, Tables, mip, Devices, doing, Core,
                 History>>

\* csrs mstatus and csrc mstatus
WriteMie(enable) == mstatus_mie' = enable

GlobalEnable(enable) ==
  /\ Main /\ intc.init_done
  /\ WriteMie(enable)
  /\ UNCHANGED <<uses, mtvec, mie, Tables, mip, Devices, doing, Core, History>>

ExceptionRegister(e) ==
  /\ Main /\ intc.init_done
  /\ intc' = [intc EXCEPT !.exc[e] = "user"]
  /\ UNCHANGED <<uses, Csrs, Inits, mip, Devices, doing, Core, History>>

SetVectorMode(mode) ==
  /\ Main /\ intc.init_done
  /\ mtvec' = IF mode \in VectorModes THEN mode ELSE mtvec
  /\ UNCHANGED <<uses, mstatus_mie, mie, Tables, mip, Devices, doing, Core,
                 History>>

\* The CLINT writes the hart's msip, whichever of its calls sets or clears it.
WithIpi(set) == IF set THEN mip \cup {"SW"} ELSE mip \ {"SW"}

SoftwareIpi(set) ==
  /\ Main /\ "SW" \in intc.sub
  /\ mip' = WithIpi(set)
  /\ UNCHANGED <<uses, Csrs, Tables, Devices, doing, Core, History>>

\* The priority the PLIC keeps: a request of max_priority or more is refused.
Accepted(l, n) == IF MaxPriority > 0 /\ n < MaxPriority
                  THEN [plic.prio EXCEPT ![l] = n] ELSE plic.prio

\* Registering a line is three stores: the priority, the handler and what the
\* handler is called with.  The default handler is not called with anything.
PlicRegister(p, isr) ==
  LET l == PinLine(p) IN
  /\ Main /\ plic.init_done /\ IsLine(l)
  /\ plic' = [plic EXCEPT !.prio = Accepted(l, IF isr THEN 2 ELSE 1)]
  /\ doing' = [op |-> "table", pin |-> p, isr |-> isr]
  /\ UNCHANGED <<uses, Csrs, Tables, mip, gpio, Core, History>>

SetHandler ==
  LET l == PinLine(doing.pin) IN
  /\ pc = "main" /\ doing.op = "table"
  /\ plic' = [plic EXCEPT !.table[l] =
                 IF doing.isr THEN "pin" ELSE "default_line"]
  /\ doing' = IF doing.isr THEN [doing EXCEPT !.op = "data"] ELSE Nothing
  /\ registered' = registered \ PinsOf(l)
  /\ UNCHANGED <<uses, Csrs, Tables, mip, gpio, Core, owed>>

SetData ==
  /\ pc = "main" /\ doing.op = "data"
  /\ plic' = [plic EXCEPT !.owner[PinLine(doing.pin)] = doing.pin]
  /\ doing' = Nothing
  /\ registered' = registered \cup {doing.pin}
  /\ UNCHANGED <<uses, Csrs, Tables, mip, gpio, Core, owed>>

PlicEnable(l, enable) ==
  /\ Main /\ plic.init_done /\ IsLine(l)
  /\ plic' = [plic EXCEPT !.enable = IF enable THEN @ \cup {l} ELSE @ \ {l}]
  /\ UNCHANGED <<uses, Csrs, Tables, mip, gpio, doing, Core, History>>

SetPriority(l, n) ==
  /\ Main /\ plic.init_done
  /\ plic' = [plic EXCEPT !.prio = Accepted(l, n)]
  /\ UNCHANGED <<uses, Csrs, Tables, mip, gpio, doing, Core, History>>

SetThreshold(n) ==
  /\ Main /\ plic.init_done
  /\ plic' = [plic EXCEPT !.threshold = n]
  /\ UNCHANGED <<uses, Csrs, Tables, mip, gpio, doing, Core, History>>

\* metal_gpio_config_interrupt with METAL_GPIO_INT_RISING or _DISABLE.
ConfigInt(p, rising) ==
  /\ Main
  /\ gpio' = [gpio EXCEPT !.rise_ie = IF rising THEN @ \cup {p} ELSE @ \ {p}]
  /\ plic' = Latch(plic, gpio')
  /\ owed' = IF rising THEN owed ELSE owed \ {p}
  /\ UNCHANGED <<uses, Csrs, Tables, mip, doing, Core, registered>>

-----------------------------------------------------------------------------
(* The trap, function by function.                                          *)

\* The vector table leads only the two local interrupts to their handlers; an
\* exception enters at the table's first slot.
Vectored(c) == IF c \in Local THEN intc.int[c] ELSE "vector"

Direct(c) == IF c \in Exceptions THEN intc.exc[c] ELSE intc.int[c]

Entry ==
  /\ pc = "entry"
  /\ pc' = CASE mtvec = "direct" -> Direct(mcause)
             [] mtvec = "vectored" -> Vectored(mcause)
             [] OTHER -> mtvec
  /\ UNCHANGED <<uses, Csrs, Tables, mip, Devices, doing, mcause, code,
                 History>>

Mret == pc' = "main" /\ mcause' = "none" /\ code' = code

\* metal_shutdown: the codes tell the default handlers apart.
Shutdown ==
  /\ pc \in {"default_exception", "default_interrupt", "vector", "default_line"}
  /\ code' = CASE pc = "default_exception" -> 100
               [] pc = "default_interrupt" -> 200
               [] OTHER -> 300
  /\ pc' = "off"
  /\ UNCHANGED <<uses, Csrs, Tables, mip, Devices, doing, mcause, History>>

\* __metal_default_sw_handler goes on to exception_table[mcause], where mcause
\* is the number of the software interrupt, and of the breakpoint exception.
DefaultSw ==
  /\ pc = "default_sw"
  /\ pc' = intc.exc["break"]
  /\ UNCHANGED <<uses, Csrs, Tables, mip, Devices, doing, mcause, code,
                 History>>

\* Without its controller the default handler cannot set the comparator.
DefaultTimer ==
  /\ pc = "default_timer"
  /\ mip' = IF "TMR" \in intc.sub THEN mip \ {"TMR"} ELSE mip
  /\ Mret
  /\ UNCHANGED <<uses, Csrs, Tables, Devices, doing, History>>

\* A handler of the program acknowledges its cause; code that has a trap
\* vector of its own is not followed further.
User ==
  /\ pc \in {"user", "own"}
  /\ mip' = mip \ {mcause}
  /\ Mret
  /\ UNCHANGED <<uses, Csrs, Tables, Devices, doing, History>>

\* Mutant: the handler claims until no line is left and calls one handler.
Claim_EmptiesQueue ==
  /\ pc = "plic"
  /\ \E l \in Used \cup {0} :
       /\ Best(l)
       /\ plic' = [plic EXCEPT !.claimed = l, !.pending = {}]
       /\ pc' = IF l # 0 /\ plic.table[l] # "null" THEN plic.table[l]
                ELSE "complete"
  /\ UNCHANGED <<uses, Csrs, Tables, mip, gpio, doing, mcause, code, History>>

\* __metal_plic0_handler
Claim ==
  /\ pc = "plic"
  /\ \E l \in Used \cup {0} :
       /\ Best(l)
       /\ plic' = [plic EXCEPT !.claimed = l, !.pending = @ \ {l}]
       /\ pc' = IF l # 0 /\ plic.table[l] # "null" THEN plic.table[l]
                ELSE "complete"
  /\ UNCHANGED <<uses, Csrs, Tables, mip, gpio, doing, mcause, code, History>>

\* rise_ip |= source, where writing a 1 clears a bit: every bit that reads 1
\* goes, with those of the source.
Cleared(p) == gpio.rise_ip \cup {p}

\* The program's handler for a pin ends with clear_int.
PinHandler ==
  LET p == plic.owner[plic.claimed] IN
  /\ pc = "pin"
  /\ gpio' = [gpio EXCEPT !.rise_ip = @ \ Cleared(p)]
  /\ owed' = owed \ {p}
  /\ pc' = "complete"
  /\ UNCHANGED <<uses, Csrs, Tables, mip, plic, doing, mcause, code,
                 registered>>

\* Mutant: the line is not completed.
Complete_Forgotten ==
  /\ pc = "complete"
  /\ Mret
  /\ UNCHANGED <<uses, Csrs, Tables, mip, Devices, doing, History>>

Complete ==
  /\ pc = "complete"
  /\ plic' = Latch([plic EXCEPT !.claimed = 0], gpio)
  /\ Mret
  /\ UNCHANGED <<uses, Csrs, Tables, mip, gpio, doing, History>>

Handler == Entry \/ Shutdown \/ DefaultSw \/ DefaultTimer \/ User \/ Claim
           \/ PinHandler \/ Complete

\* The flag an operation is given: what is done may be undone.
Flags == IF uses.undoes THEN BOOLEAN ELSE {TRUE}

Configure ==
  \/ CpuInit \/ ClintTraps \/ LocalExternalInit \/ PlicInit
  \/ GlobalExternalInit \/ SetHandler \/ SetData
  \/ \E c \in uses.locals, b \in Flags :
       LocalRegister(c, b) \/ LocalEnable(c, b)
  \/ "SW" \in uses.locals /\ \E b \in BOOLEAN : SoftwareIpi(b)
  \/ \E b \in Flags : GlobalEnable(b)
  \/ \E e \in uses.exceptions : ExceptionRegister(e)
  \/ \E mode \in uses.modes : SetVectorMode(mode)
  \/ \E p \in uses.pins, b \in Flags :
       ConfigInt(p, b) \/ PlicRegister(p, b) \/ PlicEnable(PinLine(p), b)
  \/ \E p \in uses.pins, n \in uses.priorities : SetPriority(PinLine(p), n)
  \/ \E n \in uses.thresholds : SetThreshold(n)

TrapNext == Configure \/ Handler \/ Interrupt \/ Exception
            \/ (\E c \in {"TMR", "LC"} : LocalDue(c)) \/ \E p \in Pins : Edge(p)

TrapSpec == TrapInit /\ [][TrapNext]_trapVars

\* The hart executes, and takes an interrupt that stays pending and enabled.
TrapFairness == WF_trapVars(Handler) /\ SF_trapVars(Interrupt)

-----------------------------------------------------------------------------
(* Properties.                                                              *)

\* Every pin has a line of its own, as the pins this firmware uses have:
\* bsp/metal.h gives pins 29 to 31 the lines of pins 19 to 21.
OwnLines == \A p, q \in Pins : PinLine(p) = PinLine(q) => p = q

\* riscv_cpu.c, riscv_plic0.c: whatever main is configuring when the trap is
\* taken, no call goes through a null table entry, every line that is claimed
\* has been completed before main goes on, and a pin with a handler that is
\* claimed gets its own handler.
DispatchIsSound ==
  /\ pc # "null"
  /\ pc = "main" => plic.claimed = 0
  /\ \A p \in owed \cap registered :
       plic.claimed = PinLine(p) /\ pc \in {"pin", "default_line"} =>
         pc = "pin" /\ plic.owner[plic.claimed] = p

\* sifive_gpio0.c, clear_int: the handler of one pin clears the latches of all,
\* and still no edge of a registered and enabled pin is forgotten: until its
\* handler clears it the PLIC has the line pending or claimed.
NoEdgeIsLost ==
  \A p \in owed :
    \/ PinLine(p) \in plic.pending
    \/ /\ plic.claimed = PinLine(p)
       /\ pc \in {"pin", "default_line", "off"} \/ p \in gpio.rise_ip

\* metal/interrupt.h: the external interrupt has a vector handler of its own,
\* which the program may redefine.
ExternalReachesItsHandler == mcause = "EXT" => pc # "vector"

\* The program has set the pin up in direct mode, keeps it so, and has enabled
\* neither a line with a priority but without a handler, which would be claimed
\* again and again, nor the local line, which comes first.
Armed(p) ==
  /\ mtvec = "direct" /\ mstatus_mie /\ code = 0
  /\ mie \cap {"EXT", "LC"} = {"EXT"}
  /\ p \in gpio.rise_ie /\ PinLine(p) \in plic.enable
  /\ plic.prio[PinLine(p)] > plic.threshold
  /\ \A l \in plic.enable : plic.table[l] = "null" => plic.prio[l] = 0

\* Every edge of a pin that stays set up is handled in the end, with one way
\* out: the PLIC serves the line of highest priority, and among equals the
\* lowest, so a pin that keeps rising, and keeps being claimed while it outranks
\* this one, keeps it waiting.
EdgesAreHandled ==
  \A p \in Pins : <>[]Armed(p) =>
    \/ []<>(p \notin owed)
    \/ \E q \in Pins \ {p} :
         /\ []<><<Edge(q)>>_trapVars
         /\ []<>(plic.claimed = PinLine(q) /\ Outranks(PinLine(q), PinLine(p)))
============================================================================
