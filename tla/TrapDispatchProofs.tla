------------------------- MODULE TrapDispatchProofs --------------------------
(***************************************************************************)
(* Proofs about TrapDispatch for every set of pins and lines, every        *)
(* priority, every program, and any number of edges: the types; that no    *)
(* trap goes through an empty table entry, and a pin's claim runs that     *)
(* pin's handler; and, where every pin has a line of its own, as the pins  *)
(* the firmware uses have, that no edge is forgotten.                      *)
(*                                                                         *)
(* TrapInv is inductive: the shapes of the tables, that an interrupt is    *)
(* enabled only after its entry is set, where the hart may be while a line *)
(* is claimed, and that a registered pin has both its stores in the        *)
(* tables. OwedInv adds, for a pin whose edge is not handled yet, that its *)
(* line is still enabled, its table entry is its own, and the PLIC has the *)
(* line pending or claimed.                                                *)
(***************************************************************************)
EXTENDS TrapDispatch, TLAPS

Causes == Local \cup {"EXT"}
Isrs == {"null", "user", "default_sw", "default_timer", "default_interrupt",
         "plic"}
LineIsrs == {"null", "default_line", "pin"}
Functions == {"main", "entry", "early", "own", "vector", "user", "default_sw",
              "default_timer", "default_interrupt", "default_exception",
              "plic", "pin", "default_line", "complete", "off"}

\* The shapes of the records.
CpuShape ==
  intc \in [init_done : BOOLEAN, int : [Causes -> Isrs],
            sub : SUBSET Causes,
            exc : [Exceptions -> {"null", "default_exception", "user"}]]

PlicShape ==
  plic \in [init_done : BOOLEAN, table : [Used -> LineIsrs],
            owner : [Used -> Pins \cup {0}], prio : [Used -> Nat],
            enable : SUBSET Used, threshold : Nat, pending : SUBSET Used,
            claimed : Used \cup {0}]

GpioShape == gpio \in [rise_ie : SUBSET Pins, rise_ip : SUBSET Pins]

DoingShape ==
  /\ doing \in [op : {"none", "table", "data"}, pin : Pins \cup {0},
                isr : BOOLEAN]
  /\ doing.op # "none" => doing.pin \in Pins /\ plic.init_done

TrapShapes ==
  /\ TrapTypeOK /\ CpuShape /\ PlicShape /\ GpioShape /\ DoingShape
  /\ pc \in Functions /\ mcause \in {"none"} \cup Causes \cup Exceptions

\* An interrupt is enabled after its entry of the table is set.
Configured ==
  /\ mtvec \in {"direct", "vectored"} => intc.init_done
  /\ intc.init_done => \A e \in Exceptions : intc.exc[e] # "null"
  /\ \A c \in mie : intc.init_done /\ intc.int[c] # "null"
  /\ \A c \in Local : Ready(c) => intc.init_done /\ intc.int[c] # "null"

\* Where the hart is in a trap.
InTrap ==
  /\ pc = "entry" => mcause \in mie \cup Exceptions
  /\ pc = "default_sw" => intc.init_done
  /\ plic.claimed # 0 => pc \in {"pin", "default_line", "complete", "off"}
  /\ pc \in {"pin", "default_line"} =>
       plic.claimed \in Used /\ plic.table[plic.claimed] = pc

\* A pin counts as registered while both stores for it are in the table.
Registrations ==
  /\ registered # {} => plic.init_done
  /\ \A p \in registered : plic.table[PinLine(p)] = "pin"
                           /\ plic.owner[PinLine(p)] = p
  /\ doing.op = "data" =>
       /\ plic.table[PinLine(doing.pin)] = "pin"
       /\ registered \cap PinsOf(PinLine(doing.pin)) = {}

TrapInv == TrapShapes /\ Configured /\ InTrap /\ Registrations

\* A pin that is owed its handler.
OwedInv ==
  /\ owed # {} => plic.init_done
  /\ \A p \in owed : /\ p \in gpio.rise_ie
                     /\ plic.table[PinLine(p)] # "null"
                     /\ plic.owner[PinLine(p)] = p
  /\ NoEdgeIsLost

LEMMA UsesTyped ==
  ASSUME uses \in Programs
  PROVE  /\ uses.pins \subseteq Pins /\ uses.locals \subseteq Local
         /\ uses.exceptions \subseteq Exceptions
         /\ uses.priorities \subseteq Nat /\ uses.thresholds \subseteq Nat
  BY TrapAssumption

LEMMA LinesTyped ==
  /\ \A p \in Pins : PinLine(p) \in Used /\ p \in PinsOf(PinLine(p))
  /\ Used \subseteq Nat \ {0}
  /\ \A l, p : p \in PinsOf(l) <=> p \in Pins /\ PinLine(p) = l
  /\ \A g : High(g) \cap Used \subseteq Used
  BY TrapAssumption DEF Used, PinsOf, High

LEMMA Defaults ==
  /\ Default("SW") = "default_sw" /\ Default("TMR") = "default_timer"
  /\ Default("LC") = "default_interrupt"
  /\ \A c \in Local : Default(c) \in Isrs \ {"null"}
  BY DEF Default, Local, Isrs

LEMMA TrapInitInv == TrapInit => TrapInv /\ OwedInv
<1> SUFFICES ASSUME TrapInit PROVE TrapInv /\ OwedInv
  OBVIOUS
<1>1. intc.int \in [Causes -> Isrs]
  BY DEF TrapInit, Causes, Isrs
<1>2. intc.exc \in [Exceptions -> {"null", "default_exception", "user"}]
  BY DEF TrapInit
<1>3. CpuShape
  BY <1>1, <1>2 DEF TrapInit, CpuShape
<1>4. PlicShape
  BY LinesTyped DEF TrapInit, PlicShape, LineIsrs
<1>5. TrapTypeOK
  <2>2. {clint_init, lc_init, global_init} \subseteq BOOLEAN
    BY DEF TrapInit
  <2> QED
    BY <2>2 DEF TrapInit, TrapTypeOK
<1>6. GpioShape /\ DoingShape
  BY DEF TrapInit, GpioShape, DoingShape, Nothing
<1> QED
  BY <1>3, <1>4, <1>5, <1>6
     DEF TrapInit, TrapInv, TrapShapes, Configured, InTrap, Registrations,
         OwedInv, Ready, Local, Functions, NoEdgeIsLost, Nothing

\* One step, with its parameters typed.
TrapStep ==
  \/ CpuInit
  \/ ClintTraps
  \/ LocalExternalInit
  \/ PlicInit
  \/ GlobalExternalInit
  \/ SetHandler
  \/ SetData
  \/ \E c \in Local, b \in BOOLEAN : LocalRegister(c, b)
  \/ \E c \in Local, b \in BOOLEAN : LocalEnable(c, b)
  \/ \E b \in BOOLEAN : SoftwareIpi(b)
  \/ \E b \in BOOLEAN : GlobalEnable(b)
  \/ \E e \in Exceptions : ExceptionRegister(e)
  \/ \E mode \in uses.modes : SetVectorMode(mode)
  \/ \E p \in Pins, b \in BOOLEAN : ConfigInt(p, b)
  \/ \E p \in Pins, b \in BOOLEAN : PlicRegister(p, b)
  \/ \E p \in Pins, b \in BOOLEAN : PlicEnable(PinLine(p), b)
  \/ \E p \in Pins, n \in Nat : SetPriority(PinLine(p), n)
  \/ \E n \in Nat : SetThreshold(n)
  \/ Entry
  \/ Shutdown
  \/ DefaultSw
  \/ DefaultTimer
  \/ User
  \/ Claim
  \/ PinHandler
  \/ Complete
  \/ \E c \in mie \cup Exceptions : Trap(c)
  \/ \E c \in Local : LocalDue(c)
  \/ \E p \in Pins : Edge(p)
  \/ UNCHANGED trapVars

LEMMA TrapSteps ==
  ASSUME TrapShapes, [TrapNext]_trapVars
  PROVE  TrapStep
<1>1. uses \in Programs
  BY DEF TrapShapes, TrapTypeOK
<1>2. Flags \subseteq BOOLEAN
  BY DEF Flags
<1>3. ASSUME Configure PROVE TrapStep
  BY <1>1, <1>2, <1>3, UsesTyped DEF Configure, TrapStep
<1>4. ASSUME Handler PROVE TrapStep
  BY <1>4 DEF Handler, TrapStep
<1>5. ASSUME Interrupt PROVE TrapStep
  BY <1>5 DEF Interrupt, PendingCauses, Urgent, TrapStep
<1>6. ASSUME Exception PROVE TrapStep
  BY <1>1, <1>6, UsesTyped DEF Exception, TrapStep
<1>7. ASSUME \E c \in {"TMR", "LC"} : LocalDue(c) PROVE TrapStep
  BY <1>7 DEF TrapStep, Local
<1>8. ASSUME \E p \in Pins : Edge(p) PROVE TrapStep
  BY <1>8 DEF TrapStep
<1> QED
  BY <1>3, <1>4, <1>5, <1>6, <1>7, <1>8 DEF TrapNext, TrapStep

LEMMA TrapShapesKept ==
  ASSUME TrapInv, TrapStep
  PROVE  TrapShapes'
<1>s. /\ TrapTypeOK /\ CpuShape /\ PlicShape /\ GpioShape /\ DoingShape
      /\ pc \in Functions /\ mcause \in {"none"} \cup Causes \cup Exceptions
  BY DEF TrapInv, TrapShapes
<1>c. Configured /\ InTrap
  BY DEF TrapInv
<1>1. ASSUME CpuInit PROVE TrapShapes'
  BY <1>1, LinesTyped, UsesTyped
     DEF TrapInv, TrapShapes, TrapTypeOK, CpuShape, PlicShape, GpioShape,
         DoingShape, Causes, Isrs, LineIsrs, Functions, Nothing, CpuInit, Main,
         WithCpu, CpuVector, Csrs, Inits, Tables, Devices, Core, History
<1>2. ASSUME ClintTraps PROVE TrapShapes'
  <2>1. TrapTypeOK'
    BY <1>2, <1>s, LinesTyped, TrapAssumption
       DEF TrapTypeOK, ClintTraps, Main, Csrs, Inits, Tables, Devices, Core,
           History
  <2>2. CpuShape'
    BY <1>2, <1>s, Defaults
       DEF CpuShape, Causes, Isrs, Local, ClintTraps, Main, Csrs, Inits,
           Tables, Devices, Core, History
  <2>3. PlicShape'
    BY <1>2, <1>s, LinesTyped, UsesTyped
       DEF PlicShape, LineIsrs, ClintTraps, Main, Csrs, Inits, Tables, Devices,
           Core, History
  <2>4. GpioShape' /\ DoingShape'
    BY <1>2, <1>s, LinesTyped, UsesTyped
       DEF GpioShape, DoingShape, PlicShape, Nothing, ClintTraps, Main, Csrs,
           Inits, Tables, Devices, Core, History
  <2>5. pc' \in Functions /\ mcause' \in {"none"} \cup Causes \cup Exceptions
    BY <1>2, <1>s
       DEF Functions, CpuShape, Isrs, PlicShape, LineIsrs, Causes, Local,
           ClintTraps, Main, Csrs, Inits, Tables, Devices, Core, History
  <2> QED
    BY <2>1, <2>2, <2>3, <2>4, <2>5 DEF TrapShapes
<1>3. ASSUME LocalExternalInit PROVE TrapShapes'
  <2>1. TrapTypeOK'
    BY <1>3, <1>s, LinesTyped, TrapAssumption
       DEF TrapTypeOK, LocalExternalInit, Main, Csrs, Inits, Tables, Devices,
           Core, History
  <2>2. CpuShape'
    BY <1>3, <1>s, Defaults
       DEF CpuShape, Causes, Isrs, Local, LocalExternalInit, Main, Csrs, Inits,
           Tables, Devices, Core, History
  <2>3. PlicShape'
    BY <1>3, <1>s, LinesTyped, UsesTyped
       DEF PlicShape, LineIsrs, LocalExternalInit, Main, Csrs, Inits, Tables,
           Devices, Core, History
  <2>4. GpioShape' /\ DoingShape'
    BY <1>3, <1>s, LinesTyped, UsesTyped
       DEF GpioShape, DoingShape, PlicShape, Nothing, LocalExternalInit, Main,
           Csrs, Inits, Tables, Devices, Core, History
  <2>5. pc' \in Functions /\ mcause' \in {"none"} \cup Causes \cup Exceptions
    BY <1>3, <1>s
       DEF Functions, CpuShape, Isrs, PlicShape, LineIsrs, Causes, Local,
           LocalExternalInit, Main, Csrs, Inits, Tables, Devices, Core, History
  <2> QED
    BY <2>1, <2>2, <2>3, <2>4, <2>5 DEF TrapShapes
<1>4. ASSUME PlicInit PROVE TrapShapes'
  BY <1>4, LinesTyped, UsesTyped
     DEF TrapInv, TrapShapes, TrapTypeOK, CpuShape, PlicShape, GpioShape,
         DoingShape, Causes, Isrs, LineIsrs, Functions, Nothing, PlicInit,
         Main, WithMie, Enrolled, WithCpu, CpuVector, WithPlic, Csrs, Inits,
         Tables, Devices, Core, History
<1>5. ASSUME GlobalExternalInit PROVE TrapShapes'
  <2>1. TrapTypeOK'
    BY <1>5, <1>s, LinesTyped, TrapAssumption
       DEF TrapTypeOK, GlobalExternalInit, Main, WithMie, Enrolled, WithCpu,
           CpuVector, WithPlic, Csrs, Inits, Tables, Devices, Core, History
  <2>2. CpuShape'
    <3>1. CASE plic.init_done
      BY <1>5, <1>s, Defaults, <3>1
         DEF CpuShape, Causes, Isrs, Local, GlobalExternalInit, Main, WithMie,
             Enrolled, WithCpu, CpuVector, WithPlic, Csrs, Inits, Tables,
             Devices, Core, History
    <3>2. CASE ~plic.init_done
      <4>1. intc' = Enrolled
        BY <1>5, <3>2 DEF GlobalExternalInit
      <4> QED
        BY <4>1, <1>s
           DEF CpuShape, Causes, Isrs, Local, Enrolled, WithCpu
    <3> QED
      BY <3>1, <3>2
  <2>3. PlicShape'
    BY <1>5, <1>s, LinesTyped, UsesTyped
       DEF PlicShape, LineIsrs, GlobalExternalInit, Main, WithMie, Enrolled,
           WithCpu, CpuVector, WithPlic, Csrs, Inits, Tables, Devices, Core,
           History
  <2>4. GpioShape' /\ DoingShape'
    BY <1>5, <1>s, LinesTyped, UsesTyped
       DEF GpioShape, DoingShape, PlicShape, Nothing, GlobalExternalInit, Main,
           WithMie, Enrolled, WithCpu, CpuVector, WithPlic, Csrs, Inits,
           Tables, Devices, Core, History
  <2>5. pc' \in Functions /\ mcause' \in {"none"} \cup Causes \cup Exceptions
    BY <1>5, <1>s
       DEF Functions, CpuShape, Isrs, PlicShape, LineIsrs, Causes, Local,
           GlobalExternalInit, Main, WithMie, Enrolled, WithCpu, CpuVector,
           WithPlic, Csrs, Inits, Tables, Devices, Core, History
  <2> QED
    BY <2>1, <2>2, <2>3, <2>4, <2>5 DEF TrapShapes
<1>6. ASSUME SetHandler PROVE TrapShapes'
  BY SMTT(30), <1>6, LinesTyped, UsesTyped
     DEF TrapInv, TrapShapes, TrapTypeOK, CpuShape, PlicShape, GpioShape,
         DoingShape, Causes, Isrs, LineIsrs, Functions, Nothing, SetHandler,
         Csrs, Inits, Tables, Devices, Core, History
<1>7. ASSUME SetData PROVE TrapShapes'
  BY <1>7, LinesTyped, UsesTyped
     DEF TrapInv, TrapShapes, TrapTypeOK, CpuShape, PlicShape, GpioShape,
         DoingShape, Causes, Isrs, LineIsrs, Functions, Nothing, SetData, Csrs,
         Inits, Tables, Devices, Core, History
<1>8. ASSUME NEW c \in Local, NEW b \in BOOLEAN,
             LocalRegister(c, b)
      PROVE  TrapShapes'
  <2>1. TrapTypeOK'
    BY <1>8, <1>s, LinesTyped, TrapAssumption
       DEF TrapTypeOK, LocalRegister, Main, Csrs, Inits, Tables, Devices, Core,
           History
  <2>2. CpuShape'
    <3>1. CASE intc' = [intc EXCEPT !.int[c] = "user"]
      BY <1>8, <1>s, Defaults, <3>1
         DEF CpuShape, Causes, Isrs, Local, LocalRegister
    <3>2. ASSUME NEW sub \in {intc.sub \cup {c}, intc.sub \ {c}},
               intc' = [intc EXCEPT !.sub = sub, !.int[c] = Default(c)]
        PROVE  CpuShape'
      BY <1>8, <1>s, Defaults, <3>2
         DEF CpuShape, Causes, Isrs, Local, LocalRegister
    <3> QED
      BY <3>1, <3>2, <1>8 DEF LocalRegister
  <2>3. PlicShape'
    BY <1>8, <1>s, LinesTyped, UsesTyped
       DEF PlicShape, LineIsrs, LocalRegister, Main, Csrs, Inits, Tables,
           Devices, Core, History
  <2>4. GpioShape' /\ DoingShape'
    BY <1>8, <1>s, LinesTyped, UsesTyped
       DEF GpioShape, DoingShape, PlicShape, Nothing, LocalRegister, Main,
           Csrs, Inits, Tables, Devices, Core, History
  <2>5. pc' \in Functions /\ mcause' \in {"none"} \cup Causes \cup Exceptions
    BY <1>8, <1>s
       DEF Functions, CpuShape, Isrs, PlicShape, LineIsrs, Causes, Local,
           LocalRegister, Main, Csrs, Inits, Tables, Devices, Core, History
  <2> QED
    BY <2>1, <2>2, <2>3, <2>4, <2>5 DEF TrapShapes
<1>9. ASSUME NEW c \in Local, NEW b \in BOOLEAN,
             LocalEnable(c, b)
      PROVE  TrapShapes'
  BY <1>9, LinesTyped, UsesTyped
     DEF TrapInv, TrapShapes, TrapTypeOK, CpuShape, PlicShape, GpioShape,
         DoingShape, Causes, Isrs, LineIsrs, Functions, Nothing, LocalEnable,
         Main, WithMie, Csrs, Inits, Tables, Devices, Core, History
<1>10. ASSUME NEW b \in BOOLEAN, SoftwareIpi(b) PROVE TrapShapes'
  BY <1>10, LinesTyped, UsesTyped
     DEF TrapInv, TrapShapes, TrapTypeOK, CpuShape, PlicShape, GpioShape,
         DoingShape, Causes, Isrs, LineIsrs, Functions, Nothing, SoftwareIpi,
         Main, WithIpi, Csrs, Inits, Tables, Devices, Core, History
<1>11. ASSUME NEW b \in BOOLEAN, GlobalEnable(b) PROVE TrapShapes'
  BY <1>11, LinesTyped, UsesTyped
     DEF TrapInv, TrapShapes, TrapTypeOK, CpuShape, PlicShape, GpioShape,
         DoingShape, Causes, Isrs, LineIsrs, Functions, Nothing, GlobalEnable,
         Main, WriteMie, Csrs, Inits, Tables, Devices, Core, History
<1>12. ASSUME NEW e \in Exceptions, ExceptionRegister(e) PROVE TrapShapes'
  BY <1>12, LinesTyped, UsesTyped
     DEF TrapInv, TrapShapes, TrapTypeOK, CpuShape, PlicShape, GpioShape,
         DoingShape, Causes, Isrs, LineIsrs, Functions, Nothing,
         ExceptionRegister, Main, Csrs, Inits, Tables, Devices, Core, History
<1>13. ASSUME NEW mode, SetVectorMode(mode) PROVE TrapShapes'
  BY <1>13, LinesTyped, UsesTyped
     DEF TrapInv, TrapShapes, TrapTypeOK, CpuShape, PlicShape, GpioShape,
         DoingShape, Causes, Isrs, LineIsrs, Functions, Nothing, SetVectorMode,
         Main, VectorModes, Csrs, Inits, Tables, Devices, Core, History
<1>14. ASSUME NEW p \in Pins, NEW b \in BOOLEAN,
             ConfigInt(p, b)
      PROVE  TrapShapes'
  BY <1>14, LinesTyped, UsesTyped
     DEF TrapInv, TrapShapes, TrapTypeOK, CpuShape, PlicShape, GpioShape,
         DoingShape, Causes, Isrs, LineIsrs, Functions, Nothing, ConfigInt,
         Main, Latch, Csrs, Inits, Tables, Devices, Core, History
<1>15. ASSUME NEW p \in Pins, NEW b \in BOOLEAN,
             PlicRegister(p, b)
      PROVE  TrapShapes'
  BY SMTT(30), <1>15, LinesTyped, UsesTyped
     DEF TrapInv, TrapShapes, TrapTypeOK, CpuShape, PlicShape, GpioShape,
         DoingShape, Causes, Isrs, LineIsrs, Functions, Nothing, PlicRegister,
         Main, Accepted, Csrs, Inits, Tables, Devices, Core, History
<1>16. ASSUME NEW p \in Pins, NEW b \in BOOLEAN,
             PlicEnable(PinLine(p), b)
      PROVE  TrapShapes'
  BY <1>16, LinesTyped, UsesTyped
     DEF TrapInv, TrapShapes, TrapTypeOK, CpuShape, PlicShape, GpioShape,
         DoingShape, Causes, Isrs, LineIsrs, Functions, Nothing, PlicEnable,
         Main, Csrs, Inits, Tables, Devices, Core, History
<1>17. ASSUME NEW p \in Pins, NEW n \in Nat,
             SetPriority(PinLine(p), n)
      PROVE  TrapShapes'
  BY <1>17, LinesTyped, UsesTyped
     DEF TrapInv, TrapShapes, TrapTypeOK, CpuShape, PlicShape, GpioShape,
         DoingShape, Causes, Isrs, LineIsrs, Functions, Nothing, SetPriority,
         Main, Accepted, Csrs, Inits, Tables, Devices, Core, History
<1>18. ASSUME NEW n \in Nat, SetThreshold(n) PROVE TrapShapes'
  BY <1>18, LinesTyped, UsesTyped
     DEF TrapInv, TrapShapes, TrapTypeOK, CpuShape, PlicShape, GpioShape,
         DoingShape, Causes, Isrs, LineIsrs, Functions, Nothing, SetThreshold,
         Main, Csrs, Inits, Tables, Devices, Core, History
<1>19. ASSUME Entry PROVE TrapShapes'
  <2>1. TrapTypeOK'
    BY <1>19, <1>s, LinesTyped, TrapAssumption
       DEF TrapTypeOK, Entry, Vectored, Direct, Csrs, Inits, Tables, Devices,
           Core, History
  <2>2. CpuShape'
    BY <1>19, <1>s, Defaults
       DEF CpuShape, Causes, Isrs, Local, Entry, Vectored, Direct, Csrs, Inits,
           Tables, Devices, Core, History
  <2>3. PlicShape'
    BY <1>19, <1>s, LinesTyped, UsesTyped
       DEF PlicShape, LineIsrs, Entry, Vectored, Direct, Csrs, Inits, Tables,
           Devices, Core, History
  <2>4. GpioShape' /\ DoingShape'
    BY <1>19, <1>s, LinesTyped, UsesTyped
       DEF GpioShape, DoingShape, PlicShape, Nothing, Entry, Vectored, Direct,
           Csrs, Inits, Tables, Devices, Core, History
  <2>5. pc' \in Functions /\ mcause' \in {"none"} \cup Causes \cup Exceptions
    BY <1>19, <1>s, <1>c
       DEF Functions, CpuShape, Isrs, PlicShape, LineIsrs, Causes, Local,
           Configured, InTrap, TrapTypeOK, Exceptions, Entry, Vectored, Direct,
           Csrs, Inits, Tables, Devices, Core, History
  <2> QED
    BY <2>1, <2>2, <2>3, <2>4, <2>5 DEF TrapShapes
<1>20. ASSUME Shutdown PROVE TrapShapes'
  BY <1>20, LinesTyped, UsesTyped
     DEF TrapInv, TrapShapes, TrapTypeOK, CpuShape, PlicShape, GpioShape,
         DoingShape, Causes, Isrs, LineIsrs, Functions, Nothing, Shutdown,
         Csrs, Inits, Tables, Devices, Core, History
<1>21. ASSUME DefaultSw PROVE TrapShapes'
  <2>1. TrapTypeOK'
    BY <1>21, <1>s, LinesTyped, TrapAssumption
       DEF TrapTypeOK, DefaultSw, Csrs, Inits, Tables, Devices, Core, History
  <2>2. CpuShape'
    BY <1>21, <1>s, Defaults
       DEF CpuShape, Causes, Isrs, Local, DefaultSw, Csrs, Inits, Tables,
           Devices, Core, History
  <2>3. PlicShape'
    BY <1>21, <1>s, LinesTyped, UsesTyped
       DEF PlicShape, LineIsrs, DefaultSw, Csrs, Inits, Tables, Devices, Core,
           History
  <2>4. GpioShape' /\ DoingShape'
    BY <1>21, <1>s, LinesTyped, UsesTyped
       DEF GpioShape, DoingShape, PlicShape, Nothing, DefaultSw, Csrs, Inits,
           Tables, Devices, Core, History
  <2>5. pc' \in Functions /\ mcause' \in {"none"} \cup Causes \cup Exceptions
    BY <1>21, <1>s, <1>c
       DEF Functions, CpuShape, Isrs, PlicShape, LineIsrs, Causes, Local,
           Configured, InTrap, TrapTypeOK, Exceptions, DefaultSw, Csrs, Inits,
           Tables, Devices, Core, History
  <2> QED
    BY <2>1, <2>2, <2>3, <2>4, <2>5 DEF TrapShapes
<1>22. ASSUME DefaultTimer PROVE TrapShapes'
  BY <1>22, LinesTyped, UsesTyped
     DEF TrapInv, TrapShapes, TrapTypeOK, CpuShape, PlicShape, GpioShape,
         DoingShape, Causes, Isrs, LineIsrs, Functions, Nothing, DefaultTimer,
         Mret, Csrs, Inits, Tables, Devices, Core, History
<1>23. ASSUME User PROVE TrapShapes'
  BY <1>23, LinesTyped, UsesTyped
     DEF TrapInv, TrapShapes, TrapTypeOK, CpuShape, PlicShape, GpioShape,
         DoingShape, Causes, Isrs, LineIsrs, Functions, Nothing, User, Mret,
         Csrs, Inits, Tables, Devices, Core, History
<1>24. ASSUME Claim PROVE TrapShapes'
  <2>1. TrapTypeOK'
    BY <1>24, <1>s, LinesTyped, TrapAssumption
       DEF TrapTypeOK, Claim, Csrs, Inits, Tables, Devices, Core, History
  <2>2. CpuShape'
    BY <1>24, <1>s, Defaults
       DEF CpuShape, Causes, Isrs, Local, Claim, Csrs, Inits, Tables, Devices,
           Core, History
  <2>3. PlicShape'
    BY ZenonT(40), <1>24, <1>s, LinesTyped, UsesTyped
       DEF PlicShape, LineIsrs, Claim, Csrs, Inits, Tables, Devices, Core,
           History
  <2>4. GpioShape' /\ DoingShape'
    BY <1>24, <1>s, LinesTyped, UsesTyped
       DEF GpioShape, DoingShape, PlicShape, Nothing, Claim, Csrs, Inits,
           Tables, Devices, Core, History
  <2>5. pc' \in Functions /\ mcause' \in {"none"} \cup Causes \cup Exceptions
    BY <1>24, <1>s, <1>c
       DEF Functions, CpuShape, Isrs, PlicShape, LineIsrs, Causes, Local,
           Configured, InTrap, TrapTypeOK, Exceptions, Claim, Csrs, Inits,
           Tables, Devices, Core, History
  <2> QED
    BY <2>1, <2>2, <2>3, <2>4, <2>5 DEF TrapShapes
<1>25. ASSUME PinHandler PROVE TrapShapes'
  BY <1>25, LinesTyped, UsesTyped
     DEF TrapInv, TrapShapes, TrapTypeOK, CpuShape, PlicShape, GpioShape,
         DoingShape, Causes, Isrs, LineIsrs, Functions, Nothing, PinHandler,
         Cleared, Csrs, Inits, Tables, Devices, Core, History
<1>26. ASSUME Complete PROVE TrapShapes'
  BY <1>26, LinesTyped, UsesTyped
     DEF TrapInv, TrapShapes, TrapTypeOK, CpuShape, PlicShape, GpioShape,
         DoingShape, Causes, Isrs, LineIsrs, Functions, Nothing, Complete,
         Mret, Latch, Csrs, Inits, Tables, Devices, Core, History
<1>27. ASSUME NEW c \in mie \cup Exceptions, Trap(c) PROVE TrapShapes'
  BY <1>27, LinesTyped, UsesTyped
     DEF TrapInv, TrapShapes, TrapTypeOK, CpuShape, PlicShape, GpioShape,
         DoingShape, Causes, Isrs, LineIsrs, Functions, Nothing, Trap, Csrs,
         Inits, Tables, Devices, Core, History
<1>28. ASSUME NEW c \in Local, LocalDue(c) PROVE TrapShapes'
  BY <1>28, LinesTyped, UsesTyped
     DEF TrapInv, TrapShapes, TrapTypeOK, CpuShape, PlicShape, GpioShape,
         DoingShape, Causes, Isrs, LineIsrs, Functions, Nothing, LocalDue,
         Csrs, Inits, Tables, Devices, Core, History
<1>29. ASSUME NEW p \in Pins, Edge(p) PROVE TrapShapes'
  <2>1. TrapTypeOK'
    BY <1>29, <1>s, LinesTyped, TrapAssumption
       DEF TrapTypeOK, Edge, Latch, Csrs, Inits, Tables, Devices, Core, History
  <2>2. CpuShape'
    BY <1>29, <1>s, Defaults
       DEF CpuShape, Causes, Isrs, Local, Edge, Latch, Csrs, Inits, Tables,
           Devices, Core, History
  <2>3. PlicShape'
    BY <1>29, <1>s, LinesTyped, UsesTyped
       DEF PlicShape, LineIsrs, Edge, Latch, Csrs, Inits, Tables, Devices,
           Core, History
  <2>4. GpioShape' /\ DoingShape'
    BY <1>29, <1>s, LinesTyped, UsesTyped
       DEF GpioShape, DoingShape, PlicShape, Nothing, Edge, Latch, Csrs, Inits,
           Tables, Devices, Core, History
  <2>5. pc' \in Functions /\ mcause' \in {"none"} \cup Causes \cup Exceptions
    BY <1>29, <1>s
       DEF Functions, CpuShape, Isrs, PlicShape, LineIsrs, Causes, Local, Edge,
           Latch, Csrs, Inits, Tables, Devices, Core, History
  <2> QED
    BY <2>1, <2>2, <2>3, <2>4, <2>5 DEF TrapShapes
<1>30. ASSUME UNCHANGED trapVars PROVE TrapShapes'
  BY <1>30, LinesTyped, UsesTyped
     DEF TrapInv, TrapShapes, TrapTypeOK, CpuShape, PlicShape, GpioShape,
         DoingShape, Causes, Isrs, LineIsrs, Functions, Nothing, trapVars,
         Csrs, Inits, Tables, Devices, Core, History
<1> QED
  BY <1>1, <1>2, <1>3, <1>4, <1>5, <1>6, <1>7, <1>8, <1>9, <1>10, <1>11, <1>12,
     <1>13, <1>14, <1>15, <1>16, <1>17, <1>18, <1>19, <1>20, <1>21, <1>22,
     <1>23, <1>24, <1>25, <1>26, <1>27, <1>28, <1>29, <1>30 DEF TrapStep

LEMMA ConfiguredKept ==
  ASSUME TrapInv, TrapStep
  PROVE  Configured'
<1>s. /\ TrapTypeOK /\ CpuShape /\ PlicShape /\ GpioShape /\ DoingShape
      /\ pc \in Functions /\ mcause \in {"none"} \cup Causes \cup Exceptions
  BY DEF TrapInv, TrapShapes
<1>c. Configured /\ InTrap
  BY DEF TrapInv
<1>1. ASSUME CpuInit PROVE Configured'
  BY <1>1, UsesTyped, Defaults
     DEF TrapInv, TrapShapes, CpuShape, TrapTypeOK, Configured, Ready, Local,
         Causes, Exceptions, Isrs, Nothing, CpuInit, Main, WithCpu, CpuVector,
         Csrs, Inits, Tables, Devices, Core, History
<1>2. ASSUME ClintTraps PROVE Configured'
  BY <1>2, UsesTyped, Defaults
     DEF TrapInv, TrapShapes, CpuShape, TrapTypeOK, Configured, Ready, Local,
         Causes, Exceptions, Isrs, Nothing, ClintTraps, Main, Csrs, Inits,
         Tables, Devices, Core, History
<1>3. ASSUME LocalExternalInit PROVE Configured'
  BY <1>3, UsesTyped, Defaults
     DEF TrapInv, TrapShapes, CpuShape, TrapTypeOK, Configured, Ready, Local,
         Causes, Exceptions, Isrs, Nothing, LocalExternalInit, Main, Csrs,
         Inits, Tables, Devices, Core, History
<1>4. ASSUME PlicInit PROVE Configured'
  BY <1>4, UsesTyped, Defaults
     DEF TrapInv, TrapShapes, CpuShape, TrapTypeOK, Configured, Ready, Local,
         Causes, Exceptions, Isrs, Nothing, PlicInit, Main, WithMie, Enrolled,
         WithCpu, CpuVector, WithPlic, Csrs, Inits, Tables, Devices, Core,
         History
<1>5. ASSUME GlobalExternalInit PROVE Configured'
  <2>1. CASE plic.init_done
    BY <1>5, <1>s, <1>c, <2>1
       DEF Configured, Ready, Local, GlobalExternalInit, Inits
  <2>2. CASE ~plic.init_done
    <3>1. /\ intc' = Enrolled /\ mtvec' = CpuVector
          /\ mie' = mie \cup {"EXT"}
          /\ clint_init' = clint_init /\ lc_init' = lc_init
      BY <1>5, <2>2 DEF GlobalExternalInit, WithMie
    <3> QED
      BY <1>s, <1>c, <3>1
         DEF Configured, Ready, Local, Causes, Exceptions, Isrs, CpuShape,
             Enrolled, WithCpu, CpuVector, TrapTypeOK
  <2> QED
    BY <2>1, <2>2
<1>6. ASSUME SetHandler PROVE Configured'
  BY <1>6, UsesTyped, Defaults
     DEF TrapInv, TrapShapes, CpuShape, TrapTypeOK, Configured, Ready, Local,
         Causes, Exceptions, Isrs, Nothing, SetHandler, Csrs, Inits, Tables,
         Devices, Core, History
<1>7. ASSUME SetData PROVE Configured'
  BY <1>7, UsesTyped, Defaults
     DEF TrapInv, TrapShapes, CpuShape, TrapTypeOK, Configured, Ready, Local,
         Causes, Exceptions, Isrs, Nothing, SetData, Csrs, Inits, Tables,
         Devices, Core, History
<1>8. ASSUME NEW c \in Local, NEW b \in BOOLEAN,
             LocalRegister(c, b)
      PROVE  Configured'
  <2>1. /\ intc'.init_done = intc.init_done /\ intc'.exc = intc.exc
        /\ \E i \in Isrs \ {"null"} :
             intc'.int = [intc.int EXCEPT ![c] = i]
    <3>1. CASE intc' = [intc EXCEPT !.int[c] = "user"]
      BY <1>s, <3>1 DEF CpuShape, Isrs
    <3>2. ASSUME NEW sub,
                 intc' = [intc EXCEPT !.sub = sub, !.int[c] = Default(c)]
          PROVE  /\ intc'.init_done = intc.init_done /\ intc'.exc = intc.exc
                 /\ intc'.int = [intc.int EXCEPT ![c] = Default(c)]
      BY <1>s, <3>2 DEF CpuShape
    <3> QED
      BY <1>8, <3>1, <3>2, Defaults DEF LocalRegister
  <2>2. PICK i \in Isrs \ {"null"} : intc'.int = [intc.int EXCEPT ![c] = i]
    BY <2>1
  <2>3. \A d \in Causes : intc'.int[d] = IF d = c THEN i ELSE intc.int[d]
    BY <1>s, <2>2 DEF CpuShape
  <2>4. mie' = mie /\ mtvec' = mtvec /\ UNCHANGED Inits
    BY <1>8 DEF LocalRegister, Csrs
  <2>5. mie \subseteq Causes /\ Local \subseteq Causes
    BY <1>s DEF TrapTypeOK, Causes
  <2> QED
    BY <1>c, <2>1, <2>3, <2>4, <2>5 DEF Configured, Ready, Inits
<1>9. ASSUME NEW c \in Local, NEW b \in BOOLEAN,
             LocalEnable(c, b)
      PROVE  Configured'
  BY <1>9, UsesTyped, Defaults
     DEF TrapInv, TrapShapes, CpuShape, TrapTypeOK, Configured, Ready, Local,
         Causes, Exceptions, Isrs, Nothing, LocalEnable, Main, WithMie, Csrs,
         Inits, Tables, Devices, Core, History
<1>10. ASSUME NEW b \in BOOLEAN, SoftwareIpi(b) PROVE Configured'
  BY <1>10, UsesTyped, Defaults
     DEF TrapInv, TrapShapes, CpuShape, TrapTypeOK, Configured, Ready, Local,
         Causes, Exceptions, Isrs, Nothing, SoftwareIpi, Main, WithIpi, Csrs,
         Inits, Tables, Devices, Core, History
<1>11. ASSUME NEW b \in BOOLEAN, GlobalEnable(b) PROVE Configured'
  BY <1>11, UsesTyped, Defaults
     DEF TrapInv, TrapShapes, CpuShape, TrapTypeOK, Configured, Ready, Local,
         Causes, Exceptions, Isrs, Nothing, GlobalEnable, Main, WriteMie, Csrs,
         Inits, Tables, Devices, Core, History
<1>12. ASSUME NEW e \in Exceptions, ExceptionRegister(e) PROVE Configured'
  BY <1>12, UsesTyped, Defaults
     DEF TrapInv, TrapShapes, CpuShape, TrapTypeOK, Configured, Ready, Local,
         Causes, Exceptions, Isrs, Nothing, ExceptionRegister, Main, Csrs,
         Inits, Tables, Devices, Core, History
<1>13. ASSUME NEW mode, SetVectorMode(mode) PROVE Configured'
  BY <1>13, UsesTyped, Defaults
     DEF TrapInv, TrapShapes, CpuShape, TrapTypeOK, Configured, Ready, Local,
         Causes, Exceptions, Isrs, Nothing, SetVectorMode, Main, VectorModes,
         Csrs, Inits, Tables, Devices, Core, History
<1>14. ASSUME NEW p \in Pins, NEW b \in BOOLEAN,
             ConfigInt(p, b)
      PROVE  Configured'
  BY <1>14, UsesTyped, Defaults
     DEF TrapInv, TrapShapes, CpuShape, TrapTypeOK, Configured, Ready, Local,
         Causes, Exceptions, Isrs, Nothing, ConfigInt, Main, Latch, Csrs,
         Inits, Tables, Devices, Core, History
<1>15. ASSUME NEW p \in Pins, NEW b \in BOOLEAN,
             PlicRegister(p, b)
      PROVE  Configured'
  BY <1>15, UsesTyped, Defaults
     DEF TrapInv, TrapShapes, CpuShape, TrapTypeOK, Configured, Ready, Local,
         Causes, Exceptions, Isrs, Nothing, PlicRegister, Main, Accepted, Csrs,
         Inits, Tables, Devices, Core, History
<1>16. ASSUME NEW p \in Pins, NEW b \in BOOLEAN,
             PlicEnable(PinLine(p), b)
      PROVE  Configured'
  BY <1>16, UsesTyped, Defaults
     DEF TrapInv, TrapShapes, CpuShape, TrapTypeOK, Configured, Ready, Local,
         Causes, Exceptions, Isrs, Nothing, PlicEnable, Main, Csrs, Inits,
         Tables, Devices, Core, History
<1>17. ASSUME NEW p \in Pins, NEW n \in Nat,
             SetPriority(PinLine(p), n)
      PROVE  Configured'
  BY <1>17, UsesTyped, Defaults
     DEF TrapInv, TrapShapes, CpuShape, TrapTypeOK, Configured, Ready, Local,
         Causes, Exceptions, Isrs, Nothing, SetPriority, Main, Accepted, Csrs,
         Inits, Tables, Devices, Core, History
<1>18. ASSUME NEW n \in Nat, SetThreshold(n) PROVE Configured'
  BY <1>18, UsesTyped, Defaults
     DEF TrapInv, TrapShapes, CpuShape, TrapTypeOK, Configured, Ready, Local,
         Causes, Exceptions, Isrs, Nothing, SetThreshold, Main, Csrs, Inits,
         Tables, Devices, Core, History
<1>19. ASSUME Entry PROVE Configured'
  BY <1>19, UsesTyped, Defaults
     DEF TrapInv, TrapShapes, CpuShape, TrapTypeOK, Configured, Ready, Local,
         Causes, Exceptions, Isrs, Nothing, Entry, Vectored, Direct, Csrs,
         Inits, Tables, Devices, Core, History
<1>20. ASSUME Shutdown PROVE Configured'
  BY <1>20, UsesTyped, Defaults
     DEF TrapInv, TrapShapes, CpuShape, TrapTypeOK, Configured, Ready, Local,
         Causes, Exceptions, Isrs, Nothing, Shutdown, Csrs, Inits, Tables,
         Devices, Core, History
<1>21. ASSUME DefaultSw PROVE Configured'
  BY <1>21, UsesTyped, Defaults
     DEF TrapInv, TrapShapes, CpuShape, TrapTypeOK, Configured, Ready, Local,
         Causes, Exceptions, Isrs, Nothing, DefaultSw, Csrs, Inits, Tables,
         Devices, Core, History
<1>22. ASSUME DefaultTimer PROVE Configured'
  BY <1>22, UsesTyped, Defaults
     DEF TrapInv, TrapShapes, CpuShape, TrapTypeOK, Configured, Ready, Local,
         Causes, Exceptions, Isrs, Nothing, DefaultTimer, Mret, Csrs, Inits,
         Tables, Devices, Core, History
<1>23. ASSUME User PROVE Configured'
  BY <1>23, UsesTyped, Defaults
     DEF TrapInv, TrapShapes, CpuShape, TrapTypeOK, Configured, Ready, Local,
         Causes, Exceptions, Isrs, Nothing, User, Mret, Csrs, Inits, Tables,
         Devices, Core, History
<1>24. ASSUME Claim PROVE Configured'
  BY <1>24, UsesTyped, Defaults
     DEF TrapInv, TrapShapes, CpuShape, TrapTypeOK, Configured, Ready, Local,
         Causes, Exceptions, Isrs, Nothing, Claim, Csrs, Inits, Tables,
         Devices, Core, History
<1>25. ASSUME PinHandler PROVE Configured'
  BY <1>25, UsesTyped, Defaults
     DEF TrapInv, TrapShapes, CpuShape, TrapTypeOK, Configured, Ready, Local,
         Causes, Exceptions, Isrs, Nothing, PinHandler, Cleared, Csrs, Inits,
         Tables, Devices, Core, History
<1>26. ASSUME Complete PROVE Configured'
  BY <1>26, UsesTyped, Defaults
     DEF TrapInv, TrapShapes, CpuShape, TrapTypeOK, Configured, Ready, Local,
         Causes, Exceptions, Isrs, Nothing, Complete, Mret, Latch, Csrs, Inits,
         Tables, Devices, Core, History
<1>27. ASSUME NEW c \in mie \cup Exceptions, Trap(c) PROVE Configured'
  BY <1>27, UsesTyped, Defaults
     DEF TrapInv, TrapShapes, CpuShape, TrapTypeOK, Configured, Ready, Local,
         Causes, Exceptions, Isrs, Nothing, Trap, Csrs, Inits, Tables, Devices,
         Core, History
<1>28. ASSUME NEW c \in Local, LocalDue(c) PROVE Configured'
  BY <1>28, UsesTyped, Defaults
     DEF TrapInv, TrapShapes, CpuShape, TrapTypeOK, Configured, Ready, Local,
         Causes, Exceptions, Isrs, Nothing, LocalDue, Csrs, Inits, Tables,
         Devices, Core, History
<1>29. ASSUME NEW p \in Pins, Edge(p) PROVE Configured'
  BY <1>29, UsesTyped, Defaults
     DEF TrapInv, TrapShapes, CpuShape, TrapTypeOK, Configured, Ready, Local,
         Causes, Exceptions, Isrs, Nothing, Edge, Latch, Csrs, Inits, Tables,
         Devices, Core, History
<1>30. ASSUME UNCHANGED trapVars PROVE Configured'
  BY <1>30, UsesTyped, Defaults
     DEF TrapInv, TrapShapes, CpuShape, TrapTypeOK, Configured, Ready, Local,
         Causes, Exceptions, Isrs, Nothing, trapVars, Csrs, Inits, Tables,
         Devices, Core, History
<1> QED
  BY <1>1, <1>2, <1>3, <1>4, <1>5, <1>6, <1>7, <1>8, <1>9, <1>10, <1>11, <1>12,
     <1>13, <1>14, <1>15, <1>16, <1>17, <1>18, <1>19, <1>20, <1>21, <1>22,
     <1>23, <1>24, <1>25, <1>26, <1>27, <1>28, <1>29, <1>30 DEF TrapStep

LEMMA InTrapKept ==
  ASSUME TrapInv, TrapStep
  PROVE  InTrap'
<1>s. /\ TrapTypeOK /\ CpuShape /\ PlicShape /\ GpioShape /\ DoingShape
      /\ pc \in Functions /\ mcause \in {"none"} \cup Causes \cup Exceptions
  BY DEF TrapInv, TrapShapes
<1>c. Configured /\ InTrap
  BY DEF TrapInv
<1>1. ASSUME CpuInit PROVE InTrap'
  BY <1>1, LinesTyped
     DEF TrapInv, TrapShapes, CpuShape, PlicShape, DoingShape, LineIsrs, Isrs,
         TrapTypeOK, InTrap, Configured, Local, Causes, Nothing, CpuInit, Main,
         WithCpu, CpuVector, Csrs, Inits, Tables, Devices, Core, History
<1>2. ASSUME ClintTraps PROVE InTrap'
  BY <1>2, LinesTyped
     DEF TrapInv, TrapShapes, CpuShape, PlicShape, DoingShape, LineIsrs, Isrs,
         TrapTypeOK, InTrap, Configured, Local, Causes, Nothing, ClintTraps,
         Main, Csrs, Inits, Tables, Devices, Core, History
<1>3. ASSUME LocalExternalInit PROVE InTrap'
  BY <1>3, LinesTyped
     DEF TrapInv, TrapShapes, CpuShape, PlicShape, DoingShape, LineIsrs, Isrs,
         TrapTypeOK, InTrap, Configured, Local, Causes, Nothing,
         LocalExternalInit, Main, Csrs, Inits, Tables, Devices, Core, History
<1>4. ASSUME PlicInit PROVE InTrap'
  BY <1>4, LinesTyped
     DEF TrapInv, TrapShapes, CpuShape, PlicShape, DoingShape, LineIsrs, Isrs,
         TrapTypeOK, InTrap, Configured, Local, Causes, Nothing, PlicInit,
         Main, WithMie, Enrolled, WithCpu, CpuVector, WithPlic, Csrs, Inits,
         Tables, Devices, Core, History
<1>5. ASSUME GlobalExternalInit PROVE InTrap'
  BY <1>5, LinesTyped
     DEF TrapInv, TrapShapes, CpuShape, PlicShape, DoingShape, LineIsrs, Isrs,
         TrapTypeOK, InTrap, Configured, Local, Causes, Nothing,
         GlobalExternalInit, Main, WithMie, Enrolled, WithCpu, CpuVector,
         WithPlic, Csrs, Inits, Tables, Devices, Core, History
<1>6. ASSUME SetHandler PROVE InTrap'
  BY <1>6, LinesTyped
     DEF TrapInv, TrapShapes, CpuShape, PlicShape, DoingShape, LineIsrs, Isrs,
         TrapTypeOK, InTrap, Configured, Local, Causes, Nothing, SetHandler,
         Csrs, Inits, Tables, Devices, Core, History
<1>7. ASSUME SetData PROVE InTrap'
  BY <1>7, LinesTyped
     DEF TrapInv, TrapShapes, CpuShape, PlicShape, DoingShape, LineIsrs, Isrs,
         TrapTypeOK, InTrap, Configured, Local, Causes, Nothing, SetData, Csrs,
         Inits, Tables, Devices, Core, History
<1>8. ASSUME NEW c \in Local, NEW b \in BOOLEAN,
             LocalRegister(c, b)
      PROVE  InTrap'
  BY <1>8, LinesTyped
     DEF TrapInv, TrapShapes, CpuShape, PlicShape, DoingShape, LineIsrs, Isrs,
         TrapTypeOK, InTrap, Configured, Local, Causes, Nothing, LocalRegister,
         Main, Csrs, Inits, Tables, Devices, Core, History
<1>9. ASSUME NEW c \in Local, NEW b \in BOOLEAN,
             LocalEnable(c, b)
      PROVE  InTrap'
  BY <1>9, LinesTyped
     DEF TrapInv, TrapShapes, CpuShape, PlicShape, DoingShape, LineIsrs, Isrs,
         TrapTypeOK, InTrap, Configured, Local, Causes, Nothing, LocalEnable,
         Main, WithMie, Csrs, Inits, Tables, Devices, Core, History
<1>10. ASSUME NEW b \in BOOLEAN, SoftwareIpi(b) PROVE InTrap'
  BY <1>10, LinesTyped
     DEF TrapInv, TrapShapes, CpuShape, PlicShape, DoingShape, LineIsrs, Isrs,
         TrapTypeOK, InTrap, Configured, Local, Causes, Nothing, SoftwareIpi,
         Main, WithIpi, Csrs, Inits, Tables, Devices, Core, History
<1>11. ASSUME NEW b \in BOOLEAN, GlobalEnable(b) PROVE InTrap'
  BY <1>11, LinesTyped
     DEF TrapInv, TrapShapes, CpuShape, PlicShape, DoingShape, LineIsrs, Isrs,
         TrapTypeOK, InTrap, Configured, Local, Causes, Nothing, GlobalEnable,
         Main, WriteMie, Csrs, Inits, Tables, Devices, Core, History
<1>12. ASSUME NEW e \in Exceptions, ExceptionRegister(e) PROVE InTrap'
  BY <1>12, LinesTyped
     DEF TrapInv, TrapShapes, CpuShape, PlicShape, DoingShape, LineIsrs, Isrs,
         TrapTypeOK, InTrap, Configured, Local, Causes, Nothing,
         ExceptionRegister, Main, Csrs, Inits, Tables, Devices, Core, History
<1>13. ASSUME NEW mode, SetVectorMode(mode) PROVE InTrap'
  BY <1>13, LinesTyped
     DEF TrapInv, TrapShapes, CpuShape, PlicShape, DoingShape, LineIsrs, Isrs,
         TrapTypeOK, InTrap, Configured, Local, Causes, Nothing, SetVectorMode,
         Main, VectorModes, Csrs, Inits, Tables, Devices, Core, History
<1>14. ASSUME NEW p \in Pins, NEW b \in BOOLEAN, ConfigInt(p, b) PROVE InTrap'
  BY <1>14, LinesTyped
     DEF TrapInv, TrapShapes, CpuShape, PlicShape, DoingShape, LineIsrs, Isrs,
         TrapTypeOK, InTrap, Configured, Local, Causes, Nothing, ConfigInt,
         Main, Latch, Csrs, Inits, Tables, Devices, Core, History
<1>15. ASSUME NEW p \in Pins, NEW b \in BOOLEAN,
             PlicRegister(p, b)
      PROVE  InTrap'
  BY <1>15, LinesTyped
     DEF TrapInv, TrapShapes, CpuShape, PlicShape, DoingShape, LineIsrs, Isrs,
         TrapTypeOK, InTrap, Configured, Local, Causes, Nothing, PlicRegister,
         Main, Accepted, Csrs, Inits, Tables, Devices, Core, History
<1>16. ASSUME NEW p \in Pins, NEW b \in BOOLEAN,
             PlicEnable(PinLine(p), b)
      PROVE  InTrap'
  BY <1>16, LinesTyped
     DEF TrapInv, TrapShapes, CpuShape, PlicShape, DoingShape, LineIsrs, Isrs,
         TrapTypeOK, InTrap, Configured, Local, Causes, Nothing, PlicEnable,
         Main, Csrs, Inits, Tables, Devices, Core, History
<1>17. ASSUME NEW p \in Pins, NEW n \in Nat,
             SetPriority(PinLine(p), n)
      PROVE  InTrap'
  BY <1>17, LinesTyped
     DEF TrapInv, TrapShapes, CpuShape, PlicShape, DoingShape, LineIsrs, Isrs,
         TrapTypeOK, InTrap, Configured, Local, Causes, Nothing, SetPriority,
         Main, Accepted, Csrs, Inits, Tables, Devices, Core, History
<1>18. ASSUME NEW n \in Nat, SetThreshold(n) PROVE InTrap'
  BY <1>18, LinesTyped
     DEF TrapInv, TrapShapes, CpuShape, PlicShape, DoingShape, LineIsrs, Isrs,
         TrapTypeOK, InTrap, Configured, Local, Causes, Nothing, SetThreshold,
         Main, Csrs, Inits, Tables, Devices, Core, History
<1>19. ASSUME Entry PROVE InTrap'
  BY <1>19, LinesTyped
     DEF TrapInv, TrapShapes, CpuShape, PlicShape, DoingShape, LineIsrs, Isrs,
         TrapTypeOK, InTrap, Configured, Local, Causes, Nothing, Entry,
         Vectored, Direct, Csrs, Inits, Tables, Devices, Core, History
<1>20. ASSUME Shutdown PROVE InTrap'
  BY <1>20, LinesTyped
     DEF TrapInv, TrapShapes, CpuShape, PlicShape, DoingShape, LineIsrs, Isrs,
         TrapTypeOK, InTrap, Configured, Local, Causes, Nothing, Shutdown,
         Csrs, Inits, Tables, Devices, Core, History
<1>21. ASSUME DefaultSw PROVE InTrap'
  <2>1. /\ pc = "default_sw" /\ pc' = intc.exc["break"]
        /\ plic' = plic /\ UNCHANGED <<mie, intc, mcause>>
    BY <1>21 DEF DefaultSw, Devices, Csrs, Tables
  <2>2. pc' \in {"default_exception", "user"}
    BY <1>s, <1>c, <2>1
       DEF Configured, InTrap, CpuShape, Exceptions
  <2> QED
    BY <1>c, <2>1, <2>2 DEF InTrap
<1>22. ASSUME DefaultTimer PROVE InTrap'
  BY <1>22, LinesTyped
     DEF TrapInv, TrapShapes, CpuShape, PlicShape, DoingShape, LineIsrs, Isrs,
         TrapTypeOK, InTrap, Configured, Local, Causes, Nothing, DefaultTimer,
         Mret, Csrs, Inits, Tables, Devices, Core, History
<1>23. ASSUME User PROVE InTrap'
  BY <1>23, LinesTyped
     DEF TrapInv, TrapShapes, CpuShape, PlicShape, DoingShape, LineIsrs, Isrs,
         TrapTypeOK, InTrap, Configured, Local, Causes, Nothing, User, Mret,
         Csrs, Inits, Tables, Devices, Core, History
<1>24. ASSUME Claim PROVE InTrap'
  BY <1>24, LinesTyped
     DEF TrapInv, TrapShapes, CpuShape, PlicShape, DoingShape, LineIsrs, Isrs,
         TrapTypeOK, InTrap, Configured, Local, Causes, Nothing, Claim, Csrs,
         Inits, Tables, Devices, Core, History
<1>25. ASSUME PinHandler PROVE InTrap'
  BY <1>25, LinesTyped
     DEF TrapInv, TrapShapes, CpuShape, PlicShape, DoingShape, LineIsrs, Isrs,
         TrapTypeOK, InTrap, Configured, Local, Causes, Nothing, PinHandler,
         Cleared, Csrs, Inits, Tables, Devices, Core, History
<1>26. ASSUME Complete PROVE InTrap'
  BY <1>26, LinesTyped
     DEF TrapInv, TrapShapes, CpuShape, PlicShape, DoingShape, LineIsrs, Isrs,
         TrapTypeOK, InTrap, Configured, Local, Causes, Nothing, Complete,
         Mret, Latch, Csrs, Inits, Tables, Devices, Core, History
<1>27. ASSUME NEW c \in mie \cup Exceptions, Trap(c) PROVE InTrap'
  BY <1>27, LinesTyped
     DEF TrapInv, TrapShapes, CpuShape, PlicShape, DoingShape, LineIsrs, Isrs,
         TrapTypeOK, InTrap, Configured, Local, Causes, Nothing, Trap, Csrs,
         Inits, Tables, Devices, Core, History
<1>28. ASSUME NEW c \in Local, LocalDue(c) PROVE InTrap'
  BY <1>28, LinesTyped
     DEF TrapInv, TrapShapes, CpuShape, PlicShape, DoingShape, LineIsrs, Isrs,
         TrapTypeOK, InTrap, Configured, Local, Causes, Nothing, LocalDue,
         Csrs, Inits, Tables, Devices, Core, History
<1>29. ASSUME NEW p \in Pins, Edge(p) PROVE InTrap'
  BY <1>29, LinesTyped
     DEF TrapInv, TrapShapes, CpuShape, PlicShape, DoingShape, LineIsrs, Isrs,
         TrapTypeOK, InTrap, Configured, Local, Causes, Nothing, Edge, Latch,
         Csrs, Inits, Tables, Devices, Core, History
<1>30. ASSUME UNCHANGED trapVars PROVE InTrap'
  BY <1>30, LinesTyped
     DEF TrapInv, TrapShapes, CpuShape, PlicShape, DoingShape, LineIsrs, Isrs,
         TrapTypeOK, InTrap, Configured, Local, Causes, Nothing, trapVars,
         Csrs, Inits, Tables, Devices, Core, History
<1> QED
  BY <1>1, <1>2, <1>3, <1>4, <1>5, <1>6, <1>7, <1>8, <1>9, <1>10, <1>11, <1>12,
     <1>13, <1>14, <1>15, <1>16, <1>17, <1>18, <1>19, <1>20, <1>21, <1>22,
     <1>23, <1>24, <1>25, <1>26, <1>27, <1>28, <1>29, <1>30 DEF TrapStep

LEMMA RegistrationsKept ==
  ASSUME TrapInv, TrapStep
  PROVE  Registrations'
<1>1. ASSUME CpuInit PROVE Registrations'
  BY <1>1, LinesTyped
     DEF TrapInv, TrapShapes, PlicShape, DoingShape, InTrap, Registrations,
         TrapTypeOK, Nothing, CpuInit, Main, WithCpu, CpuVector, Csrs, Inits,
         Tables, Devices, Core, History
<1>2. ASSUME ClintTraps PROVE Registrations'
  BY <1>2, LinesTyped
     DEF TrapInv, TrapShapes, PlicShape, DoingShape, InTrap, Registrations,
         TrapTypeOK, Nothing, ClintTraps, Main, Csrs, Inits, Tables, Devices,
         Core, History
<1>3. ASSUME LocalExternalInit PROVE Registrations'
  BY <1>3, LinesTyped
     DEF TrapInv, TrapShapes, PlicShape, DoingShape, InTrap, Registrations,
         TrapTypeOK, Nothing, LocalExternalInit, Main, Csrs, Inits, Tables,
         Devices, Core, History
<1>4. ASSUME PlicInit PROVE Registrations'
  BY <1>4, LinesTyped
     DEF TrapInv, TrapShapes, PlicShape, DoingShape, InTrap, Registrations,
         TrapTypeOK, Nothing, PlicInit, Main, WithMie, Enrolled, WithCpu,
         CpuVector, WithPlic, Csrs, Inits, Tables, Devices, Core, History
<1>5. ASSUME GlobalExternalInit PROVE Registrations'
  BY <1>5, LinesTyped
     DEF TrapInv, TrapShapes, PlicShape, DoingShape, InTrap, Registrations,
         TrapTypeOK, Nothing, GlobalExternalInit, Main, WithMie, Enrolled,
         WithCpu, CpuVector, WithPlic, Csrs, Inits, Tables, Devices, Core,
         History
<1>6. ASSUME SetHandler PROVE Registrations'
  BY <1>6, LinesTyped
     DEF TrapInv, TrapShapes, PlicShape, DoingShape, InTrap, Registrations,
         TrapTypeOK, Nothing, SetHandler, Csrs, Inits, Tables, Devices, Core,
         History
<1>7. ASSUME SetData PROVE Registrations'
  BY <1>7, LinesTyped
     DEF TrapInv, TrapShapes, PlicShape, DoingShape, InTrap, Registrations,
         TrapTypeOK, Nothing, SetData, Csrs, Inits, Tables, Devices, Core,
         History
<1>8. ASSUME NEW c \in Local, NEW b \in BOOLEAN,
             LocalRegister(c, b)
      PROVE  Registrations'
  BY <1>8, LinesTyped
     DEF TrapInv, TrapShapes, PlicShape, DoingShape, InTrap, Registrations,
         TrapTypeOK, Nothing, LocalRegister, Main, Csrs, Inits, Tables,
         Devices, Core, History
<1>9. ASSUME NEW c \in Local, NEW b \in BOOLEAN,
             LocalEnable(c, b)
      PROVE  Registrations'
  BY <1>9, LinesTyped
     DEF TrapInv, TrapShapes, PlicShape, DoingShape, InTrap, Registrations,
         TrapTypeOK, Nothing, LocalEnable, Main, WithMie, Csrs, Inits, Tables,
         Devices, Core, History
<1>10. ASSUME NEW b \in BOOLEAN, SoftwareIpi(b) PROVE Registrations'
  BY <1>10, LinesTyped
     DEF TrapInv, TrapShapes, PlicShape, DoingShape, InTrap, Registrations,
         TrapTypeOK, Nothing, SoftwareIpi, Main, WithIpi, Csrs, Inits, Tables,
         Devices, Core, History
<1>11. ASSUME NEW b \in BOOLEAN, GlobalEnable(b) PROVE Registrations'
  BY <1>11, LinesTyped
     DEF TrapInv, TrapShapes, PlicShape, DoingShape, InTrap, Registrations,
         TrapTypeOK, Nothing, GlobalEnable, Main, WriteMie, Csrs, Inits,
         Tables, Devices, Core, History
<1>12. ASSUME NEW e \in Exceptions, ExceptionRegister(e) PROVE Registrations'
  BY <1>12, LinesTyped
     DEF TrapInv, TrapShapes, PlicShape, DoingShape, InTrap, Registrations,
         TrapTypeOK, Nothing, ExceptionRegister, Main, Csrs, Inits, Tables,
         Devices, Core, History
<1>13. ASSUME NEW mode, SetVectorMode(mode) PROVE Registrations'
  BY <1>13, LinesTyped
     DEF TrapInv, TrapShapes, PlicShape, DoingShape, InTrap, Registrations,
         TrapTypeOK, Nothing, SetVectorMode, Main, VectorModes, Csrs, Inits,
         Tables, Devices, Core, History
<1>14. ASSUME NEW p \in Pins, NEW b \in BOOLEAN,
             ConfigInt(p, b)
      PROVE  Registrations'
  BY <1>14, LinesTyped
     DEF TrapInv, TrapShapes, PlicShape, DoingShape, InTrap, Registrations,
         TrapTypeOK, Nothing, ConfigInt, Main, Latch, Csrs, Inits, Tables,
         Devices, Core, History
<1>15. ASSUME NEW p \in Pins, NEW b \in BOOLEAN,
             PlicRegister(p, b)
      PROVE  Registrations'
  BY <1>15, LinesTyped
     DEF TrapInv, TrapShapes, PlicShape, DoingShape, InTrap, Registrations,
         TrapTypeOK, Nothing, PlicRegister, Main, Accepted, Csrs, Inits,
         Tables, Devices, Core, History
<1>16. ASSUME NEW p \in Pins, NEW b \in BOOLEAN,
             PlicEnable(PinLine(p), b)
      PROVE  Registrations'
  BY <1>16, LinesTyped
     DEF TrapInv, TrapShapes, PlicShape, DoingShape, InTrap, Registrations,
         TrapTypeOK, Nothing, PlicEnable, Main, Csrs, Inits, Tables, Devices,
         Core, History
<1>17. ASSUME NEW p \in Pins, NEW n \in Nat,
             SetPriority(PinLine(p), n)
      PROVE  Registrations'
  BY <1>17, LinesTyped
     DEF TrapInv, TrapShapes, PlicShape, DoingShape, InTrap, Registrations,
         TrapTypeOK, Nothing, SetPriority, Main, Accepted, Csrs, Inits, Tables,
         Devices, Core, History
<1>18. ASSUME NEW n \in Nat, SetThreshold(n) PROVE Registrations'
  BY <1>18, LinesTyped
     DEF TrapInv, TrapShapes, PlicShape, DoingShape, InTrap, Registrations,
         TrapTypeOK, Nothing, SetThreshold, Main, Csrs, Inits, Tables, Devices,
         Core, History
<1>19. ASSUME Entry PROVE Registrations'
  BY <1>19, LinesTyped
     DEF TrapInv, TrapShapes, PlicShape, DoingShape, InTrap, Registrations,
         TrapTypeOK, Nothing, Entry, Vectored, Direct, Csrs, Inits, Tables,
         Devices, Core, History
<1>20. ASSUME Shutdown PROVE Registrations'
  BY <1>20, LinesTyped
     DEF TrapInv, TrapShapes, PlicShape, DoingShape, InTrap, Registrations,
         TrapTypeOK, Nothing, Shutdown, Csrs, Inits, Tables, Devices, Core,
         History
<1>21. ASSUME DefaultSw PROVE Registrations'
  BY <1>21, LinesTyped
     DEF TrapInv, TrapShapes, PlicShape, DoingShape, InTrap, Registrations,
         TrapTypeOK, Nothing, DefaultSw, Csrs, Inits, Tables, Devices, Core,
         History
<1>22. ASSUME DefaultTimer PROVE Registrations'
  BY <1>22, LinesTyped
     DEF TrapInv, TrapShapes, PlicShape, DoingShape, InTrap, Registrations,
         TrapTypeOK, Nothing, DefaultTimer, Mret, Csrs, Inits, Tables, Devices,
         Core, History
<1>23. ASSUME User PROVE Registrations'
  BY <1>23, LinesTyped
     DEF TrapInv, TrapShapes, PlicShape, DoingShape, InTrap, Registrations,
         TrapTypeOK, Nothing, User, Mret, Csrs, Inits, Tables, Devices, Core,
         History
<1>24. ASSUME Claim PROVE Registrations'
  BY <1>24, LinesTyped
     DEF TrapInv, TrapShapes, PlicShape, DoingShape, InTrap, Registrations,
         TrapTypeOK, Nothing, Claim, Csrs, Inits, Tables, Devices, Core,
         History
<1>25. ASSUME PinHandler PROVE Registrations'
  BY <1>25, LinesTyped
     DEF TrapInv, TrapShapes, PlicShape, DoingShape, InTrap, Registrations,
         TrapTypeOK, Nothing, PinHandler, Cleared, Csrs, Inits, Tables,
         Devices, Core, History
<1>26. ASSUME Complete PROVE Registrations'
  BY <1>26, LinesTyped
     DEF TrapInv, TrapShapes, PlicShape, DoingShape, InTrap, Registrations,
         TrapTypeOK, Nothing, Complete, Mret, Latch, Csrs, Inits, Tables,
         Devices, Core, History
<1>27. ASSUME NEW c \in mie \cup Exceptions, Trap(c) PROVE Registrations'
  BY <1>27, LinesTyped
     DEF TrapInv, TrapShapes, PlicShape, DoingShape, InTrap, Registrations,
         TrapTypeOK, Nothing, Trap, Csrs, Inits, Tables, Devices, Core, History
<1>28. ASSUME NEW c \in Local, LocalDue(c) PROVE Registrations'
  BY <1>28, LinesTyped
     DEF TrapInv, TrapShapes, PlicShape, DoingShape, InTrap, Registrations,
         TrapTypeOK, Nothing, LocalDue, Csrs, Inits, Tables, Devices, Core,
         History
<1>29. ASSUME NEW p \in Pins, Edge(p) PROVE Registrations'
  BY <1>29, LinesTyped
     DEF TrapInv, TrapShapes, PlicShape, DoingShape, InTrap, Registrations,
         TrapTypeOK, Nothing, Edge, Latch, Csrs, Inits, Tables, Devices, Core,
         History
<1>30. ASSUME UNCHANGED trapVars PROVE Registrations'
  BY <1>30, LinesTyped
     DEF TrapInv, TrapShapes, PlicShape, DoingShape, InTrap, Registrations,
         TrapTypeOK, Nothing, trapVars, Csrs, Inits, Tables, Devices, Core,
         History
<1> QED
  BY <1>1, <1>2, <1>3, <1>4, <1>5, <1>6, <1>7, <1>8, <1>9, <1>10, <1>11, <1>12,
     <1>13, <1>14, <1>15, <1>16, <1>17, <1>18, <1>19, <1>20, <1>21, <1>22,
     <1>23, <1>24, <1>25, <1>26, <1>27, <1>28, <1>29, <1>30 DEF TrapStep

LEMMA TrapInvHolds == TrapSpec => []TrapInv
<1>1. TrapInv /\ [TrapNext]_trapVars => TrapInv'
  <2> SUFFICES ASSUME TrapInv, [TrapNext]_trapVars PROVE TrapInv'
    OBVIOUS
  <2>1. TrapStep
    BY TrapSteps DEF TrapInv
  <2> QED
    BY <2>1, TrapShapesKept, ConfiguredKept, InTrapKept, RegistrationsKept
       DEF TrapInv
<1> QED
  BY TrapInitInv, <1>1, PTL DEF TrapSpec

\* The variables keep their types, whatever the program configures.
THEOREM TrapTypes == TrapSpec => []TrapTypeOK
<1>1. TrapInv => TrapTypeOK
  BY DEF TrapInv, TrapShapes
<1> QED
  BY <1>1, TrapInvHolds, PTL

\* Whatever main is in the middle of configuring when the trap is taken, the
\* dispatch of riscv_cpu.c and riscv_plic0.c calls no null entry, completes
\* what it claimed, and calls a registered pin's own handler.
THEOREM DispatchSound == TrapSpec => []DispatchIsSound
<1>1. TrapInv => DispatchIsSound
  BY LinesTyped
     DEF TrapInv, TrapShapes, Functions, InTrap, Registrations,
         DispatchIsSound, TrapTypeOK
<1> QED
  BY <1>1, TrapInvHolds, PTL

LEMMA OwedKept ==
  ASSUME OwnLines, TrapInv, OwedInv, TrapStep
  PROVE  OwedInv'
<1>s. PlicShape /\ GpioShape
  BY DEF TrapInv, TrapShapes
<1>c. InTrap /\ registered \subseteq Pins /\ owed \subseteq Pins
  BY DEF TrapInv, TrapShapes, TrapTypeOK
<1>1. ASSUME CpuInit PROVE OwedInv'
  BY <1>1, LinesTyped
     DEF TrapInv, TrapShapes, PlicShape, GpioShape, DoingShape, OwnLines,
         OwedInv, NoEdgeIsLost, InTrap, Registrations, TrapTypeOK, Nothing,
         CpuInit, Main, WithCpu, CpuVector, Csrs, Inits, Tables, Devices, Core,
         History
<1>2. ASSUME ClintTraps PROVE OwedInv'
  BY <1>2, LinesTyped
     DEF TrapInv, TrapShapes, PlicShape, GpioShape, DoingShape, OwnLines,
         OwedInv, NoEdgeIsLost, InTrap, Registrations, TrapTypeOK, Nothing,
         ClintTraps, Main, Csrs, Inits, Tables, Devices, Core, History
<1>3. ASSUME LocalExternalInit PROVE OwedInv'
  BY <1>3, LinesTyped
     DEF TrapInv, TrapShapes, PlicShape, GpioShape, DoingShape, OwnLines,
         OwedInv, NoEdgeIsLost, InTrap, Registrations, TrapTypeOK, Nothing,
         LocalExternalInit, Main, Csrs, Inits, Tables, Devices, Core, History
<1>4. ASSUME PlicInit PROVE OwedInv'
  BY <1>4, LinesTyped
     DEF TrapInv, TrapShapes, PlicShape, GpioShape, DoingShape, OwnLines,
         OwedInv, NoEdgeIsLost, InTrap, Registrations, TrapTypeOK, Nothing,
         PlicInit, Main, WithMie, Enrolled, WithCpu, CpuVector, WithPlic, Csrs,
         Inits, Tables, Devices, Core, History
<1>5. ASSUME GlobalExternalInit PROVE OwedInv'
  BY <1>5, LinesTyped
     DEF TrapInv, TrapShapes, PlicShape, GpioShape, DoingShape, OwnLines,
         OwedInv, NoEdgeIsLost, InTrap, Registrations, TrapTypeOK, Nothing,
         GlobalExternalInit, Main, WithMie, Enrolled, WithCpu, CpuVector,
         WithPlic, Csrs, Inits, Tables, Devices, Core, History
<1>6. ASSUME SetHandler PROVE OwedInv'
  BY <1>6, LinesTyped
     DEF TrapInv, TrapShapes, PlicShape, GpioShape, DoingShape, OwnLines,
         OwedInv, NoEdgeIsLost, InTrap, Registrations, TrapTypeOK, Nothing,
         SetHandler, Csrs, Inits, Tables, Devices, Core, History
<1>7. ASSUME SetData PROVE OwedInv'
  BY <1>7, LinesTyped
     DEF TrapInv, TrapShapes, PlicShape, GpioShape, DoingShape, OwnLines,
         OwedInv, NoEdgeIsLost, InTrap, Registrations, TrapTypeOK, Nothing,
         SetData, Csrs, Inits, Tables, Devices, Core, History
<1>8. ASSUME NEW c \in Local, NEW b \in BOOLEAN,
             LocalRegister(c, b)
      PROVE  OwedInv'
  BY <1>8, LinesTyped
     DEF TrapInv, TrapShapes, PlicShape, GpioShape, DoingShape, OwnLines,
         OwedInv, NoEdgeIsLost, InTrap, Registrations, TrapTypeOK, Nothing,
         LocalRegister, Main, Csrs, Inits, Tables, Devices, Core, History
<1>9. ASSUME NEW c \in Local, NEW b \in BOOLEAN,
             LocalEnable(c, b)
      PROVE  OwedInv'
  BY <1>9, LinesTyped
     DEF TrapInv, TrapShapes, PlicShape, GpioShape, DoingShape, OwnLines,
         OwedInv, NoEdgeIsLost, InTrap, Registrations, TrapTypeOK, Nothing,
         LocalEnable, Main, WithMie, Csrs, Inits, Tables, Devices, Core,
         History
<1>10. ASSUME NEW b \in BOOLEAN, SoftwareIpi(b) PROVE OwedInv'
  BY <1>10, LinesTyped
     DEF TrapInv, TrapShapes, PlicShape, GpioShape, DoingShape, OwnLines,
         OwedInv, NoEdgeIsLost, InTrap, Registrations, TrapTypeOK, Nothing,
         SoftwareIpi, Main, WithIpi, Csrs, Inits, Tables, Devices, Core,
         History
<1>11. ASSUME NEW b \in BOOLEAN, GlobalEnable(b) PROVE OwedInv'
  BY <1>11, LinesTyped
     DEF TrapInv, TrapShapes, PlicShape, GpioShape, DoingShape, OwnLines,
         OwedInv, NoEdgeIsLost, InTrap, Registrations, TrapTypeOK, Nothing,
         GlobalEnable, Main, WriteMie, Csrs, Inits, Tables, Devices, Core,
         History
<1>12. ASSUME NEW e \in Exceptions, ExceptionRegister(e) PROVE OwedInv'
  BY <1>12, LinesTyped
     DEF TrapInv, TrapShapes, PlicShape, GpioShape, DoingShape, OwnLines,
         OwedInv, NoEdgeIsLost, InTrap, Registrations, TrapTypeOK, Nothing,
         ExceptionRegister, Main, Csrs, Inits, Tables, Devices, Core, History
<1>13. ASSUME NEW mode, SetVectorMode(mode) PROVE OwedInv'
  BY <1>13, LinesTyped
     DEF TrapInv, TrapShapes, PlicShape, GpioShape, DoingShape, OwnLines,
         OwedInv, NoEdgeIsLost, InTrap, Registrations, TrapTypeOK, Nothing,
         SetVectorMode, Main, VectorModes, Csrs, Inits, Tables, Devices, Core,
         History
<1>14. ASSUME NEW p \in Pins, NEW b \in BOOLEAN,
             ConfigInt(p, b)
      PROVE  OwedInv'
  BY <1>14, LinesTyped
     DEF TrapInv, TrapShapes, PlicShape, GpioShape, DoingShape, OwnLines,
         OwedInv, NoEdgeIsLost, InTrap, Registrations, TrapTypeOK, Nothing,
         ConfigInt, Main, Latch, Csrs, Inits, Tables, Devices, Core, History
<1>15. ASSUME NEW p \in Pins, NEW b \in BOOLEAN,
             PlicRegister(p, b)
      PROVE  OwedInv'
  BY <1>15, LinesTyped
     DEF TrapInv, TrapShapes, PlicShape, GpioShape, DoingShape, OwnLines,
         OwedInv, NoEdgeIsLost, InTrap, Registrations, TrapTypeOK, Nothing,
         PlicRegister, Main, Accepted, Csrs, Inits, Tables, Devices, Core,
         History
<1>16. ASSUME NEW p \in Pins, NEW b \in BOOLEAN,
             PlicEnable(PinLine(p), b)
      PROVE  OwedInv'
  BY <1>16, LinesTyped
     DEF TrapInv, TrapShapes, PlicShape, GpioShape, DoingShape, OwnLines,
         OwedInv, NoEdgeIsLost, InTrap, Registrations, TrapTypeOK, Nothing,
         PlicEnable, Main, Csrs, Inits, Tables, Devices, Core, History
<1>17. ASSUME NEW p \in Pins, NEW n \in Nat,
             SetPriority(PinLine(p), n)
      PROVE  OwedInv'
  BY <1>17, LinesTyped
     DEF TrapInv, TrapShapes, PlicShape, GpioShape, DoingShape, OwnLines,
         OwedInv, NoEdgeIsLost, InTrap, Registrations, TrapTypeOK, Nothing,
         SetPriority, Main, Accepted, Csrs, Inits, Tables, Devices, Core,
         History
<1>18. ASSUME NEW n \in Nat, SetThreshold(n) PROVE OwedInv'
  BY <1>18, LinesTyped
     DEF TrapInv, TrapShapes, PlicShape, GpioShape, DoingShape, OwnLines,
         OwedInv, NoEdgeIsLost, InTrap, Registrations, TrapTypeOK, Nothing,
         SetThreshold, Main, Csrs, Inits, Tables, Devices, Core, History
<1>19. ASSUME Entry PROVE OwedInv'
  BY <1>19, LinesTyped
     DEF TrapInv, TrapShapes, PlicShape, GpioShape, DoingShape, OwnLines,
         OwedInv, NoEdgeIsLost, InTrap, Registrations, TrapTypeOK, Nothing,
         Entry, Vectored, Direct, Csrs, Inits, Tables, Devices, Core, History
<1>20. ASSUME Shutdown PROVE OwedInv'
  BY <1>20, LinesTyped
     DEF TrapInv, TrapShapes, PlicShape, GpioShape, DoingShape, OwnLines,
         OwedInv, NoEdgeIsLost, InTrap, Registrations, TrapTypeOK, Nothing,
         Shutdown, Csrs, Inits, Tables, Devices, Core, History
<1>21. ASSUME DefaultSw PROVE OwedInv'
  BY <1>21, LinesTyped
     DEF TrapInv, TrapShapes, PlicShape, GpioShape, DoingShape, OwnLines,
         OwedInv, NoEdgeIsLost, InTrap, Registrations, TrapTypeOK, Nothing,
         DefaultSw, Csrs, Inits, Tables, Devices, Core, History
<1>22. ASSUME DefaultTimer PROVE OwedInv'
  BY <1>22, LinesTyped
     DEF TrapInv, TrapShapes, PlicShape, GpioShape, DoingShape, OwnLines,
         OwedInv, NoEdgeIsLost, InTrap, Registrations, TrapTypeOK, Nothing,
         DefaultTimer, Mret, Csrs, Inits, Tables, Devices, Core, History
<1>23. ASSUME User PROVE OwedInv'
  BY <1>23, LinesTyped
     DEF TrapInv, TrapShapes, PlicShape, GpioShape, DoingShape, OwnLines,
         OwedInv, NoEdgeIsLost, InTrap, Registrations, TrapTypeOK, Nothing,
         User, Mret, Csrs, Inits, Tables, Devices, Core, History
<1>24. ASSUME Claim PROVE OwedInv'
  <2>1. /\ pc = "plic" /\ UNCHANGED <<gpio, owed>>
    BY <1>24 DEF Claim, History
  <2>2. PICK l \in Used \cup {0} :
          /\ plic' = [plic EXCEPT !.claimed = l, !.pending = @ \ {l}]
          /\ pc' = IF l # 0 /\ plic.table[l] # "null" THEN plic.table[l]
                   ELSE "complete"
    BY <1>24 DEF Claim
  <2>3. /\ plic'.claimed = l /\ plic'.pending = plic.pending \ {l}
        /\ plic'.table = plic.table /\ plic'.owner = plic.owner
        /\ plic'.init_done = plic.init_done
    BY <1>s, <2>2 DEF PlicShape
  <2>4. ASSUME NEW p \in owed
        PROVE  /\ PinLine(p) \in plic.pending
               /\ plic.table[PinLine(p)] \in {"pin", "default_line"}
    <3>1. PinLine(p) \in Used /\ PinLine(p) # 0 /\ plic.claimed = 0
      BY <1>c, <2>1, LinesTyped DEF InTrap
    <3>2. PinLine(p) \in plic.pending
      BY <3>1 DEF OwedInv, NoEdgeIsLost
    <3>3. plic.table[PinLine(p)] \in LineIsrs \ {"null"}
      BY <1>s, <3>1 DEF OwedInv, PlicShape
    <3> QED
      BY <3>2, <3>3 DEF LineIsrs
  <2>5. NoEdgeIsLost'
    BY <1>c, <2>1, <2>2, <2>3, <2>4, LinesTyped DEF NoEdgeIsLost
  <2> QED
    BY <2>1, <2>3, <2>5 DEF OwedInv
<1>25. ASSUME PinHandler PROVE OwedInv'
  BY <1>25, LinesTyped
     DEF TrapInv, TrapShapes, PlicShape, GpioShape, DoingShape, OwnLines,
         OwedInv, NoEdgeIsLost, InTrap, Registrations, TrapTypeOK, Nothing,
         PinHandler, Cleared, Csrs, Inits, Tables, Devices, Core, History
<1>26. ASSUME Complete PROVE OwedInv'
  <2>1. /\ pc = "complete" /\ UNCHANGED <<gpio, owed>>
        /\ plic' = [plic EXCEPT !.claimed = 0,
                      !.pending = @ \cup ((High(gpio) \cap Used) \ {0})]
    BY <1>26, <1>s DEF Complete, History, Latch, PlicShape
  <2>2. /\ plic'.pending = plic.pending \cup ((High(gpio) \cap Used) \ {0})
        /\ plic'.table = plic.table /\ plic'.owner = plic.owner
        /\ plic'.init_done = plic.init_done
    BY <1>s, <2>1 DEF PlicShape
  <2>3. ASSUME NEW p \in owed PROVE PinLine(p) \in plic'.pending
    <3>1. PinLine(p) \in plic.pending \/ p \in gpio.rise_ie \cap gpio.rise_ip
      BY <2>1 DEF OwedInv, NoEdgeIsLost
    <3>2. PinLine(p) \in Used \ {0}
      BY <1>c, LinesTyped
    <3> QED
      BY <2>2, <3>1, <3>2 DEF High
  <2> QED
    BY <2>1, <2>2, <2>3 DEF OwedInv, NoEdgeIsLost
<1>27. ASSUME NEW c \in mie \cup Exceptions, Trap(c) PROVE OwedInv'
  BY <1>27, LinesTyped
     DEF TrapInv, TrapShapes, PlicShape, GpioShape, DoingShape, OwnLines,
         OwedInv, NoEdgeIsLost, InTrap, Registrations, TrapTypeOK, Nothing,
         Trap, Csrs, Inits, Tables, Devices, Core, History
<1>28. ASSUME NEW c \in Local, LocalDue(c) PROVE OwedInv'
  BY <1>28, LinesTyped
     DEF TrapInv, TrapShapes, PlicShape, GpioShape, DoingShape, OwnLines,
         OwedInv, NoEdgeIsLost, InTrap, Registrations, TrapTypeOK, Nothing,
         LocalDue, Csrs, Inits, Tables, Devices, Core, History
<1>29. ASSUME NEW p \in Pins, Edge(p) PROVE OwedInv'
  <2>1. /\ gpio' = [gpio EXCEPT !.rise_ip = @ \cup {p}]
        /\ owed' = IF p \in gpio.rise_ie \cap registered THEN owed \cup {p}
                   ELSE owed
        /\ pc' = pc
    BY <1>29 DEF Edge, Core
  <2>2. gpio'.rise_ie = gpio.rise_ie /\ gpio'.rise_ip = gpio.rise_ip \cup {p}
    BY <1>s, <2>1 DEF GpioShape
  <2>3. /\ plic'.pending =
             plic.pending \cup ((High(gpio') \cap Used) \ {plic.claimed})
        /\ plic'.claimed = plic.claimed
        /\ plic'.table = plic.table /\ plic'.owner = plic.owner
        /\ plic'.init_done = plic.init_done
    BY <1>29, <1>s DEF Edge, Latch, PlicShape
  <2>4. ASSUME p \in gpio.rise_ie \cap registered
        PROVE  /\ plic.init_done /\ plic.table[PinLine(p)] = "pin"
               /\ plic.owner[PinLine(p)] = p
    BY <2>4 DEF TrapInv, Registrations
  <2>5. p \in gpio.rise_ie =>
          PinLine(p) \in plic'.pending \/ plic.claimed = PinLine(p)
    BY <2>2, <2>3, LinesTyped DEF High
  <2>6. NoEdgeIsLost'
    BY <2>1, <2>2, <2>3, <2>5 DEF OwedInv, NoEdgeIsLost
  <2> QED
    BY <2>1, <2>2, <2>3, <2>4, <2>6 DEF OwedInv
<1>30. ASSUME UNCHANGED trapVars PROVE OwedInv'
  BY <1>30, LinesTyped
     DEF TrapInv, TrapShapes, PlicShape, GpioShape, DoingShape, OwnLines,
         OwedInv, NoEdgeIsLost, InTrap, Registrations, TrapTypeOK, Nothing,
         trapVars, Csrs, Inits, Tables, Devices, Core, History
<1> QED
  BY <1>1, <1>2, <1>3, <1>4, <1>5, <1>6, <1>7, <1>8, <1>9, <1>10, <1>11, <1>12,
     <1>13, <1>14, <1>15, <1>16, <1>17, <1>18, <1>19, <1>20, <1>21, <1>22,
     <1>23, <1>24, <1>25, <1>26, <1>27, <1>28, <1>29, <1>30 DEF TrapStep

\* Though the handler of one pin clears the latches of all (sifive_gpio0.c,
\* clear_int), no edge of a registered and enabled pin is lost, for any number
\* of pins that have a line each.
THEOREM EdgesAreKept == OwnLines /\ TrapSpec => []NoEdgeIsLost
<1>1. OwnLines /\ TrapInv /\ OwedInv /\ [TrapNext]_trapVars => OwedInv'
  <2> SUFFICES ASSUME OwnLines, TrapInv, OwedInv, [TrapNext]_trapVars
               PROVE  OwedInv'
    OBVIOUS
  <2>1. TrapStep
    BY TrapSteps DEF TrapInv
  <2> QED
    BY <2>1, OwedKept
<1>2. OwedInv => NoEdgeIsLost
  BY DEF OwedInv
<1>3. CASE OwnLines
  <2>1. TrapInv /\ OwedInv /\ [TrapNext]_trapVars => OwedInv'
    BY <1>1, <1>3
  <2>2. TrapSpec => []OwedInv
    BY TrapInitInv, TrapInvHolds, <2>1, PTL DEF TrapSpec
  <2> QED
    BY <1>2, <2>2, PTL
<1> QED
  BY <1>3
==============================================================================
