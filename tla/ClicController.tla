---------------------------- MODULE ClicController ----------------------------
(***************************************************************************)
(* The core-local interrupt controller.  Each interrupt has one control    *)
(* byte, which cliccfg divides into a mode, a level and a priority field;  *)
(* its lowest implemented bit also says whether the interrupt is vectored. *)
(* A byte is the set of the numbers of its bits.                           *)
(***************************************************************************)
EXTENDS Integers

CONSTANTS
  ByteBits,      \* METAL_CLIC_MAX_NLBITS, 8
  NumIntBits,    \* num_intbits: the implemented bits of a control byte
  MaxLevels,     \* max_levels of the device tree
  NumSub,        \* num_subinterrupts
  Csw,           \* METAL_INTERRUPT_ID_CSW: lower ids are the core's own
  Levels,        \* levels and priorities callers set, as sets of bits
  MaxCalls       \* calls and signals in a run

ASSUME ClicAssumption ==
  /\ {ByteBits, NumIntBits, NumSub, Csw} \subseteq Nat \ {0}
  /\ {MaxLevels, MaxCalls} \subseteq Nat /\ NumIntBits <= ByteBits
  /\ Levels \subseteq SUBSET (0 .. ByteBits - 1)

Ids == 0 .. NumSub - 1
Bits == 0 .. ByteBits - 1
Low(k) == {b \in Bits : b < k}
Privileges == 0 .. 2            \* nmbits

VARIABLES
  clic_init,     \* clic->init_done
  nmbits, nlbits, nvbit,        \* cliccfg
  clic_mtvec,    \* mode bits of mtvec: "direct", "clic" or "clic_vectored"
  clicintctl,    \* the implemented bits of the control bytes
  clicintie, clicintip,         \* the interrupts enabled, and pending
  handler,       \* metal_exint_table[id].handler: "null", "user" or "default"
  mtvt,          \* metal_mtvt_table[id], "clic" too
  own,           \* the core's own interrupts with a handler of a user
  took,          \* the last interrupt taken and what ran for it
  levelSet,      \* history: the level last set, Unset after init and cliccfg
  flagSet,       \* history: what the last call that writes the vector bit said
  clicCalls      \* calls and signals so far

cliccfg == <<nmbits, nlbits, nvbit, clic_mtvec>>
tables == <<handler, mtvt, own>>
clicVars == <<clic_init, cliccfg, clicintctl, clicintie, clicintip, tables,
              took, levelSet, flagSet, clicCalls>>

Counted == clicCalls < MaxCalls /\ clicCalls' = clicCalls + 1

Unset == {-1}
Nobody == [id |-> -1, by |-> "null"]

ClicInit ==
  /\ clic_init = FALSE /\ nmbits = 0 /\ nlbits = 0 /\ nvbit = 0
  /\ clic_mtvec = "direct"
  /\ clicintctl = [d \in Ids |-> {}] /\ clicintie = {} /\ clicintip = {}
  /\ handler = [d \in Ids |-> "null"] /\ mtvt = [d \in Ids |-> "null"]
  /\ own = {} /\ took = Nobody /\ levelSet = [d \in Ids |-> Unset]
  /\ flagSet = [d \in Ids |-> "none"] /\ clicCalls = 0

\* The types of the variables.
ClicTypeOK ==
  /\ clic_init \in BOOLEAN /\ nmbits \in Privileges /\ nlbits \in 0 .. ByteBits
  /\ nvbit \in {0, 1} /\ clic_mtvec \in {"direct", "clic", "clic_vectored"}
  /\ clicintctl \in [Ids -> SUBSET (Bits \ Low(ByteBits - NumIntBits))]
  /\ clicintie \subseteq Ids /\ clicintip \subseteq Ids
  /\ handler \in [Ids -> {"null", "user", "default"}]
  /\ mtvt \in [Ids -> {"null", "user", "default", "clic"}]
  /\ own \subseteq Ids
  /\ levelSet \in [Ids -> (SUBSET Bits) \cup {Unset}]
  /\ flagSet \in [Ids -> {"none", "yes", "no"}] /\ clicCalls \in 0 .. MaxCalls

-----------------------------------------------------------------------------
(* The fields of a control byte.  Bits that are not implemented read as 1.  *)

Implemented == Bits \ Low(ByteBits - NumIntBits)
Control(d) == clicintctl[d] \cup Low(ByteBits - NumIntBits)
VectorBit == ByteBits - NumIntBits

LevelBits(nm, nl) == Low(ByteBits - nm) \ Low(ByteBits - nm - nl)

\* Mutant: the mask of the priority takes the bits of the level along.
PriorityBits_WithLevel(nm, nl) ==
  Low(ByteBits - nm) \ Low(ByteBits - NumIntBits)

PriorityBits(nm, nl) ==
  Low(ByteBits - nm - nl) \ Low(ByteBits - NumIntBits)

\* Replaces one field of a byte.
Field(byte, mask, v) == ((byte \ mask) \cup (v \cap mask)) \cap Implemented

LevelWidth ==
  IF nmbits + nlbits >= NumIntBits
    THEN IF NumIntBits >= nmbits THEN NumIntBits - nmbits ELSE 0
    ELSE nlbits

\* get_preemptive_level: the field moved to the top, the rest ones.
GetLevel(d) ==
  LET field == LevelBits(nmbits, LevelWidth)
  IN IF field = {} THEN Bits
     ELSE {b + nmbits : b \in Control(d) \cap field}
          \cup Low(ByteBits - LevelWidth)

IsVectored(d) == VectorBit \in Control(d)

VectorMode ==
  CASE clic_mtvec = "clic" -> IF nvbit = 1 THEN "selective_vector"
                                           ELSE "selective_nonvector"
    [] clic_mtvec = "clic_vectored" -> "hardware_vector"
    [] OTHER -> "direct"

-----------------------------------------------------------------------------
\* The first init: the parent, the mode, cliccfg, every level at its greatest,
\* every interrupt disabled; of the tables all but entry 0 are cleared.
InitController ==
  /\ ~clic_init /\ clic_init' = TRUE /\ Counted
  /\ clic_mtvec' = "clic" /\ nmbits' = 0 /\ nvbit' = 0
  /\ nlbits' = IF MaxLevels > ByteBits THEN ByteBits ELSE MaxLevels
  /\ clicintie' = {}
  /\ clicintctl' = [d \in Ids |-> Field(clicintctl[d], LevelBits(0, nlbits'),
                                        Low(nlbits'))]
  /\ mtvt' = [d \in Ids |-> IF d = 0 THEN "clic" ELSE "null"]
  /\ handler' = [d \in Ids |-> IF d = 0 THEN handler[0] ELSE "null"]
  /\ own' = {} /\ levelSet' = [d \in Ids |-> Unset]
  /\ flagSet' = [d \in Ids |-> "none"]
  /\ UNCHANGED <<clicintip, took>>

SetPrivilege ==
  /\ Counted
  /\ nmbits' \in Privileges
  /\ levelSet' = [d \in Ids |-> Unset]
  /\ UNCHANGED <<clic_init, nlbits, nvbit, clic_mtvec, clicintctl, clicintie,
                 clicintip, tables, took, flagSet>>

\* set_threshold: it sets the number of level bits.
ClicSetThreshold ==
  /\ Counted
  /\ nlbits' \in 0 .. ByteBits
  /\ levelSet' = [d \in Ids |-> Unset]
  /\ UNCHANGED <<clic_init, nmbits, nvbit, clic_mtvec, clicintctl, clicintie,
                 clicintip, tables, took, flagSet>>

ClicSetMode ==
  /\ Counted
  /\ \E mode \in {"selective_nonvector", "selective_vector",
                  "hardware_vector"} :
       /\ clic_mtvec' = IF mode = "hardware_vector" THEN "clic_vectored"
                                                    ELSE "clic"
       /\ nvbit' = IF mode = "selective_nonvector" THEN 0 ELSE 1
  /\ UNCHANGED <<clic_init, nmbits, nlbits, clicintctl, clicintie, clicintip,
                 tables, took, levelSet, flagSet>>

WriteControl(d, byte) == clicintctl' = [clicintctl EXCEPT ![d] = byte]

OnlyControls ==
  /\ Counted
  /\ UNCHANGED <<clic_init, cliccfg, clicintie, clicintip, tables, took>>

\* set_priority does nothing when no bit is left for it.
WithPriority(byte, p) ==
  IF nmbits + nlbits <= NumIntBits
    THEN Field(byte, PriorityBits(nmbits, nlbits), p) ELSE byte

WithLevel(byte, l) == Field(byte, LevelBits(nmbits, nlbits), l)

FlagSays(d, on) == flagSet' = [flagSet EXCEPT ![d] = IF on THEN "yes" ELSE "no"]

\* Where the priority has a bit, the lowest of its bits is the vector bit.
ClicSetPriority ==
  /\ \E d \in Ids, p \in Levels :
       /\ WriteControl(d, WithPriority(clicintctl[d], p))
       /\ IF nmbits + nlbits < NumIntBits
            THEN FlagSays(d, VectorBit \in p) ELSE UNCHANGED flagSet
  /\ OnlyControls /\ UNCHANGED levelSet

\* set_preemptive_level sets the priority from the same value; the two fields
\* take in the vector bit unless the mode leaves them none.
SetPreemptiveLevel ==
  /\ \E d \in Ids, l \in Levels :
       /\ WriteControl(d, WithPriority(WithLevel(clicintctl[d], l), l))
       /\ levelSet' = [levelSet EXCEPT ![d] = l]
       /\ IF nmbits < NumIntBits
            THEN FlagSays(d, VectorBit \in l) ELSE UNCHANGED flagSet
  /\ OnlyControls

\* The byte with the interrupt vectored, and not.
WithVector(byte) == byte \cup {VectorBit}
WithoutVector(byte) == byte \ {VectorBit}

\* interrupt_vector_enable asks for a vectored mode, _disable does not.
SetVectored ==
  /\ \E d \in Ids :
       \/ /\ VectorMode \in {"selective_vector", "hardware_vector"}
          /\ WriteControl(d, WithVector(clicintctl[d])) /\ FlagSays(d, TRUE)
       \/ WriteControl(d, WithoutVector(clicintctl[d])) /\ FlagSays(d, FALSE)
  /\ OnlyControls /\ UNCHANGED levelSet

EnableInterrupt ==
  /\ \E d \in Ids : clicintie' \in {clicintie \cup {d}, clicintie \ {d}}
  /\ Counted
  /\ UNCHANGED <<clic_init, cliccfg, clicintctl, clicintip, tables, took,
                 levelSet, flagSet>>

\* set_interrupt, clear_interrupt, and the devices.
PendInterrupt ==
  /\ \E d \in Ids : clicintip' \in {clicintip \cup {d}, clicintip \ {d}}
  /\ Counted
  /\ UNCHANGED <<clic_init, cliccfg, clicintctl, clicintie, tables, took,
                 levelSet, flagSet>>

\* command_request sets and clears the software interrupt of the hart, id 0.
SoftwareInterrupt ==
  /\ clicintip' \in {clicintip \cup {0}, clicintip \ {0}}
  /\ Counted
  /\ UNCHANGED <<clic_init, cliccfg, clicintctl, clicintie, tables, took,
                 levelSet, flagSet>>

Isr == {"user", "default"}

\* How the controller would deliver d.
AsVector(d) ==
  \/ VectorMode = "hardware_vector"
  \/ VectorMode = "selective_vector" /\ IsVectored(d)

\* A handler of a device; the core's own interrupts go to the parent.
RegisterHandler ==
  /\ clic_mtvec # "direct"
  /\ \E d \in Ids, isr \in Isr :
       /\ ~AsVector(d)
       /\ IF d < Csw
            THEN own' = (IF isr = "user" THEN own \cup {d} ELSE own \ {d})
                 /\ UNCHANGED handler
            ELSE handler' = [handler EXCEPT ![d] = isr] /\ UNCHANGED own
  /\ Counted
  /\ UNCHANGED <<clic_init, cliccfg, clicintctl, clicintie, clicintip, mtvt,
                 took, levelSet, flagSet>>

\* Entry 0 is the way to every handler that is not vectored: a vector
\* registered for id 0 replaces it.
RegisterVector ==
  /\ \E d \in Ids, isr \in Isr :
       /\ AsVector(d)
       /\ mtvt' = [mtvt EXCEPT ![d] = isr]
  /\ Counted
  /\ UNCHANGED <<clic_init, cliccfg, clicintctl, clicintie, clicintip, handler,
                 own, took, levelSet, flagSet>>

\* Through mtvt, or through the trap handler: the core's own ids to its own
\* table, the others to what entry 0 of mtvt names.
ByTrap(d) ==
  CASE d < Csw -> IF d \in own THEN "user" ELSE "default"
    [] d >= Csw /\ mtvt[0] = "clic" -> handler[d]
    [] OTHER -> mtvt[0]

TakeInterrupt ==
  /\ clic_init
  /\ \E d \in clicintie \cap clicintip :
       took' = [id |-> d, by |-> IF AsVector(d) THEN mtvt[d] ELSE ByTrap(d)]
  /\ UNCHANGED <<clic_init, cliccfg, clicintctl, clicintie, clicintip, tables,
                 levelSet, flagSet, clicCalls>>

\* The calls of interrupt.h that enter a handler, enable an interrupt or say
\* how urgent it is, each passed to the driver through the vtable.
InterruptCalls ==
  \/ RegisterHandler \/ RegisterVector \/ EnableInterrupt
  \/ ClicSetThreshold \/ ClicSetPriority \/ SetPreemptiveLevel \/ SetVectored

ClicNext ==
  \/ InitController \/ SetPrivilege \/ ClicSetMode \/ InterruptCalls
  \/ PendInterrupt \/ SoftwareInterrupt \/ TakeInterrupt

ClicSpec == ClicInit /\ [][ClicNext]_clicVars

-----------------------------------------------------------------------------
\* The bits of a level that are its own.
LevelField == LevelBits(nmbits, LevelWidth) \ {VectorBit}

\* No call takes another's field of the byte along, with two exceptions that are
\* part of the statement.  A level that was set under the fields in force is the
\* level that is read, bit by bit and moved up by the nmbits of the mode -
\* set_level masks its argument in place, get_level takes the field to the top
\* (clic0.c:93, 138), so the two are the same number only when nmbits is 0 -
\* whatever is done later with priorities, vectoring and other interrupts; only
\* the bit it shares with the vector flag is out of it.  And an interrupt is
\* vectored as the last call said that writes the vector bit: set_vector_mode,
\* but set_priority as well, whose mask leaves every implemented bit below the
\* level in (157-159), so a priority turns vectoring on or off.
LevelsAreKept ==
  \A d \in Ids :
    /\ levelSet[d] # Unset =>
         \A b \in LevelField :
           b + nmbits \in GetLevel(d) <=> b \in levelSet[d]
    /\ flagSet[d] # "none" => (IsVectored(d) <=> flagSet[d] = "yes")
============================================================================
