------------------------------ MODULE PmpRegions ------------------------------
(***************************************************************************)
(* Physical memory protection: the regions of one hart, each an address    *)
(* register and a configuration byte.  A call that changes a region reads  *)
(* it, checks it, and writes the address first, then the configuration in  *)
(* two steps, clear and set.  The hardware ignores writes to what is       *)
(* locked, and a locked top-of-range region locks the address below it.    *)
(* An address is the set of the numbers of its bits that are 1.            *)
(***************************************************************************)
EXTENDS Integers, FiniteSetsExt

CONSTANTS
  NumRegions,   \* regions of the hart; the driver takes region NumRegions too
  AddrBits,     \* bits of an address register
  GrainBits,    \* low address bits that read as 0 outside NAPOT
  Asked,        \* addresses callers ask for
  Perms         \* the permissions they ask for, sets of "r", "w" and "x"

ASSUME PmpAssumption ==
  /\ {NumRegions, AddrBits} \subseteq Nat \ {0} /\ GrainBits \in 0 .. AddrBits
  /\ {} \in Perms
  /\ Asked \subseteq (SUBSET (0 .. AddrBits - 1)) \ {0 .. AddrBits - 1}

Modes == {"off", "tor", "na4", "napot"}
Regions == 0 .. NumRegions - 1
AllOnes == 0 .. AddrBits - 1
Grain == 0 .. GrainBits - 1
Addresses == SUBSET AllOnes
Config == [L : BOOLEAN, A : Modes, P : Perms]

No == -1

Fresh == [L |-> FALSE, A |-> "off", P |-> {}]

VARIABLES
  pmpcfg,        \* the configuration bytes
  pmpaddr,       \* the address registers
  granularity,   \* pmp->_granularity, 0 before init
  step,          \* "idle", or the register the running set_region writes next
  region,        \* its region
  config,        \* the configuration it was given
  address,       \* the address it was given
  init,          \* the next step of the running metal_pmp_init, or No
  rc             \* what the last set_region returned

pmpVars == <<pmpcfg, pmpaddr, granularity, step, region, config, address, init,
             rc>>
args == <<region, config, address>>

PmpInit ==
  /\ pmpcfg = [r \in Regions |-> Fresh] /\ pmpaddr = [r \in Regions |-> {}]
  /\ granularity = 0 /\ step = "idle"
  /\ region = 0 /\ config = Fresh /\ address = {}
  /\ init = No /\ rc = 0

\* The types of the variables.
PmpTypeOK ==
  /\ pmpcfg \in [Regions -> Config] /\ pmpaddr \in [Regions -> Addresses]
  /\ granularity \in Nat
  /\ step \in {"idle", "address", "clear", "set"}
  /\ region \in Regions /\ config \in Config /\ address \in Addresses
  /\ init \in {No} \cup 0 .. NumRegions + 1 /\ rc \in {0, 2, 3, 4}

-----------------------------------------------------------------------------
(* The hardware.                                                            *)

\* The region above locks this address.
LockedByAbove(r) ==
  r + 1 \in Regions /\ pmpcfg[r + 1].L /\ pmpcfg[r + 1].A = "tor"

ReadAddress(r) ==
  IF pmpcfg[r].A \in {"off", "tor"}
    THEN pmpaddr[r] \ Grain ELSE pmpaddr[r]

-----------------------------------------------------------------------------
(* The granularities, as numbers of address bits: 4 bytes are 2.            *)

DetectedGranularity(a) ==
  IF a = {} THEN AddrBits + 3 ELSE Min(a) + 2

AskedGranularity(a) == Min(0 .. AddrBits \ a) + 3

\* set_region up to its first write: every reason to refuse, in order.
Refusal(r, c, a) ==
  IF r > NumRegions THEN 2
  ELSE IF c.A = "na4" /\ granularity > 2 THEN 3
  ELSE IF c.A = "napot" /\ granularity > AskedGranularity(a) THEN 3
  ELSE IF r \in Regions /\ pmpcfg[r].L THEN 4
  ELSE 0

\* Mutant: the address is not written.
SetRegion_NoAddress(r, c, a) ==
  /\ rc' = Refusal(r, c, a)
  /\ IF rc' = 0 /\ r \in Regions
       THEN region' = r /\ config' = c /\ address' = a /\ step' = "clear"
       ELSE UNCHANGED <<args, step>>

\* A region past the last has no registers: what is written there is ignored.
SetRegion(r, c, a) ==
  /\ rc' = Refusal(r, c, a)
  /\ IF rc' = 0 /\ r \in Regions
       THEN region' = r /\ config' = c /\ address' = a /\ step' = "address"
       ELSE UNCHANGED <<args, step>>

\* The callers of set_region: itself, lock, set_address, set_address_mode and
\* the three permission setters, which keep the rest of what get_region read.
SetWhole ==
  \E r \in 0 .. NumRegions + 1, c \in Config, a \in Asked : SetRegion(r, c, a)

SetPart ==
  \E r \in Regions :
    \/ ~pmpcfg[r].L /\ SetRegion(r, [pmpcfg[r] EXCEPT !.L = TRUE],
                                 ReadAddress(r))
    \/ \E a \in Asked : SetRegion(r, pmpcfg[r], a)
    \/ \E m \in Modes : SetRegion(r, [pmpcfg[r] EXCEPT !.A = m],
                                  ReadAddress(r))
    \/ \E p \in Perms : SetRegion(r, [pmpcfg[r] EXCEPT !.P = p],
                                  ReadAddress(r))

Call ==
  /\ step = "idle" /\ init = No
  /\ SetWhole \/ SetPart
  /\ UNCHANGED <<pmpcfg, pmpaddr, granularity, init>>

PmpReturn == step' = "idle" /\ region' = 0 /\ config' = Fresh /\ address' = {}

WriteAddress ==
  /\ step = "address"
  /\ pmpaddr' = IF ReadAddress(region) # address /\ ~LockedByAbove(region)
                  THEN [pmpaddr EXCEPT ![region] = address] ELSE pmpaddr
  /\ IF pmpcfg[region] = config THEN PmpReturn
     ELSE step' = "clear" /\ UNCHANGED args
  /\ UNCHANGED <<pmpcfg, granularity, init, rc>>

ClearConfig ==
  /\ step = "clear"
  /\ pmpcfg' = [pmpcfg EXCEPT ![region] = Fresh]
  /\ step' = "set"
  /\ UNCHANGED <<pmpaddr, granularity, args, init, rc>>

SetConfig ==
  /\ step = "set"
  /\ pmpcfg' = [pmpcfg EXCEPT ![region] = config]
  /\ PmpReturn
  /\ UNCHANGED <<pmpaddr, granularity, init, rc>>

-----------------------------------------------------------------------------
(* metal_pmp_init: every region off, then all ones in address 0, whose      *)
(* reading tells the granularity, then 0 again.                             *)

StartInit ==
  /\ step = "idle" /\ init = No
  /\ init' = 0
  /\ UNCHANGED <<pmpcfg, pmpaddr, granularity, step, args, rc>>

\* A region that cannot be set stays as it is.
ClearRegion ==
  /\ step = "idle" /\ init \in Regions
  /\ SetRegion(init, Fresh, {})
  /\ init' = init + 1
  /\ UNCHANGED <<pmpcfg, pmpaddr, granularity>>

Probe ==
  /\ step = "idle" /\ init = NumRegions
  /\ SetRegion(0, pmpcfg[0], AllOnes)
  /\ init' = NumRegions + 1
  /\ UNCHANGED <<pmpcfg, pmpaddr, granularity>>

Detect ==
  /\ step = "idle" /\ init = NumRegions + 1
  /\ init' = No
  /\ IF rc = 0
       THEN /\ granularity' = DetectedGranularity(ReadAddress(0))
            /\ SetRegion(0, pmpcfg[0], {})
       ELSE UNCHANGED <<granularity, step, args, rc>>
  /\ UNCHANGED <<pmpcfg, pmpaddr>>

PmpNext ==
  \/ Call \/ WriteAddress \/ ClearConfig \/ SetConfig
  \/ StartInit \/ ClearRegion \/ Probe \/ Detect

PmpSpec == PmpInit /\ [][PmpNext]_pmpVars

-----------------------------------------------------------------------------
\* Addresses are asked for in whole grains, and an address is longer than that.
WholeGrains ==
  /\ GrainBits < AddrBits
  /\ \A a \in Asked : a \cap Grain = {}

(* A region that becomes locked is locked as the call asked: its            *)
(* configuration is the one given, and its address is in place before the   *)
(* lock is.  The one way to lock a region around an address it was never    *)
(* given is in the statement: the region above is a locked top-of-range     *)
(* one, so that the write of the address is ignored; set_region does not    *)
(* look, goes on to the configuration and returns 0 (pmp.c:134-152).        *)
LockedAsAsked ==
  \A r \in Regions : pmpcfg'[r].L /\ ~pmpcfg[r].L =>
    /\ r = region /\ pmpcfg'[r] = config
    /\ pmpaddr'[r] = address \/ LockedByAbove(r)

(* What is locked stays, whatever calls and initialisations follow: the     *)
(* configuration and the address of a locked region, and the address below  *)
(* a locked top-of-range one.                                               *)
LocksHold ==
  \A r \in Regions :
    /\ pmpcfg[r].L => pmpcfg'[r] = pmpcfg[r]
    /\ pmpcfg[r].L \/ LockedByAbove(r) => pmpaddr'[r] = pmpaddr[r]

(* A call changes its own region alone: the regions it shares a             *)
(* configuration register with keep theirs; and no region that is set, even *)
(* for the moment between the two writes of its configuration, is ever      *)
(* wider than the old and the new one: it is off.                           *)
OnlyItsRegion ==
  \A r \in Regions :
    /\ pmpcfg'[r] # pmpcfg[r] =>
         r = region /\ pmpcfg'[r] \in {Fresh, config}
    /\ pmpaddr'[r] # pmpaddr[r] => r = region /\ pmpaddr'[r] = address

\* All three, of every step of a call: the lock is the last thing written, it
\* holds, and a call touches nothing but its region.
RegionsAreKept == [][LockedAsAsked /\ LocksHold /\ OnlyItsRegion]_pmpVars
============================================================================
