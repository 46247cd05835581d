--------------------------- MODULE ClockCallbacks ---------------------------
(***************************************************************************)
(* Clock rate changes and the drivers that follow them: the two intrusive  *)
(* lists of metal/clock.h, and how the UART and I2C drivers of             *)
(* freedom-metal register in them, drain their line before a change and    *)
(* reprogram their baud divisor after it.                                  *)
(*                                                                         *)
(* A list node is embedded in its device, so a node is named by the device *)
(* and has one next pointer per list.  The walks over the lists are taken  *)
(* pointer by pointer: a list that has become a loop is a walk that does   *)
(* not end.  The program above the drivers is a script of calls.           *)
(***************************************************************************)
EXTENDS Integers, Sequences, FiniteSets

CONSTANTS
  Clients,       \* the UARTs and the I2C controller on the clock
  Reregister,    \* those whose set_baud_rate registers callbacks again (I2C)
  ClockRates,    \* the rates the clock may have
  ClockScripts,  \* the sequences of driver calls the program may make
  BaudRate,      \* the UARTs' baud rate
  NULL

ASSUME ClockAssumption ==
  /\ IsFiniteSet(Clients) /\ Reregister \subseteq Clients
  /\ IF IsFiniteSet(ClockRates) THEN ClockRates \subseteq Int ELSE ClockRates = Int
  /\ BaudRate \in Nat \ {0}
  /\ NULL \notin Clients \cup ClockRates

Lists == {"pre", "post"}

ClockCalls == [op : {"init", "baud"}, arg : Clients]
                \cup [op : {"rate"}, arg : {NULL}]

ASSUME ScriptsAssumption == ClockScripts \subseteq Seq(ClockCalls)

VARIABLES
  clockScript,  \* calls still to be made
  cpc,       \* where the driver is
  clockRate, \* what get_rate_hz of the clock returns
  head,      \* _pre_rate_change_callback, _post_rate_change_callback
  next,      \* next[l][d]: _next of the node of d for list l
  cursor,    \* the node _metal_clock_call_all_callbacks is at
  dev,       \* the device whose set_baud_rate or init runs
  scan,      \* the node _metal_clock_append_to_callbacks is at
  divisor,   \* divisor[d]: the rate d's baud divisor was computed for
  busy       \* busy[d]: bytes d has still to send: one on the line, and those
             \* in a UART's FIFO, which are counted as one

lists == <<head, next>>
clockVars == <<clockScript, cpc, clockRate, cursor, lists, dev, scan, divisor,
               busy>>

Node == Clients \cup {NULL}

ClockTypeOK ==
  /\ clockScript \in Seq(ClockCalls)
  /\ cpc \in {"idle", "drain", "change", "changing", "notify", "register pre",
             "scan pre", "register post", "scan post", "program"}
  /\ clockRate \in ClockRates
  /\ head \in [Lists -> Node]
  /\ next \in [Lists -> [Clients -> Node]]
  /\ {cursor, dev, scan} \subseteq Node
  /\ divisor \in [Clients -> ClockRates \cup {NULL}]
  /\ busy \in [Clients -> 0..2]

\* A divisor is programmed when the device is first initialised.
Initialised == {d \in Clients : divisor[d] # NULL}

ClockInit ==
  /\ clockScript \in ClockScripts
  /\ cpc = "idle"
  /\ clockRate \in ClockRates
  /\ head = [l \in Lists |-> NULL]
  /\ next = [l \in Lists |-> [d \in Clients |-> NULL]]
  /\ cursor = NULL /\ dev = NULL /\ scan = NULL
  /\ divisor = [d \in Clients |-> NULL]
  /\ busy = [d \in Clients |-> 0]

-----------------------------------------------------------------------------
(* The calls.                                                               *)

Take(op) ==
  /\ cpc = "idle"
  /\ clockScript # << >>
  /\ Head(clockScript).op = op
  /\ clockScript' = Tail(clockScript)
  /\ UNCHANGED <<clockRate, lists, scan, divisor, busy>>

\* metal_uart_init and metal_i2c_init: both register, then program.
CallInit ==
  /\ Take("init")
  /\ dev' = Head(clockScript).arg
  /\ cpc' = "register pre"
  /\ UNCHANGED cursor

\* set_baud_rate of the UART goes straight to the divisor, the one of the I2C
\* driver registers first.
SetBaudEntry(d) == IF d \in Reregister THEN "register pre" ELSE "program"

CallSetBaud ==
  /\ Take("baud")
  /\ dev' = Head(clockScript).arg
  /\ cpc' = SetBaudEntry(dev')
  /\ UNCHANGED cursor

\* metal_clock_set_rate_hz starts with the pre callbacks.
CallSetRate ==
  /\ Take("rate")
  /\ cursor' = head["pre"]
  /\ cpc' = "drain"
  /\ UNCHANGED dev

-----------------------------------------------------------------------------
(* The rate change.                                                         *)

\* Mutant: the callback does not wait for the line.
Drain_NoWait ==
  /\ cpc = "drain" /\ cursor # NULL
  /\ cursor' = next["pre"][cursor]
  /\ UNCHANGED <<clockScript, cpc, clockRate, lists, dev, scan,
                 divisor, busy>>

(* The pre callback of the I2C driver reads the transfer's status until it  *)
(* is done. The one of the UART waits until the FIFO is empty, and then     *)
(* counts the cycles that the byte on the line may still take.              *)

LongMax == 2147483647
BitsPerSymbol == 10

\* The product of the bits and the rate is a long's.  Above that it is
\* undefined; what the build computes is negative up to twice as far, and the
\* loop then does not run.
TooFast(r) == r > LongMax \div BitsPerSymbol
CyclesToWait(r) == IF TooFast(r) THEN 0 ELSE (BitsPerSymbol * r) \div BaudRate

\* What a byte takes: its bits, each as long as the divisor that d has.
SymbolCycles(d) == BitsPerSymbol * (divisor[d] \div BaudRate)

\* A wait that is shorter than that may leave the byte on the line.
Left(d) == IF CyclesToWait(clockRate) >= SymbolCycles(d) THEN {0}
           ELSE 0 .. busy[d]

Drain ==
  /\ cpc = "drain" /\ cursor # NULL
  /\ busy[cursor] < IF cursor \in Reregister THEN 1 ELSE 2
  /\ \E left \in Left(cursor) : busy' = [busy EXCEPT ![cursor] = left]
  /\ cursor' = next["pre"][cursor]
  /\ UNCHANGED <<clockScript, cpc, clockRate, lists, dev, scan, divisor>>

Drained ==
  /\ cpc = "drain" /\ cursor = NULL
  /\ cpc' = "change"
  /\ UNCHANGED <<clockScript, clockRate, cursor, lists, dev, scan, divisor, busy>>

\* set_rate_hz of the clock: it takes the core off the clock it is to change,
\* which has another rate at once ...
BeginChange ==
  /\ cpc = "change"
  /\ clockRate' \in ClockRates
  /\ cpc' = "changing"
  /\ UNCHANGED <<clockScript, cursor, lists, dev, scan, divisor, busy>>

\* ... and puts it back on when it has the new one.
Change ==
  /\ cpc = "changing"
  /\ clockRate' \in ClockRates
  /\ cursor' = head["post"]
  /\ cpc' = "notify"
  /\ UNCHANGED <<clockScript, lists, dev, scan, divisor, busy>>

\* The post callbacks call set_baud_rate with the device's own baud rate.
Notify ==
  /\ cpc = "notify" /\ cursor # NULL
  /\ dev' = cursor
  /\ cpc' = SetBaudEntry(cursor)
  /\ UNCHANGED <<clockScript, clockRate, cursor, lists, scan, divisor, busy>>

Notified ==
  /\ cpc = "notify" /\ cursor = NULL
  /\ cpc' = "idle"
  /\ UNCHANGED <<clockScript, clockRate, cursor, lists, dev, scan, divisor, busy>>

-----------------------------------------------------------------------------
(* Registration.                                                            *)

Following(l) == IF l = "pre" THEN "register post" ELSE "program"

\* Mutant: a new callback is put in front, over the old list.
AppendCallback_DropsList(l) ==
  /\ next' = [next EXCEPT ![l][dev] = NULL]
  /\ head' = [head EXCEPT ![l] = dev]
  /\ cpc' = Following(l)
  /\ UNCHANGED scan

\* _metal_clock_append_to_callbacks: cut the new node's tail, then look for
\* the end of the list, which may lead through the node that was just cut.
AppendCallback(l) ==
  /\ next' = [next EXCEPT ![l][dev] = NULL]
  /\ IF head[l] = NULL
       THEN /\ head' = [head EXCEPT ![l] = dev]
            /\ cpc' = Following(l)
            /\ UNCHANGED scan
       ELSE /\ scan' = head[l]
            /\ cpc' = IF l = "pre" THEN "scan pre" ELSE "scan post"
            /\ UNCHANGED head

Register(l) ==
  /\ cpc = IF l = "pre" THEN "register pre" ELSE "register post"
  /\ AppendCallback(l)
  /\ UNCHANGED <<clockScript, clockRate, cursor, dev, divisor, busy>>

\* Mutant: the list is closed into a ring.
Scan_ClosesRing(l) ==
  /\ cpc = IF l = "pre" THEN "scan pre" ELSE "scan post"
  /\ IF next[l][scan] # NULL
       THEN scan' = next[l][scan] /\ UNCHANGED <<cpc, next>>
       ELSE /\ next' = [next EXCEPT ![l][scan] = dev, ![l][dev] = head[l]]
            /\ cpc' = Following(l)
            /\ UNCHANGED scan
  /\ UNCHANGED <<clockScript, clockRate, cursor, head, dev, divisor, busy>>

Scan(l) ==
  /\ cpc = IF l = "pre" THEN "scan pre" ELSE "scan post"
  /\ IF next[l][scan] # NULL
       THEN scan' = next[l][scan] /\ UNCHANGED <<cpc, next>>
       ELSE /\ next' = [next EXCEPT ![l][scan] = dev]
            /\ cpc' = Following(l)
            /\ UNCHANGED scan
  /\ UNCHANGED <<clockScript, clockRate, cursor, head, dev, divisor, busy>>

\* Mutant: the post callback returns without reading its _next.
AfterProgram_StopsWalk == cpc' = "idle" /\ UNCHANGED cursor

\* The divisor is computed; a callback returns to the walk, which then reads
\* the _next its node has by now.
AfterProgram ==
  IF cursor = NULL
    THEN cpc' = "idle" /\ UNCHANGED cursor
    ELSE cpc' = "notify" /\ cursor' = next["post"][cursor]

Program ==
  /\ cpc = "program"
  /\ divisor' = [divisor EXCEPT ![dev] = clockRate]
  /\ AfterProgram
  /\ UNCHANGED <<clockScript, clockRate, lists, dev, scan, busy>>

-----------------------------------------------------------------------------
(* The lines.                                                               *)

Transmit(d) ==
  /\ cpc = "idle"
  /\ d \in Initialised /\ busy[d] < IF d \in Reregister THEN 1 ELSE 2
  /\ busy' = [busy EXCEPT ![d] = @ + 1]
  /\ UNCHANGED <<clockScript, cpc, clockRate, cursor, lists, dev, scan, divisor>>

Sent(d) ==
  /\ busy[d] > 0
  /\ busy' = [busy EXCEPT ![d] = @ - 1]
  /\ UNCHANGED <<clockScript, cpc, clockRate, cursor, lists, dev, scan, divisor>>

ClockStep ==
  \/ CallInit \/ CallSetBaud \/ CallSetRate
  \/ Drain \/ Drained \/ BeginChange \/ Change \/ Notify \/ Notified
  \/ \E l \in Lists : Register(l) \/ Scan(l)
  \/ Program

ClockNext ==
  \/ ClockStep
  \/ \E d \in Clients : Transmit(d) \/ Sent(d)

ClockSpec == ClockInit /\ [][ClockNext]_clockVars

\* The processor runs the driver, the shift registers empty.  While the line
\* of a device is drained nothing is queued behind it.
ClockFairSpec ==
  /\ ClockSpec
  /\ WF_clockVars(ClockStep)
  /\ \A d \in Clients : WF_clockVars(Sent(d))

-----------------------------------------------------------------------------
(* Properties.                                                              *)

\* The devices of list l, in order, if its pointers make one chain of s.
Chain(l, s) ==
  /\ head[l] = IF s = << >> THEN NULL ELSE s[1]
  /\ \A i \in DOMAIN s : next[l][s[i]] = IF i = Len(s) THEN NULL ELSE s[i + 1]

Orders == UNION {[1..n -> Clients] : n \in 0..Cardinality(Clients)}

\* Between calls, each list is one chain through every initialised device,
\* once: nobody was cut off by a later registration and no pointer leads back.
ListsAreChains ==
  cpc = "idle" => \A l \in Lists : \E s \in Orders :
    /\ \A i, j \in DOMAIN s : s[i] = s[j] => i = j
    /\ {s[i] : i \in DOMAIN s} = Initialised
    /\ Chain(l, s)

\* Between calls, every device's baud divisor was computed for the rate the
\* clock has now: a rate change leaves no device behind.
DivisorsFollowRate ==
  cpc = "idle" => \A d \in Initialised : divisor[d] = clockRate

\* No byte is on a line, but for those of UARTs that were sent so fast that
\* the wait for them is cut short by its own arithmetic.
LinesAreDrained ==
  \A d \in Clients : busy[d] > 0 => d \notin Reregister /\ TooFast(divisor[d])

\* The rate changes under no byte on the line of an initialised device: the
\* timed wait of the UART's pre callback outlasts the byte, because its divisor
\* is the one of the rate that is left, up to 214 MHz; above that the product
\* of uart0.c:176 overflows and bytes are cut.
ChangedWhenDrained == [][clockRate' # clockRate => LinesAreDrained]_clockVars

\* Script s may follow once the devices of C have been initialised: a device
\* is initialised once and before its baud rate is set, and once one is
\* initialised whose set_baud_rate registers again, that is not called, by
\* the program or by a change of the rate.
LegalFrom(s, C) ==
  \A n \in DOMAIN s :
    /\ s[n].op = "init" =>
         /\ s[n].arg \notin C
         /\ \A m \in DOMAIN s : s[m].op = "init" /\ s[m].arg = s[n].arg => m = n
    /\ s[n].op = "baud" =>
         /\ s[n].arg \notin Reregister
         /\ \/ s[n].arg \in C
            \/ \E m \in DOMAIN s :
                 m < n /\ s[m].op = "init" /\ s[m].arg = s[n].arg
    /\ s[n].op = "rate" =>
         /\ C \cap Reregister = {}
         /\ \A m \in DOMAIN s :
              m < n /\ s[m].op = "init" => s[m].arg \notin Reregister

ScriptsAreLegal == \A s \in ClockScripts : LegalFrom(s, {})

\* Every call returns: no walk over a list goes round for ever.
EveryCallReturns == cpc # "idle" ~> cpc = "idle"

\* A rate change tells every device that is initialised about the new rate.
EveryDeviceIsTold ==
  \A d \in Clients : (cpc = "change" /\ d \in Initialised)
                     ~> (divisor[d] = clockRate /\ cpc = "idle")
=============================================================================
