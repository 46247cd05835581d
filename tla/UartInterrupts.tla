--------------------------- MODULE UartInterrupts ---------------------------
(***************************************************************************)
(* The UART driver for a program that uses its interrupts                  *)
(* (freedom-metal/src/drivers/sifive_uart0.c, metal/uart.h).  Every call    *)
(* that sets a flag or a watermark reads a register, changes some of its   *)
(* bits and writes it back, and putc looks for room before it writes: a    *)
(* handler that runs in between, and calls the driver too, is overwritten  *)
(* or takes the room.  The handler is the program's: here it makes any one *)
(* call, and runs to its end.  Bits have their places in the registers.    *)
(***************************************************************************)
EXTENDS Naturals, Sequences

CONSTANTS
  CountBits,        \* the watermark's bits in TXCTRL and RXCTRL: 16, 17, 18
  Levels,           \* the watermarks asked for, as sets of those bits
  Depth             \* the room in each FIFO

ASSUME UartAssumption ==
  /\ 16 \in CountBits /\ CountBits \subseteq 16..18
  /\ Levels \subseteq SUBSET CountBits
  /\ Depth \in Nat

UART_TXEN == 0      \* of TXCTRL; RXEN is the same bit of RXCTRL
UART_TXWM == 0      \* of IE and IP
UART_RXWM == 1

VARIABLES
  ureg,             \* IE, TXCTRL and RXCTRL, as the sets of their bits
  filled,           \* the bytes in the two FIFOs
  todo,             \* the rest of main's call: its updates, each to a register
  seen,             \* what main has read for the first of them, or Unread
  putting,          \* main's putc: "no", it "polls", or it found "room"
  overtaken,        \* the handler has written to TXDATA since main found room
  uasked,           \* the bits of each register as they were last asked for
  during,           \* the bits the handler asked for since main has read seen
  overwritten       \* those of the handler's that a write of main then put back

asks == <<uasked, during, overwritten>>
uartVars == <<ureg, filled, todo, seen, putting, overtaken, asks>>

Registers == {"ie", "txctrl", "rxctrl"}
Flags == {UART_TXWM, UART_RXWM}
BitsIn(r) == IF r = "ie" THEN Flags ELSE CountBits \cup {UART_TXEN}
Unread == {99}

\* The registers and the FIFOs hold what they can.
UartTypeOK ==
  /\ \A r \in Registers : ureg[r] \subseteq BitsIn(r)
  /\ filled \in [{"tx", "rx"} -> 0..Depth]
  /\ \A k \in 1..Len(todo) : todo[k].reg \in Registers
  /\ seen # Unread => todo # <<>> /\ seen \subseteq BitsIn(todo[1].reg)
  /\ putting \in {"no", "polls", "room"} /\ overtaken \in BOOLEAN
  /\ \A r \in Registers : uasked[r] \cup overwritten[r] \subseteq BitsIn(r)
  /\ during # {} => seen # Unread /\ during \subseteq BitsIn(todo[1].reg)

\* Initialised: metal_uart_init has set the baud rate.
UartInit ==
  /\ ureg = [r \in Registers |-> IF r = "ie" THEN {} ELSE {UART_TXEN}]
  /\ filled = [f \in {"tx", "rx"} |-> 0]
  /\ todo = <<>> /\ seen = Unread /\ putting = "no" /\ overtaken = FALSE
  /\ uasked = ureg /\ during = {} /\ overwritten = [r \in Registers |-> {}]

-----------------------------------------------------------------------------
(* The calls, as the updates they make.                                     *)
SetBits(r, bits) == [reg |-> r, on |-> bits, off |-> {}]
ClearBits(r, bits) == [reg |-> r, on |-> {}, off |-> bits]

InterruptEnable(flag) == <<SetBits("ie", {flag})>>
InterruptDisable(flag) == <<ClearBits("ie", {flag})>>

\* The level is added to the one there is: asking for 1 and then for 2 gives 3.
SetTxWatermark(level) == <<SetBits("txctrl", level)>>
SetRxWatermark(level) == <<SetBits("rxctrl", level)>>
Weight(r, b, value) == IF b \in r \cap CountBits THEN value ELSE 0
GetTxWatermark(r) == Weight(r, 16, 1) + Weight(r, 17, 2) + Weight(r, 18, 4)

\* Each also enables its direction.
UartSetBaudRate ==
  <<SetBits("txctrl", {UART_TXEN}), SetBits("rxctrl", {UART_TXEN})>>

\* Before a change of the clock the watermark becomes 1, and stays so.  (What
\* the callback waits for after that is in ClockCallbacks.)
PreRateChange == <<ClearBits("txctrl", CountBits), SetBits("txctrl", {16})>>

ControlCalls ==
  { InterruptEnable(f) : f \in Flags } \cup { InterruptDisable(f) : f \in Flags }
  \cup { SetTxWatermark(l) : l \in Levels }
  \cup { SetRxWatermark(l) : l \in Levels } \cup {UartSetBaudRate}

-----------------------------------------------------------------------------
(* The hardware.  TXWM is pending below the watermark, RXWM above it.       *)
Pending ==
  { f \in Flags :
      \/ f = UART_TXWM /\ filled["tx"] < GetTxWatermark(ureg["txctrl"])
      \/ f = UART_RXWM /\ filled["rx"] > GetTxWatermark(ureg["rxctrl"]) }

TransmitFrame ==
  /\ UART_TXEN \in ureg["txctrl"] /\ filled["tx"] > 0
  /\ filled' = [filled EXCEPT !["tx"] = @ - 1]
  /\ UNCHANGED <<ureg, todo, seen, putting, overtaken, asks>>

Arrive == /\ UART_TXEN \in ureg["rxctrl"] /\ filled["rx"] < Depth
          /\ filled' = [filled EXCEPT !["rx"] = @ + 1]
          /\ UNCHANGED <<ureg, todo, seen, putting, overtaken, asks>>

-----------------------------------------------------------------------------
\* Mutant: an assignment where |= is meant.
Applied_Plain(u, value) == u.on
Applied(u, value) == (value \ u.off) \cup u.on
Ask(u) == [uasked EXCEPT ![u.reg] = (@ \ u.off) \cup u.on]
Bits(u) == u.on \cup u.off
MainIdle == todo = <<>> /\ putting = "no"

MainCall(call) == /\ MainIdle /\ todo' = call
                  /\ UNCHANGED <<ureg, filled, seen, putting, overtaken, asks>>

\* One update: UART_REGW(r) |= bits reads the register and then writes it.
ReadRegister ==
  /\ todo # <<>> /\ seen = Unread
  /\ seen' = ureg[todo[1].reg]
  /\ UNCHANGED <<ureg, filled, todo, putting, overtaken, asks>>

WriteRegister ==
  /\ seen # Unread
  /\ ureg' = [ureg EXCEPT ![todo[1].reg] = Applied(todo[1], seen)]
  /\ uasked' = Ask(todo[1])
  /\ overwritten' = [overwritten EXCEPT ![todo[1].reg] =
                       (@ \cup during) \ Bits(todo[1])]
  /\ todo' = Tail(todo) /\ seen' = Unread /\ during' = {}
  /\ UNCHANGED <<filled, putting, overtaken>>

TxReady == filled["tx"] = Depth         \* as the driver has it: not 0 is full

Putc == /\ MainIdle /\ putting' = "polls"
        /\ UNCHANGED <<ureg, filled, todo, seen, overtaken, asks>>

FindRoom == /\ putting = "polls" /\ ~TxReady
            /\ putting' = "room" /\ overtaken' = FALSE
            /\ UNCHANGED <<ureg, filled, todo, seen, asks>>

Stored(f) == [filled EXCEPT ![f] = IF @ < Depth THEN @ + 1 ELSE @]

WriteData == /\ putting = "room"
             /\ filled' = Stored("tx") /\ putting' = "no" /\ overtaken' = FALSE
             /\ UNCHANGED <<ureg, todo, seen, asks>>

GetcMain == /\ MainIdle /\ filled["rx"] > 0
            /\ filled' = [filled EXCEPT !["rx"] = @ - 1]
            /\ UNCHANGED <<ureg, todo, seen, putting, overtaken, asks>>

-----------------------------------------------------------------------------
(* The handler runs when an interrupt is enabled and pending, and makes one *)
(* call.  If main has read the same register, its write undoes the update.  *)
Interrupted == ureg["ie"] \cap Pending # {}

HandlerCall(call) ==
  LET u == call[1]
  IN  /\ Interrupted /\ Len(call) = 1
      /\ ureg' = [ureg EXCEPT ![u.reg] = Applied(u, @)]
      /\ uasked' = Ask(u)
      /\ overwritten' = [overwritten EXCEPT ![u.reg] = @ \ Bits(u)]
      /\ during' = IF seen # Unread /\ todo[1].reg = u.reg
                   THEN during \cup Bits(u) ELSE during
      /\ UNCHANGED <<filled, todo, seen, putting, overtaken>>

HandlerPuts == /\ Interrupted /\ ~TxReady
               /\ filled' = Stored("tx")
               /\ overtaken' = (putting = "room" \/ overtaken)
               /\ UNCHANGED <<ureg, todo, seen, putting, asks>>

HandlerGets == /\ Interrupted /\ filled["rx"] > 0
               /\ filled' = [filled EXCEPT !["rx"] = @ - 1]
               /\ UNCHANGED <<ureg, todo, seen, putting, overtaken, asks>>

UartNext ==
  \/ \E c \in ControlCalls \cup {PreRateChange} : MainCall(c)
  \/ ReadRegister \/ WriteRegister \/ Putc \/ FindRoom \/ WriteData \/ GetcMain
  \/ \E c \in ControlCalls : HandlerCall(c)
  \/ HandlerPuts \/ HandlerGets \/ TransmitFrame \/ Arrive

UartSpec == UartInit /\ [][UartNext]_uartVars

-----------------------------------------------------------------------------
(* The bit last asked for is the bit in force, whoever asked: all that is   *)
(* lost are bits the handler asked for between main's read and main's write *)
(* of the same register (the |= and &= of sifive_uart0.c), until either     *)
(* asks for them again.                                                     *)
RequestsAreKept ==
  \A r \in Registers : /\ uasked[r] \ ureg[r] \subseteq overwritten[r]
                       /\ ureg[r] \ uasked[r] \subseteq overwritten[r]

\* A watermark is all the levels asked for since the last change of the clock
\* together, not the last of them: sifive_uart0.c:83 and :97 add the bits of the
\* level to those there are, where metal/uart.h:176 and :196 say it is set.
WatermarksAddUp ==
  \A r \in {"txctrl", "rxctrl"} : ureg[r] \cap CountBits \subseteq uasked[r]

\* A byte is written to a full FIFO, and so lost, only if the handler has
\* written one since putc found room.
RoomForByte == putting = "room" /\ ~overtaken => filled["tx"] < Depth

\* The FIFOs of the board hold eight bytes, and a watermark is seven at most.
RoomAboveWatermark == GetTxWatermark(CountBits) < Depth

\* However the watermarks have added up, a receive FIFO that is full is
\* announced, and a transmit FIFO that is empty is once one was asked for that
\* main has not overwritten.
WakesInTime ==
  /\ filled["rx"] = Depth => UART_RXWM \in Pending
  /\ (uasked["txctrl"] \cap CountBits) \ overwritten["txctrl"] # {}
     /\ filled["tx"] = 0 => UART_TXWM \in Pending

\* What the driver keeps between a program and its handler.
InterruptsAreKept == /\ RequestsAreKept /\ WatermarksAddUp
                     /\ RoomForByte /\ WakesInTime

=============================================================================
