------------------------------ MODULE SpiDriver ------------------------------
(***************************************************************************)
(* The SPI driver.  A transfer sends one byte at a time and waits for the  *)
(* byte that comes back, through a transmit and a receive FIFO that the    *)
(* controller moves at its own pace; it gives up when a second has gone by *)
(* without an answer, and leaves the FIFOs as they are: what is left there  *)
(* is what the next transfer finds.                                        *)
(*                                                                         *)
(* A transfer has four stages: command, address, dummy and data bytes.     *)
(* The number of wires is that of the protocol from the stage the          *)
(* configuration names.                                                    *)
(***************************************************************************)
EXTENDS Integers, Sequences

CONSTANTS
  Configs,       \* the configurations and lengths callers transfer with
  SpiRates,      \* rates of the parent clock, in Hz
  Bauds,         \* the baud rates callers ask for
  DivMask,       \* METAL_SPI_SCKDIV_MASK, 0xFFF
  TxDepth,       \* entries of the transmit FIFO, 8
  RxDepth,       \* entries of the receive FIFO, 8
  MaxTransfers,  \* bound: transfers that are started
  MaxTimeouts    \* bound: transfers that time out, fewer than RxDepth

Protocols == {"single", "dual", "quad"}
Spans == {"all", "data_only", "addr_data"}      \* config->multi_wire

ASSUME SpiAssumption ==
  /\ \A c \in Configs :
       /\ c.multi_wire \in Spans
       /\ {c.cmd, c.addr, c.dummy, c.len} \subseteq Nat
       /\ c.cmd + c.addr + c.dummy <= c.len
  /\ SpiRates \subseteq Nat \ {0} /\ Bauds \subseteq Nat \ {0}
  /\ {DivMask, TxDepth, RxDepth, MaxTransfers, MaxTimeouts} \subseteq Nat \ {0}
  /\ MaxTimeouts < RxDepth
  /\ DivMask >= 3       \* what SCKDIV holds after reset

VARIABLES
  spc,           \* where the caller is: "idle", "send", "await" or "check"
  cfg,           \* the running transfer's configuration
  i,             \* its loop counter
  wires,         \* FMT.PROTO
  csmode,        \* CSMODE: "auto" or "hold"
  txq, rxq,      \* the FIFOs: a byte, and the answer to it, by its number
  rx_buf,        \* the running or last transfer's receive buffer
  status,        \* what the last transfer returned
  transfers,     \* how many were started
  timeouts,      \* how many timed out
  bytes,         \* history: the bytes ever sent, which are numbered from 1
  first,         \* history: those sent before the running or last transfer
  shape,         \* history: the running transfer's bytes on the wire, each
                 \* with the wires and the chip select it went out with
  spi_clock,     \* the parent clock
  baud,          \* spi->baud_rate
  sckdiv,        \* SCKDIV
  applied        \* what the last set_baud_rate returned

wire == <<wires, csmode, txq, rxq, shape, bytes, first>>
speed == <<spi_clock, baud, sckdiv, applied>>
transfer == <<cfg, i, rx_buf, status, transfers, timeouts>>
spiVars == <<spc, wire, speed, transfer>>

NoByte == <<>>

(* set_baud_rate.  The quotient can be 0, and the divider then -1, of which *)
(* the mask keeps the low bits, all ones.                                   *)
Divider(r, b) == (r \div (2 * b)) - 1

SpiInit ==
  /\ spc = "idle" /\ cfg = NoByte /\ i = 0
  /\ wires = "single" /\ csmode = "auto"
  /\ txq = <<>> /\ rxq = <<>> /\ rx_buf = <<>> /\ shape = <<>>
  /\ status = 0 /\ transfers = 0 /\ timeouts = 0 /\ bytes = 0 /\ first = 0
  /\ spi_clock \in SpiRates /\ baud = 0 /\ sckdiv = 3 /\ applied = 0

\* The types of the variables.
SpiTypeOK ==
  /\ spc \in {"idle", "send", "await", "check"} /\ i \in Nat
  /\ wires \in Protocols /\ csmode \in {"auto", "hold"}
  /\ Len(txq) <= TxDepth /\ Len(rxq) <= RxDepth /\ status \in {-1, 0, 1}
  /\ bytes \in Nat /\ first \in 0 .. bytes
  /\ transfers \in 0 .. MaxTransfers /\ timeouts \in 0 .. MaxTimeouts
  /\ spi_clock \in SpiRates /\ baud \in Bauds \cup {0}
  /\ sckdiv \in 0 .. DivMask /\ applied \in {-1, 0}

-----------------------------------------------------------------------------
(* A transfer.                                                              *)

StageWires(c) == IF c.multi_wire = "all" THEN c.protocol ELSE "single"

\* configure_spi and the chip select hold.  A protocol the switch does not
\* know leaves one wire and returns -1 before the hold.
Transfer ==
  /\ spc = "idle" /\ transfers < MaxTransfers
  /\ \E c \in Configs :
       /\ cfg' = c
       /\ IF c.protocol \in Protocols
            THEN /\ wires' = StageWires(c) /\ csmode' = "hold"
                 /\ status' = 0 /\ spc' = "send"
            ELSE /\ wires' = "single" /\ UNCHANGED <<csmode, spc>>
                 /\ status' = -1
  /\ i' = 0 /\ rx_buf' = <<>> /\ shape' = <<>>
  /\ transfers' = transfers + 1 /\ first' = bytes
  /\ UNCHANGED <<txq, rxq, timeouts, bytes, speed>>

\* spi_mode_switch between the loops: after the command bytes, and after the
\* dummy bytes.  All the switches due at i are made before byte i is sent.
Switched ==
  \/ cfg.multi_wire = "addr_data" /\ i = cfg.cmd
  \/ cfg.multi_wire = "data_only" /\ i = cfg.cmd + cfg.addr + cfg.dummy

SwitchedWires == IF Switched THEN cfg.protocol ELSE wires

Send ==
  /\ spc = "send" /\ i < cfg.len
  /\ Len(txq) < TxDepth
  /\ wires' = SwitchedWires
  /\ bytes' = bytes + 1
  /\ txq' = Append(txq, bytes')
  /\ spc' = "await"
  /\ UNCHANGED <<csmode, rxq, shape, first, transfer, speed>>

\* Mutant: the wait for the answer ends although nothing has come.
ReadEmpty_GivesUp ==
  /\ spc = "await" /\ rxq = <<>>
  /\ i' = i + 1
  /\ spc' = "send"
  /\ UNCHANGED <<wire, cfg, rx_buf, status, transfers, timeouts, speed>>

\* The receive FIFO is read: a byte, or nothing yet.
Receive ==
  /\ spc = "await" /\ rxq # <<>>
  /\ rx_buf' = Append(rx_buf, Head(rxq))
  /\ rxq' = Tail(rxq)
  /\ i' = i + 1
  /\ spc' = "send"
  /\ UNCHANGED <<wires, csmode, txq, shape, bytes, first, cfg, status,
                 transfers, timeouts, speed>>

ReadEmpty ==
  /\ spc = "await" /\ rxq = <<>>
  /\ spc' = "check"
  /\ UNCHANGED <<wire, transfer, speed>>

\* The time is looked at after the FIFO was found empty: an answer that comes
\* between the two is left there.
NotCalled ==
  /\ spc = "check"
  /\ spc' = "await"
  /\ UNCHANGED <<wire, transfer, speed>>

TimeOut ==
  /\ spc = "check" /\ timeouts < MaxTimeouts
  /\ timeouts' = timeouts + 1
  /\ csmode' = "auto" /\ status' = 1 /\ spc' = "idle"
  /\ UNCHANGED <<wires, txq, rxq, shape, bytes, first, cfg, i, rx_buf,
                 transfers, speed>>

Done ==
  /\ spc = "send" /\ i = cfg.len
  /\ wires' = SwitchedWires
  /\ csmode' = "auto" /\ spc' = "idle"
  /\ UNCHANGED <<txq, rxq, shape, bytes, first, transfer, speed>>

\* The controller shifts a byte out and the device's answer in.
Shift ==
  /\ txq # <<>>
  /\ txq' = Tail(txq)
  /\ rxq' = IF Len(rxq) < RxDepth THEN Append(rxq, Head(txq)) ELSE rxq
  /\ shape' = IF Head(txq) > first
                THEN Append(shape, <<wires, csmode>>) ELSE shape
  /\ UNCHANGED <<spc, wires, csmode, bytes, first, transfer, speed>>

-----------------------------------------------------------------------------
(* The baud rate.                                                           *)

\* The rate is recorded before it is known whether it can be had.
ApplyConfig(r, b) ==
  /\ baud' = b
  /\ IF Divider(r, b) > DivMask
       THEN applied' = -1 /\ UNCHANGED sckdiv
       ELSE applied' = 0 /\ sckdiv' = Divider(r, b) % (DivMask + 1)

\* metal_spi_init, which also connects the pins (see PinMux), and
\* metal_spi_set_baud_rate.
SetBaudRate ==
  /\ spc = "idle"
  /\ \E b \in Bauds : ApplyConfig(spi_clock, b)
  /\ UNCHANGED <<spc, wire, transfer, spi_clock>>

\* The parent clock changes: the pre callback waits until the transmit FIFO
\* is empty, the post callback sets the recorded baud rate again.
SpiClockChange ==
  /\ spc = "idle" /\ baud # 0
  /\ txq = <<>>
  /\ \E r \in SpiRates \ {spi_clock} : spi_clock' = r /\ ApplyConfig(r, baud)
  /\ UNCHANGED <<spc, wire, transfer>>

Caller == Transfer \/ Send \/ Receive \/ ReadEmpty
          \/ NotCalled \/ TimeOut \/ Done
          \/ SetBaudRate \/ SpiClockChange

SpiNext == Caller \/ Shift

SpiSpec == SpiInit /\ [][SpiNext]_spiVars

-----------------------------------------------------------------------------
\* The wires byte k of a transfer of c is to go out on.
WiresOf(c, k) ==
  LET named == CASE c.multi_wire = "all" -> 0
                 [] c.multi_wire = "addr_data" -> c.cmd
                 [] c.multi_wire = "data_only" -> c.cmd + c.addr + c.dummy
  IN IF k >= named THEN c.protocol ELSE "single"

Awaiting == spc \in {"await", "check"}

\* How many transfers timed out before the running or last one.
Late == timeouts - (IF spc = "idle" /\ status = 1 THEN 1 ELSE 0)

(* Every transfer that times out leaves one answer behind for good: after   *)
(* n of them the FIFOs hold n bytes more than are waited for, and each place *)
(* of a receive buffer gets the answer to the byte sent n places before its  *)
(* own, those at its start the answers to bytes of earlier transfers.  None  *)
(* is skipped, stored twice or out of order; with n = 0 each answer is to    *)
(* its own byte (sifive_spi0.c, transfer).                                   *)
AnswersComeInOrder ==
  /\ Len(txq) + Len(rxq) = timeouts + (IF Awaiting THEN 1 ELSE 0)
  /\ \A k \in 1 .. Len(rx_buf) : rx_buf[k] = first + k - Late

(* A byte goes out with the chip select held, on the wires of its own stage  *)
(* or, since the driver runs ahead of the wire by the bytes left behind, on  *)
(* those of a byte at most as many places later.  Only the last bytes of a   *)
(* transfer, as many as were left behind, can go out after it has released   *)
(* the chip select.                                                          *)
BytesAreStaged ==
  \A k \in 1 .. Len(shape) :
    \/ \E j \in k - 1 .. k - 1 + Late : shape[k] = <<WiresOf(cfg, j), "hold">>
    \/ /\ shape[k][2] = "auto"
       /\ spc = "idle" /\ first + k + timeouts > bytes

(* Whatever timed out before, a transfer that returns 0 has filled its      *)
(* buffer, one that returns 1 has not, and neither leaves the chip select   *)
(* held for the next caller.                                                *)
ChipSelectIsReleased ==
  spc = "idle" =>
    /\ csmode = "auto"
    /\ status = 0 /\ transfers > 0 => Len(rx_buf) = cfg.len
    /\ status = 1 => Len(rx_buf) < cfg.len

(* "@return 0 if the transfer succeeds" (metal/spi.h:72): the buffer of a   *)
(* transfer that returned 0 holds the answers to the bytes it sent.         *)
SucceedsWithItsOwn ==
  spc = "idle" /\ status = 0 =>
    \A k \in 1 .. Len(rx_buf) : rx_buf[k] = first + k

(* The rate of the bus follows the parent clock: when the last set_baud_rate*)
(* (the caller's or the post callback's) returned 0 for a baud rate of at   *)
(* most half the clock's, the bus runs at the slowest rate the divider has  *)
(* that is not below the one asked for (sifive_spi0.c, set_baud_rate).      *)
BusRateIsReached ==
  baud # 0 /\ applied = 0 /\ 2 * baud <= spi_clock =>
    /\ spi_clock >= 2 * baud * (sckdiv + 1)
    /\ spi_clock < 2 * baud * (sckdiv + 2)

\* The four of them: what a caller of the driver may rely on.
TransfersAreSound ==
  /\ AnswersComeInOrder /\ BytesAreStaged
  /\ ChipSelectIsReleased /\ BusRateIsReached
============================================================================
