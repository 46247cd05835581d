----------------------------- MODULE I2cDriver -----------------------------
(***************************************************************************)
(* The I2C driver of the SDK (sifive_i2c0.c): write, read and transfer as  *)
(* sequences of commands to the controller, each followed by a wait for    *)
(* the end of the transfer (TIP) that a timeout may cut short.  The slave  *)
(* may refuse any byte and may hold a transfer up for as long as it likes. *)
(*                                                                         *)
(* A call is a record: write sends tx bytes, read receives rx bytes, both  *)
(* end with a STOP if asked to; transfer does one after the other and      *)
(* always ends with a STOP.  The contents of the bytes are left out.       *)
(***************************************************************************)
EXTENDS Naturals

CONSTANTS
  Operations,   \* the entry points in use: "write", "read", "transfer"
  Lengths       \* the lengths they are called with

ASSUME CallsAssumption ==
  /\ Operations \subseteq {"write", "read", "transfer"}
  /\ Lengths \subseteq Nat

Calls ==
  {c \in [op : Operations, tx : Lengths \cup {0}, rx : Lengths \cup {0}, stop : BOOLEAN] :
     /\ c.op = "write" => c.tx \in Lengths /\ c.rx = 0
     /\ c.op = "read" => c.rx \in Lengths /\ c.tx = 0
     /\ c.op = "transfer" => c.stop}

Directions == {"send", "receive"}

Commands == [start : BOOLEAN, dir : Directions, stop : BOOLEAN, nack : BOOLEAN]

VARIABLES
  init_done,  \* metal_i2c_init succeeded
  pc,         \* "idle", or the wait the driver is in
  call,       \* the call being served, or served last
  dir,        \* the part of it: sending or receiving
  i,          \* number of the byte in flight
  seen,       \* the status just read had TIP set; the clock is checked next
  late,       \* the timeout has expired
  ret,        \* what the last call returned, or "none"
  tip,        \* controller: a command is being carried out (TIP)
  command,    \* controller: that command
  rxack,      \* controller: the last byte sent was acknowledged
  bus,        \* "free", or "held" between START and STOP
  slave,      \* "send"/"receive": addressed for that direction, else "none"
  delivered,  \* history: bytes of the call acknowledged and received
  clobbered   \* history: a command was written while another was in progress

driver == <<init_done, pc, call, dir, i, seen, ret, delivered>>
controller == <<tip, command, rxack, bus, slave>>
vars == <<driver, late, controller, clobbered>>

Waits == {"before", "address", "data"}

NoCall == [op |-> "write", tx |-> 0, rx |-> 0, stop |-> FALSE]

TypeOK ==
  /\ init_done \in BOOLEAN
  /\ pc \in Waits \cup {"idle"}
  /\ call \in Calls \cup {NoCall}
  /\ dir \in Directions
  /\ i \in Nat
  /\ seen \in BOOLEAN
  /\ late \in BOOLEAN
  /\ ret \in {"OK", "ERR", "none"}
  /\ tip \in BOOLEAN
  /\ command \in Commands
  /\ rxack \in BOOLEAN
  /\ bus \in {"free", "held"}
  /\ slave \in Directions \cup {"none"}
  /\ delivered \in Nat
  /\ clobbered \in BOOLEAN

Init ==
  /\ init_done \in BOOLEAN
  /\ pc = "idle"
  /\ call = NoCall
  /\ dir = "send"
  /\ i = 0
  /\ seen = FALSE
  /\ late = FALSE
  /\ ret = "none"
  /\ tip = FALSE
  /\ command = [start |-> FALSE, dir |-> "send", stop |-> FALSE, nack |-> FALSE]
  /\ rxack = FALSE
  /\ bus = "free"
  /\ slave = "none"
  /\ delivered = 0
  /\ clobbered = FALSE

-----------------------------------------------------------------------------
(* The controller and the slave.                                            *)

\* A START addresses the slave, which answers or does not.
DoAddress ==
  /\ command.start
  /\ \E ack \in BOOLEAN :
        /\ rxack' = ack
        /\ slave' = IF ack THEN command.dir ELSE "none"
  /\ bus' = "held"

\* A byte to the slave, which may refuse it.
DoSend ==
  /\ ~command.start /\ command.dir = "send"
  /\ \E ack \in BOOLEAN : rxack' = ack
  /\ slave' = IF command.stop THEN "none" ELSE slave
  /\ bus' = IF command.stop THEN "free" ELSE bus

\* A byte from the slave, which lets go of the line after a NACK.
DoReceive ==
  /\ ~command.start /\ command.dir = "receive"
  /\ slave' = IF command.nack \/ command.stop THEN "none" ELSE slave
  /\ bus' = IF command.stop THEN "free" ELSE bus
  /\ UNCHANGED rxack

Finish ==
  /\ tip /\ tip' = FALSE
  /\ DoAddress \/ DoSend \/ DoReceive
  /\ UNCHANGED <<driver, late, command, clobbered>>

\* metal_time() passes the timeout.
Expire ==
  /\ ~late /\ late' = TRUE
  /\ UNCHANGED <<driver, controller, clobbered>>

-----------------------------------------------------------------------------
(* The driver.                                                              *)

\* Write the command register; the timeout starts anew.
Issue(c) ==
  /\ command' = c /\ tip' = TRUE
  /\ late' = FALSE
  /\ clobbered' = (clobbered \/ tip)
  /\ UNCHANGED <<rxack, bus, slave>>

Quiet == UNCHANGED <<controller, clobbered>>

Return(r) ==
  /\ pc' = "idle" /\ ret' = r /\ seen' = FALSE
  /\ UNCHANGED <<call, dir, i, late>>
  /\ Quiet

\* The first lines of write_addr: TIP must be clear before the address goes out.
Begin(d) ==
  /\ pc' = "before" /\ dir' = d /\ i' = 0 /\ seen' = FALSE
  /\ late' = FALSE
  /\ Quiet

\* A driver whose init failed refuses every call.
Refuse ==
  /\ pc = "idle" /\ ~init_done
  /\ call' \in Calls
  /\ ret' = "ERR" /\ delivered' = 0
  /\ UNCHANGED <<init_done, pc, dir, i, seen, late>>
  /\ Quiet

Enter ==
  /\ pc = "idle" /\ init_done
  /\ call' \in Calls
  /\ call'.tx > 0 \/ call'.rx > 0 \/ call'.op # "transfer"
  /\ ret' = "none" /\ delivered' = 0
  /\ Begin(IF call'.op = "read" \/ (call'.op = "transfer" /\ call'.tx = 0)
           THEN "receive" ELSE "send")
  /\ UNCHANGED init_done

\* transfer of nothing in both directions returns its uninitialised ret.
EnterEmpty ==
  /\ pc = "idle" /\ init_done
  /\ call' \in {c \in Calls : c.op = "transfer" /\ c.tx = 0 /\ c.rx = 0}
  /\ ret' \in {"OK", "ERR"} /\ delivered' = 0
  /\ UNCHANGED <<init_done, pc, dir, i, seen, late>>
  /\ Quiet

\* The body of METAL_I2C_REG_CHECK: TIP was set when the status was read ...
SeeBusy ==
  /\ pc \in Waits /\ ~seen /\ tip
  /\ seen' = TRUE
  /\ UNCHANGED <<init_done, pc, call, dir, i, ret, delivered, late>>
  /\ Quiet

\* Mutant: the timeout starts anew with every look at the status.
CheckClock_Restarts ==
  /\ pc \in Waits /\ seen
  /\ seen' = FALSE /\ late' = FALSE
  /\ UNCHANGED <<init_done, pc, call, dir, i, ret, delivered>>
  /\ Quiet

\* ... and the clock decides: look again, or give up, with the command still
\* in progress or, by now, not.
CheckClock ==
  /\ pc \in Waits /\ seen
  /\ IF late
     THEN Return("ERR") /\ UNCHANGED <<init_done, delivered>>
     ELSE /\ seen' = FALSE
          /\ UNCHANGED <<init_done, pc, call, dir, i, ret, delivered, late>>
          /\ Quiet

Ready(wait) == pc = wait /\ ~seen /\ ~tip

\* Mutant: write_addr does not wait for what is still in progress.
SendAddress_AtOnce ==
  /\ pc = "before" /\ ~seen
  /\ pc' = "address"
  /\ Issue([start |-> TRUE, dir |-> dir, stop |-> FALSE, nack |-> FALSE])
  /\ UNCHANGED <<init_done, call, dir, i, seen, ret, delivered>>

\* write_addr: START and the address.
SendAddress ==
  /\ Ready("before")
  /\ pc' = "address"
  /\ Issue([start |-> TRUE, dir |-> dir, stop |-> FALSE, nack |-> FALSE])
  /\ UNCHANGED <<init_done, call, dir, i, seen, ret, delivered>>

Bytes(c, d) == IF d = "send" THEN c.tx ELSE c.rx

\* The last byte of a call carries the STOP; the bytes transfer sends before
\* it receives do not.
Stops(c, d, n) == c.stop /\ n = Bytes(c, d) /\ (d = "send" => c.rx = 0)

\* Byte n of the current part; the last byte received is not acknowledged.
SendData(n) ==
  /\ pc' = "data" /\ i' = n
  /\ Issue([start |-> FALSE, dir |-> dir, stop |-> Stops(call, dir, n),
            nack |-> dir = "receive" /\ n = call.rx])
  /\ UNCHANGED <<init_done, call, dir, seen, ret>>

\* What follows a part that is done with result r.
EndPart(r) ==
  \/ /\ call.op = "transfer" /\ dir = "send" /\ call.rx > 0
     /\ Begin("receive")
     /\ UNCHANGED <<init_done, call, ret>>
  \/ /\ ~(call.op = "transfer" /\ dir = "send" /\ call.rx > 0)
     /\ Return(r) /\ UNCHANGED init_done

AddressRefused ==
  /\ Ready("address") /\ ~rxack
  /\ Return("ERR")
  /\ UNCHANGED <<init_done, delivered>>

AddressTaken ==
  /\ Ready("address") /\ rxack
  /\ Bytes(call, dir) > 0
  /\ SendData(1)
  /\ UNCHANGED delivered

\* A call of length zero ends after the address, without a STOP.
NothingToSend ==
  /\ Ready("address") /\ rxack
  /\ Bytes(call, dir) = 0
  /\ Return("OK")
  /\ UNCHANGED <<init_done, delivered>>

Taken == dir = "receive" \/ rxack

NextByte ==
  /\ Ready("data") /\ Taken
  /\ i < Bytes(call, dir)
  /\ delivered' = delivered + 1
  /\ SendData(i + 1)

LastByte ==
  /\ Ready("data") /\ Taken
  /\ i = Bytes(call, dir)
  /\ delivered' = delivered + 1
  /\ EndPart("OK")

\* Mutant: a refused byte ends the loop but is no error.
ByteRefused_Forgiven ==
  /\ Ready("data") /\ ~Taken
  /\ EndPart("OK")
  /\ UNCHANGED delivered

\* A refused byte breaks the loop.  In transfer the receiving part follows all
\* the same, and overwrites ret.
ByteRefused ==
  /\ Ready("data") /\ ~Taken
  /\ EndPart("ERR")
  /\ UNCHANGED delivered

Driver ==
  \/ SeeBusy \/ CheckClock \/ SendAddress \/ AddressRefused \/ AddressTaken
  \/ NothingToSend \/ NextByte \/ LastByte \/ ByteRefused

Caller == Refuse \/ Enter \/ EnterEmpty

Next == Driver \/ Caller \/ Finish \/ Expire

Spec == Init /\ [][Next]_vars

\* The processor runs and the clock advances; the slave owes nothing.
FairSpec == Spec /\ WF_vars(Driver) /\ WF_vars(Expire)

-----------------------------------------------------------------------------
(* Properties.                                                              *)

\* The command register is not written while a command is in progress, not
\* even by the call that follows one that timed out.
NeverClobbered == ~clobbered

\* A data byte crosses the bus only when the slave took its address in that
\* direction, whatever the calls before left on the bus.
DataFollowsAddress ==
  tip /\ ~command.start /\ pc = "data" => slave = dir /\ bus = "held"

\* The buffers are indexed within the length the caller gave.
IndexInBounds == pc = "data" => i \in 1..Bytes(call, dir)

\* The three, and the types: what the driver keeps on the bus, timeouts and
\* refusals included.
BusIsSound == TypeOK /\ NeverClobbered /\ DataFollowsAddress /\ IndexInBounds

Succeeded == pc = "idle" /\ ret = "OK"

\* "return 0 if the ... succeeds": a write or read that returns 0 has had each
\* of its bytes acknowledged or received.
OkMeansDone ==
  Succeeded /\ call.op # "transfer" => delivered = call.tx + call.rx

\* "return 0 if the transfer succeeds": the same of transfer.
TransferOkMeansDone ==
  Succeeded /\ call.op = "transfer" => delivered = call.tx + call.rx

\* "Enable / Disable STOP condition": a call of at least one byte that returns
\* 0 leaves the bus free if a STOP was asked for, held for the next START if
\* not, and no slave that still drives the data line.
OkEndsAsAsked ==
  Succeeded /\ call.tx + call.rx > 0 =>
    /\ bus = "free" <=> call.stop
    /\ slave # "receive"

\* What a caller may conclude from a 0.
OkIsTrue == OkMeansDone /\ OkEndsAsAsked

\* No slave can keep the driver from returning.
CallsReturn == pc # "idle" ~> pc = "idle"
=============================================================================
