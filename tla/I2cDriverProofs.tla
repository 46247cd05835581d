-------------------------- MODULE I2cDriverProofs --------------------------
(***************************************************************************)
(* Proofs about I2cDriver for all lengths of the calls: its types, that    *)
(* commands never overlap, that data goes only to a slave that took its    *)
(* address, and what a result of 0 means.                                  *)
(***************************************************************************)
EXTENDS I2cDriver, TLAPS

\* The lengths in a call are natural numbers.
LEMMA CallsAreTyped ==
  ASSUME NEW c \in Calls \cup {NoCall}, NEW d \in Directions
  PROVE  Bytes(c, d) \in Nat /\ c.tx \in Nat /\ c.rx \in Nat
<1>1. CASE c \in Calls
  <2>1. c \in [op : Operations, tx : Lengths \cup {0}, rx : Lengths \cup {0}, stop : BOOLEAN]
    BY <1>1 DEF Calls
  <2>2. c.tx \in Lengths \cup {0} /\ c.rx \in Lengths \cup {0}
    BY <2>1
  <2>3. \A n \in Lengths \cup {0} : n \in Nat
    BY CallsAssumption
  <2>4. c.tx \in Nat /\ c.rx \in Nat
    BY <2>2, <2>3, Zenon
  <2> QED BY <2>4, Zenon DEF Bytes
<1>2. CASE c = NoCall
  BY <1>2 DEF NoCall, Bytes
<1> QED BY <1>1, <1>2

LEMMA TypeInit == Init => TypeOK
<1>1. [start |-> FALSE, dir |-> "send", stop |-> FALSE, nack |-> FALSE] \in Commands
  BY DEF Commands, Directions
<1>2. Init => command \in Commands
  BY <1>1, Zenon DEF Init
<1>3. Init => call \in Calls \cup {NoCall} /\ i \in Nat /\ delivered \in Nat
  BY DEF Init
<1> QED BY <1>2, <1>3, Zenon DEF Init, TypeOK, Waits, Directions

LEMMA TypeNext == TypeOK /\ [Next]_vars => TypeOK'
<1> SUFFICES ASSUME TypeOK, [Next]_vars PROVE TypeOK'
  OBVIOUS
<1> USE DEF TypeOK, Waits, Directions
<1>1. ASSUME NEW c \in Commands, Issue(c)
      PROVE  /\ command' \in Commands /\ tip' \in BOOLEAN /\ late' \in BOOLEAN
             /\ clobbered' \in BOOLEAN /\ UNCHANGED <<rxack, bus, slave>>
  BY <1>1 DEF Issue
<1>2. CASE Refuse \/ EnterEmpty
  BY <1>2 DEF Refuse, EnterEmpty, Quiet, controller
<1>3. CASE Enter
  BY <1>3 DEF Enter, Begin, Quiet, controller
<1>4. CASE SeeBusy \/ CheckClock
  <2>1. CASE SeeBusy
    BY <2>1 DEF SeeBusy, Quiet, controller
  <2>2. CASE CheckClock /\ late
    <3>1. Return("ERR") /\ UNCHANGED <<init_done, delivered>>
      BY <2>2 DEF CheckClock
    <3> QED BY <3>1 DEF Return, Quiet, controller
  <2>3. CASE CheckClock /\ ~late
    BY ZenonT(40), <2>3 DEF CheckClock, Quiet, controller
  <2> QED BY <1>4, <2>1, <2>2, <2>3
<1>5. CASE SendAddress
  <2>1. [start |-> TRUE, dir |-> dir, stop |-> FALSE, nack |-> FALSE] \in Commands
    BY DEF Commands
  <2> QED BY <1>5, <2>1, <1>1 DEF SendAddress
<1>6. ASSUME NEW n \in Nat, SendData(n), delivered' \in Nat PROVE TypeOK'
  <2>1. Stops(call, dir, n) \in BOOLEAN
    BY Zenon DEF Stops
  <2>2. [start |-> FALSE, dir |-> dir, stop |-> Stops(call, dir, n),
         nack |-> dir = "receive" /\ n = call.rx] \in Commands
    BY <2>1 DEF Commands
  <2> QED BY <1>6, <2>2, <1>1 DEF SendData
<1>7. CASE AddressTaken \/ NextByte
  BY <1>7, <1>6 DEF AddressTaken, NextByte
<1>8. CASE AddressRefused \/ NothingToSend
  BY <1>8 DEF AddressRefused, NothingToSend, Return, Quiet, controller
<1>9. CASE LastByte \/ ByteRefused
  <2>1. delivered' \in Nat
    BY <1>9 DEF LastByte, ByteRefused
  <2>2. ASSUME NEW r \in {"OK", "ERR"}, EndPart(r) PROVE TypeOK'
    <3>1. CASE Begin("receive") /\ UNCHANGED <<init_done, call, ret>>
      BY <2>1, <3>1 DEF Begin, Quiet, controller
    <3>2. CASE Return(r) /\ UNCHANGED init_done
      BY ZenonT(40), <2>1, <3>2 DEF Return, Quiet, controller
    <3> QED BY <2>2, <3>1, <3>2 DEF EndPart
  <2> QED BY <1>9, <2>2 DEF LastByte, ByteRefused
<1>10. CASE Finish
  <2>1. /\ rxack' \in BOOLEAN /\ bus' \in {"free", "held"}
        /\ slave' \in Directions \cup {"none"}
    BY <1>10 DEF Finish, DoAddress, DoSend, DoReceive, Commands
  <2> QED BY <1>10, <2>1 DEF Finish, driver
<1>11. CASE Expire
  BY <1>11 DEF Expire, driver, controller
<1>12. CASE UNCHANGED vars
  BY <1>12 DEF vars, driver, controller
<1> QED BY <1>2, <1>3, <1>4, <1>5, <1>7, <1>8, <1>9, <1>10, <1>11, <1>12
        DEF Next, Driver, Caller

\* The variables keep their types for all lengths.
THEOREM TypeCorrect == Spec => []TypeOK
BY TypeInit, TypeNext, PTL DEF Spec

-----------------------------------------------------------------------------

LEMMA ClobberedNext == NeverClobbered /\ [Next]_vars => NeverClobbered'
<1> SUFFICES ASSUME NeverClobbered, [Next]_vars PROVE NeverClobbered'
  OBVIOUS
<1> USE DEF NeverClobbered, Quiet, Issue, Ready
<1>1. CASE Caller
  BY <1>1 DEF Caller, Refuse, Enter, EnterEmpty, Begin
<1>2. CASE SeeBusy \/ CheckClock
  BY <1>2 DEF SeeBusy, CheckClock, Return
<1>3. CASE SendAddress
  BY <1>3 DEF SendAddress
<1>4. CASE AddressTaken \/ NextByte
  BY <1>4 DEF AddressTaken, NextByte, SendData
<1>5. CASE AddressRefused \/ NothingToSend
  BY <1>5 DEF AddressRefused, NothingToSend, Return
<1>6. CASE LastByte \/ ByteRefused
  BY <1>6 DEF LastByte, ByteRefused, EndPart, Begin, Return
<1>7. CASE Finish \/ Expire \/ UNCHANGED vars
  BY <1>7 DEF Finish, Expire, vars
<1> QED BY <1>1, <1>2, <1>3, <1>4, <1>5, <1>6, <1>7 DEF Next, Driver

\* No command is written while another is in progress, whatever timed out
\* before.
THEOREM CommandsCorrect == Spec => []NeverClobbered
<1>1. Init => NeverClobbered
  BY DEF Init, NeverClobbered
<1> QED BY <1>1, ClobberedNext, PTL DEF Spec

-----------------------------------------------------------------------------

(* Why data follows an accepted address: the command in progress is the one *)
(* the driver waits for, and what it leaves on the bus is what the next     *)
(* byte needs.                                                              *)
Addressing ==
  pc = "address" =>
    /\ tip => command.start /\ command.dir = dir
    /\ ~tip /\ rxack => slave = dir /\ bus = "held"

InFlight ==
  pc = "data" /\ tip =>
    /\ ~command.start /\ command.dir = dir
    /\ command.stop = Stops(call, dir, i)
    /\ command.nack = (dir = "receive" /\ i = call.rx)
    /\ slave = dir /\ bus = "held"

Between ==
  pc = "data" /\ ~tip =>
    IF i < Bytes(call, dir)
    THEN slave = dir /\ bus = "held"
    ELSE /\ bus = IF Stops(call, dir, i) THEN "free" ELSE "held"
         /\ slave # "receive"

Bus == IndexInBounds /\ Addressing /\ InFlight /\ Between

\* Outside the data phase only the address matters, and outside both nothing.
LEMMA BusElsewhere ==
  ASSUME pc' \in {"idle", "before"} PROVE Bus'
BY DEF Bus, IndexInBounds, Addressing, InFlight, Between

LEMMA BusData ==
  ASSUME TypeOK, NEW n \in 1..Bytes(call, dir), SendData(n), slave = dir, bus = "held"
  PROVE  Bus'
<1>1. /\ pc' = "data" /\ i' = n /\ tip' = TRUE /\ slave' = dir' /\ bus' = "held"
      /\ UNCHANGED <<call, dir>>
  BY DEF SendData, Issue
<1>2. command' = [start |-> FALSE, dir |-> dir, stop |-> Stops(call, dir, n),
                  nack |-> dir = "receive" /\ n = call.rx]
  BY DEF SendData, Issue
<1>3. IndexInBounds' /\ Addressing' /\ Between'
  BY <1>1 DEF IndexInBounds, Addressing, Between
<1>4. InFlight'
  BY <1>1, <1>2 DEF InFlight
<1> QED BY <1>3, <1>4 DEF Bus

LEMMA BusFinish ==
  ASSUME TypeOK, Bus, Finish PROVE Bus'
<1>1. /\ tip = TRUE /\ tip' = FALSE
      /\ UNCHANGED <<pc, call, dir, i, command>>
  BY DEF Finish, driver
<1>2. CASE pc = "address"
  <2>1. command.start /\ command.dir = dir
    BY <1>1, <1>2 DEF Bus, Addressing
  <2>2. DoAddress
    BY <2>1 DEF Finish, DoSend, DoReceive
  <2>3. (rxack' => slave' = dir) /\ bus' = "held"
    BY <2>1, <2>2 DEF DoAddress
  <2> QED BY <1>1, <1>2, <2>3 DEF Bus, IndexInBounds, Addressing, InFlight, Between
<1>3. CASE pc = "data"
  <2>1. /\ ~command.start /\ command.dir = dir
        /\ command.stop = Stops(call, dir, i)
        /\ command.nack = (dir = "receive" /\ i = call.rx)
        /\ slave = dir /\ bus = "held" /\ i \in 1..Bytes(call, dir)
    BY <1>1, <1>3 DEF Bus, InFlight, IndexInBounds
  <2>2. dir \in {"send", "receive"} /\ Bytes(call, dir) \in Nat
    BY CallsAreTyped DEF TypeOK, Directions
  <2>3. CASE i < Bytes(call, dir)
    <3>3. i # Bytes(call, dir)
      BY <2>1, <2>2, <2>3
    <3>4. ~Stops(call, dir, i) /\ ~(dir = "receive" /\ i = call.rx)
      BY <3>3 DEF Stops, Bytes
    <3>1. ~command.stop /\ ~command.nack
      BY <2>1, <3>4, Zenon
    <3>2. slave' = dir /\ bus' = "held"
      BY <2>1, <3>1 DEF Finish, DoAddress, DoSend, DoReceive
    <3> QED BY <1>1, <1>3, <2>1, <2>3, <3>2
            DEF Bus, IndexInBounds, Addressing, InFlight, Between
  <2>4. CASE ~(i < Bytes(call, dir))
    <3>1. i = Bytes(call, dir)
      BY <2>1, <2>2, <2>4
    <3>2. bus' = IF Stops(call, dir, i) THEN "free" ELSE "held"
      BY <2>1 DEF Finish, DoAddress, DoSend, DoReceive
    <3>3. slave' # "receive"
      BY <2>1, <2>2, <3>1 DEF Finish, DoAddress, DoSend, DoReceive, Bytes
    <3> QED BY <1>1, <1>3, <2>1, <2>4, <3>2, <3>3
            DEF Bus, IndexInBounds, Addressing, InFlight, Between
  <2> QED BY <2>3, <2>4
<1>4. CASE pc \in {"idle", "before"}
  BY <1>1, <1>4, BusElsewhere
<1> QED BY <1>2, <1>3, <1>4 DEF TypeOK, Waits

LEMMA BusNext == TypeOK /\ Bus /\ [Next]_vars => Bus'
<1> SUFFICES ASSUME TypeOK, Bus, [Next]_vars PROVE Bus'
  OBVIOUS
<1>1. CASE Caller
  <2>1. pc' \in {"idle", "before"}
    BY <1>1 DEF Caller, Refuse, Enter, EnterEmpty, Begin
  <2> QED BY <2>1, BusElsewhere
<1>2. ASSUME UNCHANGED <<pc, call, dir, i, controller>> PROVE Bus'
  BY <1>2 DEF Bus, IndexInBounds, Addressing, InFlight, Between, controller
<1>3. CASE SeeBusy \/ Expire \/ UNCHANGED vars
  BY <1>2, <1>3 DEF SeeBusy, Expire, Quiet, vars, driver
<1>4. CASE CheckClock
  BY <1>2, <1>4, BusElsewhere DEF CheckClock, Return, Quiet
<1>5. CASE SendAddress
  <2>1. /\ pc' = "address" /\ tip' = TRUE /\ dir' = dir
        /\ command' = [start |-> TRUE, dir |-> dir, stop |-> FALSE, nack |-> FALSE]
    BY <1>5 DEF SendAddress, Issue
  <2> QED BY <2>1 DEF Bus, IndexInBounds, Addressing, InFlight, Between
<1>6. CASE AddressTaken
  <2>1. slave = dir /\ bus = "held"
    BY <1>6 DEF AddressTaken, Ready, Bus, Addressing
  <2>2. 1 \in 1..Bytes(call, dir)
    BY <1>6, CallsAreTyped DEF AddressTaken, TypeOK
  <2> QED BY <1>6, <2>1, <2>2, BusData DEF AddressTaken
<1>7. CASE NextByte
  <2>1. slave = dir /\ bus = "held"
    BY <1>7 DEF NextByte, Ready, Bus, Between
  <2>2. i + 1 \in 1..Bytes(call, dir)
    BY <1>7, CallsAreTyped DEF NextByte, TypeOK
  <2> QED BY <1>7, <2>1, <2>2, BusData DEF NextByte
<1>8. CASE AddressRefused \/ NothingToSend \/ LastByte \/ ByteRefused
  <2>1. pc' \in {"idle", "before"}
    BY <1>8 DEF AddressRefused, NothingToSend, LastByte, ByteRefused, EndPart,
                Begin, Return
  <2> QED BY <2>1, BusElsewhere
<1>9. CASE Finish
  BY <1>9, BusFinish
<1> QED BY <1>1, <1>3, <1>4, <1>5, <1>6, <1>7, <1>8, <1>9 DEF Next, Driver

LEMMA BusAlways == Spec => [](TypeOK /\ Bus)
<1>1. Init => Bus
  BY DEF Init, Bus, IndexInBounds, Addressing, InFlight, Between
<1> QED BY <1>1, TypeInit, TypeNext, BusNext, PTL DEF Spec

\* A data byte is on the bus only for a slave that took its address in that
\* direction, whatever earlier calls left behind.
THEOREM DataCorrect == Spec => []DataFollowsAddress
<1>1. Bus => DataFollowsAddress
  BY DEF Bus, InFlight, DataFollowsAddress
<1> QED BY <1>1, BusAlways, PTL

\* The buffers are indexed within the lengths given, zero included.
THEOREM IndexCorrect == Spec => []IndexInBounds
<1>1. Bus => IndexInBounds
  BY DEF Bus
<1> QED BY <1>1, BusAlways, PTL

-----------------------------------------------------------------------------

(* What a result of 0 means.                                                *)
Progress ==
  pc # "idle" =>
    /\ call \in Calls
    /\ call.op = "read" => dir = "receive"
    /\ call.op = "write" => dir = "send"
    /\ call.op = "transfer" => Bytes(call, dir) > 0
    /\ call.op # "transfer" =>
         /\ pc # "data" => delivered = 0
         /\ pc = "data" => delivered + 1 = i

LEMMA CallForms ==
  ASSUME NEW c \in Calls
  PROVE  /\ c.op \in {"write", "read", "transfer"}
         /\ c.op = "write" => c.rx = 0
         /\ c.op = "read" => c.tx = 0
         /\ c.op = "transfer" => c.stop
<1>1. c.op \in Operations
  BY DEF Calls
<1>2. /\ c.op = "write" => c.rx = 0
      /\ c.op = "read" => c.tx = 0
      /\ c.op = "transfer" => c.stop
  BY Zenon DEF Calls
<1> QED BY <1>1, <1>2, CallsAssumption

\* The number of bytes of a write or read, seen from the part it is in.
LEMMA OnePart ==
  ASSUME TypeOK, Progress, pc # "idle", call.op # "transfer"
  PROVE  Bytes(call, dir) = call.tx + call.rx
<1>1. call \in Calls /\ call.tx \in Nat /\ call.rx \in Nat
  BY CallsAreTyped DEF Progress, TypeOK
<1> QED BY <1>1, CallForms DEF Progress, Bytes

\* Where a part ends, the call does or, in a transfer, receiving follows.
LEMMA PartEnds ==
  ASSUME NEW r, TypeOK, Progress, pc # "idle", EndPart(r)
  PROVE  \/ Return(r) /\ UNCHANGED init_done /\ (dir = "send" => call.rx = 0)
         \/ /\ call.op = "transfer" /\ call.rx > 0
            /\ pc' = "before" /\ dir' = "receive" /\ UNCHANGED <<call, ret>>
<1>1. call \in Calls /\ call.rx \in Nat
  BY CallsAreTyped DEF Progress, TypeOK
<1>2. call.op # "transfer" /\ dir = "send" => call.rx = 0
  BY <1>1, CallForms DEF Progress
<1>3. CASE call.op = "transfer" /\ dir = "send" /\ call.rx > 0
  BY <1>3 DEF EndPart, Begin
<1>4. CASE ~(call.op = "transfer" /\ dir = "send" /\ call.rx > 0)
  BY <1>1, <1>2, <1>4 DEF EndPart
<1> QED BY <1>3, <1>4

LEMMA ProgressNext ==
  ASSUME TypeOK, Progress, [Next]_vars PROVE Progress'
<1>1. CASE Refuse \/ EnterEmpty
  BY <1>1 DEF Refuse, EnterEmpty, Progress
<1>2. CASE Enter
  <2>1. call' \in Calls /\ pc' = "before" /\ delivered' = 0
    BY <1>2 DEF Enter, Begin
  <2>2. call'.tx \in Nat /\ call'.rx \in Nat
    BY <2>1, CallsAreTyped DEF Directions
  <2>3. dir' = IF call'.op = "read" \/ (call'.op = "transfer" /\ call'.tx = 0)
               THEN "receive" ELSE "send"
    BY <1>2 DEF Enter, Begin
  <2>4. call'.op = "transfer" => Bytes(call', dir') > 0
    BY <1>2, <2>2, <2>3 DEF Enter, Bytes
  <2> QED BY <2>1, <2>3, <2>4 DEF Progress, Bytes
<1>3. CASE SeeBusy
  BY <1>3 DEF SeeBusy, Progress, Bytes, Waits
<1>4. CASE CheckClock
  BY <1>4 DEF CheckClock, Return, Progress, Bytes, Waits
<1>5. CASE SendAddress
  BY <1>5 DEF SendAddress, Ready, Progress, Bytes
<1>6. CASE AddressTaken
  BY <1>6 DEF AddressTaken, SendData, Ready, Progress, Bytes
<1>7. CASE NextByte
  BY <1>7 DEF NextByte, SendData, Ready, Progress, Bytes, TypeOK
<1>8. CASE AddressRefused \/ NothingToSend
  BY <1>8 DEF AddressRefused, NothingToSend, Return, Progress
<1>9. CASE LastByte \/ ByteRefused
  <2>1. PICK r : EndPart(r) /\ pc = "data"
    BY <1>9 DEF LastByte, ByteRefused, Ready
  <2>2. CASE Return(r)
    BY <2>2 DEF Return, Progress
  <2>3. CASE /\ call.op = "transfer" /\ call.rx > 0
             /\ pc' = "before" /\ dir' = "receive" /\ UNCHANGED <<call, ret>>
    BY <2>1, <2>3 DEF Progress, Bytes
  <2> QED BY <2>1, <2>2, <2>3, PartEnds
<1>10. CASE Finish \/ Expire \/ UNCHANGED vars
  BY <1>10 DEF Finish, Expire, vars, driver, Progress, Bytes
<1> QED BY <1>1, <1>2, <1>3, <1>4, <1>5, <1>6, <1>7, <1>8, <1>9, <1>10
        DEF Next, Driver, Caller

LEMMA DoneNext ==
  ASSUME TypeOK, Progress, OkMeansDone, [Next]_vars PROVE OkMeansDone'
<1> USE DEF OkMeansDone, Succeeded
<1>1. CASE Refuse \/ Enter
  BY <1>1 DEF Refuse, Enter, Begin
<1>2. CASE EnterEmpty
  BY <1>2 DEF EnterEmpty
<1>3. CASE SeeBusy \/ SendAddress \/ AddressTaken \/ NextByte
  BY <1>3 DEF SeeBusy, SendAddress, AddressTaken, NextByte, SendData, Waits
<1>4. CASE CheckClock \/ AddressRefused
  BY <1>4 DEF CheckClock, AddressRefused, Return, Waits
<1>5. CASE NothingToSend
  BY <1>5, OnePart DEF NothingToSend, Return, Ready, Progress
<1>6. CASE LastByte
  <2>1. pc = "data" /\ i = Bytes(call, dir) /\ delivered' = delivered + 1 /\ EndPart("OK")
    BY <1>6 DEF LastByte, Ready
  <2>2. CASE Return("OK")
    BY <2>1, <2>2, OnePart DEF Return, Progress
  <2> QED BY <2>1, <2>2, PartEnds
<1>7. CASE ByteRefused
  <2>1. pc = "data" /\ EndPart("ERR")
    BY <1>7 DEF ByteRefused, Ready
  <2> QED BY <2>1, PartEnds DEF Return
<1>8. CASE Finish \/ Expire \/ UNCHANGED vars
  BY <1>8 DEF Finish, Expire, vars, driver
<1> QED BY <1>1, <1>2, <1>3, <1>4, <1>5, <1>6, <1>7, <1>8 DEF Next, Driver, Caller

\* A write or read of any length that returns 0 has had each of its bytes
\* acknowledged or received.
THEOREM OkCorrect == Spec => []OkMeansDone
<1>1. Init => Progress /\ OkMeansDone
  BY DEF Init, Progress, OkMeansDone, Succeeded
<1>2. TypeOK /\ Progress /\ [Next]_vars => Progress'
  BY ProgressNext
<1>3. TypeOK /\ Progress /\ OkMeansDone /\ [Next]_vars => OkMeansDone'
  BY DoneNext
<1> QED BY <1>1, <1>2, <1>3, TypeInit, TypeNext, PTL DEF Spec

\* A successful call also leaves nothing in progress, an empty transfer apart.
Ends == OkEndsAsAsked /\ (Succeeded /\ call.tx + call.rx > 0 => ~tip)

LEMMA EndsNext ==
  ASSUME TypeOK, Bus, Progress, Ends, [Next]_vars PROVE Ends'
<1> USE DEF Ends, OkEndsAsAsked, Succeeded
<1>1. CASE Refuse \/ Enter
  BY <1>1 DEF Refuse, Enter, Begin
<1>2. CASE EnterEmpty
  BY <1>2 DEF EnterEmpty
<1>3. CASE SeeBusy \/ SendAddress \/ AddressTaken \/ NextByte
  BY <1>3 DEF SeeBusy, SendAddress, AddressTaken, NextByte, SendData, Waits
<1>4. CASE CheckClock \/ AddressRefused
  BY <1>4 DEF CheckClock, AddressRefused, Return, Waits
<1>5. CASE NothingToSend
  <2>1. pc # "idle" /\ Bytes(call, dir) = 0
    BY <1>5 DEF NothingToSend, Ready
  <2>2. call.op # "transfer"
    BY <2>1 DEF Progress
  <2>3. call.tx + call.rx = 0
    BY <2>1, <2>2, OnePart
  <2> QED BY <1>5, <2>3 DEF NothingToSend, Return
<1>6. CASE ByteRefused
  <2>1. pc = "data" /\ EndPart("ERR")
    BY <1>6 DEF ByteRefused, Ready
  <2> QED BY <2>1, PartEnds DEF Return
<1>7. CASE LastByte
  <2>1. EndPart("OK") /\ pc = "data" /\ ~tip /\ i = Bytes(call, dir)
    BY <1>7 DEF LastByte, Ready
  <2>2. bus = (IF Stops(call, dir, i) THEN "free" ELSE "held") /\ slave # "receive"
    BY <2>1, CallsAreTyped DEF Bus, Between, TypeOK
  <2>3. CASE Return("OK") /\ (dir = "send" => call.rx = 0)
    <3>1. Stops(call, dir, i) <=> call.stop
      BY <2>1, <2>3 DEF Stops
    <3> QED BY <2>1, <2>2, <2>3, <3>1 DEF Return, Quiet, controller
  <2> QED BY <2>1, <2>3, PartEnds
<1>8. CASE Finish
  BY <1>8 DEF Finish, driver
<1>9. CASE Expire \/ UNCHANGED vars
  BY <1>9 DEF Expire, vars, driver, controller
<1> QED BY <1>1, <1>2, <1>3, <1>4, <1>5, <1>6, <1>7, <1>8, <1>9
        DEF Next, Driver, Caller

\* A call of at least one byte, transfers included, that returns 0 leaves the
\* bus free exactly if it was asked for a STOP.
THEOREM EndsCorrect == Spec => []OkEndsAsAsked
<1>1. Init => Progress /\ Ends
  BY DEF Init, Progress, Ends, OkEndsAsAsked, Succeeded
<1>2. TypeOK /\ Progress /\ [Next]_vars => Progress'
  BY ProgressNext
<1>3. TypeOK /\ Bus /\ Progress /\ Ends /\ [Next]_vars => Ends'
  BY EndsNext
<1>4. Ends => OkEndsAsAsked
  BY DEF Ends
<1> QED BY <1>1, <1>2, <1>3, <1>4, BusAlways, PTL DEF Spec

\* The state of the bus and of the controller, together.
THEOREM BusCorrect == Spec => []BusIsSound
BY TypeCorrect, CommandsCorrect, DataCorrect, IndexCorrect, PTL
   DEF BusIsSound

\* What a call that returns 0 has done, together.
THEOREM ReturnCorrect == Spec => []OkIsTrue
BY OkCorrect, EndsCorrect, PTL DEF OkIsTrue
=============================================================================
