---------------------------- MODULE UartCommands ----------------------------
(***************************************************************************)
(* The command link of utils/uart.c between the host (an ESP32) and the    *)
(* main loop: read_data, process_command and the transmission of the       *)
(* packet, with the receive FIFO of the UART in between.                   *)
(*                                                                         *)
(* The buffer and the index of read_data are locals of one call: bytes of  *)
(* a command that is not complete when the FIFO runs dry are forgotten.    *)
(* The line is slow next to the program: PollsPerByte calls of             *)
(* metal_uart_getc fit between two bytes (more than a hundred at 115200    *)
(* baud and 160 MHz).  gap counts the calls since the last byte.           *)
(***************************************************************************)
EXTENDS Integers, FiniteSets, Sequences, SequencesExt

CONSTANTS
  RxDepth,        \* bytes the receive FIFO holds (8 in the FE310)
  BufferSize,     \* uint8_t buffer[64]
  PollsPerByte,   \* calls of metal_uart_getc in the time of one byte
  PacketSize,     \* bytes of the answer (32)
  Noise,          \* what a corrupted byte may look like
  Patience        \* whether hosts may be patient, impatient or either

REQUEST == 1      \* the sensor request command, and its checksum

Bytes == {REQUEST} \cup Noise

\* A FIFO read back to back, with the line still feeding it, must fit.
ASSUME LinkAssumption ==
  /\ RxDepth \in Nat \ {0}
  /\ PollsPerByte \in Nat /\ PollsPerByte >= 2
  /\ BufferSize \in Nat /\ 2 * (RxDepth + 1) <= BufferSize /\ BufferSize < 254
  /\ PacketSize \in Nat \ {0}

ASSUME HostAssumption ==
  /\ Noise \subseteq {b \in Nat : b <= 255} \ {REQUEST}
  /\ Patience \subseteq BOOLEAN

VARIABLES
  pc,        \* "away": the rest of the main loop
  fifo,      \* receive FIFO
  buffer,    \* buffer[0..idx-1] of read_data
  unsent,    \* bytes of the packet still to be put
  inFlight,  \* the end of a packet is still in the transmit FIFO
  gap,       \* calls of getc since a byte arrived, up to PollsPerByte
  host,      \* "idle", "half" a request sent, "waiting" for the packet
  patient    \* the host never gives up waiting

program == <<pc, buffer, unsent>>
vars == <<program, fifo, gap, inFlight, host, patient>>

TypeOK ==
  /\ pc \in {"away", "poll", "reply", "mismatch"}
  /\ fifo \in Seq(Bytes) /\ Len(fifo) <= RxDepth
  /\ buffer \in Seq(Bytes)
  /\ unsent \in 0..PacketSize
  /\ inFlight \in BOOLEAN
  /\ gap \in 0..PollsPerByte
  /\ host \in {"idle", "half", "waiting"}
  /\ patient \in BOOLEAN

Init ==
  /\ pc = "away"
  /\ fifo = <<>>
  /\ buffer = <<>>
  /\ unsent = 0
  /\ inFlight = FALSE
  /\ gap = PollsPerByte
  /\ host = "idle"
  /\ patient \in Patience

-----------------------------------------------------------------------------
(* The host sends one request at a time and waits for the packet; when none *)
(* comes it gives up and may ask again.  The line may corrupt a byte.       *)

\* A byte reaches the FIFO, or is lost when the FIFO is full.  Only a poll is
\* fast enough for the pace of the line to matter.
Arrive ==
  /\ pc = "poll" => gap = PollsPerByte
  /\ gap' = 0
  /\ \E b \in Bytes :
        fifo' = IF Len(fifo) < RxDepth THEN Append(fifo, b) ELSE fifo

HostCommand ==
  /\ host = "idle" /\ host' = "half"
  /\ Arrive
  /\ UNCHANGED <<program, inFlight, patient>>

HostChecksum ==
  /\ host = "half" /\ host' = "waiting"
  /\ Arrive
  /\ UNCHANGED <<program, inFlight, patient>>

\* The start of the program (two seconds with the UART already listening) and
\* an iteration that waits for the sensors (a timeout each) may outlast the
\* host's timeout.
HostGivesUp ==
  /\ ~patient /\ pc = "away"
  /\ host = "waiting" /\ host' = "idle"
  /\ UNCHANGED <<program, fifo, gap, inFlight, patient>>

\* The end of a packet leaves the transmit FIFO; that takes several bytes'
\* time, longer than a poll.  The host takes it for the answer it waits for.
PacketArrives ==
  /\ inFlight /\ pc # "poll"
  /\ inFlight' = FALSE
  /\ host' = IF host = "waiting" THEN "idle" ELSE host
  /\ UNCHANGED <<program, fifo, gap, patient>>

Host == HostCommand \/ HostChecksum \/ HostGivesUp \/ PacketArrives

-----------------------------------------------------------------------------
(* The program.                                                             *)

expected_command_length(cmd) == IF cmd = REQUEST THEN 2 ELSE 255

\* The checksum of a command: the sum of its bytes in a uint8_t.
Sum(bytes) ==
  LET total[n \in 0..Len(bytes)] ==
        IF n = 0 THEN 0 ELSE (total[n - 1] + bytes[n]) % 256
  IN  total[Len(bytes)]

\* Mutant: the checksum is compared with itself.
process_command_Unchecked(command) ==
  IF Head(command) = REQUEST THEN "reply" ELSE "poll"

\* Mutant: the request is not acted on.
process_command_NoAnswer(command) ==
  IF Sum(Front(command)) # Last(command) THEN "mismatch" ELSE "poll"

\* What a complete command leads to: nothing, a complaint on the console, or
\* the packet.
process_command(command) ==
  CASE Len(command) < 2 -> "poll"
    [] Len(command) >= 2 /\ Sum(Front(command)) # Last(command) -> "mismatch"
    [] Len(command) >= 2 /\ Sum(Front(command)) = Last(command) ->
         IF Head(command) = REQUEST THEN "reply" ELSE "poll"

\* main calls read_data; buffer is empty (Init, Leave).
Enter ==
  /\ pc = "away" /\ pc' = "poll"
  /\ gap' = PollsPerByte
  /\ UNCHANGED <<fifo, buffer, unsent, inFlight, host, patient>>

Elapse == gap' = IF gap < PollsPerByte THEN gap + 1 ELSE gap

Received == Append(buffer, Head(fifo))

Complete == Len(Received) = expected_command_length(Received[1])

Take == fifo # <<>> /\ fifo' = Tail(fifo) /\ Elapse /\ UNCHANGED <<inFlight, host, patient>>

\* A byte that does not complete a command.
Store ==
  /\ pc = "poll"
  /\ Take /\ ~Complete
  /\ buffer' = Received
  /\ UNCHANGED <<pc, unsent>>

\* The byte that completes one.
Process ==
  /\ pc = "poll"
  /\ Take /\ Complete
  /\ pc' = process_command(Received)
  /\ buffer' = IF pc' = "poll" THEN <<>> ELSE Received
  /\ unsent' = IF pc' = "reply" THEN PacketSize ELSE 0

\* Mutant: buffer and index are static.
Leave_Static ==
  /\ pc = "poll" /\ fifo = <<>>
  /\ pc' = "away"
  /\ UNCHANGED <<fifo, buffer, unsent, gap, inFlight, host, patient>>

\* getc finds nothing: back to the main loop, and the locals are gone.
Leave ==
  /\ pc = "poll" /\ fifo = <<>>
  /\ pc' = "away"
  /\ buffer' = <<>>
  /\ UNCHANGED <<fifo, unsent, gap, inFlight, host, patient>>

\* process_command returns after a time in which a byte or more goes by, and
\* read_data starts over.
Resume ==
  /\ pc' = "poll" /\ gap' = PollsPerByte
  /\ buffer' = <<>>

\* print_esp: putc waits for room, about the time of a byte.
SendByte ==
  /\ pc = "reply" /\ unsent > 0
  /\ unsent' = unsent - 1
  /\ UNCHANGED <<pc, fifo, buffer, gap, inFlight, host, patient>>

\* The transmit FIFO is shorter than a packet: the one before has left by now.
SendDone ==
  /\ pc = "reply" /\ unsent = 0 /\ ~inFlight
  /\ Resume
  /\ inFlight' = TRUE
  /\ UNCHANGED <<fifo, unsent, host, patient>>

\* The complaint is printed on the console, at the console's speed.
Complain ==
  /\ pc = "mismatch"
  /\ Resume
  /\ UNCHANGED <<fifo, unsent, inFlight, host, patient>>

Program == Enter \/ Store \/ Process \/ Leave \/ SendByte \/ SendDone \/ Complain

Next == Program \/ Host

Spec == Init /\ [][Next]_vars

\* The loop never stops calling read_data, and the transmitter shifts out what
\* it is given (strong fairness: a poll that starts meanwhile only hides it).
\* The host need not do anything.
FairSpec == Spec /\ WF_vars(Program) /\ SF_vars(PacketArrives)

\* No coincidence lasts for ever: a byte does not arrive each time just
\* before a poll would have found the FIFO empty.
LuckySpec == FairSpec /\ SF_vars(Leave)

-----------------------------------------------------------------------------
(* Properties.                                                              *)

\* read_data has no check of its index: what keeps it inside the buffer while
\* it waits for the 255 bytes of an unknown command is only that the line is
\* slower than the poll, which runs dry first.
BufferInBounds == Len(buffer) <= BufferSize

\* Commands reach process_command only with the two bytes of a request: the
\* default branch and the length check never decide anything.
OnlyRequestsComplete ==
  pc \in {"reply", "mismatch"} => Len(buffer) = 2 /\ buffer[1] = REQUEST

\* Both, and the types: what read_data keeps whatever arrives.
LinkIsSound == TypeOK /\ BufferInBounds /\ OnlyRequestsComplete

Places(bytes) == {i \in 1..Len(bytes) : bytes[i] = REQUEST}

Requests(bytes) == Cardinality(Places(bytes))

Owed == Requests(fifo) + (IF pc = "poll" THEN Requests(buffer) ELSE 0)

\* However requests are torn, corrupted or run together, a packet answers two
\* request bytes that no other packet answered, and packets do not overlap.
Service == INSTANCE RequestService WITH
  Capacity  <- RxDepth + BufferSize,
  owed      <- Owed,
  answering <- pc = "reply"

ServiceSpec == Service!Spec

\* "No new byte available - break to return to main loop": the main loop gets
\* its turn again whatever the line does to the bytes, if the host has no more
\* than one request outstanding.
PollReturns == (patient /\ pc = "poll") ~> pc = "away"

\* The same for every host.  With two requests outstanding each answer lets the
\* host send the request that keeps read_data busy through the next one.
PollAlwaysReturns == pc = "poll" ~> pc = "away"

\* A request that is complete at the head of the FIFO when the loop comes
\* round is answered, whatever arrives behind it.
WholeRequestIsAnswered ==
  (pc = "away" /\ Len(fifo) >= 2 /\ fifo[1] = REQUEST /\ fifo[2] = REQUEST)
    ~> pc = "reply"

\* Neither the main loop nor the host is starved, within these conditions.
LinkIsLive == PollReturns /\ WholeRequestIsAnswered

\* "Read data from UART and process commands": the host is not left waiting
\* for the answer to a request that the line did not corrupt (it cannot when
\* Noise is empty).  A request that spans two polls is.
RequestIsProcessed == host = "waiting" ~> host # "waiting"
=============================================================================
