------------------------- MODULE UartCommandsProofs -------------------------
(***************************************************************************)
(* Proofs about UartCommands for every depth of the FIFO, size of the      *)
(* buffer, length of the packet and pace of the line that LinkAssumption   *)
(* admits: the types, that the unchecked index of read_data stays in the   *)
(* buffer, and that the link implements RequestService.                    *)
(***************************************************************************)
EXTENDS UartCommands, FiniteSetTheorems, TLAPS

LEMMA TypeInit == Init => TypeOK
<1> SUFFICES ASSUME Init PROVE TypeOK
  OBVIOUS
<1>1. inFlight \in BOOLEAN
  BY DEF Init
<1>2. fifo \in Seq(Bytes) /\ buffer \in Seq(Bytes) /\ Len(fifo) = 0
  BY DEF Init
<1>3. unsent \in 0..PacketSize /\ gap \in 0..PollsPerByte /\ Len(fifo) <= RxDepth
  BY <1>2, LinkAssumption DEF Init
<1>4. patient \in BOOLEAN
  BY HostAssumption, Zenon DEF Init
<1> QED BY <1>1, <1>2, <1>3, <1>4 DEF Init, TypeOK

LEMMA ReceivedIsTyped ==
  ASSUME TypeOK, fifo # <<>>
  PROVE  /\ Received \in Seq(Bytes)
         /\ Len(Received) = Len(buffer) + 1
         /\ Tail(fifo) \in Seq(Bytes)
         /\ Len(Tail(fifo)) = Len(fifo) - 1
         /\ Len(fifo) > 0
BY DEF TypeOK, Received

LEMMA process_commandOutcome ==
  ASSUME NEW command \in Seq(Bytes)
  PROVE  process_command(command) \in {"poll", "reply", "mismatch"}
<1>1. Len(command) \in Nat
  OBVIOUS
<1>2. CASE Len(command) < 2
  BY <1>1, <1>2 DEF process_command
<1>3. CASE Len(command) >= 2
  BY <1>1, <1>3 DEF process_command
<1> QED BY <1>1, <1>2, <1>3

LEMMA TypeNext == TypeOK /\ [Next]_vars => TypeOK'
<1> SUFFICES ASSUME TypeOK, [Next]_vars PROVE TypeOK'
  OBVIOUS
<1> USE LinkAssumption
<1>1. CASE HostCommand \/ HostChecksum
  <2>1. PICK b \in Bytes :
          fifo' = IF Len(fifo) < RxDepth THEN Append(fifo, b) ELSE fifo
    BY <1>1 DEF HostCommand, HostChecksum, Arrive
  <2>2. fifo' \in Seq(Bytes) /\ Len(fifo') <= RxDepth
    BY <2>1 DEF TypeOK
  <2> QED BY <1>1, <2>2 DEF HostCommand, HostChecksum, Arrive, program, TypeOK
<1>2. CASE HostGivesUp \/ PacketArrives
  BY <1>2 DEF HostGivesUp, PacketArrives, program, TypeOK
<1>3. CASE Enter \/ Leave
  BY <1>3 DEF Enter, Leave, TypeOK
<1>4. CASE Store
  <2>1. gap' \in 0..PollsPerByte
    BY <1>4 DEF Store, Take, Elapse, TypeOK
  <2> QED BY <1>4, <2>1, ReceivedIsTyped DEF Store, Take, TypeOK
<1>5. CASE Process
  <2>1. gap' \in 0..PollsPerByte
    BY <1>5 DEF Process, Take, Elapse, TypeOK
  <2>2. Received \in Seq(Bytes) /\ pc' \in {"poll", "reply", "mismatch"}
    BY <1>5, ReceivedIsTyped, process_commandOutcome DEF Process, Take
  <2>3. fifo' \in Seq(Bytes) /\ Len(fifo') <= RxDepth
    BY <1>5, ReceivedIsTyped DEF Process, Take, TypeOK
  <2>4. buffer' \in Seq(Bytes) /\ unsent' \in 0..PacketSize
    BY <1>5, <2>2 DEF Process
  <2> QED BY <1>5, <2>1, <2>2, <2>3, <2>4 DEF Process, Take, TypeOK
<1>6. CASE SendByte
  BY <1>6 DEF SendByte, TypeOK
<1>7. CASE SendDone
  BY <1>7 DEF SendDone, Resume, TypeOK
<1>8. CASE Complain
  BY <1>8 DEF Complain, Resume, TypeOK
<1>9. CASE UNCHANGED vars
  BY <1>9 DEF vars, program, TypeOK
<1> QED BY <1>1, <1>2, <1>3, <1>4, <1>5, <1>6, <1>7, <1>8, <1>9 DEF Next, Program, Host

\* The variables of the link keep their types.
THEOREM TypeCorrect == Spec => []TypeOK
BY TypeInit, TypeNext, PTL DEF Spec

-----------------------------------------------------------------------------

\* Reading a byte lowers Credit(length of the FIFO, index, gap) by what the
\* time it takes gives back; a byte that arrives costs the time it took.
Credit(n, i, g) == PollsPerByte * n + (PollsPerByte - 1) * i + g

Bound == PollsPerByte * RxDepth + PollsPerByte

\* What keeps the index in the buffer: within a poll the bytes read, the bytes
\* waiting and the time since the last one are paid for by what a full FIFO
\* held when the poll began.
IInv ==
  /\ TypeOK
  /\ OnlyRequestsComplete
  /\ pc = "away" => Len(buffer) = 0
  /\ pc = "poll" => Credit(Len(fifo), Len(buffer), gap) <= Bound

LEMMA Distribute ==
  ASSUME NEW p \in Nat, NEW n \in Nat
  PROVE  /\ p * (n + 1) = p * n + p
         /\ n > 0 => p * (n - 1) = p * n - p
         /\ p * n \in Nat
OBVIOUS

LEMMA Monotone ==
  ASSUME NEW p \in Nat, NEW n \in Nat, NEW k \in Nat, n <= k
  PROVE  p * n <= p * k
OBVIOUS

LEMMA CreditEmpty ==
  ASSUME NEW n \in Nat, n <= RxDepth, NEW g \in Nat, g <= PollsPerByte
  PROVE  Credit(n, 0, g) <= Bound
<1>1. PollsPerByte * n <= PollsPerByte * RxDepth
  BY Monotone, LinkAssumption
<1>2. (PollsPerByte - 1) * 0 = 0
  BY LinkAssumption
<1>3. PollsPerByte * n \in Nat /\ PollsPerByte * RxDepth \in Nat
  BY Distribute, LinkAssumption
<1> QED BY <1>1, <1>2, <1>3, LinkAssumption DEF Credit, Bound

LEMMA CreditRead ==
  ASSUME NEW n \in Nat, n > 0, NEW i \in Nat, NEW g \in Nat, NEW h \in Nat,
         h <= g + 1, Credit(n, i, g) <= Bound
  PROVE  Credit(n - 1, i + 1, h) <= Bound
<1> DEFINE p == PollsPerByte
<1>1. p \in Nat /\ p - 1 \in Nat
  BY LinkAssumption
<1>2. p * (n - 1) = p * n - p
  BY <1>1, Distribute
<1>3. (p - 1) * (i + 1) = (p - 1) * i + (p - 1)
  BY <1>1, Distribute
<1>4. p * n \in Nat /\ (p - 1) * i \in Nat /\ p * RxDepth \in Nat
  BY <1>1, Distribute, LinkAssumption
<1> QED BY <1>1, <1>2, <1>3, <1>4 DEF Credit, Bound

LEMMA CreditArrive ==
  ASSUME NEW n \in Nat, NEW m \in Nat, m <= n + 1, NEW i \in Nat,
         Credit(n, i, PollsPerByte) <= Bound
  PROVE  Credit(m, i, 0) <= Bound
<1> DEFINE p == PollsPerByte
<1>1. p \in Nat /\ p - 1 \in Nat
  BY LinkAssumption
<1>2. p * m <= p * (n + 1) /\ p * (n + 1) = p * n + p
  BY <1>1, Monotone, Distribute
<1>3. p * n \in Nat /\ p * m \in Nat /\ (p - 1) * i \in Nat /\ p * RxDepth \in Nat
  BY <1>1, Distribute, LinkAssumption
<1> QED BY <1>1, <1>2, <1>3 DEF Credit, Bound

\* With the buffer at least twice as long as the FIFO and one byte, the credit
\* runs out before the buffer does.
LEMMA CreditBounds ==
  ASSUME NEW n \in Nat, NEW i \in Nat, NEW g \in Nat, Credit(n, i, g) <= Bound
  PROVE  i <= 2 * (RxDepth + 1)
<1> DEFINE p == PollsPerByte
           d == RxDepth + 1
<1>1. p \in Nat /\ p >= 2 /\ d \in Nat /\ RxDepth \in Nat
  BY LinkAssumption
<1>2. (p - 1) * i <= p * d
  <2>1. p * n \in Nat /\ (p - 1) * i \in Nat /\ p * d = p * RxDepth + p
    BY <1>1, Distribute
  <2> QED BY <1>1, <2>1 DEF Credit, Bound
<1>3. SUFFICES ASSUME i > 2 * d PROVE FALSE
  BY <1>1
<1>4. (p - 1) * (2 * d + 1) <= (p - 1) * i
  BY <1>1, <1>3, Monotone
<1>5. (p - 1) * (2 * d + 1) = (p - 1) * (2 * d) + (p - 1)
  BY <1>1, Distribute
<1>6. (p - 1) * (2 * d) = (2 * (p - 1)) * d
  BY <1>1
<1>7. p * d <= (2 * (p - 1)) * d
  <2>1. d * p <= d * (2 * (p - 1))
    BY <1>1, Monotone
  <2> QED BY <1>1, <2>1
<1>8. (p - 1) * i \in Nat /\ p * d \in Nat /\ (2 * (p - 1)) * d \in Nat
  BY <1>1, Distribute
<1> QED BY <1>1, <1>2, <1>4, <1>5, <1>6, <1>7, <1>8

LEMMA Sizes ==
  /\ RxDepth \in Nat /\ BufferSize \in Nat
  /\ 4 <= BufferSize /\ 2 * (RxDepth + 1) + 1 < 255
BY LinkAssumption

LEMMA NeverFull ==
  ASSUME NEW n \in Nat, n <= 2 * (RxDepth + 1)
  PROVE  n <= BufferSize /\ n + 1 # 255
BY LinkAssumption

LEMMA InvariantInit == Init => IInv
BY TypeInit DEF Init, IInv, OnlyRequestsComplete

\* The only commands that complete are the two bytes of a request.
LEMMA CompleteIsRequest ==
  ASSUME IInv, pc = "poll", Take, Complete
  PROVE  Len(Received) = 2 /\ Received[1] = REQUEST
<1>1. Len(buffer) \in Nat /\ Len(fifo) \in Nat /\ gap \in Nat
  BY LinkAssumption DEF IInv, TypeOK
<1>2. Len(buffer) <= 2 * (RxDepth + 1)
  BY <1>1, CreditBounds DEF IInv
<1>3. Len(Received) = Len(buffer) + 1
  BY ReceivedIsTyped DEF IInv, Take
<1>4. Len(Received) # 255
  BY <1>1, <1>2, <1>3, NeverFull
<1>5. CASE Received[1] = REQUEST
  BY <1>5 DEF Complete, expected_command_length
<1>6. CASE Received[1] # REQUEST
  BY <1>4, <1>6 DEF Complete, expected_command_length
<1> QED BY <1>5, <1>6

LEMMA InvariantNext == IInv /\ [Next]_vars => IInv'
<1> SUFFICES ASSUME IInv, [Next]_vars PROVE IInv'
  OBVIOUS
<1>t. TypeOK /\ TypeOK'
  BY TypeNext DEF IInv
<1> SUFFICES /\ OnlyRequestsComplete'
             /\ pc' = "away" => Len(buffer') = 0
             /\ pc' = "poll" => Credit(Len(fifo'), Len(buffer'), gap') <= Bound
  BY <1>t DEF IInv
<1>1. CASE HostCommand \/ HostChecksum
  <2>1. UNCHANGED <<pc, buffer>> /\ gap' = 0 /\ (pc = "poll" => gap = PollsPerByte)
    BY <1>1 DEF HostCommand, HostChecksum, Arrive, program
  <2>2. PICK b \in Bytes :
          fifo' = IF Len(fifo) < RxDepth THEN Append(fifo, b) ELSE fifo
    BY <1>1 DEF HostCommand, HostChecksum, Arrive
  <2>3. Len(fifo') <= Len(fifo) + 1 /\ Len(fifo) \in Nat /\ Len(fifo') \in Nat
    BY <1>t, <2>2 DEF TypeOK
  <2>4. Len(buffer) \in Nat
    BY <1>t DEF TypeOK
  <2>5. pc = "poll" => Credit(Len(fifo'), Len(buffer), 0) <= Bound
    BY <2>1, <2>3, <2>4, CreditArrive DEF IInv
  <2> QED BY <2>1, <2>5 DEF IInv, OnlyRequestsComplete
<1>2. CASE HostGivesUp \/ PacketArrives
  BY <1>2 DEF HostGivesUp, PacketArrives, program, IInv, OnlyRequestsComplete
<1>3. CASE Enter
  <2>1. Len(fifo) \in Nat /\ Len(fifo) <= RxDepth
    BY <1>t DEF TypeOK
  <2> QED BY <1>3, <2>1, CreditEmpty, LinkAssumption DEF Enter, IInv, OnlyRequestsComplete
<1>4. CASE Leave
  BY <1>4 DEF Leave, OnlyRequestsComplete
<1>5. CASE Store
  <2>1. /\ pc = "poll" /\ pc' = "poll"
        /\ Len(fifo') = Len(fifo) - 1 /\ Len(fifo) > 0
        /\ Len(buffer') = Len(buffer) + 1
    BY <1>5, <1>t, ReceivedIsTyped DEF Store, Take
  <2>2. gap' <= gap + 1
    BY <1>5, <1>t, LinkAssumption DEF Store, Take, Elapse, TypeOK
  <2>3. gap \in Nat /\ gap' \in Nat /\ Len(fifo) \in Nat /\ Len(buffer) \in Nat
    BY <1>t, LinkAssumption DEF TypeOK
  <2>4. Credit(Len(fifo) - 1, Len(buffer) + 1, gap') <= Bound
    BY <2>1, <2>2, <2>3, CreditRead DEF IInv
  <2> QED BY <2>1, <2>4 DEF OnlyRequestsComplete
<1>6. CASE Process
  <2>1. pc' \in {"poll", "reply", "mismatch"}
    BY <1>6, <1>t, ReceivedIsTyped, process_commandOutcome DEF Process, Take
  <2>2. OnlyRequestsComplete'
    <3>1. Len(Received) = 2 /\ Received[1] = REQUEST
      BY <1>6, CompleteIsRequest DEF Process
    <3> QED BY <1>6, <3>1 DEF Process, OnlyRequestsComplete
  <2>3. pc' = "poll" => Credit(Len(fifo'), Len(buffer'), gap') <= Bound
    <3> SUFFICES ASSUME pc' = "poll" PROVE Credit(Len(fifo'), Len(buffer'), gap') <= Bound
      OBVIOUS
    <3>1. Len(buffer') = 0
      BY <1>6 DEF Process
    <3>2. Len(fifo') \in Nat /\ Len(fifo') <= RxDepth /\ gap' \in Nat /\ gap' <= PollsPerByte
      BY <1>t, LinkAssumption DEF TypeOK
    <3> QED BY <3>1, <3>2, CreditEmpty
  <2> QED BY <2>1, <2>2, <2>3
<1>7. CASE SendByte
  BY <1>7 DEF SendByte, IInv, OnlyRequestsComplete
<1>8. CASE SendDone \/ Complain
  <2>1. pc' = "poll" /\ gap' = PollsPerByte /\ Len(buffer') = 0 /\ fifo' = fifo
    BY <1>8 DEF SendDone, Complain, Resume
  <2>2. Len(fifo) \in Nat /\ Len(fifo) <= RxDepth
    BY <1>t DEF TypeOK
  <2> QED BY <2>1, <2>2, CreditEmpty, LinkAssumption DEF OnlyRequestsComplete
<1>9. CASE UNCHANGED vars
  BY <1>9 DEF vars, program, IInv, OnlyRequestsComplete
<1> QED BY <1>1, <1>2, <1>3, <1>4, <1>5, <1>6, <1>7, <1>8, <1>9 DEF Next, Program, Host

LEMMA InBounds == IInv => BufferInBounds
<1> SUFFICES ASSUME IInv PROVE BufferInBounds
  OBVIOUS
<1>1. Len(buffer) \in Nat /\ Len(fifo) \in Nat /\ gap \in Nat
  BY LinkAssumption DEF IInv, TypeOK
<1>2. CASE pc = "poll"
  BY <1>1, <1>2, CreditBounds, LinkAssumption DEF IInv, BufferInBounds
<1>3. CASE pc # "poll"
  <2>1. pc \in {"away", "reply", "mismatch"}
    BY <1>3 DEF IInv, TypeOK
  <2>2. Len(buffer) = 0 \/ Len(buffer) = 2
    BY <2>1 DEF IInv, OnlyRequestsComplete
  <2>3. \A n \in {0, 2} : n <= BufferSize
    BY Sizes
  <2> QED BY <2>2, <2>3 DEF BufferInBounds
<1> QED BY <1>2, <1>3

\* The index of read_data stays within its buffer, for every pace of the line
\* that leaves time for two calls of getc per byte.
THEOREM IndexInBounds == Spec => []BufferInBounds
BY InBounds, InvariantInit, InvariantNext, PTL DEF Spec

\* No command but the request ever completes.
THEOREM RequestsOnly == Spec => []OnlyRequestsComplete
<1>1. IInv => OnlyRequestsComplete
  BY DEF IInv
<1> QED BY <1>1, InvariantInit, InvariantNext, PTL DEF Spec

-----------------------------------------------------------------------------
(* Counting request bytes.                                                  *)

LEMMA PlacesFinite ==
  ASSUME NEW s \in Seq(Bytes)
  PROVE  /\ IsFiniteSet(Places(s))
         /\ Requests(s) \in Nat
         /\ Requests(s) <= Len(s)
<1>1. IsFiniteSet(1..Len(s)) /\ Cardinality(1..Len(s)) = Len(s)
  <2>1. Len(s) \in Nat
    OBVIOUS
  <2>2. /\ IsFiniteSet(1..Len(s))
        /\ Cardinality(1..Len(s)) = IF 1 > Len(s) THEN 0 ELSE Len(s) - 1 + 1
    BY <2>1, FS_Interval
  <2> QED BY <2>1, <2>2
<1>2. Places(s) \in SUBSET (1..Len(s))
  BY DEF Places
<1>3. IsFiniteSet(Places(s)) /\ Cardinality(Places(s)) <= Len(s)
  BY <1>1, <1>2, FS_Subset
<1>4. Cardinality(Places(s)) \in Nat
  BY <1>3, FS_CardinalityType
<1> QED BY <1>3, <1>4 DEF Requests

LEMMA RequestsEmpty ==
  ASSUME NEW s \in Seq(Bytes), Len(s) = 0
  PROVE  Requests(s) = 0
<1>1. Requests(s) \in Nat /\ Requests(s) <= 0
  BY PlacesFinite
<1> QED BY <1>1

LEMMA RequestsNone == Requests(<<>>) = 0
<1>1. <<>> \in Seq(Bytes) /\ Len(<<>>) = 0
  OBVIOUS
<1> QED BY <1>1, RequestsEmpty

LEMMA SecondByte ==
  ASSUME NEW s \in Seq(Bytes), NEW b \in Bytes, Len(Append(s, b)) = 2
  PROVE  Len(s) = 1 /\ Append(s, b)[1] = s[1] /\ Append(s, b)[2] = b
<1>1. Len(s) \in Nat /\ Len(s) + 1 = 2
  OBVIOUS
<1>2. \A n \in Nat : n + 1 = 2 => n = 1
  OBVIOUS
<1>3. Len(s) = 1
  BY <1>1, <1>2
<1> QED BY <1>3

LEMMA RequestsAppend ==
  ASSUME NEW s \in Seq(Bytes), NEW b \in Bytes
  PROVE  Requests(Append(s, b)) = Requests(s) + (IF b = REQUEST THEN 1 ELSE 0)
<1>1. Len(s) \in Nat /\ Len(Append(s, b)) = Len(s) + 1
  OBVIOUS
<1>2. Append(s, b)[Len(s) + 1] = b /\ \A i \in 1..Len(s) : Append(s, b)[i] = s[i]
  OBVIOUS
<1>3. CASE b = REQUEST
  <2>1. Places(Append(s, b)) = Places(s) \cup {Len(s) + 1}
    BY <1>1, <1>2, <1>3 DEF Places
  <2>2. Len(s) + 1 \notin Places(s)
    BY <1>1 DEF Places
  <2>3. Cardinality(Places(s) \cup {Len(s) + 1}) = Cardinality(Places(s)) + 1
    BY <2>2, PlacesFinite, FS_AddElement
  <2> QED BY <1>3, <2>1, <2>3 DEF Requests
<1>4. CASE b # REQUEST
  <2>1. Places(Append(s, b)) = Places(s)
    BY <1>1, <1>2, <1>4 DEF Places
  <2> QED BY <1>4, <2>1, PlacesFinite DEF Requests
<1> QED BY <1>3, <1>4

LEMMA RequestsTail ==
  ASSUME NEW s \in Seq(Bytes), s # <<>>
  PROVE  Requests(Tail(s)) = Requests(s) - (IF Head(s) = REQUEST THEN 1 ELSE 0)
<1> DEFINE t == Tail(s)
           Rest == Places(s) \ {1}
           Back == [i \in Rest |-> i - 1]
<1>1. Len(s) \in Nat /\ Len(s) > 0 /\ t \in Seq(Bytes) /\ Len(t) = Len(s) - 1
  OBVIOUS
<1>2. \A i \in 1..Len(t) : t[i] = s[i + 1]
  OBVIOUS
<1>3. 1 \in Places(s) <=> Head(s) = REQUEST
  BY <1>1 DEF Places
<1>4. \A i \in Rest : i \in Nat /\ i >= 2 /\ i - 1 \in Places(t)
  <2> SUFFICES ASSUME NEW i \in Rest PROVE i \in Nat /\ i >= 2 /\ i - 1 \in Places(t)
    OBVIOUS
  <2>1. i \in 1..Len(s) /\ i # 1 /\ s[i] = REQUEST
    BY DEF Places
  <2>2. i - 1 \in 1..Len(t) /\ i \in Nat /\ i >= 2
    BY <1>1, <2>1
  <2> QED BY <1>2, <2>1, <2>2 DEF Places
<1>5. \A j \in Places(t) : j \in Nat /\ j + 1 \in Rest
  <2> SUFFICES ASSUME NEW j \in Places(t) PROVE j \in Nat /\ j + 1 \in Rest
    OBVIOUS
  <2>1. j \in 1..Len(t) /\ t[j] = REQUEST
    BY DEF Places
  <2>2. j \in Nat /\ j + 1 \in 1..Len(s) /\ j + 1 # 1
    BY <1>1, <2>1
  <2> QED BY <1>2, <2>1, <2>2 DEF Places
<1>6. ExistsBijection(Rest, Places(t))
  <2>1. Back \in [Rest -> Places(t)]
    BY <1>4
  <2>2. \A i, j \in Rest : Back[i] = Back[j] => i = j
    BY <1>4
  <2>3. \A j \in Places(t) : \E i \in Rest : Back[i] = j
    BY <1>5
  <2>4. Back \in Bijection(Rest, Places(t))
    BY <2>1, <2>2, <2>3, Zenon DEF Bijection, Injection, Surjection, IsInjective
  <2> QED BY <2>4 DEF ExistsBijection
<1>7. /\ IsFiniteSet(Rest)
      /\ Cardinality(Rest) = IF 1 \in Places(s) THEN Cardinality(Places(s)) - 1
                             ELSE Cardinality(Places(s))
  BY PlacesFinite, FS_RemoveElement
<1>8. Cardinality(Places(t)) = Cardinality(Rest)
  BY <1>6, <1>7, FS_Bijection
<1>9. Requests(s) \in Nat
  BY PlacesFinite
<1> QED BY <1>3, <1>7, <1>8, <1>9 DEF Requests

-----------------------------------------------------------------------------
(* The link implements RequestService.                                      *)

\* The checksum of a one byte command is that byte.
LEMMA SumOfOne ==
  ASSUME NEW s \in Seq(Bytes), Len(s) = 1, s[1] = REQUEST
  PROVE  Sum(s) = REQUEST
<1> DEFINE P(f) == f = [n \in 0..Len(s) |->
                          IF n = 0 THEN 0 ELSE (f[n - 1] + s[n]) % 256]
           g == [n \in 0..1 |-> IF n = 0 THEN 0 ELSE 1]
           t == CHOOSE f : P(f)
<1>1. P(g)
  <2>1. \A n \in 0..1 : g[n] = IF n = 0 THEN 0 ELSE (g[n - 1] + s[n]) % 256
    BY DEF REQUEST
  <2> QED BY <2>1
<1> HIDE DEF g
<1>2. P(t)
  BY <1>1, Zenon
<1>3. t[0] = 0
  <2> HIDE DEF t
  <2> QED BY <1>2
<1>4. t[1] = (t[0] + s[1]) % 256
  <2> HIDE DEF t
  <2> QED BY <1>2
<1>5. t[1] = REQUEST
  <2> HIDE DEF t
  <2> QED BY <1>3, <1>4 DEF REQUEST
<1>6. Sum(s) = t[Len(s)]
  BY Zenon DEF Sum
<1> QED BY <1>5, <1>6

\* The packet is sent only for a checksum that is a request byte too.
LEMMA AnswerTakesTwo ==
  ASSUME NEW r \in Seq(Bytes), Len(r) = 2, r[1] = REQUEST, process_command(r) = "reply"
  PROVE  r[2] = REQUEST
<1>1. Sum(Front(r)) = Last(r)
  <2>1. Len(r) >= 2 /\ ~(Len(r) < 2)
    OBVIOUS
  <2>2. SUFFICES ASSUME Sum(Front(r)) # Last(r) PROVE FALSE
    OBVIOUS
  <2>3. process_command(r) = "mismatch"
    BY <2>1, <2>2, Zenon DEF process_command
  <2> QED BY <2>3
<1>2. Last(r) = r[2]
  BY DEF Last
<1>3. /\ Front(r) \in Seq(Bytes)
      /\ Len(Front(r)) = 1
      /\ Front(r)[1] = REQUEST
  <2>1. Len(r) - 1 = 1
    OBVIOUS
  <2>2. Front(r) = SubSeq(r, 1, 1)
    BY <2>1 DEF Front
  <2>3. /\ SubSeq(r, 1, 1) \in Seq(Bytes)
        /\ Len(SubSeq(r, 1, 1)) = 1
        /\ SubSeq(r, 1, 1)[1] = r[1]
    OBVIOUS
  <2> QED BY <2>2, <2>3
<1> QED BY <1>1, <1>2, <1>3, SumOfOne

LEMMA CommandOutcome ==
  ASSUME NEW r \in Seq(Bytes), Len(r) = 2, r[1] = REQUEST
  PROVE  process_command(r) \in {"reply", "mismatch"}
<1>1. Len(r) >= 2 /\ ~(Len(r) < 2) /\ Head(r) = REQUEST
  OBVIOUS
<1>2. CASE Sum(Front(r)) # Last(r)
  BY <1>1, <1>2, Zenon DEF process_command
<1>3. CASE Sum(Front(r)) = Last(r)
  BY <1>1, <1>3, Zenon DEF process_command
<1> QED BY <1>2, <1>3

LEMMA OwedTyped ==
  ASSUME TypeOK
  PROVE  /\ Requests(fifo) \in Nat /\ Requests(fifo) <= Len(fifo)
         /\ Requests(buffer) \in Nat /\ Requests(buffer) <= Len(buffer)
         /\ Owed \in Nat
<1>1. /\ Requests(fifo) \in Nat /\ Requests(fifo) <= Len(fifo)
      /\ Requests(buffer) \in Nat /\ Requests(buffer) <= Len(buffer)
  BY PlacesFinite DEF TypeOK
<1> QED BY <1>1 DEF Owed

LEMMA ServiceInit == Init => Service!Init
<1> SUFFICES ASSUME Init PROVE Service!Init
  OBVIOUS
<1>1. Requests(fifo) = 0
  BY RequestsNone DEF Init
<1> QED BY <1>1 DEF Init, Service!Init, Owed

\* A byte from the host is one more request byte, or nothing to the service.
LEMMA ServiceArrive ==
  ASSUME IInv, HostCommand \/ HostChecksum
  PROVE  Service!Next \/ UNCHANGED Service!vars
<1>1. UNCHANGED <<pc, buffer>>
  BY DEF HostCommand, HostChecksum, program
<1>2. PICK b \in Bytes :
        fifo' = IF Len(fifo) < RxDepth THEN Append(fifo, b) ELSE fifo
  BY DEF HostCommand, HostChecksum, Arrive
<1>3. CASE Len(fifo) < RxDepth /\ b = REQUEST
  <2>1. Requests(fifo') = Requests(fifo) + 1
    BY <1>2, <1>3, RequestsAppend DEF IInv, TypeOK
  <2>2. Owed' = Owed + 1
    BY <1>1, <2>1, OwedTyped DEF IInv, Owed
  <2>3. Owed < RxDepth + BufferSize
    <3>1. Len(buffer) <= BufferSize
      BY InBounds DEF BufferInBounds
    <3>2. Len(fifo) \in Nat /\ Len(buffer) \in Nat
      BY DEF IInv, TypeOK
    <3> QED BY <1>3, <3>1, <3>2, OwedTyped, Sizes DEF IInv, Owed
  <2> QED BY <1>1, <2>2, <2>3 DEF Service!Arrive, Service!Next
<1>4. CASE ~(Len(fifo) < RxDepth /\ b = REQUEST)
  <2>1. Requests(fifo') = Requests(fifo)
    <3>1. CASE Len(fifo) < RxDepth
      BY <1>2, <1>4, <3>1, RequestsAppend, OwedTyped DEF IInv, TypeOK
    <3>2. CASE ~(Len(fifo) < RxDepth)
      BY <1>2, <3>2
    <3> QED BY <3>1, <3>2
  <2> QED BY <1>1, <2>1 DEF Service!vars, Owed
<1> QED BY <1>3, <1>4

\* A command that completes takes its bytes from the service: two for a packet,
\* at least one for a complaint.
LEMMA ServiceProcess ==
  ASSUME IInv, Process
  PROVE  Service!Next
<1> DEFINE rest == Requests(Tail(fifo))
<1>1. /\ Len(Received) = 2 /\ Received[1] = REQUEST
      /\ Received \in Seq(Bytes)
  BY CompleteIsRequest, ReceivedIsTyped DEF IInv, Process, Take
<1>2. pc' \in {"reply", "mismatch"} /\ pc' = process_command(Received)
  BY <1>1, CommandOutcome DEF Process
<1>3. fifo # <<>> /\ fifo \in Seq(Bytes) /\ buffer \in Seq(Bytes) /\ pc = "poll"
  BY DEF IInv, TypeOK, Process, Take
<1>4. Len(buffer) = 1 /\ buffer[1] = REQUEST /\ Received[2] = Head(fifo)
  <2>1. Head(fifo) \in Bytes
    BY <1>3
  <2> QED BY <1>1, <1>3, <2>1, SecondByte DEF Received
<1>5. Requests(buffer) = 1
  <2>1. 1 \in Places(buffer)
    BY <1>3, <1>4 DEF Places
  <2>2. Requests(buffer) # 0
    BY <1>3, <2>1, PlacesFinite, FS_EmptySet DEF Requests
  <2>3. Requests(buffer) \in Nat /\ Requests(buffer) <= 1
    BY <1>3, <1>4, PlacesFinite
  <2> QED BY <2>2, <2>3
<1>6. rest = Requests(fifo) - (IF Head(fifo) = REQUEST THEN 1 ELSE 0)
  BY <1>3, RequestsTail
<1>7. Requests(fifo) \in Nat /\ rest \in Nat
  BY <1>3, PlacesFinite, ReceivedIsTyped DEF IInv
<1>8. Owed = Requests(fifo) + 1 /\ Owed' = rest
  <2>1. fifo' = Tail(fifo) /\ pc' # "poll"
    BY <1>2 DEF Process, Take
  <2>2. Owed' = Requests(fifo')
    BY <1>7, <2>1 DEF Owed
  <2>3. Owed = Requests(fifo) + 1
    BY <1>3, <1>5 DEF Owed
  <2> QED BY <2>1, <2>2, <2>3
<1>9. CASE pc' = "reply"
  <2>1. Head(fifo) = REQUEST
    BY <1>1, <1>2, <1>4, <1>9, AnswerTakesTwo
  <2>2. Owed >= 2 /\ Owed' = Owed - 2
    BY <1>6, <1>7, <1>8, <2>1
  <2> QED BY <1>3, <1>9, <2>2 DEF Service!Answer, Service!Next
<1>10. CASE pc' = "mismatch"
  <2>1. Owed' \in 0..(Owed - 1)
    BY <1>6, <1>7, <1>8
  <2> QED BY <1>3, <1>10, <2>1 DEF Service!Lose, Service!Next
<1> QED BY <1>2, <1>9, <1>10

\* The rest of the program moves request bytes without using them, or forgets
\* the torn command.
LEMMA ServiceOther ==
  ASSUME IInv, Enter \/ Store \/ Leave \/ SendByte \/ SendDone \/ Complain
  PROVE  Service!Next \/ UNCHANGED Service!vars
<1>1. CASE Enter
  <2>1. Requests(buffer) = 0
    BY <1>1, RequestsEmpty DEF Enter, IInv, TypeOK
  <2> QED BY <1>1, <2>1, OwedTyped DEF Enter, Owed, Service!vars, IInv
<1>2. CASE Store
  <2>1. fifo \in Seq(Bytes) /\ fifo # <<>> /\ buffer \in Seq(Bytes) /\ Head(fifo) \in Bytes
    BY <1>2 DEF Store, Take, IInv, TypeOK
  <2>2. Requests(fifo') = Requests(fifo) - (IF Head(fifo) = REQUEST THEN 1 ELSE 0)
    BY <1>2, <2>1, RequestsTail DEF Store, Take
  <2>3. Requests(buffer') = Requests(buffer) + (IF Head(fifo) = REQUEST THEN 1 ELSE 0)
    BY <1>2, <2>1, RequestsAppend DEF Store, Received
  <2>4. Requests(fifo) \in Nat /\ Requests(buffer) \in Nat
    BY OwedTyped DEF IInv
  <2>5. Owed' = Owed
    BY <1>2, <2>2, <2>3, <2>4 DEF Owed, Store
  <2> QED BY <1>2, <2>5 DEF Store, Service!vars
<1>3. CASE Leave
  <2>1. Owed = Requests(fifo) + Requests(buffer) /\ Owed' = Requests(fifo)
    <3>1. pc = "poll" /\ pc' = "away" /\ fifo' = fifo
      BY <1>3 DEF Leave
    <3> QED BY <3>1, OwedTyped DEF Owed, IInv
  <2>2. Requests(fifo) \in Nat /\ Requests(buffer) \in Nat
    BY OwedTyped DEF IInv
  <2>3. Owed' = Owed \/ Owed' \in 0..(Owed - 1)
    BY <2>1, <2>2
  <2> QED BY <1>3, <2>3 DEF Leave, Service!Lose, Service!Next, Service!vars
<1>4. CASE SendByte
  BY <1>4 DEF SendByte, Owed, Service!vars
<1>5. CASE SendDone \/ Complain
  <2>1. /\ pc' = "poll" /\ pc \in {"reply", "mismatch"} /\ fifo' = fifo
        /\ buffer' = <<>>
    BY <1>5 DEF SendDone, Complain, Resume
  <2>2. Requests(buffer') = 0
    BY <2>1, RequestsNone
  <2>3. Owed' = Owed
    BY <2>1, <2>2, OwedTyped DEF Owed, IInv
  <2> QED BY <2>1, <2>3 DEF Service!Finish, Service!Next, Service!vars
<1> QED BY <1>1, <1>2, <1>3, <1>4, <1>5

\* Every packet is paid for by two request bytes that no other packet used,
\* for every size of the FIFO and of the buffer and every kind of noise.
THEOREM ServiceImplemented == Spec => ServiceSpec
<1>1. IInv /\ [Next]_vars => [Service!Next]_(Service!vars)
  <2> SUFFICES ASSUME IInv, [Next]_vars PROVE Service!Next \/ UNCHANGED Service!vars
    OBVIOUS
  <2>1. CASE HostCommand \/ HostChecksum
    BY <2>1, ServiceArrive
  <2>2. CASE HostGivesUp \/ PacketArrives \/ UNCHANGED vars
    BY <2>2 DEF HostGivesUp, PacketArrives, vars, program, Service!vars, Owed
  <2>3. CASE Process
    BY <2>3, ServiceProcess
  <2>4. CASE Enter \/ Store \/ Leave \/ SendByte \/ SendDone \/ Complain
    BY <2>4, ServiceOther
  <2> QED BY <2>1, <2>2, <2>3, <2>4 DEF Next, Program, Host
<1> QED BY ServiceInit, <1>1, InvariantInit, InvariantNext, PTL DEF Spec, ServiceSpec, Service!Spec

\* The three state invariants of the link together.
THEOREM LinkCorrect == Spec => []LinkIsSound
BY TypeCorrect, IndexInBounds, RequestsOnly, PTL DEF LinkIsSound
=============================================================================
