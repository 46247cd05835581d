---------------------------- MODULE SensorPacket ----------------------------
(***************************************************************************)
(* From the registers of the sensors to the host: the conversions of       *)
(* accelerometer.c, magnetometer.c and temperature.c, the packet of        *)
(* send_sensor_data in utils/uart.c, and a host that takes it apart as the *)
(* comment in uart.h lays it out.  The line may change one byte of it.     *)
(*                                                                         *)
(* A float of the packet holds a whole number here; its four bytes are     *)
(* those of the IEEE format.                                               *)
(***************************************************************************)
EXTENDS Integers, Sequences, PowersOfTwo

CONSTANTS
  Axes,          \* the three words an accelerometer or magnetometer holds
  Degrees,       \* high bytes of the temperature registers
  Lights,        \* pairs <<ch0, ch1>>
  Luxes,
  Noise          \* what the line may add to a byte

\* uint8_t, uint16_t and int16_t.
Octets == 0..255
Words16 == 0..65535
Shorts == -32768..32767

ASSUME PacketAssumption ==
  /\ Axes \subseteq [1..3 -> Shorts]
  /\ Degrees \subseteq Octets
  /\ Lights \subseteq Words16 \X Words16
  /\ Luxes \subseteq Words16
  /\ Noise \subseteq Octets \ {0}

VARIABLES
  registers,     \* what the sensors held when they were read last
  sensor_data,
  packet,
  packetStep,    \* "reading" the sensors, "sent" a packet, "received"
  noisy,         \* history: the line changed the packet
  host           \* what the host takes the packet for, or none

packetVars == <<registers, sensor_data, packet, packetStep, noisy, host>>

START == 170           \* 0xAA

Rejected == [accepted |-> FALSE]

-----------------------------------------------------------------------------
(* Conversions.                                                             *)

\* The int16_t with the low 16 bits of a number.
Signed(v) == ((v + 32768) % 65536) - 32768

\* A quotient as a C cast to an integer type leaves it: towards zero.
Truncated(a, b) == IF a >= 0 THEN a \div b ELSE -((-a) \div b)

\* accelerometer_read: 12 bits, left justified, times 0.0039 g, as q4.11.
Q4_11(word) == Signed(Truncated((word \div 16) * 79872, 10000))

\* Mutant: nothing limits the field to what q8.7 holds.
Q8_7_Unlimited(word) == Signed(Truncated(192 * word, 10))

\* magnetometer_read: 0.15 microtesla, limited by float_to_q8_7, as q8.7.
Q8_7(word) ==
  LET hundredths == 15 * word IN
  Signed(CASE hundredths > 12799  -> 16382
           [] hundredths < -12800 -> -16384
           [] OTHER               -> Truncated(192 * word, 10))

\* The two bytes of a word, low byte first.
Word(v) == <<v % 256, (v \div 256) % 256>>

\* The greatest power of two that a whole number reaches.
Exponent(v) == CHOOSE e \in 0..15 : Pow2[e] <= v /\ v < Pow2[e + 1]

FloatBits(v) ==
  IF v = 0 THEN 0
  ELSE LET e == Exponent(v)
       IN  (127 + e) * Pow2[23] + (v - Pow2[e]) * Pow2[23 - e]

\* The union of a float and its bytes, as the little-endian core sees it.
FloatBytes(v) ==
  LET bits == FloatBits(v) IN
  [k \in 1..4 |-> (bits \div Pow2[8 * (k - 1)]) % 256]

-----------------------------------------------------------------------------
PacketInit ==
  /\ \E a, m \in Axes, t \in Degrees, c \in Lights, x \in Luxes :
       registers = [accel |-> a, mag |-> m, degrees |-> t,
                    channels |-> c, lux |-> x]
  /\ sensor_data =
       [accel |-> [k \in 1..3 |-> 0], mag |-> [k \in 1..3 |-> 0],
        angles |-> [k \in 1..3 |-> 0], temperature |-> 0,
        channels |-> <<0, 0>>, lux |-> 0]
  /\ packet = <<>>
  /\ packetStep = "reading"
  /\ noisy = FALSE
  /\ host = Rejected

\* accelerometer_read; RunningAverage has what becomes of the samples.
ReadAccelerometer ==
  /\ packetStep = "reading"
  /\ sensor_data' = [sensor_data EXCEPT
       !.accel = [k \in 1..3 |-> Q4_11(registers.accel[k])]]
  /\ UNCHANGED <<registers, packet, packetStep, noisy, host>>

\* magnetometer_read; TiltDisplay has the angles.
ReadMagnetometer ==
  /\ packetStep = "reading"
  /\ \E angles \in Axes :
       sensor_data' = [sensor_data EXCEPT
         !.mag = [k \in 1..3 |-> Q8_7(registers.mag[k])],
         !.angles = angles]
  /\ UNCHANGED <<registers, packet, packetStep, noisy, host>>

\* temperature_read takes the high byte as it is.
ReadTemperature ==
  /\ packetStep = "reading"
  /\ sensor_data' = [sensor_data EXCEPT !.temperature = registers.degrees]
  /\ UNCHANGED <<registers, packet, packetStep, noisy, host>>

\* light_sensor_read; LightFilter has the filters.
ReadLight ==
  /\ packetStep = "reading"
  /\ sensor_data' = [sensor_data EXCEPT !.channels = registers.channels,
                                        !.lux = registers.lux]
  /\ UNCHANGED <<registers, packet, packetStep, noisy, host>>

-----------------------------------------------------------------------------
(* send_sensor_data.                                                        *)

\* The bytes by number, from one.  In a triple the low bytes are the even ones.
InTriple(words, first, k) ==
  Word(words[1 + (k - first) \div 2])[1 + ((k - first) % 2)]

Body(d) ==
  [k \in 1..31 |->
     CASE k = 1        -> START
       [] k \in 2..7   -> InTriple(d.accel, 2, k)
       [] k \in 8..11  -> FloatBytes(d.temperature)[k - 7]
       [] k \in 12..17 -> InTriple(d.mag, 12, k)
       [] k \in 18..23 -> InTriple(d.angles, 18, k)
       [] k \in 24..27 -> InTriple(d.channels, 24, k)
       [] k \in 28..31 -> FloatBytes(d.lux)[k - 27]]

\* The sum of the first bytes, in the uint8_t it is added up in.
Sums(bytes) ==
  LET sum[k \in 0..31] == IF k = 0 THEN 0 ELSE (sum[k - 1] + bytes[k]) % 256
  IN  sum

Checksum(bytes) == Sums(bytes)[31]

send_sensor_data ==
  /\ packetStep = "reading"
  /\ LET body == Body(sensor_data) IN
     packet' = [k \in 1..32 |-> IF k = 32 THEN Checksum(body) ELSE body[k]]
  /\ packetStep' = "sent"
  /\ UNCHANGED <<registers, sensor_data, noisy, host>>

-----------------------------------------------------------------------------
(* The line and the host.                                                   *)

Disturb(k, n) ==
  /\ packetStep = "sent" /\ ~noisy
  /\ packet' = [packet EXCEPT ![k] = (@ + n) % 256]
  /\ noisy' = TRUE
  /\ UNCHANGED <<registers, sensor_data, packetStep, host>>

\* The fields as uart.h numbers their bytes, from one.
SignedAt(bytes, k) == Signed(bytes[k] + 256 * bytes[k + 1])

UnsignedAt(bytes, k) == bytes[k] + 256 * bytes[k + 1]

TripleAt(bytes, k) == [i \in 1..3 |-> SignedAt(bytes, k + 2 * (i - 1))]

FloatAt(bytes, k) ==
  LET bits == bytes[k] + 256 * bytes[k + 1] + 65536 * bytes[k + 2]
              + 16777216 * bytes[k + 3]
      e    == bits \div Pow2[23] - 127
  IN  IF bits = 0 THEN 0
      ELSE Pow2[e] + (bits % Pow2[23]) \div Pow2[23 - e]

Decoded(bytes) ==
  [accepted |-> TRUE,
   accel |-> TripleAt(bytes, 2), temperature |-> FloatAt(bytes, 8),
   mag |-> TripleAt(bytes, 12), angles |-> TripleAt(bytes, 18),
   channels |-> <<UnsignedAt(bytes, 24), UnsignedAt(bytes, 26)>>,
   lux |-> FloatAt(bytes, 28)]

Receive ==
  /\ packetStep = "sent"
  /\ host' = IF packet[1] = START /\ packet[32] = Checksum(packet)
             THEN Decoded(packet)
             ELSE Rejected
  /\ packetStep' = "received"
  /\ UNCHANGED <<registers, sensor_data, packet, noisy>>

PacketNext ==
  \/ ReadAccelerometer \/ ReadMagnetometer \/ ReadTemperature \/ ReadLight
  \/ send_sensor_data \/ Receive
  \/ \E k \in 1..32, n \in Noise : Disturb(k, n)

PacketSpec == PacketInit /\ [][PacketNext]_packetVars

-----------------------------------------------------------------------------
(* Properties.                                                              *)

\* What q4.11 and q8.7 leave of them: half the range of a short.
Halves == -16384..16383

PacketTypeOK ==
  /\ packetStep \in {"reading", "sent", "received"}
  /\ packetStep # "reading" =>
       Len(packet) = 32 /\ \A k \in 1..32 : packet[k] \in Octets
  /\ \A k \in 1..3 : /\ sensor_data.accel[k] \in Halves
                     /\ sensor_data.mag[k] \in Halves
                     /\ sensor_data.angles[k] \in Shorts
  /\ sensor_data.temperature \in Octets
  /\ noisy \in BOOLEAN

\* A packet the line left alone is accepted, and whatever is accepted reads,
\* field by field and sign by sign, as what sensor_data held; a packet with one
\* wrong byte never is.
HostReadsSensorData ==
  packetStep = "received" =>
    /\ host.accepted = ~noisy
    /\ host.accepted =>
         \A f \in DOMAIN sensor_data : host[f] = sensor_data[f]

\* The conversions of the accelerometer and of the magnetometer never turn a
\* reading round: a strong field is limited, not wrapped, and no axis of either
\* sensor changes its sign or grows when the reading shrinks.
NoAxisTurnsRound ==
  \A i, j \in 1..3 :
    /\ registers.mag[i] <= registers.mag[j] =>
         sensor_data.mag[i] <= sensor_data.mag[j]
    /\ registers.accel[i] <= registers.accel[j] =>
         sensor_data.accel[i] <= sensor_data.accel[j]
    /\ sensor_data.mag[i] * registers.mag[i] >= 0
    /\ sensor_data.accel[i] * registers.accel[i] >= 0

\* That of the temperature does: the register holds a signed number and
\* temperature_read takes its byte for an unsigned one (temperature.c:15), so
\* that the host reads 256 degrees too much below zero, and never a negative
\* temperature.
SignedByte(b) == IF b < 128 THEN b ELSE b - 256

OnlyColdTurnsRound ==
  sensor_data.temperature # 0 =>
    sensor_data.temperature =
      SignedByte(registers.degrees) + (IF registers.degrees < 128 THEN 0 ELSE 256)
=============================================================================
