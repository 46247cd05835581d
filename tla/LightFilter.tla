---------------------------- MODULE LightFilter ----------------------------
(***************************************************************************)
(* light_sensor_read of sensors/light.c with the smoothing sensors_read    *)
(* puts behind it.  The two channels come over the bus as four bytes, one  *)
(* transaction each, while the chip goes on exposing; two filters follow,  *)
(* each of which takes a negative value for "no reading yet".              *)
(*                                                                         *)
(* Luxes are whole numbers; what a float rounds goes either way here.      *)
(***************************************************************************)
EXTENDS Integers, Sequences

CONSTANTS
  Exposures,      \* what the chip measures: pairs <<ch0, ch1>>
  ByteSize,       \* values of a byte (256)
  Garbage,        \* bytes raw_data may hold before it is written
  MaxReads        \* bound on the readings

ASSUME LightAssumption ==
  /\ ByteSize \in Nat \ {0, 1}
  /\ Exposures # {} /\ Garbage # {}
  /\ Exposures \subseteq (0..(ByteSize * ByteSize - 1)) \X
                         (0..(ByteSize * ByteSize - 1))
  /\ Garbage \subseteq 0..(ByteSize - 1)
  /\ MaxReads \in Nat

JumpThreshold == 20    \* JUMP_THRESHOLD
BaseAlpha == 5         \* BASE_ALPHA, in percent
JumpAlpha == 70
LuxAlpha == 20         \* of sensors_read

VARIABLES
  lightStep,    \* the register read next, 5: all are read, 0: no reading runs
  exposure,     \* what the chip measured last
  frozen,       \* the exposure a reader is in, or none
  raw_data,
  light,        \* sensor_data.light
  smoothed_lux,
  prev_lux,
  luxSeen,      \* history: the least and the greatest lux that was computed
  readWhole,    \* history: every transfer of the reading succeeded
  taken,        \* history: the exposure the reading began with
  reads         \* history: readings begun

lightVars == <<lightStep, exposure, frozen, raw_data, light, smoothed_lux,
               prev_lux, luxSeen, readWhole, taken, reads>>

None == <<>>

Words == 0..(ByteSize * ByteSize - 1)

LightTypeOK ==
  /\ lightStep \in 0..5
  /\ exposure \in Exposures
  /\ frozen \in Exposures \cup {None}
  /\ raw_data \in [1..4 -> 0..(ByteSize - 1)]
  /\ light.ch0 \in Words /\ light.ch1 \in Words /\ light.lux \in Int
  /\ smoothed_lux \in Nat \cup {-1}
  /\ prev_lux \in Nat \cup {-1}
  /\ readWhole \in BOOLEAN
  /\ taken \in Exposures
  /\ reads \in 0..MaxReads

-----------------------------------------------------------------------------
LightInit ==
  /\ lightStep = 0
  /\ exposure = CHOOSE e \in Exposures : TRUE
  /\ frozen = None
  /\ raw_data = [k \in 1..4 |-> CHOOSE b \in Garbage : TRUE]
  /\ light = [ch0 |-> 0, ch1 |-> 0, lux |-> 0]
  /\ smoothed_lux = -1
  /\ prev_lux = -1
  /\ luxSeen = <<>>
  /\ readWhole = TRUE
  /\ taken = exposure
  /\ reads = 0

\* The chip: it measures at any time, but shows what it measured when the low
\* byte of channel 1 was read until the high byte of channel 0 is.
Expose(e) ==
  /\ exposure' = e
  /\ UNCHANGED <<lightStep, frozen, raw_data, light, smoothed_lux, prev_lux,
                 luxSeen, readWhole, taken, reads>>

Shown == IF frozen = None THEN exposure ELSE frozen

\* The four registers in the order they are read.
Order == <<"CH1_LOW", "CH1_HIGH", "CH0_LOW", "CH0_HIGH">>

Register(e, r) ==
  CASE r = "CH1_LOW"  -> e[2] % ByteSize
    [] r = "CH1_HIGH" -> e[2] \div ByteSize
    [] r = "CH0_LOW"  -> e[1] % ByteSize
    [] r = "CH0_HIGH" -> e[1] \div ByteSize

BeginLight ==
  /\ lightStep = 0 /\ reads < MaxReads
  /\ lightStep' = 1
  /\ reads' = reads + 1
  /\ readWhole' = TRUE
  /\ taken' = exposure
  /\ raw_data' \in [1..4 -> Garbage]
  /\ UNCHANGED <<exposure, frozen, light, smoothed_lux, prev_lux, luxSeen>>

\* Mutant: channel 0, the one that matters most, is read first.
ReadOrder_Ch0First == <<"CH0_LOW", "CH0_HIGH", "CH1_LOW", "CH1_HIGH">>

ReadOrder == Order

\* Where a register's byte belongs in raw_data.
Slot(r) == CHOOSE k \in 1..4 : Order[k] = r

ReadByte ==
  /\ lightStep \in 1..4
  /\ LET r == ReadOrder[lightStep] IN
     /\ raw_data' = [raw_data EXCEPT ![Slot(r)] = Register(Shown, r)]
     /\ frozen' = CASE r = "CH1_LOW"  -> Shown
                    [] r = "CH0_HIGH" -> None
                    [] OTHER          -> frozen
     /\ taken' = IF lightStep = 1 THEN Shown ELSE taken
  /\ lightStep' = lightStep + 1
  /\ UNCHANGED <<exposure, light, smoothed_lux, prev_lux, luxSeen, readWhole,
                 reads>>

\* A transfer that fails leaves its byte as it was; nobody looks at the code.
MissByte ==
  /\ lightStep \in 1..4
  /\ lightStep' = lightStep + 1
  /\ readWhole' = FALSE
  /\ UNCHANGED <<exposure, frozen, raw_data, light, smoothed_lux, prev_lux,
                 luxSeen, taken, reads>>

-----------------------------------------------------------------------------
(* What is made of the bytes.                                               *)

\* light_lux: (ch0 - ch1) * (1 - ch1 / ch0) / cpl with cpl = 100 / 408.
LightLux(ch0, ch1) ==
  IF ch0 = 0 \/ ch0 < ch1 THEN 0
  ELSE ((ch0 - ch1) * (ch0 - ch1) * 408) \div (100 * ch0)

\* alpha percent of one value and the rest of the other, rounded either way.
Mixed(alpha, x, y) ==
  LET hundredfold == alpha * x + (100 - alpha) * y IN
  {hundredfold \div 100, (hundredfold + 99) \div 100}

Alpha(lux) ==
  IF lux - smoothed_lux > JumpThreshold THEN JumpAlpha ELSE BaseAlpha

Smoothed(lux) ==
  IF smoothed_lux < 0 THEN {lux} ELSE Mixed(Alpha(lux), lux, smoothed_lux)

Averaged(lux) == IF prev_lux < 0 THEN {lux} ELSE Mixed(LuxAlpha, lux, prev_lux)

Low(x, y) == IF x < y THEN x ELSE y
High(x, y) == IF x > y THEN x ELSE y

Widened(lux) ==
  IF luxSeen = <<>> THEN <<lux, lux>>
  ELSE <<Low(luxSeen[1], lux), High(luxSeen[2], lux)>>

\* The rest of light_sensor_read, and of its block in sensors_read.
Evaluate ==
  /\ lightStep = 5
  /\ lightStep' = 0
  /\ LET ch1 == raw_data[2] * ByteSize + raw_data[1]
         ch0 == raw_data[4] * ByteSize + raw_data[3]
         lux == LightLux(ch0, ch1)
     IN
     /\ smoothed_lux' \in Smoothed(lux)
     /\ prev_lux' \in Averaged(smoothed_lux')
     /\ light' = [ch0 |-> ch0, ch1 |-> ch1, lux |-> prev_lux']
     /\ luxSeen' = Widened(lux)
  /\ UNCHANGED <<exposure, frozen, raw_data, readWhole, taken, reads>>

LightNext ==
  \/ \E e \in Exposures : Expose(e)
  \/ BeginLight \/ ReadByte \/ MissByte \/ Evaluate

LightSpec == LightInit /\ [][LightNext]_lightVars

-----------------------------------------------------------------------------
(* Properties.                                                              *)

\* The two channels of a reading whose transfers succeeded are of one exposure
\* and each of its bytes too, although they are read one by one while the chip
\* goes on measuring: the registers are read in the order that holds them.
NeverTorn ==
  lightStep = 0 /\ reads > 0 /\ readWhole => <<light.ch0, light.ch1>> = taken

\* Whatever the bytes were, failed transfers included, no filter shows a light
\* that is darker or brighter than every lux computed so far, nor falls back
\* to the sentinel.
LuxStaysBetween ==
  luxSeen # <<>> =>
    \A lux \in {smoothed_lux, prev_lux, light.lux} :
      luxSeen[1] <= lux /\ lux <= luxSeen[2]

LuxIsSound == NeverTorn /\ LuxStaysBetween
=============================================================================
