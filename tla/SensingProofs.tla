---------------------------- MODULE SensingProofs ----------------------------
(***************************************************************************)
(* Proofs about what happens to a reading: its smoothing for any samples,  *)
(* its schedule for any intervals, boot delays and loop times, the water   *)
(* for any size of the box, any number of particles and any resolution,    *)
(* the angles and the pictures made of them for any readings, the light    *)
(* for any exposures, the packet for any words; and the properties of the  *)
(* composition.                                                            *)
(*                                                                         *)
(* Each part has an inductive invariant of its own (AverageInv,            *)
(* ScheduleInv, FluidInv and ContainedInv, TiltInv, LightInv, PacketInv).  *)
(* Induction over the terms of a sum, like that over the exponents of      *)
(* PowersOfTwoProofs, is the existence of a least counterexample.          *)
(***************************************************************************)
EXTENDS MCSensing, PowersOfTwoProofs, FiniteSetTheorems

-----------------------------------------------------------------------------
(* The moving average: RunningAverage.                                     *)

AverageInv == AverageTypeOK /\ SumIsWindow

SlotSum(b) == b[0] + b[1] + b[2] + b[3] + b[4]

\* A mean of five lies between the smallest and the largest of them.
LEMMA MeanIsBetween ==
  ASSUME NEW b \in [Slots -> Values]
  PROVE  /\ Quotient(SlotSum(b), WINDOW) \in Values
         /\ \E i \in Slots : b[i] <= Quotient(SlotSum(b), WINDOW)
         /\ \E j \in Slots : Quotient(SlotSum(b), WINDOW) <= b[j]
<1> DEFINE q == Quotient(SlotSum(b), WINDOW)
<1>1. \A i \in {0, 1, 2, 3, 4} : i \in Slots /\ b[i] \in Values
  BY DEF Slots, WINDOW
<1>2. SlotSum(b) \in Int /\ q \in Int
  BY <1>1, SamplesAssumption DEF SlotSum, Quotient, Values, WINDOW
<1>3. 5 * q - 5 < SlotSum(b) /\ SlotSum(b) < 5 * q + 5
  BY <1>2 DEF Quotient, WINDOW
<1>4. /\ SlotSum(b) >= 0 => 5 * q <= SlotSum(b) /\ q >= 0
      /\ SlotSum(b) < 0 => 5 * q >= SlotSum(b) /\ q <= 0
  BY <1>2 DEF Quotient, WINDOW
<1>5. \E i \in {0, 1, 2, 3, 4} : b[i] <= q
  BY <1>1, <1>2, <1>3, <1>4, SamplesAssumption DEF SlotSum, Values
<1>6. \E j \in {0, 1, 2, 3, 4} : q <= b[j]
  BY <1>1, <1>2, <1>3, <1>4, SamplesAssumption DEF SlotSum, Values
<1>7. q \in Values
  BY <1>1, <1>2, <1>5, <1>6, SamplesAssumption DEF Values
<1> QED BY <1>1, <1>5, <1>6, <1>7

LEMMA Int16OfValue ==
  ASSUME NEW x \in Values
  PROVE  ToInt16(x) = x /\ x \in Int16
BY SamplesAssumption DEF ToInt16, Wrap, Values, Int16

\* Writing a slot changes the sum of the ring by the difference.
LEMMA SumOfUpdate ==
  ASSUME NEW b \in [Slots -> Values], NEW i \in Slots, NEW v \in Values
  PROVE  /\ [b EXCEPT ![i] = v] \in [Slots -> Values]
         /\ SlotSum([b EXCEPT ![i] = v]) = SlotSum(b) - b[i] + v
<1>1. \A k \in {0, 1, 2, 3, 4} : k \in Slots /\ b[k] \in Values
  BY DEF Slots, WINDOW
<1>2. i \in {0, 1, 2, 3, 4}
  BY DEF Slots, WINDOW
<1> QED BY <1>1, <1>2, SamplesAssumption DEF SlotSum, Values

LEMMA SumRange ==
  ASSUME NEW b \in [Slots -> Values]
  PROVE  SlotSum(b) \in -(WINDOW * MaxSample)..(WINDOW * MaxSample)
<1>1. \A k \in {0, 1, 2, 3, 4} : b[k] \in Values
  BY DEF Slots, WINDOW
<1> QED BY <1>1, SamplesAssumption DEF SlotSum, Values, WINDOW

LEMMA AverageStart == AverageInit => AverageInv
BY SamplesAssumption
   DEF AverageInit, AverageInv, AverageTypeOK, SumIsWindow, Slots, WINDOW,
     Values, Int16

\* What a call returns, and what it leaves in the ring.
LEMMA CallEffect ==
  ASSUME AverageInv, NEW v \in Samples, accel_running_avg(v)
  PROVE  /\ v \in Values
         /\ data_buffer' = [data_buffer EXCEPT ![read_idx] = v]
         /\ data_buffer' \in [Slots -> Values]
         /\ smoothing_sum' = SlotSum(data_buffer')
         /\ read_idx' = (read_idx + 1) % 5 /\ read_idx' \in Slots
         /\ valid_accel_samples' \in 1..WINDOW
         /\ result' = IF valid_accel_samples' < WINDOW THEN v
                      ELSE Quotient(smoothing_sum', WINDOW)
         /\ result' \in Int16
<1>1. v \in Values
  BY SamplesAssumption DEF Values
<1>2. read_idx \in Slots /\ data_buffer \in [Slots -> Values]
  BY DEF AverageInv, AverageTypeOK
<1>3. data_buffer' = [data_buffer EXCEPT ![read_idx] = v]
  BY DEF accel_running_avg
<1>4. data_buffer' \in [Slots -> Values]
  BY <1>1, <1>2, <1>3, SumOfUpdate
<1>5. smoothing_sum' = SlotSum(data_buffer')
  BY <1>1, <1>2, <1>3, SumOfUpdate
     DEF AverageInv, SumIsWindow, SlotSum, accel_running_avg, NewSum
<1>6. read_idx' = (read_idx + 1) % 5 /\ read_idx' \in Slots
  BY <1>2 DEF accel_running_avg, NextSlot, Slots, WINDOW
<1>7. valid_accel_samples' \in 1..WINDOW
  BY DEF AverageInv, AverageTypeOK, accel_running_avg, WINDOW
<1>8. Quotient(smoothing_sum', WINDOW) \in Values
  BY <1>4, <1>5, MeanIsBetween
<1>9. /\ result' = IF valid_accel_samples' < WINDOW THEN v
                   ELSE Quotient(smoothing_sum', WINDOW)
      /\ result' \in Int16
  BY <1>1, <1>8, Int16OfValue DEF accel_running_avg
<1> QED BY <1>1, <1>3, <1>4, <1>5, <1>6, <1>7, <1>9

LEMMA AverageSteps == AverageInv /\ [AverageNext]_averageVars => AverageInv'
<1> SUFFICES ASSUME AverageInv, [AverageNext]_averageVars PROVE AverageInv'
  OBVIOUS
<1>1. CASE UNCHANGED averageVars
  BY <1>1 DEF averageVars, AverageInv, AverageTypeOK, SumIsWindow
<1>2. ASSUME NEW v \in Samples, accel_running_avg(v) PROVE AverageInv'
  <2>1. smoothing_sum' \in -(WINDOW * MaxSample)..(WINDOW * MaxSample)
    BY <1>2, CallEffect, SumRange
  <2>2. valid_accel_samples' \in 0..WINDOW
    BY <1>2, CallEffect DEF WINDOW
  <2> QED BY <1>2, <2>1, <2>2, CallEffect DEF AverageInv, AverageTypeOK,
        SumIsWindow, SlotSum
<1> QED BY <1>1, <1>2 DEF AverageNext

\* The adjusted sum always is the sum of the ring (accel_running_avg), and
\* every variable stays in the integer type the code gives it.
THEOREM SumCorrect == AverageSpec => [](AverageTypeOK /\ SumIsWindow)
<1>1. AverageInv => AverageTypeOK /\ SumIsWindow
  BY DEF AverageInv
<1> QED BY AverageStart, AverageSteps, <1>1, PTL DEF AverageSpec

\* With a full window, the result lies between two of the last five samples.
THEOREM ResultCorrect == AverageSpec => []ResultWithinWindow
<1> DEFINE RInv == valid_accel_samples = WINDOW =>
                     result = Quotient(SlotSum(data_buffer), WINDOW)
<1>1. AverageInit => RInv
  BY DEF AverageInit, WINDOW
<1>2. AverageInv /\ RInv /\ [AverageNext]_averageVars => RInv'
  <2> SUFFICES ASSUME AverageInv, RInv, [AverageNext]_averageVars PROVE RInv'
    OBVIOUS
  <2>1. CASE UNCHANGED averageVars
    BY <2>1 DEF averageVars
  <2>2. ASSUME NEW v \in Samples, accel_running_avg(v) PROVE RInv'
    BY <2>2, CallEffect DEF WINDOW
  <2> QED BY <2>1, <2>2 DEF AverageNext
<1>3. AverageInv /\ RInv => ResultWithinWindow
  BY MeanIsBetween DEF AverageInv, AverageTypeOK, ResultWithinWindow
<1> HIDE DEF RInv
<1> QED BY AverageStart, AverageSteps, <1>1, <1>2, <1>3, PTL DEF AverageSpec

-----------------------------------------------------------------------------

WindowOf(b, r) == [k \in Slots |-> b[(r + WINDOW - 1 - k) % WINDOW]]

Window == WindowOf(data_buffer, read_idx)

\* The ring and the window it represents hold the same five samples.
LEMMA WindowSum ==
  ASSUME NEW b \in [Slots -> Values], NEW r \in Slots
  PROVE  SlotSum(WindowOf(b, r)) = SlotSum(b)
<1>1. r \in {0, 1, 2, 3, 4}
  BY DEF Slots, WINDOW
<1>2. \A k \in {0, 1, 2, 3, 4} : b[k] \in Int
  BY SamplesAssumption DEF Slots, WINDOW, Values
<1>3. \A k \in {0, 1, 2, 3, 4} : WindowOf(b, r)[k] = b[(r + 4 - k) % 5]
  BY DEF WindowOf, Slots, WINDOW
<1>4. CASE r = 0
  BY <1>2, <1>3, <1>4 DEF SlotSum
<1>5. CASE r = 1
  BY <1>2, <1>3, <1>5 DEF SlotSum
<1>6. CASE r = 2
  BY <1>2, <1>3, <1>6 DEF SlotSum
<1>7. CASE r = 3
  BY <1>2, <1>3, <1>7 DEF SlotSum
<1>8. CASE r = 4
  BY <1>2, <1>3, <1>8 DEF SlotSum
<1> QED BY <1>1, <1>4, <1>5, <1>6, <1>7, <1>8

\* A call shifts the window by one.
LEMMA WindowShift ==
  ASSUME AverageInv, NEW v \in Samples, accel_running_avg(v)
  PROVE  Window' = [k \in Slots |-> IF k = 0 THEN v ELSE Window[k - 1]]
<1>1. read_idx \in 0..4 /\ read_idx' = (read_idx + 1) % 5
  BY CallEffect DEF AverageInv, AverageTypeOK, Slots, WINDOW
<1>2. data_buffer' = [data_buffer EXCEPT ![read_idx] = v]
        /\ data_buffer \in [Slots -> Values]
  BY CallEffect DEF AverageInv, AverageTypeOK
<1>3. ASSUME NEW k \in Slots
      PROVE  Window'[k] = IF k = 0 THEN v ELSE Window[k - 1]
  <2>1. k \in 0..4 /\ (k # 0 => k - 1 \in Slots)
    BY DEF Slots, WINDOW
  <2>2. Window'[k] = data_buffer'[(read_idx' + 4 - k) % 5]
    BY DEF Window, WindowOf, WINDOW
  <2>3. CASE k = 0
    <3>1. (read_idx' + 4 - k) % 5 = read_idx
      BY <1>1, <2>3
    <3> QED BY <1>1, <1>2, <2>2, <2>3, <3>1 DEF Slots, WINDOW
  <2>4. CASE k # 0
    <3>1. /\ (read_idx' + 4 - k) % 5 = (read_idx + 4 - (k - 1)) % 5
          /\ (read_idx' + 4 - k) % 5 # read_idx
          /\ (read_idx' + 4 - k) % 5 \in 0..4
      BY <1>1, <2>1, <2>4
    <3>2. Window[k - 1] = data_buffer[(read_idx + 4 - (k - 1)) % 5]
      BY <2>1, <2>4 DEF Window, WindowOf, WINDOW
    <3> QED BY <1>2, <2>2, <2>4, <3>1, <3>2 DEF Slots, WINDOW
  <2> QED BY <2>3, <2>4
<1> QED BY <1>3 DEF Window, WindowOf

\* The ring with its adjusted sum implements the moving average that computes
\* every mean from scratch.
THEOREM MeanImplemented == AverageSpec => MeanSpec
<1>1. AverageInit => Mean!Init
  BY DEF AverageInit, Mean!Init, Mean!Size, Slots, WINDOW
<1>2. AverageInv /\ AverageInv' /\ [AverageNext]_averageVars
        => [Mean!Next]_(Mean!vars)
  <2> SUFFICES ASSUME AverageInv, AverageInv', [AverageNext]_averageVars
               PROVE  Mean!Next \/ UNCHANGED Mean!vars
    OBVIOUS
  <2>1. CASE UNCHANGED averageVars
    BY <2>1 DEF averageVars, Mean!vars
  <2>2. ASSUME NEW v \in Samples, accel_running_avg(v) PROVE Mean!Next
    <3>1. Window' = [k \in 0..(Mean!Size - 1) |-> IF k = 0 THEN v
            ELSE Window[k - 1]]
      BY <2>2, WindowShift DEF Mean!Size, Slots, WINDOW
    <3>2. SlotSum(Window') = smoothing_sum'
      <4>1. data_buffer' \in [Slots -> Values] /\ read_idx' \in Slots
        BY <2>2, CallEffect
      <4> QED BY <4>1, <2>2, WindowSum, CallEffect DEF Window
    <3>3. valid_accel_samples' =
            IF valid_accel_samples < Mean!Size
              THEN valid_accel_samples + 1 ELSE Mean!Size
      BY <2>2 DEF accel_running_avg, Mean!Size, WINDOW
    <3>4. result' = IF valid_accel_samples' < Mean!Size THEN v
                    ELSE Mean!Quotient(Mean!Total(Window'), Mean!Size)
      BY <2>2, <3>2, CallEffect
         DEF Mean!Quotient, Quotient, Mean!Total, SlotSum, Mean!Size, WINDOW
    <3>5. Mean!Take(v)
      BY <3>1, <3>3, <3>4 DEF Mean!Take, Window, WindowOf, Mean!Total, SlotSum
    <3> QED BY <2>2, <3>5 DEF Mean!Next
  <2> QED BY <2>1, <2>2 DEF AverageNext
<1> QED BY AverageStart, AverageSteps, <1>1, <1>2, PTL DEF AverageSpec,
      MeanSpec, Mean!Spec

-----------------------------------------------------------------------------
(* When a sensor is read: SensorSchedule.                                  *)

LEMMA ScheduleStartTypes == ScheduleInit => ScheduleTypeOK /\ StampsAreOrdered
<1> SUFFICES ASSUME ScheduleInit PROVE ScheduleTypeOK /\ StampsAreOrdered
  OBVIOUS
<1>1. time \in Nat
  <2>1. PICK d \in Steps : time = BootDelay + d
    BY DEF ScheduleInit, BootTimes
  <2> QED BY <2>1, ScheduleAssumption
<1>2. /\ data \in [Sensors -> Sources] /\ reply \in [Sensors -> Sources]
      /\ tilt \in Sources
  BY DEF ScheduleInit, NoReply, Sources
<1>3. phase \in Phases
  BY DEF ScheduleInit, Phases
<1>4. /\ now = 0 /\ last \in [Sensors -> Nat] /\ passes \in BOOLEAN
      /\ takenAt \in [Sensors -> Nat]
      /\ \A s \in Sensors : last[s] = 0 /\ takenAt[s] = 0
  BY DEF ScheduleInit
<1> QED BY <1>1, <1>2, <1>3, <1>4 DEF ScheduleTypeOK, StampsAreOrdered

LEMMA ScheduleStepTypes == ScheduleTypeOK /\ StampsAreOrdered
                             /\ [ScheduleNext]_scheduleVars
                                  => ScheduleTypeOK' /\ StampsAreOrdered'
<1> SUFFICES ASSUME ScheduleTypeOK, StampsAreOrdered,
                      [ScheduleNext]_scheduleVars
    PROVE  ScheduleTypeOK' /\ StampsAreOrdered'
  OBVIOUS
<1> USE ScheduleAssumption DEF ScheduleTypeOK, StampsAreOrdered
<1>1. CASE Elapse
  BY <1>1 DEF Elapse
<1>2. CASE Poll
  BY <1>2 DEF Poll, Phases
<1>3. CASE SampleTimer
  BY <1>3 DEF SampleTimer, Phases, Sensors
<1>4. ASSUME NEW s \in Sensors, Read(s) \/ Skip(s)
      PROVE  ScheduleTypeOK' /\ StampsAreOrdered'
  <2>1. phase' \in Phases
    BY <1>4 DEF Read, Skip, After, Phases, Sensors
  <2>2. UNCHANGED <<time, now, reply>>
    BY <1>4 DEF Read, Skip
  <2>3. \/ last' = last /\ takenAt' = takenAt
        \/ /\ last' = [last EXCEPT ![s] = now]
           /\ takenAt' = [takenAt EXCEPT ![s] = time]
    BY <1>4 DEF Read, Skip, Stamp
  <2>4. data' \in [Sensors -> Sources] /\ tilt' \in Sources
    BY <1>4 DEF Read, Skip, Sources, Sensors
  <2>5. passes' \in BOOLEAN
    BY <1>4 DEF Read, Skip
  <2> QED BY <2>1, <2>2, <2>3, <2>4, <2>5
<1>5. CASE UNCHANGED scheduleVars
  BY <1>5 DEF scheduleVars
<1> QED BY <1>1, <1>2, <1>3, <1>4, <1>5 DEF ScheduleNext

\* The types hold and no update is stamped later than the time it is compared
\* with, so that the unsigned subtractions of sensors_read never wrap.
THEOREM StampsCorrect == ScheduleSpec => [](ScheduleTypeOK /\ StampsAreOrdered)
BY ScheduleStartTypes, ScheduleStepTypes, PTL DEF ScheduleSpec

-----------------------------------------------------------------------------

\* Until its first reading a sensor has the stamp zero; in the first call the
\* sampled time has passed every interval.
FirstCall ==
  /\ time >= BootDelay
  /\ phase \notin {"poll", "timer"} => now >= BootDelay
  /\ \A s \in Sensors : data[s] = "unset" => last[s] = 0 /\ ~passes
  /\ \A s \in Sensors :
       (passes \/ phase \notin {"poll", "timer"}) /\ Done(s)
         => data[s] # "unset"

ScheduleInv == ScheduleTypeOK /\ StampsAreOrdered /\ DataIsYoung /\ FirstCall

LEMMA ScheduleStart == ScheduleInit => ScheduleInv
<1> SUFFICES ASSUME ScheduleInit PROVE ScheduleInv
  OBVIOUS
<1>1. ScheduleTypeOK /\ StampsAreOrdered
  BY ScheduleStartTypes
<1>2. DataIsYoung
  BY DEF ScheduleInit, DataIsYoung
<1>3. FirstCall
  BY ScheduleAssumption DEF ScheduleInit, FirstCall, BootTimes
<1> QED BY <1>1, <1>2, <1>3 DEF ScheduleInv

\* Looking at a sensor, read or not, leaves its reading written and young.
LEMMA LookIsYoung ==
  ASSUME ScheduleInv, NEW s \in Sensors, Read(s) \/ Skip(s)
  PROVE  /\ time' - takenAt'[s] < Interval[s] + (time' - now')
         /\ data'[s] # "unset"
         /\ \A c \in Sensors : c # s
              => /\ last'[c] = last[c] /\ data'[c] = data[c]
                 /\ takenAt'[c] = takenAt[c]
<1> USE ScheduleAssumption DEF ScheduleInv, ScheduleTypeOK, StampsAreOrdered
<1>1. CASE Read(s)
  BY <1>1 DEF Read, Stamp
<1>2. CASE Skip(s)
  <2>1. now - last[s] < Interval[s]
    BY <1>2 DEF Skip, Due
  <2>2. phase \notin {"poll", "timer"}
    BY <1>2 DEF Skip, Sensors
  <2>3. data[s] # "unset"
    BY <2>1, <2>2, BootAssumption DEF FirstCall
  <2> QED BY <1>2, <2>1, <2>3 DEF Skip
<1> QED BY <1>1, <1>2

LEMMA DoneAfterLook ==
  ASSUME NEW s \in Sensors, NEW c \in Sensors, phase = s, phase' = After(s)
  PROVE  /\ Done(c)' <=> c = s \/ Done(c) \/ s = "temperature"
         /\ s = "temperature" => c = s \/ Done(c)
BY DEF Done, After, Sensors

LEMMA ScheduleSteps == ScheduleInv /\ [ScheduleNext]_scheduleVars
                         => ScheduleInv'
<1> SUFFICES ASSUME ScheduleInv, [ScheduleNext]_scheduleVars PROVE ScheduleInv'
  OBVIOUS
<1>1. ScheduleTypeOK' /\ StampsAreOrdered'
  BY ScheduleStepTypes DEF ScheduleInv
<1> USE ScheduleAssumption DEF ScheduleInv, ScheduleTypeOK, StampsAreOrdered
<1>2. CASE Elapse
  BY <1>1, <1>2 DEF Elapse, DataIsYoung, FirstCall, Done, Age, AgeAllowed
<1>3. CASE Poll
  BY <1>1, <1>3 DEF Poll, DataIsYoung, FirstCall, Done, Age, AgeAllowed
<1>4. CASE SampleTimer
  BY <1>1, <1>4 DEF SampleTimer, DataIsYoung, FirstCall, Done, Sensors,
                    Age, AgeAllowed
<1>5. ASSUME NEW s \in Sensors, Read(s) \/ Skip(s) PROVE ScheduleInv'
  <2>1. phase = s /\ phase' = After(s) /\ UNCHANGED <<time, now>>
    BY <1>5 DEF Read, Skip
  <2>2. phase \notin {"poll", "timer"}
    BY <2>1 DEF Sensors
  <2>3. /\ Age(s)' < AgeAllowed(s)' /\ data'[s] # "unset"
        /\ \A c \in Sensors : c # s
             => /\ last'[c] = last[c] /\ data'[c] = data[c]
                /\ Age(c)' = Age(c) /\ AgeAllowed(c)' = AgeAllowed(c)
    BY <1>5, <2>1, LookIsYoung DEF Age, AgeAllowed
  <2>4. DataIsYoung'
    BY <2>1, <2>2, <2>3, DoneAfterLook DEF DataIsYoung
  <2>5. \A c \in Sensors :
          (passes' \/ phase' \notin {"poll", "timer"}) /\ Done(c)'
            => data'[c] # "unset"
    BY <2>1, <2>2, <2>3, DoneAfterLook DEF FirstCall
  <2>6. \A c \in Sensors : data'[c] = "unset" => last'[c] = 0 /\ ~passes'
    <3> SUFFICES ASSUME NEW c \in Sensors, data'[c] = "unset"
                 PROVE  last'[c] = 0 /\ ~passes'
      OBVIOUS
    <3>1. c # s /\ data[c] = "unset" /\ last'[c] = 0 /\ ~passes
      BY <2>3 DEF FirstCall
    <3>2. ~Done(c)
      BY <2>2, <3>1 DEF FirstCall
    <3>3. s # "temperature"
      BY <2>1, <3>1, <3>2, DoneAfterLook
    <3> QED BY <1>5, <3>1, <3>3 DEF Read, Skip
  <2>7. time' >= BootDelay /\ now' >= BootDelay
    BY <2>1, <2>2 DEF FirstCall
  <2> QED BY <1>1, <2>4, <2>5, <2>6, <2>7 DEF FirstCall
<1>6. CASE UNCHANGED scheduleVars
  BY <1>1, <1>6 DEF scheduleVars, DataIsYoung, FirstCall, Done, Age, AgeAllowed
<1> QED BY <1>2, <1>3, <1>4, <1>5, <1>6 DEF ScheduleNext

\* At every moment, a reading that sensors_read has looked at is younger than
\* its interval and the time since the call sampled the timer.
THEOREM YoungCorrect == ScheduleSpec => []DataIsYoung
<1>1. ScheduleInv => DataIsYoung
  BY DEF ScheduleInv
<1> QED BY ScheduleStart, ScheduleSteps, <1>1, PTL DEF ScheduleSpec

\* After the first sensors_read no packet carries memory nobody wrote.
THEOREM ReplyCorrect == ScheduleSpec => NoUnsetReply
<1>1. ScheduleInv /\ [ScheduleNext]_scheduleVars =>
        [passes /\ reply' # reply
          => \A s \in Sensors : reply'[s] # "unset"]_scheduleVars
  <2> SUFFICES ASSUME ScheduleInv, [ScheduleNext]_scheduleVars, passes,
                        reply' # reply, NEW s \in Sensors
      PROVE  reply'[s] # "unset"
    OBVIOUS
  <2>1. Poll
    BY DEF ScheduleNext, Elapse, SampleTimer, Read, Skip, scheduleVars
  <2>2. reply' = data
    BY <2>1 DEF Poll
  <2> QED BY <2>2 DEF ScheduleInv, FirstCall
<1> QED BY ScheduleStart, ScheduleSteps, <1>1, PTL DEF ScheduleSpec,
      NoUnsetReply

\* The angle is computed from an accelerometer reading that is written and no
\* older than its interval and the running call.
THEOREM AngleCorrect == ScheduleSpec => AngleIsFresh
<1>1. ScheduleInv /\ [ScheduleNext]_scheduleVars =>
        [last'["magnetometer"] # last["magnetometer"] =>
           /\ tilt' # "unset"
           /\ Age("accelerometer") < AgeAllowed("accelerometer")]_scheduleVars
  <2> SUFFICES ASSUME ScheduleInv, [ScheduleNext]_scheduleVars,
                        last'["magnetometer"] # last["magnetometer"]
      PROVE  /\ tilt' # "unset"
             /\ Age("accelerometer") < AgeAllowed("accelerometer")
    OBVIOUS
  <2>1. Read("magnetometer")
    BY DEF ScheduleNext, Elapse, Poll, SampleTimer, Read, Skip, scheduleVars,
         ScheduleInv, ScheduleTypeOK, Sensors
  <2>2. phase = "magnetometer" /\ tilt' = data["accelerometer"]
    BY <2>1 DEF Read
  <2>3. "accelerometer" \in Sensors /\ Done("accelerometer")
    BY <2>2 DEF Sensors, Done
  <2> QED BY <2>2, <2>3 DEF ScheduleInv, DataIsYoung, FirstCall
<1> QED BY ScheduleStart, ScheduleSteps, <1>1, PTL DEF ScheduleSpec,
      AngleIsFresh

\* What the loop hands on is as young as the intervals and the loop allow, and
\* was written: the four parts of ReadingsAreFresh (sensors_read), for all
\* intervals and loop times.
THEOREM FreshCorrect == ScheduleSpec => ReadingsAreFresh
<1>1. ScheduleTypeOK /\ StampsAreOrdered => StampsAreOrdered
  OBVIOUS
<1> QED BY <1>1, StampsCorrect, YoungCorrect, ReplyCorrect, AngleCorrect, PTL
        DEF ReadingsAreFresh

-----------------------------------------------------------------------------
(* The water: FluidGrid.                                                   *)

-----------------------------------------------------------------------------
(* Sums.                                                                    *)

\* h holds the sums of the first n values of f.
Parts(f, h, n) ==
  /\ h[0] = 0
  /\ \A k \in 1 .. n : h[k] = h[k - 1] + f[k - 1]

LEMMA PartsExist ==
  ASSUME NEW f
  PROVE  \A n \in Nat : \E h : Parts(f, h, n)
<1> DEFINE S == {n \in Nat : ~ \E h : Parts(f, h, n)}
<1> SUFFICES ASSUME S # {} PROVE FALSE
  OBVIOUS
<1>1. PICK n \in S : \A m \in S : n <= m
  <2>1. S \in SUBSET Nat
    OBVIOUS
  <2> HIDE DEF S
  <2> QED
    BY <2>1, LeastNumber
<1>2. CASE n = 0
  <2>1. Parts(f, [k \in 0 .. 0 |-> 0], 0)
    BY DEF Parts
  <2> QED
    BY <1>1, <1>2, <2>1
<1>3. CASE n # 0
  <2>1. n \in Nat /\ n - 1 \in Nat /\ ~ (n <= n - 1)
    BY <1>1, <1>3
  <2>2. PICK h : Parts(f, h, n - 1)
    BY <1>1, <2>1
  <2> DEFINE g == [k \in 0 .. n |-> IF k = n THEN h[n - 1] + f[n - 1]
               ELSE h[k]]
  <2>3. g[0] = 0
    BY <1>3, <2>1, <2>2 DEF Parts
  <2>4. ASSUME NEW k \in 1 .. n PROVE g[k] = g[k - 1] + f[k - 1]
    BY <2>1, <2>2 DEF Parts
  <2>5. Parts(f, g, n)
    BY <2>3, <2>4 DEF Parts
  <2> QED
    BY <1>1, <2>5
<1> QED
  BY <1>2, <1>3

LEMMA PartsAgree ==
  ASSUME NEW f, NEW n \in Nat, NEW m \in Nat, NEW g, NEW h,
         Parts(f, g, n), Parts(f, h, m),
         NEW l \in Nat, l <= n, l <= m
  PROVE  g[l] = h[l]
<1> DEFINE S == {k \in Nat : k <= n /\ k <= m /\ g[k] # h[k]}
<1> SUFFICES ASSUME S # {} PROVE FALSE
  OBVIOUS
<1>1. PICK k \in S : \A j \in S : k <= j
  <2>1. S \in SUBSET Nat
    OBVIOUS
  <2> HIDE DEF S
  <2> QED
    BY <2>1, LeastNumber
<1>2. k # 0
  BY <1>1 DEF Parts
<1>3. /\ k - 1 \in Nat /\ k - 1 <= n /\ k - 1 <= m /\ ~ (k <= k - 1)
      /\ k \in 1 .. n /\ k \in 1 .. m
  BY <1>1, <1>2
<1>4. g[k - 1] = h[k - 1]
  BY <1>1, <1>3
<1> QED
  BY <1>1, <1>3, <1>4 DEF Parts

LEMMA SumIs ==
  ASSUME NEW f
  PROVE  \E part : /\ part = [k \in Nat |-> IF k = 0 THEN 0
                                            ELSE part[k - 1] + f[k - 1]]
                   /\ \A n : SumOf(f, n) = part[n]
<1> DEFINE F == [n \in Nat |-> (CHOOSE h : Parts(f, h, n))[n]]
<1>1. ASSUME NEW n \in Nat, NEW h, Parts(f, h, n), NEW m \in Nat, m <= n
      PROVE  F[m] = h[m]
  <2>1. Parts(f, CHOOSE g : Parts(f, g, m), m)
    BY PartsExist
  <2> QED
    BY <1>1, <2>1, PartsAgree
<1>2. ASSUME NEW n \in Nat
      PROVE  F[n] = IF n = 0 THEN 0 ELSE F[n - 1] + f[n - 1]
  <2>1. PICK h : Parts(f, h, n)
    BY PartsExist
  <2>2. F[n] = h[n]
    BY <1>1, <2>1
  <2>3. CASE n = 0
    BY <2>1, <2>2, <2>3 DEF Parts
  <2>4. CASE n # 0
    <3>1. n - 1 \in Nat /\ n - 1 <= n /\ n \in 1 .. n
      BY <2>4
    <3>2. F[n - 1] = h[n - 1]
      BY <1>1, <2>1, <3>1
    <3>3. h[n] = h[n - 1] + f[n - 1]
      BY <2>1, <3>1 DEF Parts
    <3> QED
      BY <2>2, <2>4, <3>2, <3>3
  <2> QED
    BY <2>3, <2>4
<1>3. F = [n \in Nat |-> IF n = 0 THEN 0 ELSE F[n - 1] + f[n - 1]]
  <2>1. F = [n \in Nat |-> F[n]]
    OBVIOUS
  <2> HIDE DEF F
  <2> QED
    BY <1>2, <2>1
<1> HIDE DEF F
<1> DEFINE G == CHOOSE part : part = [k \in Nat |-> IF k = 0 THEN 0
                                        ELSE part[k - 1] + f[k - 1]]
<1>4. G = [k \in Nat |-> IF k = 0 THEN 0 ELSE G[k - 1] + f[k - 1]]
  BY <1>3
<1>5. \A n : SumOf(f, n) = G[n]
  BY DEF SumOf
<1> HIDE DEF G
<1> QED
  BY <1>4, <1>5

LEMMA SumSteps ==
  ASSUME NEW f
  PROVE  /\ SumOf(f, 0) = 0
         /\ \A n \in Nat : SumOf(f, n + 1) = SumOf(f, n) + f[n]
<1>1. PICK part : /\ part = [k \in Nat |-> IF k = 0 THEN 0
                                           ELSE part[k - 1] + f[k - 1]]
                  /\ \A n : SumOf(f, n) = part[n]
  BY SumIs
<1>2. part[0] = 0
  BY <1>1
<1>3. ASSUME NEW n \in Nat PROVE part[n + 1] = part[n] + f[n]
  <2>1. n + 1 \in Nat /\ n + 1 # 0 /\ (n + 1) - 1 = n
    OBVIOUS
  <2> QED
    BY <1>1, <2>1
<1> QED
  BY <1>1, <1>2, <1>3

LEMMA SumTypes ==
  ASSUME NEW n \in Nat, NEW f, \A k \in 0 .. n - 1 : f[k] \in Nat
  PROVE  SumOf(f, n) \in Nat
<1> DEFINE S == {k \in Nat : k <= n /\ SumOf(f, k) \notin Nat}
<1> SUFFICES ASSUME S # {} PROVE FALSE
  OBVIOUS
<1>1. PICK k \in S : \A j \in S : k <= j
  <2>1. S \in SUBSET Nat
    OBVIOUS
  <2> HIDE DEF S
  <2> QED
    BY <2>1, LeastNumber
<1>2. k # 0
  BY <1>1, SumSteps
<1>3. PICK j \in Nat : k = j + 1
  <2>1. k - 1 \in Nat /\ k = (k - 1) + 1
    BY <1>1, <1>2
  <2> QED
    BY <2>1
<1>4. j \in 0 .. n - 1 /\ j <= n /\ ~ (k <= j)
  BY <1>1, <1>3
<1>5. SumOf(f, j) \in Nat /\ f[j] \in Nat
  BY <1>1, <1>4
<1>6. SumOf(f, k) = SumOf(f, j) + f[j]
  BY <1>3, SumSteps
<1> QED
  BY <1>1, <1>5, <1>6

\* h is f + g, as far as n.
AddsUp(f, g, h, n) ==
  /\ \A k \in 0 .. n - 1 : f[k] \in Nat
  /\ \A k \in 0 .. n - 1 : g[k] \in Nat
  /\ \A k \in 0 .. n - 1 : h[k] = f[k] + g[k]

LEMMA SumAdds ==
  ASSUME NEW n \in Nat, NEW f, NEW g, NEW h, AddsUp(f, g, h, n)
  PROVE  SumOf(h, n) = SumOf(f, n) + SumOf(g, n)
<1> DEFINE S == {k \in Nat : k <= n /\ SumOf(h, k) # SumOf(f, k) + SumOf(g, k)}
<1> SUFFICES ASSUME S # {} PROVE FALSE
  OBVIOUS
<1>1. PICK k \in S : \A j \in S : k <= j
  <2>1. S \in SUBSET Nat
    OBVIOUS
  <2> HIDE DEF S
  <2> QED
    BY <2>1, LeastNumber
<1>2. k # 0
  BY <1>1, SumSteps
<1>3. PICK j \in Nat : k = j + 1
  <2>1. k - 1 \in Nat /\ k = (k - 1) + 1
    BY <1>1, <1>2
  <2> QED
    BY <2>1
<1>4. j \in 0 .. n - 1 /\ j <= n /\ ~ (k <= j)
  BY <1>1, <1>3
<1>5. SumOf(h, j) = SumOf(f, j) + SumOf(g, j)
  BY <1>1, <1>4
<1>6. /\ SumOf(h, k) = SumOf(h, j) + h[j]
      /\ SumOf(f, k) = SumOf(f, j) + f[j]
      /\ SumOf(g, k) = SumOf(g, j) + g[j]
  BY <1>3, SumSteps
<1>7. SumOf(f, j) \in Nat /\ SumOf(g, j) \in Nat
  <2>1. \A i \in 0 .. j - 1 : i \in 0 .. n - 1
    BY <1>4
  <2>2. /\ \A i \in 0 .. j - 1 : f[i] \in Nat
        /\ \A i \in 0 .. j - 1 : g[i] \in Nat
    BY <2>1 DEF AddsUp
  <2> QED
    BY <2>2, SumTypes
<1>8. f[j] \in Nat /\ g[j] \in Nat /\ h[j] = f[j] + g[j]
  BY <1>4 DEF AddsUp
<1> QED
  BY <1>1, <1>5, <1>6, <1>7, <1>8

\* A sum with one term that may differ from zero ...
LEMMA SumSpot ==
  ASSUME NEW n \in Nat, NEW f, NEW p \in 0 .. n - 1, NEW w \in Nat,
         \A k \in 0 .. n - 1 : f[k] = IF k = p THEN w ELSE 0
  PROVE  SumOf(f, n) = w
<1> DEFINE S == {k \in Nat : k <= n /\ SumOf(f, k) # IF k > p THEN w ELSE 0}
<1> SUFFICES ASSUME S # {} PROVE FALSE
  <2>1. n \in Nat /\ n <= n /\ n > p
    OBVIOUS
  <2> QED
    BY <2>1
<1>1. PICK k \in S : \A j \in S : k <= j
  <2>1. S \in SUBSET Nat
    OBVIOUS
  <2> HIDE DEF S
  <2> QED
    BY <2>1, LeastNumber
<1>2. k # 0
  BY <1>1, SumSteps
<1>3. PICK j \in Nat : k = j + 1
  <2>1. k - 1 \in Nat /\ k = (k - 1) + 1
    BY <1>1, <1>2
  <2> QED
    BY <2>1
<1>4. j \in 0 .. n - 1 /\ j <= n /\ ~ (k <= j)
  BY <1>1, <1>3
<1>5. SumOf(f, j) = IF j > p THEN w ELSE 0
  BY <1>1, <1>4
<1>6. SumOf(f, k) = SumOf(f, j) + f[j]
  BY <1>3, SumSteps
<1>7. f[j] = IF j = p THEN w ELSE 0
  BY <1>4
<1> QED
  BY <1>1, <1>3, <1>5, <1>6, <1>7

\* ... and with none.
LEMMA SumZero ==
  ASSUME NEW n \in Nat, NEW f, \A k \in 0 .. n - 1 : f[k] = 0
  PROVE  SumOf(f, n) = 0
<1>1. CASE n = 0
  BY <1>1, SumSteps
<1>2. CASE n # 0
  <2>1. 0 \in 0 .. n - 1 /\ 0 \in Nat
    BY <1>2
  <2>2. \A k \in 0 .. n - 1 : f[k] = IF k = 0 THEN 0 ELSE 0
    OBVIOUS
  <2> QED
    BY <2>1, <2>2, SumSpot
<1> QED
  BY <1>1, <1>2

\* g has rows that each sum up to w, h is g turned over, s has the sums of h.
Table(g, h, s, rows, n, w) ==
  /\ \A i \in 0 .. rows - 1, k \in 0 .. n - 1 : g[i][k] \in Nat
  /\ \A i \in 0 .. rows - 1, k \in 0 .. n - 1 : h[k][i] = g[i][k]
  /\ \A i \in 0 .. rows - 1 : SumOf(g[i], n) = w
  /\ \A k \in 0 .. n - 1 : s[k] = SumOf(h[k], rows)

\* Summed up by rows or by columns, it is the same.
LEMMA SumOfRows ==
  ASSUME NEW rows \in Nat, NEW n \in Nat, NEW w \in Nat, NEW g, NEW h, NEW s,
         Table(g, h, s, rows, n, w)
  PROVE  SumOf(s, n) = rows * w
<1> USE DEF Table
<1> DEFINE P(m) == \A t : (\A k \in 0 .. n - 1 : t[k] = SumOf(h[k], m))
                          => SumOf(t, n) = m * w
<1> DEFINE S == {m \in Nat : m <= rows /\ ~P(m)}
<1>0. SUFFICES ASSUME S # {} PROVE FALSE
  <2>1. rows <= rows
    OBVIOUS
  <2>2. P(rows)
    BY <2>1
  <2> QED
    BY <2>2
<1>1. PICK m \in S : \A j \in S : m <= j
  <2>1. S \in SUBSET Nat
    OBVIOUS
  <2> HIDE DEF S
  <2> QED
    BY <1>0, <2>1, LeastNumber
<1>2. PICK t : (\A k \in 0 .. n - 1 : t[k] = SumOf(h[k], m))
        /\ SumOf(t, n) # m * w
  BY <1>1
<1>3. m # 0
  <2> SUFFICES ASSUME m = 0 PROVE FALSE
    OBVIOUS
  <2>1. \A k \in 0 .. n - 1 : t[k] = 0
    BY <1>2, SumSteps
  <2>2. SumOf(t, n) = 0
    BY <2>1, SumZero
  <2> QED
    BY <1>2, <2>2
<1>4. PICK j \in Nat : m = j + 1
  <2>1. m - 1 \in Nat /\ m = (m - 1) + 1
    BY <1>1, <1>3
  <2> QED
    BY <2>1
<1>5. j \in 0 .. rows - 1 /\ j <= rows /\ ~ (m <= j)
  BY <1>1, <1>4
<1>6. P(j)
  BY <1>1, <1>5
<1>7. PICK u : u = [k \in 0 .. n - 1 |-> SumOf(h[k], j)]
  BY Zenon
<1>8. \A k \in 0 .. n - 1 : u[k] = SumOf(h[k], j)
  BY <1>7
<1>9. SumOf(u, n) = j * w
  BY <1>6, <1>8
<1>10. \A k \in 0 .. n - 1 : g[j][k] \in Nat
  BY <1>5
<1>11. \A k \in 0 .. n - 1 : u[k] \in Nat
  <2> SUFFICES ASSUME NEW k \in 0 .. n - 1 PROVE SumOf(h[k], j) \in Nat
    BY <1>8
  <2>1. \A i \in 0 .. j - 1 : i \in 0 .. rows - 1
    BY <1>5
  <2>2. \A i \in 0 .. j - 1 : h[k][i] \in Nat
    BY <2>1
  <2> QED
    BY <2>2, SumTypes
<1>12. \A k \in 0 .. n - 1 : t[k] = u[k] + g[j][k]
  <2> SUFFICES ASSUME NEW k \in 0 .. n - 1 PROVE t[k] = u[k] + g[j][k]
    OBVIOUS
  <2>1. t[k] = SumOf(h[k], j + 1)
    BY <1>2, <1>4
  <2>2. SumOf(h[k], j + 1) = SumOf(h[k], j) + h[k][j]
    BY SumSteps
  <2>3. h[k][j] = g[j][k]
    BY <1>5
  <2> QED
    BY <1>8, <2>1, <2>2, <2>3
<1>13. SumOf(t, n) = SumOf(u, n) + SumOf(g[j], n)
  <2>1. AddsUp(u, g[j], t, n)
    BY <1>10, <1>11, <1>12 DEF AddsUp
  <2> QED
    BY <2>1, SumAdds
<1>14. SumOf(t, n) = j * w + w
  BY <1>5, <1>9, <1>13
<1>15. (j + 1) * w = j * w + w
  OBVIOUS
<1> QED
  BY <1>2, <1>4, <1>14, <1>15

-----------------------------------------------------------------------------
(* The cells and the shares.                                                *)

Int2 == Int \X Int

LEMMA GridIs ==
  \A c : c \in Grid <=> /\ c \in Int2
                        /\ 0 <= c[1] /\ c[1] < WIDTH
                        /\ 0 <= c[2] /\ c[2] < HEIGHT
BY FluidAssumption DEF Grid, Int2

LEMMA CellOfNumber ==
  ASSUME NEW n \in 0 .. WIDTH * HEIGHT - 1
  PROVE  /\ n \in Nat /\ CellAt(n) \in Grid
         /\ n = HEIGHT * CellAt(n)[1] + CellAt(n)[2]
<1>1. /\ WIDTH \in Nat \ {0} /\ HEIGHT \in Nat \ {0}
      /\ WIDTH * HEIGHT \in Nat /\ WIDTH * HEIGHT = HEIGHT * WIDTH
  BY FluidAssumption
<1>2. n \in Nat /\ n < HEIGHT * WIDTH
  BY <1>1
<1>3. PICK x, y : x = n \div HEIGHT /\ y = n % HEIGHT
  OBVIOUS
<1>4. x \in Nat /\ y \in 0 .. HEIGHT - 1 /\ n = HEIGHT * x + y
  BY <1>1, <1>2, <1>3, Division
<1>5. x < WIDTH
  <2> SUFFICES ASSUME WIDTH <= x PROVE FALSE
    BY <1>1, <1>4
  <2>1. HEIGHT * WIDTH <= HEIGHT * x
    BY <1>1, <1>4, ProductOrder
  <2>2. HEIGHT * x \in Nat /\ HEIGHT * WIDTH \in Nat /\ y \in Nat
    BY <1>1, <1>4
  <2> QED
    BY <1>2, <1>4, <2>1, <2>2
<1>6. CellAt(n) = <<x, y>>
  BY <1>3 DEF CellAt
<1>7. <<x, y>> \in Grid
  BY <1>1, <1>4, <1>5, GridIs DEF Int2
<1> QED
  BY <1>2, <1>4, <1>6, <1>7

LEMMA NumberOfCell ==
  ASSUME NEW c \in Grid
  PROVE  \E n \in 0 .. WIDTH * HEIGHT - 1 : CellAt(n) = c
<1>1. WIDTH \in Nat \ {0} /\ HEIGHT \in Nat \ {0} /\ WIDTH - 1 \in Nat
  BY FluidAssumption
<1>2. PICK x, y : /\ c = <<x, y>> /\ x \in Nat /\ x <= WIDTH - 1
                  /\ y \in 0 .. HEIGHT - 1
  BY <1>1, GridIs DEF Int2
<1>3. PICK n : n = HEIGHT * x + y
  OBVIOUS
<1>4. HEIGHT * x <= HEIGHT * (WIDTH - 1)
  BY <1>1, <1>2, ProductOrder
<1>5. HEIGHT * (WIDTH - 1) = WIDTH * HEIGHT - HEIGHT
  BY <1>1
<1>6. HEIGHT * x \in Nat /\ WIDTH * HEIGHT \in Nat
  BY <1>1, <1>2
<1>7. n \in Nat /\ n \in 0 .. WIDTH * HEIGHT - 1
  BY <1>1, <1>2, <1>3, <1>4, <1>5, <1>6
<1>8. n \div HEIGHT = x /\ n % HEIGHT = y
  BY <1>1, <1>2, <1>3, <1>7, DivisionIs
<1> QED
  BY <1>2, <1>7, <1>8 DEF CellAt

\* A weight in one cell is the sum over all cells.
LEMMA SpotInGrid ==
  ASSUME NEW c \in Grid, NEW w \in Nat, NEW f,
         \A n \in 0 .. WIDTH * HEIGHT - 1 :
           f[n] = IF CellAt(n) = c THEN w ELSE 0
  PROVE  SumOf(f, WIDTH * HEIGHT) = w
<1>1. WIDTH * HEIGHT \in Nat
  BY FluidAssumption
<1>2. PICK p \in 0 .. WIDTH * HEIGHT - 1 : CellAt(p) = c
  BY NumberOfCell
<1>3. \A n \in 0 .. WIDTH * HEIGHT - 1 : CellAt(n) = c <=> n = p
  BY <1>2, CellOfNumber
<1>4. \A n \in 0 .. WIDTH * HEIGHT - 1 : f[n] = IF n = p THEN w ELSE 0
  BY <1>3
<1> QED
  BY <1>1, <1>4, SumSpot

LEMMA HalfIs == /\ Unit \in Nat \ {0} /\ Half \in Nat \ {0}
                /\ Unit = Half + Half
<1>1. Unit \in Nat \ {0} /\ Unit % 2 = 0
  BY FluidAssumption
<1> QED
  BY <1>1 DEF Half

\* Along one axis of l cells: the cell and the fraction a clamped place has.
LEMMA AxisShares ==
  ASSUME NEW v \in Int, NEW l \in Nat, l >= 4,
         NEW q, q = Clamp(v, Unit, (l - 1) * Unit),
         NEW x0, x0 = (q - Half) \div Unit,
         NEW t, t = (q - Half) - x0 * Unit,
         NEW x1, x1 = Least(x0 + 1, l - 2)
  PROVE  /\ x0 \in Nat /\ x0 <= l - 2 /\ x1 \in Nat /\ x1 <= l - 2
         /\ t \in Nat /\ t < Unit /\ Unit - t \in Nat
<1>1. Unit \in Nat \ {0} /\ Half \in Nat \ {0} /\ Unit = Half + Half
  BY HalfIs
<1>2. PICK m : m = (l - 1) * Unit
  OBVIOUS
<1>3. m \in Nat /\ m = Unit * (l - 1) /\ Unit <= m
  <2>1. l - 1 \in Nat /\ 1 <= l - 1
    OBVIOUS
  <2>2. Unit * 1 <= Unit * (l - 1)
    BY <1>1, <2>1, ProductOrder
  <2>3. m = Unit * (l - 1) /\ m \in Nat /\ Unit * 1 = Unit
    BY <1>1, <1>2, <2>1
  <2> QED
    BY <2>2, <2>3
<1>4. q \in Nat /\ Unit <= q /\ q <= m
  BY <1>1, <1>2, <1>3 DEF Clamp
<1>5. PICK a : a = q - Half
  OBVIOUS
<1>6. a \in Nat /\ a < m
  BY <1>1, <1>3, <1>4, <1>5
<1>7. /\ x0 \in Nat /\ a % Unit \in 0 .. Unit - 1
      /\ a = Unit * x0 + (a % Unit)
  BY <1>1, <1>5, <1>6, Division
<1>8. PICK r : r = a % Unit
  OBVIOUS
<1>9. r \in Nat /\ r < Unit /\ a = Unit * x0 + r
  BY <1>1, <1>7, <1>8
<1>10. x0 * Unit = Unit * x0 /\ Unit * x0 \in Nat
  BY <1>1, <1>7
<1>11. t = r
  BY <1>5, <1>9, <1>10
<1>12. x0 < l - 1
  <2> SUFFICES ASSUME l - 1 <= x0 PROVE FALSE
    BY <1>7
  <2>1. Unit * (l - 1) <= Unit * x0
    BY <1>1, <1>7, ProductOrder
  <2> QED
    BY <1>3, <1>6, <1>9, <1>10, <2>1
<1>13. x1 \in Nat /\ x1 <= l - 2
  BY <1>7, <1>12 DEF Least
<1> QED
  BY <1>1, <1>7, <1>9, <1>11, <1>12, <1>13

\* The four weights are those of a whole particle.
LEMMA Weights ==
  ASSUME NEW u \in Nat, NEW x \in Nat, NEW y \in Nat,
         u - x \in Nat, u - y \in Nat
  PROVE  /\ (u - x) * (u - y) \in Nat /\ x * (u - y) \in Nat
         /\ (u - x) * y \in Nat /\ x * y \in Nat
         /\ (u - x) * (u - y) + x * (u - y) + (u - x) * y + x * y = u * u
<1>1. PICK a \in Nat, b \in Nat : a = u - x /\ b = u - y
  OBVIOUS
<1>2. u = a + x /\ u = b + y
  BY <1>1
<1>3. a * b \in Nat /\ x * b \in Nat /\ a * y \in Nat /\ x * y \in Nat
  OBVIOUS
<1>4. (a + x) * (b + y) = a * b + x * b + a * y + x * y
  OBVIOUS
<1>5. u * u = (a + x) * (b + y)
  BY <1>2
<1> QED
  BY <1>1, <1>3, <1>4, <1>5

\* The four cells a particle is shared between, and what each gets.
Splits(p, c1, c2, c3, c4, w1, w2, w3, w4) ==
  /\ w1 + w2 + w3 + w4 = Unit * Unit
  /\ \A c \in Grid : Given(p, c) = (IF c = c1 THEN w1 ELSE 0)
                                 + (IF c = c2 THEN w2 ELSE 0)
                                 + (IF c = c3 THEN w3 ELSE 0)
                                 + (IF c = c4 THEN w4 ELSE 0)

LEMMA SharesOfOne ==
  ASSUME NEW p \in Int2
  PROVE  \E c1, c2, c3, c4 \in Grid, w1, w2, w3, w4 \in Nat :
           Splits(p, c1, c2, c3, c4, w1, w2, w3, w4)
<1>1. PICK q1, q2 : /\ q1 = Clamp(p[1], Unit, (WIDTH - 1) * Unit)
                    /\ q2 = Clamp(p[2], Unit, (HEIGHT - 1) * Unit)
  OBVIOUS
<1>2. PICK x0, y0 : x0 = (q1 - Half) \div Unit /\ y0 = (q2 - Half) \div Unit
  OBVIOUS
<1>3. PICK x1, y1 : x1 = Least(x0 + 1, WIDTH - 2)
        /\ y1 = Least(y0 + 1, HEIGHT - 2)
  OBVIOUS
<1>4. PICK tx, ty : tx = (q1 - Half) - x0 * Unit
        /\ ty = (q2 - Half) - y0 * Unit
  OBVIOUS
<1>5. /\ p[1] \in Int /\ p[2] \in Int /\ WIDTH \in Nat /\ HEIGHT \in Nat
      /\ WIDTH >= 4 /\ HEIGHT >= 4
  BY FluidAssumption DEF Int2
<1>6. /\ x0 \in Nat /\ x0 <= WIDTH - 2 /\ x1 \in Nat /\ x1 <= WIDTH - 2
      /\ tx \in Nat /\ tx < Unit /\ Unit - tx \in Nat
  BY <1>1, <1>2, <1>3, <1>4, <1>5, AxisShares
<1>7. /\ y0 \in Nat /\ y0 <= HEIGHT - 2 /\ y1 \in Nat /\ y1 <= HEIGHT - 2
      /\ ty \in Nat /\ ty < Unit /\ Unit - ty \in Nat
  BY <1>1, <1>2, <1>3, <1>4, <1>5, AxisShares
<1>8. PICK w1, w2, w3, w4 :
        /\ w1 = (Unit - tx) * (Unit - ty) /\ w2 = tx * (Unit - ty)
        /\ w3 = (Unit - tx) * ty /\ w4 = tx * ty
  OBVIOUS
<1>9. /\ w1 \in Nat /\ w2 \in Nat /\ w3 \in Nat /\ w4 \in Nat
      /\ w1 + w2 + w3 + w4 = Unit * Unit
  BY <1>6, <1>7, <1>8, HalfIs, Weights
<1>10. CentreShares(p) = << <<x0, y0, w1>>, <<x1, y0, w2>>,
                            <<x0, y1, w3>>, <<x1, y1, w4>> >>
  BY <1>1, <1>2, <1>3, <1>4, <1>8, Zenon DEF CentreShares, Shares, Inside
<1>11. /\ <<x0, y0>> \in Grid /\ <<x1, y0>> \in Grid
       /\ <<x0, y1>> \in Grid /\ <<x1, y1>> \in Grid
  BY <1>5, <1>6, <1>7, GridIs DEF Int2
<1>12. ASSUME NEW c \in Grid
       PROVE  Given(p, c) = (IF c = <<x0, y0>> THEN w1 ELSE 0)
                          + (IF c = <<x1, y0>> THEN w2 ELSE 0)
                          + (IF c = <<x0, y1>> THEN w3 ELSE 0)
                          + (IF c = <<x1, y1>> THEN w4 ELSE 0)
  <2>1. Given(p, c) = (IF x0 = c[1] /\ y0 = c[2] THEN w1 ELSE 0)
                    + (IF x1 = c[1] /\ y0 = c[2] THEN w2 ELSE 0)
                    + (IF x0 = c[1] /\ y1 = c[2] THEN w3 ELSE 0)
                    + (IF x1 = c[1] /\ y1 = c[2] THEN w4 ELSE 0)
    BY <1>10 DEF Given
  <2>2. \A x, y : c = <<x, y>> <=> x = c[1] /\ y = c[2]
    BY GridIs DEF Int2
  <2> QED
    BY <2>1, <2>2
<1>13. Splits(p, <<x0, y0>>, <<x1, y0>>, <<x0, y1>>, <<x1, y1>>,
              w1, w2, w3, w4)
  BY <1>9, <1>12 DEF Splits
<1> QED
  BY <1>9, <1>11, <1>13, Zenon

\* A particle gives the cells of the grid one particle.
LEMMA OneParticle ==
  ASSUME NEW p \in Int2, NEW f,
         \A n \in 0 .. WIDTH * HEIGHT - 1 : f[n] = Given(p, CellAt(n))
  PROVE  /\ \A n \in 0 .. WIDTH * HEIGHT - 1 : f[n] \in Nat
         /\ SumOf(f, WIDTH * HEIGHT) = Unit * Unit
<1>1. PICK c1 \in Grid, c2 \in Grid, c3 \in Grid, c4 \in Grid,
           w1 \in Nat, w2 \in Nat, w3 \in Nat, w4 \in Nat :
             Splits(p, c1, c2, c3, c4, w1, w2, w3, w4)
  BY SharesOfOne
<1>2. PICK N : N = WIDTH * HEIGHT
  OBVIOUS
<1>3. N \in Nat
  BY <1>2, FluidAssumption
<1>4. PICK f1 : f1 = [n \in 0 .. N - 1 |-> IF CellAt(n) = c1 THEN w1 ELSE 0]
  BY Zenon
<1>5. PICK f2 : f2 = [n \in 0 .. N - 1 |-> IF CellAt(n) = c2 THEN w2 ELSE 0]
  BY Zenon
<1>6. PICK f3 : f3 = [n \in 0 .. N - 1 |-> IF CellAt(n) = c3 THEN w3 ELSE 0]
  BY Zenon
<1>7. PICK f4 : f4 = [n \in 0 .. N - 1 |-> IF CellAt(n) = c4 THEN w4 ELSE 0]
  BY Zenon
<1>8. PICK g : g = [n \in 0 .. N - 1 |-> f1[n] + f2[n]]
  BY Zenon
<1>9. PICK h : h = [n \in 0 .. N - 1 |-> g[n] + f3[n]]
  BY Zenon
<1>10. /\ \A n \in 0 .. N - 1 : f1[n] \in Nat
       /\ \A n \in 0 .. N - 1 : f2[n] \in Nat
       /\ \A n \in 0 .. N - 1 : f3[n] \in Nat
       /\ \A n \in 0 .. N - 1 : f4[n] \in Nat
  BY <1>1, <1>4, <1>5, <1>6, <1>7
<1>11. \A n \in 0 .. N - 1 : g[n] = f1[n] + f2[n] /\ g[n] \in Nat
  BY <1>8, <1>10
<1>12. \A n \in 0 .. N - 1 : h[n] = g[n] + f3[n] /\ h[n] \in Nat
  BY <1>9, <1>10, <1>11
<1>13. \A n \in 0 .. N - 1 : f[n] = h[n] + f4[n]
  <2> SUFFICES ASSUME NEW n \in 0 .. N - 1 PROVE f[n] = h[n] + f4[n]
    OBVIOUS
  <2>1. CellAt(n) \in Grid
    BY <1>2, CellOfNumber
  <2>2. f[n] = Given(p, CellAt(n))
    BY <1>2
  <2>3. h[n] = f1[n] + f2[n] + f3[n]
    BY <1>11, <1>12
  <2>4. /\ f1[n] = IF CellAt(n) = c1 THEN w1 ELSE 0
        /\ f2[n] = IF CellAt(n) = c2 THEN w2 ELSE 0
        /\ f3[n] = IF CellAt(n) = c3 THEN w3 ELSE 0
        /\ f4[n] = IF CellAt(n) = c4 THEN w4 ELSE 0
    BY <1>4, <1>5, <1>6, <1>7
  <2> QED
    BY <1>1, <2>1, <2>2, <2>3, <2>4 DEF Splits
<1>14. /\ SumOf(f1, N) = w1 /\ SumOf(f2, N) = w2
       /\ SumOf(f3, N) = w3 /\ SumOf(f4, N) = w4
  BY <1>1, <1>2, <1>4, <1>5, <1>6, <1>7, SpotInGrid
<1>15. SumOf(g, N) = w1 + w2
  <2>1. AddsUp(f1, f2, g, N)
    BY <1>10, <1>11 DEF AddsUp
  <2> QED
    BY <1>3, <1>14, <2>1, SumAdds
<1>16. SumOf(h, N) = w1 + w2 + w3
  <2>1. AddsUp(g, f3, h, N)
    BY <1>10, <1>11, <1>12 DEF AddsUp
  <2> QED
    BY <1>3, <1>14, <1>15, <2>1, SumAdds
<1>17. SumOf(f, N) = w1 + w2 + w3 + w4
  <2>1. AddsUp(h, f4, f, N)
    BY <1>10, <1>12, <1>13 DEF AddsUp
  <2> QED
    BY <1>3, <1>14, <1>16, <2>1, SumAdds
<1>18. \A n \in 0 .. N - 1 : f[n] \in Nat
  BY <1>10, <1>12, <1>13
<1> QED
  BY <1>1, <1>2, <1>17, <1>18 DEF Splits

-----------------------------------------------------------------------------
(* The invariant.                                                           *)

\* The cells with a particle, the walls left out.
Wet == {c \in {CellOf(place[i]) : i \in Particles} : c \in Grid /\ ~Solid(c)}

FluidInv ==
  /\ FluidTypeOK
  /\ pair[1] < pair[2]
  /\ \A c \in water : ~Solid(c)
  /\ \/ fluidStep \in {"density", "solve", "carry", "draw"}
     \/ fluidStep = "move" /\ frames > 0
     => water = Wet
  /\ WallsStandStill
  /\ MassIsKept
  /\ WaterIsSeen

LEMMA ParticlesAre ==
  \A i : i \in Particles <=> i \in Nat /\ i < NUM_PARTICLES
BY FluidAssumption DEF Particles

LEMMA ParticlesFinite == IsFiniteSet(Particles)
<1>1. PICK a, b : a = 0 /\ b = NUM_PARTICLES - 1
  OBVIOUS
<1>2. a \in Int /\ b \in Int /\ Particles = a .. b
  BY <1>1, FluidAssumption DEF Particles
<1>3. IsFiniteSet(a .. b)
  BY <1>2, FS_Interval, Zenon
<1> QED
  BY <1>2, <1>3

LEMMA BluesAre == \A n : n \in Int /\ 0 <= n /\ n <= 255 => n \in Blues
BY DEF Blues

LEMMA ClampIsInt ==
  \A v, lo, hi \in Int : Clamp(v, lo, hi) \in Int
BY DEF Clamp

LEMMA Sizes ==
  /\ WIDTH \in Int /\ HEIGHT \in Int /\ Unit \in Int /\ Half \in Int
  /\ (WIDTH - 1) * Unit \in Int /\ (HEIGHT - 1) * Unit \in Int
  /\ NUM_PARTICLES \in Nat \ {0} /\ WIDTH * HEIGHT \in Nat
BY FluidAssumption, HalfIs

LEMMA CellIsPair == \A p \in Int2 : CellOf(p) \in Int2
<1>1. \A v \in Int : v \div Unit \in Int
  BY HalfIs
<1>2. \A v \in Int : CellIndex(v) \in Int
  BY <1>1 DEF CellIndex
<1> QED
  BY <1>2 DEF CellOf, Int2

LEMMA SharesArePairs ==
  ASSUME NEW p \in Int2
  PROVE  PlacesOf(USharesOf(p)) \subseteq Int2
           /\ PlacesOf(VSharesOf(p)) \subseteq Int2
<1>1. PICK q : q = Inside(p)
  OBVIOUS
<1>2. q[1] \in Int /\ q[2] \in Int
  BY <1>1, Sizes, ClampIsInt DEF Inside, Int2
<1>3. \A v \in Int : v \div Unit \in Int
  BY HalfIs
<1>4. ASSUME NEW dx \in Int, NEW dy \in Int
      PROVE  PlacesOf(FaceShares(p, dx, dy)) \subseteq Int2
  <2>1. PICK x0, y0 : /\ x0 = Least((q[1] - dx) \div Unit, WIDTH - 2)
                      /\ y0 = Least((q[2] - dy) \div Unit, HEIGHT - 2)
    OBVIOUS
  <2>2. PICK x1, y1 : /\ x1 = Least(x0 + 1, WIDTH - 2)
                      /\ y1 = Least(y0 + 1, HEIGHT - 2)
    OBVIOUS
  <2>3. x0 \in Int /\ y0 \in Int /\ x1 \in Int /\ y1 \in Int
    BY <1>2, <1>3, <2>1, <2>2, Sizes DEF Least
  <2>4. PICK w1, w2, w3, w4 :
          FaceShares(p, dx, dy) = << <<x0, y0, w1>>, <<x1, y0, w2>>,
                                     <<x0, y1, w3>>, <<x1, y1, w4>> >>
    BY <1>1, <2>1, <2>2, ZenonT(40) DEF FaceShares, Shares
  <2>5. PlacesOf(FaceShares(p, dx, dy)) \subseteq
          {<<x0, y0>>, <<x1, y0>>, <<x0, y1>>, <<x1, y1>>}
    BY <2>4 DEF PlacesOf
  <2> QED
    BY <2>3, <2>5 DEF Int2
<1> QED
  BY <1>4, Sizes DEF USharesOf, VSharesOf

LEMMA FluidStart == FluidInit => FluidInv
<1> SUFFICES ASSUME FluidInit PROVE FluidInv
  OBVIOUS
<1> USE DEF FluidInit
<1>1. place \in [Particles -> Int \X Int]
  <2>1. \A i \in Particles : i % 5 \in Int /\ i \div 5 \in Int
    BY ParticlesAre
  <2>2. WIDTH \div 2 \in Int /\ HEIGHT \div 2 \in Int
    BY Sizes
  <2>3. \A i \in Particles : /\ (WIDTH \div 2 + (i % 5) - 2) * Unit \in Int
                             /\ (HEIGHT \div 2 + (i \div 5) - 2) * Unit \in Int
    BY <2>1, <2>2, Sizes
  <2> QED
    BY <2>3
<1>2. particleDensity \in [Grid -> Nat] /\ pixels \in [Grid -> Blues]
  BY BluesAre
<1>3. FluidTypeOK
  BY <1>1, <1>2 DEF FluidTypeOK
<1>4. WallsStandStill /\ MassIsKept /\ WaterIsSeen
  BY DEF WallsStandStill, MassIsKept, WaterIsSeen
<1>5. pair[1] < pair[2]
  OBVIOUS
<1> QED
  BY <1>3, <1>4, <1>5 DEF FluidInv

LEMMA MoveKeeps ==
  ASSUME FluidInv, updateParticles
  PROVE  FluidInv'
<1> USE DEF updateParticles
<1>1. place' \in [Particles -> Int \X Int]
  <2>1. PICK to \in [Particles -> Reach] :
          place' = [i \in Particles |-> OffWalls(to[i])]
    OBVIOUS
  <2>2. \A i \in Particles : to[i][1] \in Int /\ to[i][2] \in Int
    BY FluidAssumption
  <2>3. \A i \in Particles : OffWalls(to[i]) \in Int \X Int
    <3>1. PICK a, b, c : /\ a = Unit + Half /\ b = (WIDTH - 1) * Unit - Half
                         /\ c = (HEIGHT - 1) * Unit - Half
      OBVIOUS
    <3>2. a \in Int /\ b \in Int /\ c \in Int
      BY <3>1, Sizes
    <3>3. \A p : OffWalls(p) = <<Clamp(p[1], a, b), Clamp(p[2], a, c)>>
      BY <3>1 DEF OffWalls
    <3> QED
      BY <2>2, <3>2, <3>3, ClampIsInt
  <2> QED
    BY <2>1, <2>3
<1>2. FluidTypeOK'
  BY <1>1 DEF FluidInv, FluidTypeOK
<1>3. WallsStandStill' /\ MassIsKept' /\ WaterIsSeen'
  BY DEF FluidInv, WallsStandStill, MassIsKept, WaterIsSeen
<1>4. pair'[1] < pair'[2]
  OBVIOUS
<1> QED
  BY <1>2, <1>3, <1>4 DEF FluidInv

LEMMA PushKeeps ==
  ASSUME FluidInv, pushParticlesApart
  PROVE  FluidInv'
<1>1. PICK i, j : i = pair[1] /\ j = pair[2]
  OBVIOUS
<1>2. /\ i \in Particles /\ j \in Particles /\ i # j
      /\ i \in Nat /\ j \in Nat /\ i < j /\ pair = <<i, j>>
  BY <1>1, ParticlesAre, Sizes DEF FluidInv, FluidTypeOK, pushParticlesApart
<1>3. \A d, square : Offsets(d, square) \subseteq Int
  BY DEF Offsets
<1>4. place' \in [Particles -> Int \X Int]
  <2>1. place \in [Particles -> Int \X Int]
    BY DEF FluidInv, FluidTypeOK
  <2>2. \/ place' = place
        \/ \E ox \in Int, oy \in Int :
             place' = [place EXCEPT ![i] = <<@[1] - ox, @[2] - oy>>,
                                    ![j] = <<@[1] + ox, @[2] + oy>>]
    BY <1>1, <1>3, Zenon DEF pushParticlesApart
  <2>3. ASSUME NEW ox \in Int, NEW oy \in Int,
               place' = [place EXCEPT ![i] = <<@[1] - ox, @[2] - oy>>,
                                      ![j] = <<@[1] + ox, @[2] + oy>>]
        PROVE  place' \in [Particles -> Int \X Int]
    BY <1>2, <2>1, <2>3
  <2> QED
    BY <2>1, <2>2, <2>3
<1>5. pair' \in Nat \X Nat /\ pair'[1] < pair'[2]
  BY <1>2 DEF pushParticlesApart, NextPair
<1>6. /\ fluidStep = "push"
      /\ UNCHANGED <<fluidStep, water, uMoves, vMoves, particleDensity,
                     restDensity, carried, pixels, frames>>
  BY DEF pushParticlesApart
<1>7. FluidTypeOK'
  BY <1>4, <1>5, <1>6 DEF FluidInv, FluidTypeOK
<1>8. WallsStandStill' /\ MassIsKept' /\ WaterIsSeen'
  BY <1>6 DEF FluidInv, WallsStandStill, MassIsKept, WaterIsSeen
<1> QED
  BY <1>5, <1>6, <1>7, <1>8 DEF FluidInv

LEMMA GridKeeps ==
  ASSUME FluidInv, TransferToGrid
  PROVE  FluidInv'
<1>1. /\ fluidStep' = "density" /\ water' = Wet
      /\ UNCHANGED <<pair, place, particleDensity, restDensity, carried,
                     pixels, frames>>
  BY DEF TransferToGrid, Wet
<1>2. PICK u, v :
        /\ u = UNION {PlacesOf(USharesOf(place[i])) : i \in Particles}
        /\ v = UNION {PlacesOf(VSharesOf(place[i])) : i \in Particles}
        /\ uMoves' = {f \in u : ~UWall(f)} \cup {f \in uMoves : UWall(f)}
        /\ vMoves' = {f \in v : ~VWall(f)} \cup {f \in vMoves : VWall(f)}
  BY DEF TransferToGrid
<1>3. \A i \in Particles : place[i] \in Int2
  BY DEF FluidInv, FluidTypeOK, Int2
<1>4. u \subseteq Int2 /\ v \subseteq Int2
  BY <1>2, <1>3, SharesArePairs
<1>5. Wet \subseteq Grid
  BY DEF Wet
<1>6. FluidTypeOK'
  BY <1>1, <1>2, <1>4, <1>5 DEF FluidInv, FluidTypeOK, Int2
<1>7. WallsStandStill'
  BY <1>2 DEF FluidInv, WallsStandStill
<1>8. MassIsKept' /\ WaterIsSeen'
  BY <1>1 DEF MassIsKept, WaterIsSeen
<1>9. Wet' = Wet /\ \A c \in Wet : ~Solid(c)
  BY <1>1 DEF Wet
<1> QED
  BY <1>1, <1>6, <1>7, <1>8, <1>9 DEF FluidInv

LEMMA DensityKeeps ==
  ASSUME FluidInv, updateParticleDensity
  PROVE  FluidInv'
<1>1. /\ fluidStep = "density" /\ fluidStep' = "solve"
      /\ particleDensity' = [c \in Grid |-> Density(c)]
      /\ restDensity' = restDensity
         \/ restDensity' = <<SumOver(water, particleDensity'),
              Cardinality(water)>>
      /\ UNCHANGED <<pair, place, water, uMoves, vMoves, carried, pixels,
           frames>>
  BY DEF updateParticleDensity
<1>2. \A i \in Particles : place[i] \in Int2
  BY DEF FluidInv, FluidTypeOK, Int2
<1>3. PICK N, C : N = NUM_PARTICLES /\ C = WIDTH * HEIGHT
  OBVIOUS
<1>4. N \in Nat /\ C \in Nat /\ Particles = 0 .. N - 1
  BY <1>3, Sizes DEF Particles
<1>5. PICK g : g = [i \in 0 .. N - 1 |->
                      [n \in 0 .. C - 1 |-> Given(place[i], CellAt(n))]]
  BY Zenon
<1>6. PICK h : h = [n \in 0 .. C - 1 |->
                      [i \in 0 .. N - 1 |-> Given(place[i], CellAt(n))]]
  BY Zenon
<1>7. /\ \A i \in 0 .. N - 1, n \in 0 .. C - 1 : g[i][n] = Given(place[i],
           CellAt(n))
      /\ \A i \in 0 .. N - 1, n \in 0 .. C - 1 : h[n][i] = Given(place[i],
           CellAt(n))
  BY <1>5, <1>6
<1>8. ASSUME NEW i \in 0 .. N - 1
      PROVE  /\ \A n \in 0 .. C - 1 : g[i][n] \in Nat
             /\ SumOf(g[i], C) = Unit * Unit
  BY <1>2, <1>3, <1>4, <1>7, OneParticle
<1>9. ASSUME NEW n \in 0 .. C - 1
      PROVE  /\ particleDensity'[CellAt(n)] = SumOf(h[n], N)
             /\ SumOf(h[n], N) \in Nat
  <2>1. h[n] = [i \in Particles |-> Given(place[i], CellAt(n))]
    BY <1>4, <1>6
  <2>2. CellAt(n) \in Grid
    BY <1>3, CellOfNumber
  <2>3. particleDensity'[CellAt(n)] = SumOf(h[n], N)
    BY <1>1, <1>3, <2>1, <2>2 DEF Density
  <2>4. \A i \in 0 .. N - 1 : h[n][i] \in Nat
    BY <1>7, <1>8
  <2>5. SumOf(h[n], N) \in Nat
    BY <1>4, <2>4, SumTypes
  <2> QED
    BY <2>3, <2>5
<1>10. particleDensity' \in [Grid -> Nat]
  <2>1. ASSUME NEW c \in Grid PROVE particleDensity'[c] \in Nat
    <3>1. PICK n \in 0 .. C - 1 : CellAt(n) = c
      BY <1>3, NumberOfCell
    <3> QED
      BY <1>9, <3>1
  <2> QED
    BY <1>1, <2>1
<1>11. MassIsKept'
  <2>1. PICK s : s = [n \in 0..(WIDTH * HEIGHT - 1) |->
                        IF CellAt(n) \in Grid THEN particleDensity'[CellAt(n)]
                        ELSE 0]
    BY Zenon
  <2>2. SumOver(Grid, particleDensity') = SumOf(s, C)
    BY <1>3, <2>1 DEF SumOver
  <2>3. \A n \in 0 .. C - 1 : s[n] = SumOf(h[n], N)
    BY <1>3, <1>9, <2>1, CellOfNumber
  <2>4. \A i \in 0 .. N - 1, n \in 0 .. C - 1 : g[i][n] \in Nat
    BY <1>8
  <2>5. \A i \in 0 .. N - 1, n \in 0 .. C - 1 : h[n][i] = g[i][n]
    BY <1>7
  <2>6. \A i \in 0 .. N - 1 : SumOf(g[i], C) = Unit * Unit
    BY <1>8
  <2>7. PICK w \in Nat : w = Unit * Unit
    BY HalfIs
  <2>8. Table(g, h, s, N, C, w)
    BY <2>3, <2>4, <2>5, <2>6, <2>7 DEF Table
  <2>9. SumOf(s, C) = N * w
    BY <1>4, <2>7, <2>8, SumOfRows
  <2> QED
    BY <1>3, <2>2, <2>7, <2>9 DEF MassIsKept
<1>12. restDensity' \in Nat \X Nat
  <2>1. SumOver(water, particleDensity') \in Nat
    <3>1. PICK s : s = [n \in 0..(WIDTH * HEIGHT - 1) |->
                          IF CellAt(n) \in water
                            THEN particleDensity'[CellAt(n)]
                          ELSE 0]
      BY Zenon
    <3>2. SumOver(water, particleDensity') = SumOf(s, C)
      BY <1>3, <3>1 DEF SumOver
    <3>3. \A n \in 0 .. C - 1 : s[n] \in Nat
      BY <1>3, <1>10, <3>1, CellOfNumber
    <3> QED
      BY <1>4, <3>2, <3>3, SumTypes
  <2>2. Cardinality(water) \in Nat
    <3>1. PICK T : T = {CellOf(place[i]) : i \in Particles}
      OBVIOUS
    <3>2. PICK f : f = [i \in Particles |-> CellOf(place[i])]
      BY Zenon
    <3>3. f \in Surjection(Particles, T)
      BY <3>1, <3>2 DEF Surjection
    <3>4. IsFiniteSet(T)
      BY <3>3, ParticlesFinite, FS_Surjection
    <3>5. water \in SUBSET T
      BY <1>1, <3>1 DEF FluidInv, Wet
    <3> QED
      BY <3>4, <3>5, FS_Subset, FS_CardinalityType
  <2> QED
    BY <1>1, <2>1, <2>2 DEF FluidInv, FluidTypeOK
<1>13. FluidTypeOK'
  BY <1>1, <1>10, <1>12 DEF FluidInv, FluidTypeOK
<1>14. WallsStandStill' /\ WaterIsSeen'
  BY <1>1 DEF FluidInv, WallsStandStill, WaterIsSeen
<1>15. Wet' = Wet
  BY <1>1 DEF Wet
<1> QED
  BY <1>1, <1>11, <1>13, <1>14, <1>15 DEF FluidInv

LEMMA SolveKeeps ==
  ASSUME FluidInv, solveIncompressibility
  PROVE  FluidInv'
<1>1. /\ fluidStep = "solve" /\ fluidStep' = "carry"
      /\ uMoves' = uMoves \cup UNION {Pressed(c).u : c \in water}
      /\ vMoves' = vMoves \cup UNION {Pressed(c).v : c \in water}
      /\ UNCHANGED <<pair, place, water, particleDensity, restDensity, carried,
                     pixels, frames>>
  BY DEF solveIncompressibility
<1>2. ASSUME NEW c \in water
      PROVE  /\ \A f \in Pressed(c).u : f \in Int2 /\ ~UWall(f)
             /\ \A f \in Pressed(c).v : f \in Int2 /\ ~VWall(f)
  <2>1. PICK x \in Int, y \in Int : c = <<x, y>>
    BY FluidAssumption DEF FluidInv, FluidTypeOK, Grid
  <2>2. ~Solid(<<x, y>>)
    BY <2>1 DEF FluidInv
  <2>3. /\ \A f \in Pressed(c).u :
             \/ f = <<x, y>> /\ ~Solid(<<x - 1, y>>)
             \/ f = <<x + 1, y>> /\ ~Solid(<<x + 1, y>>)
        /\ \A f \in Pressed(c).v :
             \/ f = <<x, y>> /\ ~Solid(<<x, y - 1>>)
             \/ f = <<x, y + 1>> /\ ~Solid(<<x, y + 1>>)
    BY <2>1 DEF Pressed, Open
  <2>4. (x + 1) - 1 = x /\ (y + 1) - 1 = y
    OBVIOUS
  <2>5. ~Solid(<<x - 1, y>>) => ~UWall(<<x, y>>)
    BY <2>2 DEF UWall
  <2>6. ~Solid(<<x + 1, y>>) => ~UWall(<<x + 1, y>>)
    BY <2>2, <2>4 DEF UWall
  <2>7. ~Solid(<<x, y - 1>>) => ~VWall(<<x, y>>)
    BY <2>2 DEF VWall
  <2>8. ~Solid(<<x, y + 1>>) => ~VWall(<<x, y + 1>>)
    BY <2>2, <2>4 DEF VWall
  <2> QED
    BY <2>3, <2>5, <2>6, <2>7, <2>8 DEF Int2
<1>3. WallsStandStill'
  BY <1>1, <1>2 DEF FluidInv, WallsStandStill
<1>4. FluidTypeOK'
  BY <1>1, <1>2 DEF FluidInv, FluidTypeOK, Int2
<1>5. MassIsKept' /\ WaterIsSeen'
  BY <1>1 DEF MassIsKept, WaterIsSeen
<1>6. Wet' = Wet
  BY <1>1 DEF Wet
<1> QED
  BY <1>1, <1>3, <1>4, <1>5, <1>6 DEF FluidInv

LEMMA CarryKeeps ==
  ASSUME FluidInv, TransferFromGrid
  PROVE  FluidInv'
<1>1. /\ fluidStep = "carry" /\ fluidStep' = "draw"
      /\ carried' \subseteq Particles
      /\ UNCHANGED <<pair, place, water, uMoves, vMoves, particleDensity,
                     restDensity, pixels, frames>>
  BY DEF TransferFromGrid
<1>2. FluidTypeOK'
  BY <1>1 DEF FluidInv, FluidTypeOK
<1>3. WallsStandStill' /\ MassIsKept' /\ WaterIsSeen'
  BY <1>1 DEF FluidInv, WallsStandStill, MassIsKept, WaterIsSeen
<1>4. Wet' = Wet
  BY <1>1 DEF Wet
<1> QED
  BY <1>1, <1>2, <1>3, <1>4 DEF FluidInv

LEMMA BlueIs ==
  ASSUME FluidInv, NEW c \in Grid
  PROVE  /\ Blue(c) \in Blues
         /\ Blue(c) > 0 <=> c \in water
<1>1. CASE c \notin water
  BY <1>1, BluesAre DEF Blue
<1>2. CASE c \in water
  <2>1. PICK sum, full : /\ sum = restDensity[1]
                         /\ full = particleDensity[c] * restDensity[2] * Brightness
    OBVIOUS
  <2>2. sum \in Nat /\ full \in Nat
    <3>1. /\ particleDensity[c] \in Nat /\ restDensity[1] \in Nat
          /\ restDensity[2] \in Nat /\ Brightness \in Nat
      BY FluidAssumption DEF FluidInv, FluidTypeOK
    <3>2. particleDensity[c] * restDensity[2] \in Nat
      BY <3>1
    <3> QED
      BY <2>1, <3>1, <3>2
  <2>3. sum > 0 => full \div sum \in Nat
    BY <2>2
  <2>4. Blue(c) = IF sum > 0 THEN Clamp(full \div sum, 15, 255) ELSE 15
    BY <1>2, <2>1 DEF Blue
  <2>5. Blue(c) \in Int /\ 15 <= Blue(c) /\ Blue(c) <= 255
    BY <2>3, <2>4 DEF Clamp
  <2> QED
    BY <1>2, <2>5, BluesAre
<1> QED
  BY <1>1, <1>2

LEMMA DrawKeeps ==
  ASSUME FluidInv, Draw
  PROVE  FluidInv'
<1>1. /\ fluidStep = "draw" /\ fluidStep' = "move" /\ frames' = frames + 1
      /\ pixels' = [c \in Grid |-> IF Solid(c) THEN 0 ELSE Blue(c)]
      /\ UNCHANGED <<pair, place, water, uMoves, vMoves, particleDensity,
                     restDensity, carried>>
  BY DEF Draw
<1>2. \A c \in Grid : Blue(c) \in Blues /\ (Blue(c) > 0 <=> c \in water)
  BY BlueIs
<1>3. pixels' \in [Grid -> Blues]
  BY <1>1, <1>2, BluesAre
<1>4. FluidTypeOK'
  BY <1>1, <1>3 DEF FluidInv, FluidTypeOK
<1>5. WallsStandStill' /\ MassIsKept'
  BY <1>1 DEF FluidInv, WallsStandStill, MassIsKept
<1>6. Wet' = Wet /\ water = Wet
  BY <1>1 DEF FluidInv, Wet
<1>7. WaterIsSeen'
  <2> SUFFICES ASSUME NEW c \in Grid
               PROVE  pixels'[c] > 0 <=>
                        ~Solid(c) /\ \E i \in Particles : CellOf(place[i]) = c
    BY <1>1 DEF WaterIsSeen
  <2>1. c \in water <=> ~Solid(c) /\ \E i \in Particles : CellOf(place[i]) = c
    BY <1>6 DEF Wet
  <2>2. pixels'[c] = IF Solid(c) THEN 0 ELSE Blue(c)
    BY <1>1
  <2> QED
    BY <1>2, <2>1, <2>2
<1> QED
  BY <1>1, <1>4, <1>5, <1>6, <1>7 DEF FluidInv

LEMMA FluidSteps == FluidInv /\ [FluidNext]_fluidVars => FluidInv'
<1> SUFFICES ASSUME FluidInv, [FluidNext]_fluidVars PROVE FluidInv'
  OBVIOUS
<1>1. CASE UNCHANGED fluidVars
  BY <1>1 DEF fluidVars, FluidInv, FluidTypeOK, WallsStandStill, MassIsKept,
              WaterIsSeen, Wet
<1> QED
  BY <1>1, MoveKeeps, PushKeeps, GridKeeps, DensityKeeps, SolveKeeps,
     CarryKeeps, DrawKeeps DEF FluidNext

\* In a box of any size and with any number of particles, wherever they are
\* moved and pushed: no face of a wall moves, the interpolation shares out each
\* particle once, a frame lights the cells with particles and no others
\* (fluid_sim.c and fluid_sim); and the variables keep their types.
THEOREM WaterCorrect == FluidSpec => [](FluidTypeOK /\ WaterIsSound)
<1>1. FluidInv => FluidTypeOK /\ WaterIsSound
  BY DEF FluidInv, WaterIsSound
<1> QED
  BY <1>1, FluidStart, FluidSteps, PTL DEF FluidSpec

-----------------------------------------------------------------------------
(* Where the particles are and what carries them.                           *)

\* Along one axis of l cells, the place q and the grid shifted by d: k is one of
\* the two indices, and its share is not empty.
Taken(q, d, l, k) ==
  LET x0 == Least((q - d) \div Unit, l - 2)
      t  == (q - d) - x0 * Unit
  IN  \/ k = x0 /\ Unit - t > 0 /\ Unit - t \in Nat
      \/ k = Least(x0 + 1, l - 2) /\ t > 0 /\ t \in Nat

LEMMA SharePlace ==
  ASSUME NEW p, NEW dx, NEW dy, NEW k, NEW m,
         Taken(Inside(p)[1], dx, WIDTH, k),
         Taken(Inside(p)[2], dy, HEIGHT, m)
  PROVE  <<k, m>> \in PlacesOf(FaceShares(p, dx, dy))
<1>1. PICK q : q = Inside(p)
  OBVIOUS
<1>2. PICK x0, y0 : /\ x0 = Least((q[1] - dx) \div Unit, WIDTH - 2)
                    /\ y0 = Least((q[2] - dy) \div Unit, HEIGHT - 2)
  OBVIOUS
<1>3. PICK x1, y1 : /\ x1 = Least(x0 + 1, WIDTH - 2)
                    /\ y1 = Least(y0 + 1, HEIGHT - 2)
  OBVIOUS
<1>4. PICK tx, ty : /\ tx = (q[1] - dx) - x0 * Unit
                    /\ ty = (q[2] - dy) - y0 * Unit
  OBVIOUS
<1>5. PICK sx, sy : sx = Unit - tx /\ sy = Unit - ty
  OBVIOUS
<1>6. \/ k = x0 /\ sx \in Nat \ {0}
      \/ k = x1 /\ tx \in Nat \ {0}
  BY <1>1, <1>2, <1>3, <1>4, <1>5 DEF Taken
<1>7. \/ m = y0 /\ sy \in Nat \ {0}
      \/ m = y1 /\ ty \in Nat \ {0}
  BY <1>1, <1>2, <1>3, <1>4, <1>5 DEF Taken
<1>8. PICK f : f = FaceShares(p, dx, dy)
  OBVIOUS
<1>9. f = << <<x0, y0, sx * sy>>, <<x1, y0, tx * sy>>,
             <<x0, y1, sx * ty>>, <<x1, y1, tx * ty>> >>
  BY <1>1, <1>2, <1>3, <1>4, <1>5, <1>8, ZenonT(40) DEF FaceShares, Shares
<1>10. \A a, b \in Nat \ {0} : a * b > 0
  <2> SUFFICES ASSUME NEW a \in Nat \ {0}, NEW b \in Nat \ {0} PROVE a * b > 0
    OBVIOUS
  <2>1. a * 1 <= a * b /\ a * 1 = a /\ a * b \in Nat
    BY ProductOrder
  <2> QED
    BY <2>1
<1>11. \E j \in 1..4 : f[j][3] > 0 /\ f[j][1] = k /\ f[j][2] = m
  <2>1. CASE k = x0 /\ m = y0 /\ sx \in Nat \ {0} /\ sy \in Nat \ {0}
    <3>1. f[1] = <<k, m, sx * sy>>
      BY <1>9, <2>1
    <3> QED
      BY <1>10, <2>1, <3>1
  <2>2. CASE k = x1 /\ m = y0 /\ tx \in Nat \ {0} /\ sy \in Nat \ {0}
    <3>1. f[2] = <<k, m, tx * sy>>
      BY <1>9, <2>2
    <3> QED
      BY <1>10, <2>2, <3>1
  <2>3. CASE k = x0 /\ m = y1 /\ sx \in Nat \ {0} /\ ty \in Nat \ {0}
    <3>1. f[3] = <<k, m, sx * ty>>
      BY <1>9, <2>3
    <3> QED
      BY <1>10, <2>3, <3>1
  <2>4. CASE k = x1 /\ m = y1 /\ tx \in Nat \ {0} /\ ty \in Nat \ {0}
    <3>1. f[4] = <<k, m, tx * ty>>
      BY <1>9, <2>4
    <3> QED
      BY <1>10, <2>4, <3>1
  <2> QED
    BY <1>6, <1>7, <2>1, <2>2, <2>3, <2>4
<1> QED
  BY <1>8, <1>11 DEF PlacesOf

\* Along one axis: what the cell of a place, other than in the last wall, has to
\* do with the cell e its clamped place is in, and what is taken there.
LEMMA AxisOfCell ==
  ASSUME NEW v \in Int, NEW l \in Nat, l >= 4,
         NEW q, q = Clamp(v, Unit, (l - 1) * Unit),
         CellIndex(v) < l - 1
  PROVE  \E e \in 1 .. l - 2 :
           /\ CellIndex(v) = e \/ (CellIndex(v) <= 0 /\ e = 1)
           /\ Taken(q, 0, l, e) /\ Taken(q, Half, l, e)
           /\ CellIndex(v) <= 0 => Taken(q, Half, l, 0)
<1>1. Unit \in Nat \ {0} /\ Half \in Nat \ {0} /\ Unit = Half + Half
  BY HalfIs
<1>2. PICK c : c = CellIndex(v)
  OBVIOUS
<1>3. PICK m : m = (l - 1) * Unit
  OBVIOUS
<1>4. \A e \in Nat : e <= l - 2 => Unit * e + Unit <= m /\ Unit * e \in Nat
  <2> SUFFICES ASSUME NEW e \in Nat, e <= l - 2
               PROVE  Unit * e + Unit <= m /\ Unit * e \in Nat
    OBVIOUS
  <2>1. l - 1 \in Nat /\ e + 1 \in Nat /\ e + 1 <= l - 1
    OBVIOUS
  <2>2. Unit * (e + 1) <= Unit * (l - 1)
    BY <1>1, <2>1, ProductOrder
  <2>3. Unit * (e + 1) = Unit * e + Unit /\ Unit * (l - 1) = m
        /\ Unit * e \in Nat
    BY <1>1, <1>3, <2>1
  <2> QED
    BY <2>2, <2>3
<1>5. m \in Nat /\ Unit + Unit <= m
  <2>1. Unit * 1 + Unit <= m /\ Unit * 1 = Unit /\ m \in Nat
    BY <1>1, <1>3, <1>4
  <2> QED
    BY <2>1
<1>6. \E e \in 1 .. l - 2, r \in 0 .. Unit - 1 :
        /\ q = Unit * e + r
        /\ c = e \/ (c <= 0 /\ e = 1 /\ r = 0)
        /\ c <= 0 => e = 1 /\ r = 0
  <2>1. CASE v < Unit
    <3>1. c <= 0
      <4>1. CASE v < 0
        <5>1. PICK w \in Nat : w = -v
          BY <4>1
        <5>2. w \div Unit \in Nat
          BY <1>1, Division
        <5>3. c = -(w \div Unit)
          BY <1>2, <4>1, <5>1 DEF CellIndex
        <5> QED
          BY <5>2, <5>3
      <4>2. CASE v >= 0
        <5>1. v \in Nat /\ v \in 0 .. Unit - 1 /\ v = Unit * 0 + v
          BY <1>1, <2>1, <4>2
        <5>2. v \div Unit = 0
          BY <1>1, <5>1, DivisionIs
        <5> QED
          BY <1>2, <4>2, <5>2 DEF CellIndex
      <4> QED
        BY <4>1, <4>2
    <3>2. q = Unit * 1 + 0
      BY <1>1, <1>5, <2>1 DEF Clamp
    <3>3. 1 \in 1 .. l - 2 /\ 0 \in 0 .. Unit - 1
      BY <1>1
    <3> QED
      BY <3>1, <3>2, <3>3
  <2>2. CASE v >= Unit
    <3>1. v \in Nat
      BY <1>1, <2>2
    <3>2. PICK a, r : a = v \div Unit /\ r = v % Unit
      OBVIOUS
    <3>3. a \in Nat /\ r \in 0 .. Unit - 1 /\ v = Unit * a + r
      BY <1>1, <3>1, <3>2, Division
    <3>4. c = a
      BY <1>2, <2>2, <3>1, <3>2 DEF CellIndex
    <3>5. a <= l - 2
      BY <1>2, <3>3, <3>4
    <3>6. a # 0
      <4>1. a = 0 => Unit * a = 0
        BY <1>1
      <4> QED
        BY <1>1, <2>2, <3>3, <4>1
    <3>7. Unit * a + Unit <= m /\ Unit * a \in Nat
      BY <1>4, <3>3, <3>5
    <3>8. q = v
      BY <1>1, <1>3, <1>5, <2>2, <3>1, <3>3, <3>7 DEF Clamp
    <3>9. a \in 1 .. l - 2 /\ ~ (c <= 0)
      BY <3>3, <3>4, <3>5, <3>6
    <3> QED
      BY <3>3, <3>4, <3>8, <3>9
  <2> QED
    BY <1>1, <2>1, <2>2
<1>7. PICK e \in 1 .. l - 2, r \in 0 .. Unit - 1 :
        /\ q = Unit * e + r
        /\ c = e \/ (c <= 0 /\ e = 1 /\ r = 0)
        /\ c <= 0 => e = 1 /\ r = 0
  BY <1>6
<1>8. /\ e \in Nat /\ e - 1 \in Nat /\ e <= l - 2 /\ r \in Nat /\ r < Unit
      /\ Unit * e \in Nat /\ Unit * (e - 1) = Unit * e - Unit
      /\ e * Unit = Unit * e /\ (e - 1) * Unit = Unit * e - Unit
      /\ Unit * (e - 1) \in Nat
  BY <1>1, <1>7
<1>9. Taken(q, 0, l, e)
  <2>1. q - 0 = Unit * e + r /\ q - 0 \in Nat
    BY <1>7, <1>8
  <2>2. (q - 0) \div Unit = e
    BY <1>1, <1>7, <1>8, <2>1, DivisionIs
  <2>3. Least(e, l - 2) = e
    BY <1>8 DEF Least
  <2>4. (q - 0) - e * Unit = r
    BY <1>8, <2>1
  <2>5. Unit - r > 0 /\ Unit - r \in Nat
    BY <1>1, <1>8
  <2> QED
    BY <2>2, <2>3, <2>4, <2>5 DEF Taken
<1>10. CASE r < Half
  <2>1. /\ q - Half \in Nat /\ r + Half \in 0 .. Unit - 1
        /\ q - Half = Unit * (e - 1) + (r + Half)
    BY <1>1, <1>7, <1>8, <1>10
  <2>2. (q - Half) \div Unit = e - 1
    BY <1>1, <1>8, <2>1, DivisionIs
  <2>3. Least(e - 1, l - 2) = e - 1 /\ Least((e - 1) + 1, l - 2) = e
    BY <1>8 DEF Least
  <2>4. (q - Half) - (e - 1) * Unit = r + Half
    BY <1>8, <2>1
  <2>5. r + Half > 0 /\ r + Half \in Nat
    BY <1>1, <1>8
  <2>6. Taken(q, Half, l, e)
    BY <2>2, <2>3, <2>4, <2>5 DEF Taken
  <2>7. c <= 0 => Taken(q, Half, l, 0)
    <3> SUFFICES ASSUME c <= 0 PROVE Taken(q, Half, l, 0)
      OBVIOUS
    <3>1. e = 1 /\ r = 0 /\ e - 1 = 0
      BY <1>7
    <3>2. Unit - (r + Half) > 0 /\ Unit - (r + Half) \in Nat
      BY <1>1, <3>1
    <3> QED
      BY <2>2, <2>3, <2>4, <3>1, <3>2 DEF Taken
  <2> QED
    BY <1>2, <1>7, <1>9, <2>6, <2>7
<1>11. CASE r >= Half
  <2>1. /\ q - Half \in Nat /\ r - Half \in 0 .. Unit - 1
        /\ q - Half = Unit * e + (r - Half)
    BY <1>1, <1>7, <1>8, <1>11
  <2>2. (q - Half) \div Unit = e
    BY <1>1, <1>8, <2>1, DivisionIs
  <2>3. Least(e, l - 2) = e
    BY <1>8 DEF Least
  <2>4. (q - Half) - e * Unit = r - Half
    BY <1>8, <2>1
  <2>5. Unit - (r - Half) > 0 /\ Unit - (r - Half) \in Nat
    BY <1>1, <1>8, <1>11
  <2>6. Taken(q, Half, l, e)
    BY <2>2, <2>3, <2>4, <2>5 DEF Taken
  <2>7. ~ (c <= 0)
    BY <1>1, <1>7, <1>11
  <2> QED
    BY <1>2, <1>7, <1>9, <2>6, <2>7
<1> QED
  BY <1>1, <1>8, <1>10, <1>11

\* The face indices of a clamped place.
LEMMA FacesOfOne ==
  ASSUME NEW p \in Int2, NEW dx \in {0, Half}, NEW dy \in {0, Half}
  PROVE  PlacesOf(FaceShares(p, dx, dy)) \subseteq
           (0..(WIDTH - 2)) \X (0..(HEIGHT - 2))
<1>1. PICK q : q = Inside(p)
  OBVIOUS
<1>2. ASSUME NEW v \in Int, NEW d \in {0, Half}, NEW l \in Nat, l >= 4,
             NEW x0, x0 = Least((Clamp(v, Unit, (l - 1) * Unit) - d) \div Unit,
                                l - 2)
      PROVE  x0 \in 0 .. l - 2 /\ Least(x0 + 1, l - 2) \in 0 .. l - 2
  <2>1. PICK m : m = (l - 1) * Unit
    OBVIOUS
  <2>2. /\ Unit \in Nat \ {0} /\ Half \in Nat /\ Half <= Unit /\ m \in Int
        /\ Unit <= m
    <3>1. Unit \in Nat \ {0} /\ Half \in Nat \ {0} /\ Unit = Half + Half
      BY HalfIs
    <3>2. Unit * 1 <= Unit * (l - 1) /\ Unit * 1 = Unit
      BY <3>1, <1>2, ProductOrder
    <3> QED
      BY <1>2, <2>1, <3>1, <3>2
  <2>3. PICK a : a = Clamp(v, Unit, m) - d
    OBVIOUS
  <2>4. a \in Nat
    BY <1>2, <2>2, <2>3 DEF Clamp
  <2>5. a \div Unit \in Nat
    BY <2>2, <2>4, Division
  <2>6. x0 = Least(a \div Unit, l - 2)
    BY <1>2, <2>1, <2>3
  <2>7. x0 \in 0 .. l - 2
    BY <1>2, <2>5, <2>6 DEF Least
  <2> QED
    BY <1>2, <2>7 DEF Least
<1>3. PICK x0, y0 : /\ x0 = Least((q[1] - dx) \div Unit, WIDTH - 2)
                    /\ y0 = Least((q[2] - dy) \div Unit, HEIGHT - 2)
  OBVIOUS
<1>4. PICK x1, y1 : /\ x1 = Least(x0 + 1, WIDTH - 2)
                    /\ y1 = Least(y0 + 1, HEIGHT - 2)
  OBVIOUS
<1>5. /\ q[1] = Clamp(p[1], Unit, (WIDTH - 1) * Unit)
      /\ q[2] = Clamp(p[2], Unit, (HEIGHT - 1) * Unit)
  BY <1>1 DEF Inside
<1>6. p[1] \in Int /\ p[2] \in Int
  BY DEF Int2
<1>7. /\ x0 \in 0 .. WIDTH - 2 /\ x1 \in 0 .. WIDTH - 2
      /\ y0 \in 0 .. HEIGHT - 2 /\ y1 \in 0 .. HEIGHT - 2
  BY <1>2, <1>3, <1>4, <1>5, <1>6, FluidAssumption
<1>8. PICK w1, w2, w3, w4 :
        FaceShares(p, dx, dy) = << <<x0, y0, w1>>, <<x1, y0, w2>>,
                                   <<x0, y1, w3>>, <<x1, y1, w4>> >>
  BY <1>1, <1>3, <1>4, ZenonT(40) DEF FaceShares, Shares
<1>9. PlacesOf(FaceShares(p, dx, dy)) \subseteq
        {<<x0, y0>>, <<x1, y0>>, <<x0, y1>>, <<x1, y1>>}
  BY <1>8 DEF PlacesOf
<1> QED
  BY <1>7, <1>9

\* An integer root is where the squares pass the number.
LEMMA RootIs ==
  ASSUME NEW s \in Nat, s > 0, s < Unit * Unit
  PROVE  \E k \in 0 .. Unit : k * k <= s /\ s < (k + 1) * (k + 1)
<1>1. Unit \in Nat \ {0} /\ Unit - 1 \in Nat /\ (Unit - 1) + 1 = Unit
  BY HalfIs
<1> DEFINE S == {k \in Nat : s < (k + 1) * (k + 1)}
<1>2. PICK k \in S : \A n \in S : k <= n
  <2>1. S \in SUBSET Nat
    OBVIOUS
  <2>2. Unit - 1 \in S
    BY <1>1
  <2> HIDE DEF S
  <2> QED
    BY <2>1, <2>2, LeastNumber
<1>3. k \in Nat /\ s < (k + 1) * (k + 1) /\ k <= Unit - 1
  <2>1. Unit - 1 \in S
    BY <1>1
  <2> QED
    BY <1>2, <2>1
<1>4. k * k <= s
  <2>1. CASE k = 0
    BY <2>1
  <2>2. CASE k # 0
    <3>1. k - 1 \in Nat /\ ~ (k <= k - 1) /\ (k - 1) + 1 = k
      BY <1>3, <2>2
    <3>2. k - 1 \notin S
      BY <1>2, <3>1
    <3>3. ~ (s < k * k)
      BY <3>1, <3>2
    <3>4. k * k \in Nat
      BY <1>3
    <3> QED
      BY <3>3, <3>4
  <2> QED
    BY <2>1, <2>2
<1> QED
  BY <1>1, <1>3, <1>4

LEMMA SquareOrder ==
  ASSUME NEW a \in Nat, NEW b \in Nat, a * a < b * b
  PROVE  a < b
<1> SUFFICES ASSUME b <= a PROVE FALSE
  OBVIOUS
<1>1. b * b <= b * a /\ a * b <= a * a
  BY ProductOrder
<1>2. a * b = b * a /\ a * a \in Nat /\ b * b \in Nat /\ a * b \in Nat
  OBVIOUS
<1> QED
  BY <1>1, <1>2

\* Two particles are pushed half a cell or less along an axis.
LEMMA OffsetIsSmall ==
  ASSUME NEW d \in Int, NEW s \in Nat, s > 0, s < Unit * Unit, d * d <= s,
         NEW o \in Offsets(d, s)
  PROVE  o \in Int /\ -Half <= o /\ o <= Half
<1>1. /\ Unit \in Nat \ {0} /\ Half \in Nat \ {0} /\ Unit = Half + Half
      /\ Unit = 2 * Half
  BY HalfIs
<1>2. PICK r : r = CHOOSE k \in 0 .. Unit : k * k <= s /\ s < (k + 1) * (k + 1)
  OBVIOUS
<1>3. r \in Nat /\ r * r <= s /\ s < (r + 1) * (r + 1)
  <2>1. \E k \in 0 .. Unit : k * k <= s /\ s < (k + 1) * (k + 1)
    BY RootIs
  <2>2. r \in 0 .. Unit /\ r * r <= s /\ s < (r + 1) * (r + 1)
    BY <1>2, <2>1, Zenon
  <2> QED
    BY <1>1, <2>2
<1>4. PICK m : m = IF d < 0 THEN -d ELSE d
  OBVIOUS
<1>5. m \in Nat /\ m * m = d * d
  BY <1>4
<1>6. r # 0
  BY <1>3
<1>7. r < Unit
  <2>1. r * r < Unit * Unit
    <3>1. r * r \in Nat /\ Unit * Unit \in Nat
      BY <1>1, <1>3
    <3> QED
      BY <1>3, <3>1
  <2> QED
    BY <1>1, <1>3, <2>1, SquareOrder
<1>8. m <= r
  <2>1. m * m < (r + 1) * (r + 1)
    <3>1. m * m \in Nat /\ (r + 1) * (r + 1) \in Nat /\ m * m <= s
      BY <1>3, <1>5
    <3> QED
      BY <1>3, <3>1
  <2>2. r + 1 \in Nat
    BY <1>3
  <2>3. m < r + 1
    BY <1>5, <2>1, <2>2, SquareOrder
  <2> QED
    BY <1>3, <1>5, <2>3
<1>9. PICK lo, hi : /\ lo = (m * (Unit - r - 1)) \div (2 * (r + 1))
                    /\ hi = (m * (Unit - r) + 2 * r - 1) \div (2 * r)
  OBVIOUS
<1>10. lo \in Nat
  <2>1. PICK a : a = Unit - r - 1
    OBVIOUS
  <2>2. a \in Nat
    BY <1>1, <1>3, <1>7, <2>1
  <2>3. m * a \in Nat /\ 2 * (r + 1) \in Nat \ {0}
    BY <1>3, <1>5, <2>2
  <2>4. (m * a) \div (2 * (r + 1)) \in Nat
    BY <2>3, Division
  <2> QED
    BY <1>9, <2>1, <2>4
<1>11. hi \in Nat /\ hi <= Half
  <2>1. PICK a : a = Unit - r
    OBVIOUS
  <2>2. a \in Nat
    BY <1>1, <1>3, <1>7, <2>1
  <2>3. m * a \in Nat /\ r * a \in Nat /\ m * a <= r * a
    <3>1. a * m <= a * r
      BY <1>3, <1>5, <1>8, <2>2, ProductOrder
    <3> QED
      BY <1>3, <1>5, <2>2, <3>1
  <2>4. r * a = r * Unit - r * r
    BY <1>1, <1>3, <2>1
  <2>5. PICK u, w : u = r * Unit /\ w = r * r
    OBVIOUS
  <2>6. u \in Nat /\ w \in Nat /\ r <= w
    <3>1. r * 1 <= r * r /\ r * 1 = r
      BY <1>3, <1>6, ProductOrder
    <3> QED
      BY <1>1, <1>3, <2>5, <3>1
  <2>7. PICK n : n = m * a + 2 * r - 1
    OBVIOUS
  <2>8. n \in Nat /\ n < u + 2 * r
    BY <1>3, <1>6, <2>3, <2>4, <2>5, <2>6, <2>7
  <2>9. PICK b : b = 2 * r
    OBVIOUS
  <2>10. b \in Nat \ {0} /\ b * (Half + 1) = u + 2 * r
    <3>1. (2 * r) * (Half + 1) = r * (2 * Half) + 2 * r
      BY <1>1, <1>3
    <3> QED
      BY <1>1, <1>3, <1>6, <2>5, <2>9, <3>1
  <2>11. hi = n \div b
    BY <1>9, <2>1, <2>7, <2>9
  <2>12. hi \in Nat /\ b * hi <= n
    BY <2>8, <2>10, <2>11, Division, DivisionDown
  <2>13. hi < Half + 1
    <3> SUFFICES ASSUME Half + 1 <= hi PROVE FALSE
      BY <1>1, <2>12
    <3>1. b * (Half + 1) <= b * hi /\ b * (Half + 1) \in Nat /\ b * hi \in Nat
      BY <1>1, <2>10, <2>12, ProductOrder
    <3> QED
      BY <2>8, <2>10, <2>12, <3>1
  <2> QED
    BY <1>1, <2>12, <2>13
<1>12. Offsets(d, s) = IF d = 0 THEN {0}
                       ELSE {IF d < 0 THEN -k ELSE k : k \in lo .. hi}
  BY <1>2, <1>4, <1>9, Zenon DEF Offsets
<1>13. CASE d = 0
  BY <1>1, <1>12, <1>13
<1>14. CASE d # 0
  <2>1. PICK k \in lo .. hi : o = IF d < 0 THEN -k ELSE k
    BY <1>12, <1>14
  <2>2. k \in Nat /\ k <= Half
    BY <1>1, <1>10, <1>11
  <2> QED
    BY <1>1, <2>1, <2>2
<1> QED
  BY <1>13, <1>14

\* What keeps the particles within reach of the grid, beside FluidInv: no pair is
\* past the last.
ContainedInv ==
  /\ pair[2] <= NUM_PARTICLES
  /\ LittlePushed
  /\ FacesAreThere
  /\ AllAreCarried

LEMMA BoxIs ==
  /\ Unit + Half \in Int /\ Unit + Half <= (WIDTH - 1) * Unit - Half
  /\ Unit + Half <= (HEIGHT - 1) * Unit - Half
  /\ (WIDTH - 1) * Unit \in Int /\ (HEIGHT - 1) * Unit \in Int
<1>1. /\ Unit \in Nat \ {0} /\ Half \in Nat \ {0} /\ Unit = Half + Half
      /\ WIDTH \in Nat /\ WIDTH >= 4 /\ HEIGHT \in Nat /\ HEIGHT >= 4
  BY HalfIs, FluidAssumption
<1>2. ASSUME NEW l \in Nat, l >= 4
      PROVE  Unit + Half <= (l - 1) * Unit - Half /\ (l - 1) * Unit \in Int
  <2>1. Unit * 3 <= Unit * (l - 1)
    <3>1. l - 1 \in Nat /\ 3 <= l - 1
      BY <1>2
    <3> QED
      BY <1>1, <3>1, ProductOrder
  <2>2. Unit * (l - 1) = (l - 1) * Unit /\ (l - 1) * Unit \in Int
    BY <1>1, <1>2
  <2> QED
    BY <1>1, <2>1, <2>2
<1> QED
  BY <1>1, <1>2

LEMMA NearMore ==
  ASSUME NEW p \in Int2, NEW n \in Nat, NearBox(p, n),
         NEW q \in Int2, q[1] \in p[1] - Half .. p[1] + Half,
         q[2] \in p[2] - Half .. p[2] + Half
  PROVE  NearBox(q, n + 1)
<1>1. Half \in Nat /\ Unit \in Nat
  BY HalfIs
<1>2. PICK t, u : t = n * Half /\ u = (n + 1) * Half
  OBVIOUS
<1>3. t \in Nat /\ u = t + Half
  BY <1>1, <1>2
<1>4. PICK a, b : a = (WIDTH - 1) * Unit /\ b = (HEIGHT - 1) * Unit
  OBVIOUS
<1>5. a \in Int /\ b \in Int
  BY <1>4, BoxIs
<1>6. /\ p[1] \in Int /\ p[2] \in Int /\ q[1] \in Int /\ q[2] \in Int
  BY DEF Int2
<1>7. /\ Unit + Half - t <= p[1] /\ p[1] <= a - Half + t
      /\ Unit + Half - t <= p[2] /\ p[2] <= b - Half + t
  BY <1>2, <1>4, Zenon DEF NearBox
<1>8. /\ Unit + Half - u <= q[1] /\ q[1] <= a - Half + u
      /\ Unit + Half - u <= q[2] /\ q[2] <= b - Half + u
  BY <1>1, <1>3, <1>5, <1>6, <1>7
<1> QED
  BY <1>2, <1>4, <1>8, Zenon DEF NearBox

LEMMA PushesAre ==
  ASSUME FluidInv, pair[2] <= NUM_PARTICLES
  PROVE  \A i \in Particles : Pushes(i) \in Nat
BY ParticlesAre, Sizes DEF FluidInv, FluidTypeOK, Pushes

LEMMA ContainedStart == FluidInit => ContainedInv
<1> SUFFICES ASSUME FluidInit PROVE ContainedInv
  OBVIOUS
<1>1. LittlePushed /\ FacesAreThere /\ AllAreCarried
  BY DEF FluidInit, LittlePushed, Moved, FacesAreThere, AllAreCarried
<1>2. pair[2] <= NUM_PARTICLES
  BY Sizes DEF FluidInit
<1> QED
  BY <1>1, <1>2 DEF ContainedInv

LEMMA MoveContains ==
  ASSUME ContainedInv, updateParticles
  PROVE  ContainedInv'
<1>1. PICK to \in [Particles -> Reach] :
        place' = [i \in Particles |-> OffWalls(to[i])]
  BY DEF updateParticles
<1>2. /\ fluidStep' = "push" /\ pair' = <<0, 1>>
      /\ UNCHANGED <<uMoves, vMoves, carried, frames>>
  BY DEF updateParticles
<1>3. \A i \in Particles : to[i][1] \in Int /\ to[i][2] \in Int
  BY FluidAssumption
<1>4. ASSUME NEW p, p[1] \in Int, p[2] \in Int
      PROVE  NearBox(OffWalls(p), 0)
  <2>1. PICK a, b, c : /\ a = Unit + Half /\ b = (WIDTH - 1) * Unit - Half
                       /\ c = (HEIGHT - 1) * Unit - Half
    OBVIOUS
  <2>2. a \in Int /\ b \in Int /\ c \in Int /\ a <= b /\ a <= c
    BY <2>1, BoxIs, HalfIs
  <2>3. OffWalls(p) = <<Clamp(p[1], a, b), Clamp(p[2], a, c)>>
    BY <2>1 DEF OffWalls
  <2>4. \A v \in Int : /\ a <= Clamp(v, a, b) /\ Clamp(v, a, b) <= b
                       /\ a <= Clamp(v, a, c) /\ Clamp(v, a, c) <= c
                       /\ Clamp(v, a, b) \in Int /\ Clamp(v, a, c) \in Int
    BY <2>2 DEF Clamp
  <2>5. Half \in Nat /\ 0 * Half = 0
    BY HalfIs
  <2>6. PICK q : q = OffWalls(p)
    OBVIOUS
  <2>7. /\ a <= q[1] /\ q[1] <= b /\ a <= q[2] /\ q[2] <= c
        /\ q[1] \in Int /\ q[2] \in Int
    BY <1>4, <2>3, <2>4, <2>6
  <2>8. a - 0 * Half = a /\ b + 0 * Half = b /\ c + 0 * Half = c
    BY <2>2, <2>5
  <2>9. /\ Unit + Half - 0 * Half <= q[1]
        /\ q[1] <= (WIDTH - 1) * Unit - Half + 0 * Half
        /\ Unit + Half - 0 * Half <= q[2]
        /\ q[2] <= (HEIGHT - 1) * Unit - Half + 0 * Half
    <3>1. Unit + Half - 0 * Half = a
      BY <2>1, HalfIs
    <3>2. /\ (WIDTH - 1) * Unit - Half + 0 * Half = b + 0 * Half
          /\ (HEIGHT - 1) * Unit - Half + 0 * Half = c + 0 * Half
      BY <2>1, Zenon
    <3> QED
      BY <2>7, <2>8, <3>1, <3>2
  <2>10. NearBox(q, 0)
    BY <2>9, Zenon DEF NearBox
  <2> QED
    BY <2>6, <2>10
<1>5. \A i \in Particles : Pushes(i)' = 0
  BY <1>2, ParticlesAre, Sizes DEF Pushes
<1>6. LittlePushed'
  <2>1. \A i \in Particles : NearBox(place'[i], 0)
    BY <1>1, <1>3, <1>4
  <2>2. ASSUME NEW i \in Particles PROVE NearBox(place'[i], Pushes(i)')
    <3>1. Pushes(i)' = 0
      BY <1>5
    <3>2. NearBox(place'[i], 0)
      BY <2>1
    <3> QED
      BY <3>1, <3>2, Zenon
  <2>3. \A i \in Particles : NearBox(place'[i], Pushes(i)')
    BY <2>2
  <2> QED
    BY <2>3, Zenon DEF LittlePushed
<1>7. FacesAreThere' /\ AllAreCarried'
  BY <1>2 DEF ContainedInv, FacesAreThere, AllAreCarried
<1>8. pair'[2] <= NUM_PARTICLES
  BY <1>2, Sizes
<1> QED
  BY <1>6, <1>7, <1>8 DEF ContainedInv

LEMMA PushContains ==
  ASSUME FluidInv, FluidInv', ContainedInv, pushParticlesApart
  PROVE  ContainedInv'
<1>1. PICK i, j : i = pair[1] /\ j = pair[2]
  OBVIOUS
<1>2. /\ i \in Particles /\ j \in Particles /\ i # j
      /\ i \in Nat /\ j \in Nat /\ i < j /\ pair = <<i, j>>
      /\ j < NUM_PARTICLES /\ NUM_PARTICLES \in Nat
  BY <1>1, ParticlesAre, Sizes DEF FluidInv, FluidTypeOK, pushParticlesApart
<1>3. /\ fluidStep = "push" /\ fluidStep' = "push" /\ pair' = NextPair(pair)
      /\ UNCHANGED <<uMoves, vMoves, carried, frames>>
  BY DEF pushParticlesApart
<1>4. \A k \in Particles : /\ place[k] \in Int2 /\ place'[k] \in Int2
                           /\ Pushes(k) \in Nat /\ NearBox(place[k], Pushes(k))
  <2>1. \A k \in Particles : place[k] \in Int2 /\ place'[k] \in Int2
    BY DEF FluidInv, FluidTypeOK, Int2
  <2>2. \A k \in Particles : Pushes(k) \in Nat
    BY PushesAre DEF ContainedInv
  <2>3. Moved
    BY <1>3 DEF Moved
  <2> QED
    BY <2>1, <2>2, <2>3, Zenon DEF ContainedInv, LittlePushed
<1>5. pair' = IF j < NUM_PARTICLES - 1 THEN <<i, j + 1>> ELSE <<i + 1, i + 2>>
  BY <1>2, <1>3 DEF NextPair
<1>6. /\ Pushes(i)' = Pushes(i) + 1 /\ Pushes(j)' = Pushes(j) + 1
      /\ \A k \in Particles : k # i /\ k # j => Pushes(k)' = Pushes(k)
  <2>1. ASSUME NEW k \in Particles
        PROVE  Pushes(k)' = IF k = i \/ k = j THEN Pushes(k) + 1 ELSE Pushes(k)
    <3>1. k \in Nat /\ k < NUM_PARTICLES
      BY ParticlesAre
    <3>2. CASE j < NUM_PARTICLES - 1
      <4>1. pair'[1] = i /\ pair'[2] = j + 1 /\ pair[1] = i /\ pair[2] = j
        BY <1>2, <1>5, <3>2
      <4> QED
        BY <1>2, <3>1, <3>2, <4>1 DEF Pushes
    <3>3. CASE ~ (j < NUM_PARTICLES - 1)
      <4>1. pair'[1] = i + 1 /\ pair'[2] = i + 2 /\ pair[1] = i /\ pair[2] = j
        BY <1>2, <1>5, <3>3
      <4> QED
        BY <1>2, <3>1, <3>3, <4>1 DEF Pushes
    <3> QED
      BY <3>2, <3>3
  <2> QED
    BY <1>2, <2>1
<1>7. \A k \in Particles :
        /\ k = i \/ k = j =>
             /\ place'[k][1] \in place[k][1] - Half .. place[k][1] + Half
             /\ place'[k][2] \in place[k][2] - Half .. place[k][2] + Half
        /\ k # i /\ k # j => place'[k] = place[k]
  <2>1. PICK a \in Int, b \in Int, c \in Int, d \in Int :
          place[i] = <<a, b>> /\ place[j] = <<c, d>>
    BY <1>2, <1>4 DEF Int2
  <2>2. PICK dx, dy, s : dx = c - a /\ dy = d - b /\ s = dx * dx + dy * dy
    OBVIOUS
  <2>3. dx \in Int /\ dy \in Int /\ s \in Nat /\ dx * dx <= s /\ dy * dy <= s
    <3>1. \A v \in Int : v * v \in Nat
      OBVIOUS
    <3>2. dx \in Int /\ dy \in Int
      BY <2>2
    <3>3. dx * dx \in Nat /\ dy * dy \in Nat
      BY <3>1, <3>2
    <3> QED
      BY <2>2, <3>2, <3>3
  <2>4. place' = IF s < Unit * Unit /\ s > 0 THEN place' ELSE place
    BY <1>1, <2>1, <2>2 DEF pushParticlesApart
  <2>5. s < Unit * Unit /\ s > 0 =>
          \E ox \in Offsets(dx, s), oy \in Offsets(dy, s) :
            place' = [place EXCEPT ![i] = <<@[1] - ox, @[2] - oy>>,
                                   ![j] = <<@[1] + ox, @[2] + oy>>]
    BY <1>1, <2>1, <2>2 DEF pushParticlesApart
  <2>6. Half \in Nat
    BY HalfIs
  <2>7. CASE s < Unit * Unit /\ s > 0
    <3>1. PICK ox \in Offsets(dx, s), oy \in Offsets(dy, s) :
            place' = [place EXCEPT ![i] = <<@[1] - ox, @[2] - oy>>,
                                   ![j] = <<@[1] + ox, @[2] + oy>>]
      BY <2>5, <2>7
    <3>2. /\ ox \in Int /\ -Half <= ox /\ ox <= Half
          /\ oy \in Int /\ -Half <= oy /\ oy <= Half
      BY <2>3, <2>7, OffsetIsSmall
    <3>3. place \in [Particles -> Int \X Int]
      BY DEF FluidInv, FluidTypeOK
    <3>4. /\ place'[i] = <<a - ox, b - oy>> /\ place'[j] = <<c + ox, d + oy>>
          /\ \A k \in Particles : k # i /\ k # j => place'[k] = place[k]
      BY <1>2, <2>1, <3>1, <3>3
    <3> QED
      BY <2>1, <2>6, <3>2, <3>4
  <2>8. CASE ~ (s < Unit * Unit /\ s > 0)
    <3>1. place' = place
      BY <2>4, <2>8
    <3>2. \A k \in Particles : place[k][1] \in Int /\ place[k][2] \in Int
      BY <1>4 DEF Int2
    <3> QED
      BY <2>6, <3>1, <3>2
  <2> QED
    BY <2>7, <2>8
<1>8. \A k \in Particles : NearBox(place'[k], Pushes(k)')
  <2>1. ASSUME NEW k \in Particles, k = i \/ k = j
        PROVE  NearBox(place'[k], Pushes(k)')
    <3>1. NearBox(place'[k], Pushes(k) + 1)
      BY <1>4, <1>7, <2>1, NearMore
    <3> QED
      BY <1>6, <2>1, <3>1
  <2>2. ASSUME NEW k \in Particles, k # i, k # j
        PROVE  NearBox(place'[k], Pushes(k)')
    BY <1>4, <1>6, <1>7, <2>2
  <2> QED
    BY <2>1, <2>2
<1>9. LittlePushed'
  BY <1>8, Zenon DEF LittlePushed
<1>10. pair'[2] <= NUM_PARTICLES
  BY <1>2, <1>5
<1>11. FacesAreThere' /\ AllAreCarried'
  BY <1>3 DEF ContainedInv, FacesAreThere, AllAreCarried
<1> QED
  BY <1>9, <1>10, <1>11 DEF ContainedInv

LEMMA GridContains ==
  ASSUME FluidInv, ContainedInv, TransferToGrid
  PROVE  ContainedInv'
<1>1. /\ fluidStep = "push" /\ fluidStep' = "density"
      /\ UNCHANGED <<pair, place, carried, frames>>
  BY DEF TransferToGrid
<1>2. PICK u, v :
        /\ u = UNION {PlacesOf(USharesOf(place[i])) : i \in Particles}
        /\ v = UNION {PlacesOf(VSharesOf(place[i])) : i \in Particles}
        /\ uMoves' = {f \in u : ~UWall(f)} \cup {f \in uMoves : UWall(f)}
        /\ vMoves' = {f \in v : ~VWall(f)} \cup {f \in vMoves : VWall(f)}
  BY DEF TransferToGrid
<1>3. \A i \in Particles : place[i] \in Int2
  BY DEF FluidInv, FluidTypeOK, Int2
<1>4. \A i \in Particles :
        /\ PlacesOf(USharesOf(place[i])) \subseteq
             (0..(WIDTH - 2)) \X (0..(HEIGHT - 2))
        /\ PlacesOf(VSharesOf(place[i])) \subseteq
             (0..(WIDTH - 2)) \X (0..(HEIGHT - 2))
  BY <1>3, FacesOfOne DEF USharesOf, VSharesOf
<1>5. /\ u \subseteq (0..(WIDTH - 2)) \X (0..(HEIGHT - 2))
      /\ v \subseteq (0..(WIDTH - 2)) \X (0..(HEIGHT - 2))
  BY <1>2, <1>4
<1>6. FacesAreThere'
  <2>1. /\ (0..(WIDTH - 2)) \X (0..(HEIGHT - 2)) \subseteq
             (0..WIDTH) \X (0..(HEIGHT - 1))
        /\ (0..(WIDTH - 2)) \X (0..(HEIGHT - 2)) \subseteq
             (0..(WIDTH - 1)) \X (0..HEIGHT)
    BY FluidAssumption
  <2>2. uMoves' \subseteq u \cup uMoves /\ vMoves' \subseteq v \cup vMoves
    BY <1>2
  <2>3. FacesAreThere
    BY DEF ContainedInv
  <2> QED
    BY <1>5, <2>1, <2>2, <2>3, Zenon DEF FacesAreThere
<1>7. LittlePushed'
  <2>1. LittlePushed /\ Moved
    BY <1>1 DEF ContainedInv, Moved
  <2> QED
    BY <1>1, <2>1, Zenon DEF LittlePushed, Pushes
<1>8. AllAreCarried'
  BY <1>1 DEF AllAreCarried
<1> QED
  BY <1>1, <1>6, <1>7, <1>8 DEF ContainedInv

LEMMA DensityContains ==
  ASSUME ContainedInv, updateParticleDensity
  PROVE  ContainedInv'
<1>1. /\ fluidStep = "density" /\ fluidStep' = "solve"
      /\ UNCHANGED <<pair, place, uMoves, vMoves, carried, frames>>
  BY DEF updateParticleDensity
<1>2. LittlePushed'
  <2>1. LittlePushed /\ Moved
    BY <1>1 DEF ContainedInv, Moved
  <2> QED
    BY <1>1, <2>1, Zenon DEF LittlePushed, Pushes
<1>3. FacesAreThere' /\ AllAreCarried'
  BY <1>1 DEF ContainedInv, FacesAreThere, AllAreCarried
<1> QED
  BY <1>1, <1>2, <1>3 DEF ContainedInv

LEMMA SolveContains ==
  ASSUME FluidInv, ContainedInv, solveIncompressibility
  PROVE  ContainedInv'
<1>1. /\ fluidStep = "solve" /\ fluidStep' = "carry"
      /\ uMoves' = uMoves \cup UNION {Pressed(c).u : c \in water}
      /\ vMoves' = vMoves \cup UNION {Pressed(c).v : c \in water}
      /\ UNCHANGED <<pair, place, carried, frames>>
  BY DEF solveIncompressibility
<1>2. LittlePushed'
  <2>1. LittlePushed /\ Moved
    BY <1>1 DEF ContainedInv, Moved
  <2> QED
    BY <1>1, <2>1, Zenon DEF LittlePushed, Pushes
<1>3. ASSUME NEW c \in water
      PROVE  /\ Pressed(c).u \subseteq (0..WIDTH) \X (0..(HEIGHT - 1))
             /\ Pressed(c).v \subseteq (0..(WIDTH - 1)) \X (0..HEIGHT)
  <2>1. PICK x \in 0..(WIDTH - 1), y \in 0..(HEIGHT - 1) : c = <<x, y>>
    BY DEF FluidInv, FluidTypeOK, Grid
  <2>2. /\ Pressed(c).u \subseteq {<<x, y>>, <<x + 1, y>>}
        /\ Pressed(c).v \subseteq {<<x, y>>, <<x, y + 1>>}
    BY <2>1 DEF Pressed
  <2>3. x \in 0..WIDTH /\ x + 1 \in 0..WIDTH /\ y \in 0..HEIGHT
        /\ y + 1 \in 0..HEIGHT
    BY FluidAssumption
  <2> QED
    BY <2>2, <2>3
<1>4. FacesAreThere'
  <2>1. FacesAreThere
    BY DEF ContainedInv
  <2> QED
    BY <1>1, <1>3, <2>1, Zenon DEF FacesAreThere
<1>5. AllAreCarried'
  BY <1>1 DEF AllAreCarried
<1> QED
  BY <1>1, <1>2, <1>4, <1>5 DEF ContainedInv

\* The faces that carry a particle: those of its cell, or those of the wall it
\* is in.
LEMMA CarriedOne ==
  ASSUME FluidInv, water = Wet, NEW i \in Particles,
         CellOf(place[i])[1] < WIDTH - 1, CellOf(place[i])[2] < HEIGHT - 1
  PROVE  /\ \E f \in PlacesOf(USharesOf(place[i])) : UValid(f)
         /\ \E f \in PlacesOf(VSharesOf(place[i])) : VValid(f)
<1>1. PICK p : p = place[i]
  OBVIOUS
<1>2. p \in Int2 /\ p[1] \in Int /\ p[2] \in Int
  BY <1>1 DEF FluidInv, FluidTypeOK, Int2
<1>3. PICK x, y : x = CellIndex(p[1]) /\ y = CellIndex(p[2])
  OBVIOUS
<1>4. CellOf(p) = <<x, y>> /\ x < WIDTH - 1 /\ y < HEIGHT - 1
  BY <1>1, <1>3 DEF CellOf
<1>5. PICK q : q = Inside(p)
  OBVIOUS
<1>6. /\ q[1] = Clamp(p[1], Unit, (WIDTH - 1) * Unit)
      /\ q[2] = Clamp(p[2], Unit, (HEIGHT - 1) * Unit)
  BY <1>5 DEF Inside
<1>7. /\ WIDTH \in Nat /\ WIDTH >= 4 /\ HEIGHT \in Nat /\ HEIGHT >= 4
  BY FluidAssumption
<1>8. PICK e \in 1 .. WIDTH - 2 :
        /\ x = e \/ (x <= 0 /\ e = 1)
        /\ Taken(q[1], 0, WIDTH, e) /\ Taken(q[1], Half, WIDTH, e)
        /\ x <= 0 => Taken(q[1], Half, WIDTH, 0)
  BY <1>2, <1>3, <1>4, <1>6, <1>7, AxisOfCell
<1>9. PICK g \in 1 .. HEIGHT - 2 :
        /\ y = g \/ (y <= 0 /\ g = 1)
        /\ Taken(q[2], 0, HEIGHT, g) /\ Taken(q[2], Half, HEIGHT, g)
        /\ y <= 0 => Taken(q[2], Half, HEIGHT, 0)
  BY <1>2, <1>3, <1>4, <1>6, <1>7, AxisOfCell
<1>10. /\ <<e, g>> \in PlacesOf(USharesOf(p))
       /\ <<e, g>> \in PlacesOf(VSharesOf(p))
       /\ y <= 0 => <<e, 0>> \in PlacesOf(USharesOf(p))
       /\ x <= 0 => <<0, g>> \in PlacesOf(VSharesOf(p))
  BY <1>5, <1>8, <1>9, SharePlace DEF USharesOf, VSharesOf
<1>11. e > 0 /\ g > 0
  BY <1>7
<1>12. CASE x = e /\ y = g
  <2>1. <<e, g>> \in Grid /\ ~Solid(<<e, g>>)
    BY <1>7 DEF Grid, Solid
  <2>2. <<e, g>> \in Wet
    BY <1>1, <1>4, <1>12, <2>1 DEF Wet
  <2>3. UValid(<<e, g>>) /\ VValid(<<e, g>>)
    BY <1>11, <2>2 DEF UValid, VValid, Filled
  <2> QED
    BY <1>1, <1>10, <2>3
<1>13. CASE x <= 0
  <2>1. e = 1
    BY <1>8, <1>11, <1>13
  <2>2. Solid(<<0, g>>)
    BY DEF Solid
  <2>3. UValid(<<e, g>>) /\ VValid(<<0, g>>)
    BY <1>11, <2>1, <2>2 DEF UValid, VValid, Filled
  <2> QED
    BY <1>1, <1>10, <1>13, <2>3
<1>14. CASE y <= 0
  <2>1. g = 1
    BY <1>9, <1>11, <1>14
  <2>2. Solid(<<e, 0>>)
    BY DEF Solid
  <2>3. UValid(<<e, 0>>) /\ VValid(<<e, g>>)
    BY <1>11, <2>1, <2>2 DEF UValid, VValid, Filled
  <2> QED
    BY <1>1, <1>10, <1>14, <2>3
<1> QED
  BY <1>8, <1>9, <1>12, <1>13, <1>14

LEMMA CarryContains ==
  ASSUME FluidInv, ContainedInv, TransferFromGrid
  PROVE  ContainedInv'
<1>1. /\ fluidStep = "carry" /\ fluidStep' = "draw"
      /\ carried' = {i \in Particles :
           /\ \E f \in PlacesOf(USharesOf(place[i])) : UValid(f)
           /\ \E f \in PlacesOf(VSharesOf(place[i])) : VValid(f)}
      /\ UNCHANGED <<pair, place, uMoves, vMoves, frames>>
  BY DEF TransferFromGrid
<1>2. water = Wet
  BY <1>1 DEF FluidInv
<1>3. \A i \in Particles :
        CellOf(place[i])[1] < WIDTH - 1 /\ CellOf(place[i])[2] < HEIGHT - 1
          => i \in carried'
  BY <1>1, <1>2, CarriedOne
<1>4. AllAreCarried'
  BY <1>1, <1>3 DEF AllAreCarried
<1>5. LittlePushed'
  <2>1. LittlePushed /\ Moved
    BY <1>1 DEF ContainedInv, Moved
  <2> QED
    BY <1>1, <2>1, Zenon DEF LittlePushed, Pushes
<1>6. FacesAreThere'
  BY <1>1 DEF ContainedInv, FacesAreThere
<1> QED
  BY <1>1, <1>4, <1>5, <1>6 DEF ContainedInv

LEMMA DrawContains ==
  ASSUME FluidInv, ContainedInv, Draw
  PROVE  ContainedInv'
<1>1. /\ fluidStep = "draw" /\ fluidStep' = "move"
      /\ UNCHANGED <<pair, place, uMoves, vMoves, carried>>
  BY DEF Draw
<1>2. LittlePushed'
  <2>1. LittlePushed /\ Moved
    BY <1>1 DEF ContainedInv, Moved
  <2> QED
    BY <1>1, <2>1, Zenon DEF LittlePushed, Pushes
<1>3. FacesAreThere' /\ AllAreCarried'
  BY <1>1 DEF ContainedInv, FacesAreThere, AllAreCarried
<1> QED
  BY <1>1, <1>2, <1>3 DEF ContainedInv

LEMMA ContainedSteps ==
  FluidInv /\ FluidInv' /\ ContainedInv /\ [FluidNext]_fluidVars
    => ContainedInv'
<1> SUFFICES ASSUME FluidInv, FluidInv', ContainedInv, [FluidNext]_fluidVars
             PROVE  ContainedInv'
  OBVIOUS
<1>1. CASE UNCHANGED fluidVars
  <2>1. LittlePushed'
    BY <1>1, Zenon DEF fluidVars, ContainedInv, LittlePushed, Moved, Pushes
  <2>2. FacesAreThere' /\ AllAreCarried' /\ pair'[2] <= NUM_PARTICLES
    BY <1>1 DEF fluidVars, ContainedInv, FacesAreThere, AllAreCarried
  <2> QED
    BY <2>1, <2>2 DEF ContainedInv
<1> QED
  BY <1>1, MoveContains, PushContains, GridContains, DensityContains,
     SolveContains, CarryContains, DrawContains DEF FluidNext

\* Two pushes of half a cell lead into a wall at most.
LEMMA ThreeStay ==
  ASSUME FluidInv, ContainedInv
  PROVE  OnTheGrid
<1> SUFFICES ASSUME Moved, NUM_PARTICLES <= 3, NEW i \in Particles
             PROVE  CellOf(place[i]) \in Grid
  BY DEF OnTheGrid
<1>1. PICK p : p = place[i]
  OBVIOUS
<1>2. p[1] \in Int /\ p[2] \in Int /\ p \in Int2
  BY <1>1 DEF FluidInv, FluidTypeOK, Int2
<1>3. Pushes(i) \in 0 .. 2
  <2>1. PICK a \in Nat, b \in Nat : pair = <<a, b>>
    BY DEF FluidInv, FluidTypeOK
  <2>2. a < b /\ b <= NUM_PARTICLES
    BY <2>1 DEF FluidInv, ContainedInv
  <2>3. i \in Nat /\ i < NUM_PARTICLES /\ NUM_PARTICLES \in 1 .. 3
    BY ParticlesAre, Sizes
  <2>4. Pushes(i) = IF i < a THEN NUM_PARTICLES - 1
                    ELSE IF i = a THEN b - 1
                    ELSE IF i < b THEN a + 1 ELSE a
    BY <2>1 DEF Pushes
  <2> QED
    BY <2>2, <2>3, <2>4
<1>4. NearBox(p, Pushes(i))
  BY <1>1 DEF ContainedInv, LittlePushed
<1>5. /\ Unit \in Nat \ {0} /\ Half \in Nat \ {0} /\ Unit = Half + Half
      /\ WIDTH \in Nat /\ WIDTH >= 4 /\ HEIGHT \in Nat /\ HEIGHT >= 4
  BY HalfIs, FluidAssumption
<1>6. PICK t : t = Pushes(i) * Half
  OBVIOUS
<1>7. t \in Nat /\ t <= Unit
  <2>1. Half * Pushes(i) <= Half * 2
    BY <1>3, <1>5, ProductOrder
  <2>2. Half * Pushes(i) = t /\ Half * 2 = Unit /\ t \in Nat
    BY <1>3, <1>5, <1>6
  <2> QED
    BY <2>1, <2>2
<1>8. PICK a, b : a = (WIDTH - 1) * Unit /\ b = (HEIGHT - 1) * Unit
  OBVIOUS
<1>9. a \in Int /\ b \in Int
  BY <1>8, BoxIs
<1>10. /\ Unit + Half - t <= p[1] /\ p[1] <= a - Half + t
       /\ Unit + Half - t <= p[2] /\ p[2] <= b - Half + t
  BY <1>4, <1>6, <1>8, Zenon DEF NearBox
<1>11. /\ p[1] \in Nat /\ p[1] < a + Unit
       /\ p[2] \in Nat /\ p[2] < b + Unit
  BY <1>2, <1>5, <1>7, <1>9, <1>10
<1>12. ASSUME NEW v \in Nat, NEW l \in Nat, l >= 4,
              v < (l - 1) * Unit + Unit
       PROVE  CellIndex(v) \in 0 .. l - 1
  <2>1. PICK c : c = v \div Unit
    OBVIOUS
  <2>2. c \in Nat /\ Unit * c <= v
    BY <1>5, <2>1, Division, DivisionDown
  <2>3. CellIndex(v) = c
    BY <1>12, <2>1 DEF CellIndex
  <2>4. c < l
    <3> SUFFICES ASSUME l <= c PROVE FALSE
      BY <1>12, <2>2
    <3>1. Unit * l <= Unit * c /\ Unit * c \in Nat
      BY <1>5, <2>2, ProductOrder
    <3>2. (l - 1) * Unit + Unit = Unit * l /\ Unit * l \in Nat
      BY <1>5
    <3> QED
      BY <1>12, <2>2, <3>1, <3>2
  <2> QED
    BY <1>12, <2>2, <2>3, <2>4
<1>13. /\ CellIndex(p[1]) \in 0 .. WIDTH - 1
       /\ CellIndex(p[2]) \in 0 .. HEIGHT - 1
  BY <1>5, <1>8, <1>11, <1>12
<1> QED
  BY <1>1, <1>13 DEF CellOf, Grid

\* In a box of any size and with any number of particles: pushing the particles
\* apart moves each at most half a cell for every pair it is in, so that three of
\* them stay on the grid; the faces indexed are those of the arrays; the grid
\* carries every particle that is not in the right or the lower wall (fluid_sim.c).
THEOREM ContainedCorrect == FluidSpec => []FluidIsContained
<1>1. FluidInv /\ ContainedInv => FluidIsContained
  BY ThreeStay DEF ContainedInv, FluidIsContained
<1> QED
  BY <1>1, FluidStart, FluidSteps, ContainedStart, ContainedSteps, PTL
     DEF FluidSpec

-----------------------------------------------------------------------------
(* The angles and their pictures: TiltDisplay.                             *)

-----------------------------------------------------------------------------
(* How many pixels.                                                         *)

LEMMA OneMore ==
  ASSUME NEW S, IsFiniteSet(S), NEW x, x \notin S
  PROVE  IsFiniteSet(S \cup {x})
           /\ Cardinality(S \cup {x}) = Cardinality(S) + 1
BY FS_AddElement

LEMMA AtMostTwo ==
  ASSUME NEW a, NEW b, NEW S, S \subseteq {a, b}
  PROVE  IsFiniteSet(S) /\ Cardinality(S) \in Nat /\ Cardinality(S) <= 2
<1>1. IsFiniteSet({a}) /\ Cardinality({a}) = 1
  BY FS_Singleton
<1>2. IsFiniteSet({a} \cup {b}) /\ Cardinality({a} \cup {b}) \in {1, 2}
  BY <1>1, FS_AddElement
<1>3. S \in SUBSET ({a} \cup {b})
  OBVIOUS
<1>4. IsFiniteSet(S) /\ Cardinality(S) <= Cardinality({a} \cup {b})
  BY <1>2, <1>3, FS_Subset
<1>5. Cardinality(S) \in Nat
  BY <1>4, FS_CardinalityType
<1> QED
  BY <1>2, <1>4, <1>5

LEMMA FromOne ==
  ASSUME NEW n \in Nat
  PROVE  IsFiniteSet(1 .. n) /\ Cardinality(1 .. n) = n
<1>1. PICK a : a = 1
  OBVIOUS
<1>2. a \in Int /\ n \in Int /\ n - a + 1 = n /\ (a > n => n = 0)
  BY <1>1
<1>3. IsFiniteSet(a .. n)
  BY <1>2, FS_Interval, Zenon
<1>4. Cardinality(a .. n) = IF a > n THEN 0 ELSE n - a + 1
  BY <1>2, FS_Interval, Zenon
<1> QED
  BY <1>1, <1>2, <1>3, <1>4

\* f lists the elements of S, each once.
Lists(f, n, S) ==
  /\ \A i, j \in 1 .. n : f[i] = f[j] => i = j
  /\ \A i \in 1 .. n : f[i] \in S
  /\ \A s \in S : \E i \in 1 .. n : s = f[i]

LEMMA Points ==
  ASSUME NEW n \in Nat, NEW f, NEW S, Lists(f, n, S)
  PROVE  IsFiniteSet(S) /\ Cardinality(S) = n
<1>2. PICK g : g = [i \in 1 .. n |-> f[i]]
  BY Zenon
<1>3. g \in [1 .. n -> S]
  BY <1>2 DEF Lists
<1>4. \A i, j \in 1 .. n : g[i] = g[j] => i = j
  BY <1>2 DEF Lists
<1>5. \A s \in S : \E i \in 1 .. n : g[i] = s
  BY <1>2 DEF Lists
<1>6. g \in Bijection(1 .. n, S)
  BY <1>3, <1>4, <1>5 DEF Bijection, Injection, Surjection, IsInjective
<1>7. ExistsBijection(1 .. n, S)
  BY <1>6 DEF ExistsBijection
<1>8. IsFiniteSet(1 .. n) /\ Cardinality(1 .. n) = n
  BY FromOne
<1> QED
  BY <1>7, <1>8, FS_Bijection

Pixels8x6 == (0 .. LED_WIDTH - 1) \X (0 .. LED_HEIGHT - 1)

LEMMA AllPixels ==
  IsFiniteSet(Pixels8x6) /\ Cardinality(Pixels8x6) = LED_WIDTH * LED_HEIGHT
<1> DEFINE f == [n \in 0 .. 47 |-> <<n % 8, n \div 8>>]
<1>1. Pixels8x6 = (0 .. 7) \X (0 .. 5)
  BY DEF Pixels8x6, LED_WIDTH, LED_HEIGHT
<1>2. ASSUME NEW n \in 0 .. 47 PROVE n % 8 \in 0 .. 7 /\ n \div 8 \in 0 .. 5
  OBVIOUS
<1>3. f \in [0 .. 47 -> Pixels8x6]
  BY <1>1, <1>2
<1>4. ASSUME NEW n \in 0 .. 47, NEW m \in 0 .. 47, f[n] = f[m]
      PROVE  n = m
  <2>1. n % 8 = m % 8 /\ n \div 8 = m \div 8
    BY <1>4
  <2> QED
    BY <2>1
<1>5. ASSUME NEW p \in Pixels8x6
      PROVE  \E n \in 0 .. 47 : f[n] = p
  <2>1. PICK x \in 0 .. 7, y \in 0 .. 5 : p = <<x, y>>
    BY <1>1
  <2>2. PICK n : n = 8 * y + x
    OBVIOUS
  <2>3. n \in 0 .. 47 /\ n % 8 = x /\ n \div 8 = y
    BY <2>2
  <2> QED
    BY <2>1, <2>3
<1> HIDE DEF f
<1>6. f \in Bijection(0 .. 47, Pixels8x6)
  BY <1>3, <1>4, <1>5 DEF Bijection, Injection, Surjection, IsInjective
<1>7. ExistsBijection(0 .. 47, Pixels8x6)
  BY <1>6 DEF ExistsBijection
<1>8. IsFiniteSet(0 .. 47) /\ Cardinality(0 .. 47) = 48
  <2>1. PICK a, b : a = 0 /\ b = 47
    OBVIOUS
  <2>2. a \in Int /\ b \in Int /\ ~(a > b) /\ b - a + 1 = 48
    BY <2>1
  <2>3. IsFiniteSet(a .. b)
    BY <2>2, FS_Interval, Zenon
  <2>4. Cardinality(a .. b) = IF a > b THEN 0 ELSE b - a + 1
    BY <2>2, FS_Interval, Zenon
  <2>5. Cardinality(a .. b) = b - a + 1
    BY <2>2, <2>4, Zenon
  <2> QED
    BY <2>1, <2>2, <2>3, <2>5
<1> QED
  BY <1>7, <1>8, FS_Bijection DEF LED_WIDTH, LED_HEIGHT

-----------------------------------------------------------------------------
(* The arrows.                                                              *)

\* Nine pixels on the matrix, and the more of them at the head.
Heavy(arrow, k) ==
  /\ IsFiniteSet(arrow) /\ Cardinality(arrow) = 9
  /\ arrow \subseteq (0 .. 7) \X (0 .. 5)
  /\ Cardinality({p \in arrow : Toward(k, p) > 0}) >
       Cardinality({p \in arrow : Toward(k, p) < 0}) + 1

LEMMA TowardIsInt ==
  ASSUME NEW k, NEW p \in (0 .. 7) \X (0 .. 5)
  PROVE  Toward(k, p) \in Int
<1>1. p[1] \in Int /\ p[2] \in Int
  OBVIOUS
<1>2. PICK e \in {-1, 0, 1}, s \in {-1, 0, 1} :
        Toward(k, p) = e * (p[1] - 3) + s * (p[2] - 2)
  BY DEF Toward
<1> QED
  BY <1>1, <1>2

LEMMA Heavier ==
  ASSUME NEW f, NEW k,
         \A i \in 1 .. 9 : f[i] \in (0 .. 7) \X (0 .. 5),
         \A i, j \in 1 .. 9 : f[i] = f[j] => i = j,
         \A i \in 1 .. 4 : Toward(k, f[i]) > 0,
         \A i \in 1 .. 7 : Toward(k, f[i]) >= 0
  PROVE  Heavy({f[i] : i \in 1 .. 9}, k)
<1>0. PICK arrow : arrow = {f[i] : i \in 1 .. 9}
  OBVIOUS
<1>1. PICK head, tail : /\ head = {p \in arrow : Toward(k, p) > 0}
                        /\ tail = {p \in arrow : Toward(k, p) < 0}
  OBVIOUS
<1>2. IsFiniteSet(arrow) /\ Cardinality(arrow) = 9
  <2>1. PICK n \in Nat : n = 9
    OBVIOUS
  <2>2. Lists(f, n, arrow)
    BY <1>0, <2>1 DEF Lists
  <2>4. IsFiniteSet(arrow) /\ Cardinality(arrow) = n
    BY <2>2, Points
  <2> QED
    BY <2>1, <2>4
<1>3. IsFiniteSet(head)
  <2>1. head \in SUBSET arrow
    BY <1>1
  <2> QED
    BY <1>2, <2>1, FS_Subset
<1>4. PICK four : four = {f[i] : i \in 1 .. 4}
  OBVIOUS
<1>5. four \in SUBSET head
  BY <1>0, <1>1, <1>4
<1>6. Cardinality(four) = 4
  <2>1. PICK n \in Nat : n = 4
    OBVIOUS
  <2>2. Lists(f, n, four)
    BY <1>4, <2>1 DEF Lists
  <2>4. Cardinality(four) = n
    BY <2>2, Points
  <2> QED
    BY <2>1, <2>4
<1>7. Cardinality(head) >= 4 /\ Cardinality(head) \in Nat
  BY <1>3, <1>5, <1>6, FS_Subset, FS_CardinalityType
<1>8. Cardinality(tail) <= 2 /\ Cardinality(tail) \in Nat
  <2>1. \A i \in 1 .. 9 : i \in 1 .. 7 \/ i = 8 \/ i = 9
    OBVIOUS
  <2>2. \A i \in 1 .. 7 : ~(Toward(k, f[i]) < 0)
    <3>1. SUFFICES ASSUME NEW i \in 1 .. 7
                   PROVE  ~(Toward(k, f[i]) < 0)
      OBVIOUS
    <3>2. f[i] \in (0 .. 7) \X (0 .. 5)
      OBVIOUS
    <3>3. Toward(k, f[i]) \in Int
      BY <3>2, TowardIsInt
    <3> QED
      BY <3>3
  <2>3. ASSUME NEW p \in tail PROVE p \in {f[8], f[9]}
    <3>1. PICK i \in 1 .. 9 : p = f[i] /\ Toward(k, f[i]) < 0
      BY <1>0, <1>1, <2>3
    <3> QED
      BY <2>1, <2>2, <3>1
  <2> QED
    BY <2>3, AtMostTwo
<1>9. Cardinality(head) > Cardinality(tail) + 1
  BY <1>7, <1>8
<1>10. arrow \subseteq (0 .. 7) \X (0 .. 5)
  BY <1>0
<1> QED
  BY <1>0, <1>1, <1>2, <1>9, <1>10 DEF Heavy

LEMMA Arrow0 == Heavy(Arrows[0], 0)
<1> DEFINE f == <<<<3, 0>>, <<2, 1>>, <<4, 1>>, <<3, 1>>, <<1, 2>>,
                  <<5, 2>>, <<3, 2>>, <<3, 3>>, <<3, 4>>>>
<1>1. Arrows[0] =
        {<<3, 0>>, <<2, 1>>, <<4, 1>>, <<1, 2>>, <<5, 2>>,
         <<3, 1>>, <<3, 2>>, <<3, 3>>, <<3, 4>>}
  BY DEF Arrows
<1>2. \A p : Toward(0, p) = 0 * (p[1] - 3) + (-1) * (p[2] - 2)
  BY DEF Toward
<1>3. \A i \in 1 .. 9 : f[i] \in (0 .. 7) \X (0 .. 5)
  OBVIOUS
<1>4. \A i, j \in 1 .. 9 : f[i] = f[j] => i = j
  OBVIOUS
<1>5. Arrows[0] = {f[i] : i \in 1 .. 9}
  BY <1>1
<1>6. \A i \in 1 .. 4 : Toward(0, f[i]) > 0
  BY <1>2
<1>7. \A i \in 1 .. 7 : Toward(0, f[i]) >= 0
  BY <1>2
<1> HIDE DEF f
<1> QED
  BY <1>3, <1>4, <1>5, <1>6, <1>7, Heavier

LEMMA Arrow1 == Heavy(Arrows[1], 1)
<1> DEFINE f == <<<<5, 0>>, <<4, 0>>, <<5, 1>>, <<3, 0>>, <<5, 2>>,
                  <<4, 1>>, <<3, 2>>, <<2, 3>>, <<1, 4>>>>
<1>1. Arrows[1] =
        {<<5, 0>>, <<3, 0>>, <<4, 0>>, <<5, 1>>, <<5, 2>>,
         <<4, 1>>, <<3, 2>>, <<2, 3>>, <<1, 4>>}
  BY DEF Arrows
<1>2. \A p : Toward(1, p) = 1 * (p[1] - 3) + (-1) * (p[2] - 2)
  BY DEF Toward
<1>3. \A i \in 1 .. 9 : f[i] \in (0 .. 7) \X (0 .. 5)
  OBVIOUS
<1>4. \A i, j \in 1 .. 9 : f[i] = f[j] => i = j
  OBVIOUS
<1>5. Arrows[1] = {f[i] : i \in 1 .. 9}
  BY <1>1
<1>6. \A i \in 1 .. 4 : Toward(1, f[i]) > 0
  BY <1>2
<1>7. \A i \in 1 .. 7 : Toward(1, f[i]) >= 0
  BY <1>2
<1> HIDE DEF f
<1> QED
  BY <1>3, <1>4, <1>5, <1>6, <1>7, Heavier

LEMMA Arrow2 == Heavy(Arrows[2], 2)
<1> DEFINE f == <<<<5, 2>>, <<4, 1>>, <<4, 3>>, <<4, 2>>, <<3, 0>>,
                  <<3, 4>>, <<3, 2>>, <<2, 2>>, <<1, 2>>>>
<1>1. Arrows[2] =
        {<<5, 2>>, <<4, 1>>, <<3, 0>>, <<4, 3>>, <<3, 4>>,
         <<4, 2>>, <<3, 2>>, <<2, 2>>, <<1, 2>>}
  BY DEF Arrows
<1>2. \A p : Toward(2, p) = 1 * (p[1] - 3) + 0 * (p[2] - 2)
  BY DEF Toward
<1>3. \A i \in 1 .. 9 : f[i] \in (0 .. 7) \X (0 .. 5)
  OBVIOUS
<1>4. \A i, j \in 1 .. 9 : f[i] = f[j] => i = j
  OBVIOUS
<1>5. Arrows[2] = {f[i] : i \in 1 .. 9}
  BY <1>1
<1>6. \A i \in 1 .. 4 : Toward(2, f[i]) > 0
  BY <1>2
<1>7. \A i \in 1 .. 7 : Toward(2, f[i]) >= 0
  BY <1>2
<1> HIDE DEF f
<1> QED
  BY <1>3, <1>4, <1>5, <1>6, <1>7, Heavier

LEMMA Arrow3 == Heavy(Arrows[3], 3)
<1> DEFINE f == <<<<5, 4>>, <<4, 4>>, <<5, 3>>, <<3, 4>>, <<5, 2>>,
                  <<4, 3>>, <<3, 2>>, <<2, 1>>, <<1, 0>>>>
<1>1. Arrows[3] =
        {<<5, 4>>, <<3, 4>>, <<4, 4>>, <<5, 3>>, <<5, 2>>,
         <<4, 3>>, <<3, 2>>, <<2, 1>>, <<1, 0>>}
  BY DEF Arrows
<1>2. \A p : Toward(3, p) = 1 * (p[1] - 3) + 1 * (p[2] - 2)
  BY DEF Toward
<1>3. \A i \in 1 .. 9 : f[i] \in (0 .. 7) \X (0 .. 5)
  OBVIOUS
<1>4. \A i, j \in 1 .. 9 : f[i] = f[j] => i = j
  OBVIOUS
<1>5. Arrows[3] = {f[i] : i \in 1 .. 9}
  BY <1>1
<1>6. \A i \in 1 .. 4 : Toward(3, f[i]) > 0
  BY <1>2
<1>7. \A i \in 1 .. 7 : Toward(3, f[i]) >= 0
  BY <1>2
<1> HIDE DEF f
<1> QED
  BY <1>3, <1>4, <1>5, <1>6, <1>7, Heavier

LEMMA Arrow4 == Heavy(Arrows[4], 4)
<1> DEFINE f == <<<<3, 4>>, <<2, 3>>, <<4, 3>>, <<3, 3>>, <<1, 2>>,
                  <<5, 2>>, <<3, 2>>, <<3, 1>>, <<3, 0>>>>
<1>1. Arrows[4] =
        {<<3, 4>>, <<2, 3>>, <<4, 3>>, <<1, 2>>, <<5, 2>>,
         <<3, 0>>, <<3, 1>>, <<3, 2>>, <<3, 3>>}
  BY DEF Arrows
<1>2. \A p : Toward(4, p) = 0 * (p[1] - 3) + 1 * (p[2] - 2)
  BY DEF Toward
<1>3. \A i \in 1 .. 9 : f[i] \in (0 .. 7) \X (0 .. 5)
  OBVIOUS
<1>4. \A i, j \in 1 .. 9 : f[i] = f[j] => i = j
  OBVIOUS
<1>5. Arrows[4] = {f[i] : i \in 1 .. 9}
  BY <1>1
<1>6. \A i \in 1 .. 4 : Toward(4, f[i]) > 0
  BY <1>2
<1>7. \A i \in 1 .. 7 : Toward(4, f[i]) >= 0
  BY <1>2
<1> HIDE DEF f
<1> QED
  BY <1>3, <1>4, <1>5, <1>6, <1>7, Heavier

LEMMA Arrow5 == Heavy(Arrows[5], 5)
<1> DEFINE f == <<<<1, 4>>, <<1, 3>>, <<2, 4>>, <<1, 2>>, <<3, 4>>,
                  <<2, 3>>, <<3, 2>>, <<4, 1>>, <<5, 0>>>>
<1>1. Arrows[5] =
        {<<1, 4>>, <<1, 3>>, <<1, 2>>, <<2, 4>>, <<3, 4>>,
         <<2, 3>>, <<3, 2>>, <<4, 1>>, <<5, 0>>}
  BY DEF Arrows
<1>2. \A p : Toward(5, p) = (-1) * (p[1] - 3) + 1 * (p[2] - 2)
  BY DEF Toward
<1>3. \A i \in 1 .. 9 : f[i] \in (0 .. 7) \X (0 .. 5)
  OBVIOUS
<1>4. \A i, j \in 1 .. 9 : f[i] = f[j] => i = j
  OBVIOUS
<1>5. Arrows[5] = {f[i] : i \in 1 .. 9}
  BY <1>1
<1>6. \A i \in 1 .. 4 : Toward(5, f[i]) > 0
  BY <1>2
<1>7. \A i \in 1 .. 7 : Toward(5, f[i]) >= 0
  BY <1>2
<1> HIDE DEF f
<1> QED
  BY <1>3, <1>4, <1>5, <1>6, <1>7, Heavier

LEMMA Arrow6 == Heavy(Arrows[6], 6)
<1> DEFINE f == <<<<1, 2>>, <<2, 3>>, <<2, 1>>, <<2, 2>>, <<3, 0>>,
                  <<3, 4>>, <<3, 2>>, <<4, 2>>, <<5, 2>>>>
<1>1. Arrows[6] =
        {<<1, 2>>, <<2, 3>>, <<2, 1>>, <<3, 0>>, <<3, 4>>,
         <<2, 2>>, <<3, 2>>, <<4, 2>>, <<5, 2>>}
  BY DEF Arrows
<1>2. \A p : Toward(6, p) = (-1) * (p[1] - 3) + 0 * (p[2] - 2)
  BY DEF Toward
<1>3. \A i \in 1 .. 9 : f[i] \in (0 .. 7) \X (0 .. 5)
  OBVIOUS
<1>4. \A i, j \in 1 .. 9 : f[i] = f[j] => i = j
  OBVIOUS
<1>5. Arrows[6] = {f[i] : i \in 1 .. 9}
  BY <1>1
<1>6. \A i \in 1 .. 4 : Toward(6, f[i]) > 0
  BY <1>2
<1>7. \A i \in 1 .. 7 : Toward(6, f[i]) >= 0
  BY <1>2
<1> HIDE DEF f
<1> QED
  BY <1>3, <1>4, <1>5, <1>6, <1>7, Heavier

LEMMA Arrow7 == Heavy(Arrows[7], 7)
<1> DEFINE f == <<<<1, 0>>, <<2, 0>>, <<1, 1>>, <<3, 0>>, <<1, 2>>,
                  <<2, 1>>, <<3, 2>>, <<4, 3>>, <<5, 4>>>>
<1>1. Arrows[7] =
        {<<1, 0>>, <<2, 0>>, <<3, 0>>, <<1, 1>>, <<1, 2>>,
         <<2, 1>>, <<3, 2>>, <<4, 3>>, <<5, 4>>}
  BY DEF Arrows
<1>2. \A p : Toward(7, p) = (-1) * (p[1] - 3) + (-1) * (p[2] - 2)
  BY DEF Toward
<1>3. \A i \in 1 .. 9 : f[i] \in (0 .. 7) \X (0 .. 5)
  OBVIOUS
<1>4. \A i, j \in 1 .. 9 : f[i] = f[j] => i = j
  OBVIOUS
<1>5. Arrows[7] = {f[i] : i \in 1 .. 9}
  BY <1>1
<1>6. \A i \in 1 .. 4 : Toward(7, f[i]) > 0
  BY <1>2
<1>7. \A i \in 1 .. 7 : Toward(7, f[i]) >= 0
  BY <1>2
<1> HIDE DEF f
<1> QED
  BY <1>3, <1>4, <1>5, <1>6, <1>7, Heavier

-----------------------------------------------------------------------------
(* The strip and the matrix.                                                *)

LitOf(pic) == {p \in Pixels8x6 : pic[Cell(p)] # Dark}

LEMMA LitIsOf == /\ Lit = LitOf(picture)
                 /\ Lit' = LitOf(picture')
BY Zenon DEF Lit, LitOf, Pixels8x6

LEMMA CellsAre ==
  \A c : c \in Cells <=> c \in Int /\ 0 <= c /\ c <= 47
BY DEF Cells, LED_WIDTH, LED_HEIGHT

LEMMA PixelsAre ==
  \A p \in Pixels8x6 : /\ p = <<p[1], p[2]>>
                       /\ p[1] \in Int /\ 0 <= p[1] /\ p[1] <= 7
                       /\ p[2] \in Int /\ 0 <= p[2] /\ p[2] <= 5
BY DEF Pixels8x6, LED_WIDTH, LED_HEIGHT

LEMMA ArePixels ==
  /\ \A x, y \in Int :
       0 <= x /\ x <= 7 /\ 0 <= y /\ y <= 5 => <<x, y>> \in Pixels8x6
  /\ (0 .. 7) \X (0 .. 5) = Pixels8x6
BY DEF Pixels8x6, LED_WIDTH, LED_HEIGHT

LEMMA OneCellEach ==
  /\ \A p \in Pixels8x6 : Cell(p) \in Cells /\ OnMatrix(p)
  /\ \A p, q \in Pixels8x6 : Cell(p) = Cell(q) => p = q
<1>1. \A p \in Pixels8x6 : Cell(p) = 8 * p[2] + 7 - p[1]
  BY PixelsAre DEF Cell, LED_WIDTH
<1>2. ASSUME NEW p \in Pixels8x6
      PROVE  Cell(p) \in Cells
  BY <1>1, PixelsAre, CellsAre
<1>3. ASSUME NEW p \in Pixels8x6
      PROVE  OnMatrix(p)
  BY PixelsAre DEF OnMatrix, LED_WIDTH, LED_HEIGHT
<1>4. ASSUME NEW p \in Pixels8x6, NEW q \in Pixels8x6, Cell(p) = Cell(q)
      PROVE  p = q
  <2>1. /\ p[1] \in Int /\ 0 <= p[1] /\ p[1] <= 7 /\ p[2] \in Int
        /\ q[1] \in Int /\ 0 <= q[1] /\ q[1] <= 7 /\ q[2] \in Int
    BY PixelsAre
  <2>2. 8 * p[2] + 7 - p[1] = 8 * q[2] + 7 - q[1]
    BY <1>1, <1>4
  <2>3. p[2] = q[2]
    BY <2>1, <2>2
  <2>4. p[1] = q[1]
    BY <2>1, <2>2, <2>3
  <2> QED
    BY <2>3, <2>4, PixelsAre
<1> QED
  BY <1>2, <1>3, <1>4

\* What is painted is what is lit.
LEMMA PaintedIsLit ==
  ASSUME NEW points, points \subseteq Pixels8x6, NEW colour, colour # Dark
  PROVE  LitOf(Painted(points, colour)) = points
<1>1. \A c \in Cells : Painted(points, colour)[c] =
        IF \E p \in points : OnMatrix(p) /\ Cell(p) = c THEN colour ELSE Dark
  BY Zenon DEF Painted
<1>2. \A q \in Pixels8x6 : Painted(points, colour)[Cell(q)] =
        IF \E p \in points : OnMatrix(p) /\ Cell(p) = Cell(q)
        THEN colour ELSE Dark
  BY <1>1, OneCellEach
<1>3. ASSUME NEW q \in Pixels8x6
      PROVE  (\E p \in points : OnMatrix(p) /\ Cell(p) = Cell(q))
               <=> q \in points
  BY OneCellEach
<1>4. \A q \in Pixels8x6 : Painted(points, colour)[Cell(q)] # Dark
        <=> q \in points
  BY <1>2, <1>3
<1> QED
  BY <1>4 DEF LitOf

Coloured == Shades \X Shades \X Shades

LEMMA ShadesAre == \A n : n \in Int /\ 0 <= n /\ n <= 255 => n \in Shades
BY DEF Shades

LEMMA PaintedIsPicture ==
  ASSUME NEW points, NEW colour \in Coloured
  PROVE  Painted(points, colour) \in [Cells -> Coloured]
<1>1. Dark \in Coloured
  BY ShadesAre DEF Dark, Coloured
<1> QED
  BY <1>1 DEF Painted

-----------------------------------------------------------------------------
(* The arithmetic of the pictures.                                          *)

LEMMA Bright ==
  ASSUME NEW lux \in Nat
  PROVE  /\ brightness_from_lux(lux) \in Int
         /\ 15 <= brightness_from_lux(lux) /\ brightness_from_lux(lux) <= 255
<1>1. PICK w : w = Within(lux, 10, 3000)
  OBVIOUS
<1>2. w \in Int /\ 10 <= w /\ w <= 3000
  BY <1>1 DEF Within
<1>3. PICK q : q = ((w - 10) * 240) \div 2990
  OBVIOUS
<1>4. q \in Int /\ 0 <= q /\ q <= 240
  BY <1>2, <1>3
<1> QED
  BY <1>1, <1>3, <1>4 DEF brightness_from_lux

LEMMA Square ==
  ASSUME NEW n \in Int
  PROVE  n * n \in Int /\ n * n >= 0 /\ (n * n < 1 => n = 0)
OBVIOUS

LEMMA Colours ==
  ASSUME NEW tilt2 \in Int, NEW b \in Int, 15 <= b, b <= 255
  PROVE  BubbleColour(tilt2, b) \in Coloured /\ BubbleColour(tilt2, b) # Dark
<1>1. PICK half : half = b \div 2
  OBVIOUS
<1>2. half \in Shades /\ b \in Shades /\ 0 \in Shades
  BY <1>1, ShadesAre
<1>3. BubbleColour(tilt2, b) \in
        {<<0, b, 0>>, <<b, b, 0>>, <<b, half, 0>>, <<b, 0, 0>>}
  BY <1>1 DEF BubbleColour
<1> QED
  BY <1>2, <1>3 DEF Coloured, Dark

LEMMA Centre ==
  ASSUME NEW a \in Int
  PROVE  LET x == Within(LED_WIDTH \div 2 +
                           Cut(Within(a, -30, 30) * (LED_WIDTH - 2), 60),
                         1, LED_WIDTH - 1)
         IN  /\ x \in 1 .. LED_WIDTH - 1
             /\ a >= 10 => x > 4
             /\ a <= -10 => x < 4
<1>1. PICK r : r = Within(a, -30, 30)
  OBVIOUS
<1>2. /\ r \in Int /\ -30 <= r /\ r <= 30
      /\ a >= 10 => r >= 10
      /\ a <= -10 => r <= -10
  BY <1>1 DEF Within
<1>3. PICK c : c = Cut(r * (LED_WIDTH - 2), 60)
  OBVIOUS
<1>4. /\ c \in Int
      /\ r >= 10 => c >= 1
      /\ r <= -10 => c <= -1
  BY <1>2, <1>3 DEF Cut, LED_WIDTH
<1>5. PICK x : x = Within(LED_WIDTH \div 2 + c, 1, LED_WIDTH - 1)
  OBVIOUS
<1>6. /\ x \in 1 .. LED_WIDTH - 1
      /\ c >= 1 => x > 4
      /\ c <= -1 => x < 4
  BY <1>4, <1>5 DEF Within, LED_WIDTH
<1> QED
  BY <1>1, <1>2, <1>3, <1>4, <1>5, <1>6

LEMMA Middle ==
  ASSUME NEW a \in Int
  PROVE  LET y == Within(LED_HEIGHT \div 2 +
                           Cut(Within(a, -30, 30) * (LED_HEIGHT - 2), 30),
                         1, LED_HEIGHT - 1)
         IN  /\ y \in 1 .. LED_HEIGHT - 1
             /\ a >= 10 => y > 3
             /\ a <= -10 => y < 3
<1>1. PICK r : r = Within(a, -30, 30)
  OBVIOUS
<1>2. /\ r \in Int /\ -30 <= r /\ r <= 30
      /\ a >= 10 => r >= 10
      /\ a <= -10 => r <= -10
  BY <1>1 DEF Within
<1>3. PICK c : c = Cut(r * (LED_HEIGHT - 2), 30)
  OBVIOUS
<1>4. /\ c \in Int
      /\ r >= 10 => c >= 1
      /\ r <= -10 => c <= -1
  BY <1>2, <1>3 DEF Cut, LED_HEIGHT
<1>5. PICK y : y = Within(LED_HEIGHT \div 2 + c, 1, LED_HEIGHT - 1)
  OBVIOUS
<1>6. /\ y \in 1 .. LED_HEIGHT - 1
      /\ c >= 1 => y > 3
      /\ c <= -1 => y < 3
  BY <1>4, <1>5 DEF Within, LED_HEIGHT
<1> QED
  BY <1>1, <1>2, <1>3, <1>4, <1>5, <1>6

\* The eight sectors are centred on their arrows.
LEMMA Sector ==
  ASSUME NEW h \in Int, 0 <= h, h < 720
  PROVE  ArrowIndex(h) \in 0 .. 7 /\ Near(h, ArrowIndex(h))
<1>1. PICK n : n = Normalised(h) % 360
  OBVIOUS
<1>2. PICK j \in {0, 1} : h = n + 360 * j /\ n \in Int /\ 0 <= n /\ n < 360
  <2>1. CASE h < 360
    <3>1. n = h
      BY <1>1, <2>1 DEF Normalised
    <3> QED
      BY <2>1, <3>1
  <2>2. CASE h >= 360
    <3>1. n = h - 360
      BY <1>1, <2>2 DEF Normalised
    <3> QED
      BY <2>2, <3>1
  <2> QED
    BY <2>1, <2>2
<1>3. PICK q, r : q = (n + 22) \div 45 /\ r = (n + 22) % 45
  OBVIOUS
<1>4. /\ q \in Int /\ 0 <= q /\ q <= 8
      /\ r \in Int /\ 0 <= r /\ r <= 44
      /\ n + 22 = 45 * q + r
  BY <1>2, <1>3
<1>5. PICK k : k = ArrowIndex(h)
  OBVIOUS
<1>6. k = q % 8
  BY <1>1, <1>3, <1>5 DEF ArrowIndex
<1>7. PICK i \in {0, 1} : q = k + 8 * i /\ k \in Int /\ 0 <= k /\ k <= 7
  BY <1>4, <1>6
<1>8. PICK t : t = j + i
  OBVIOUS
<1>9. t \in {0, 1, 2} /\ t \in Int
  BY <1>8
<1>10. h - 45 * k = r - 22 + 360 * t /\ 45 * k - h = 22 - r - 360 * t
  BY <1>2, <1>4, <1>7, <1>8
<1>11. CASE r >= 22
  <2>1. (r - 22 + 360 * t) % 360 = r - 22
    <3>1. /\ t = 0 => r - 22 + 360 * t = r - 22
          /\ t = 1 => r - 22 + 360 * t = r + 338
          /\ t = 2 => r - 22 + 360 * t = r + 698
      BY <1>4, <1>9
    <3>2. /\ (r - 22) % 360 = r - 22
          /\ (r + 338) % 360 = r - 22
          /\ (r + 698) % 360 = r - 22
      BY <1>4, <1>11
    <3> QED
      BY <1>9, <3>1, <3>2
  <2>2. (h - 45 * k) % 360 <= 22
    BY <1>4, <1>10, <2>1
  <2>3. Near(h, k)
    BY <2>2 DEF Near
  <2>4. k \in 0 .. 7
    BY <1>7
  <2> QED
    BY <1>5, <2>3, <2>4
<1>12. CASE r < 22
  <2>1. (22 - r - 360 * t) % 360 = 22 - r
    <3>1. /\ t = 0 => 22 - r - 360 * t = 22 - r
          /\ t = 1 => 22 - r - 360 * t = -338 - r
          /\ t = 2 => 22 - r - 360 * t = -698 - r
      BY <1>4, <1>9
    <3>2. /\ (22 - r) % 360 = 22 - r
          /\ (-338 - r) % 360 = 22 - r
          /\ (-698 - r) % 360 = 22 - r
      BY <1>4, <1>12
    <3> QED
      BY <1>9, <3>1, <3>2
  <2>2. (45 * k - h) % 360 <= 22
    BY <1>4, <1>10, <2>1
  <2>3. Near(h, k)
    BY <2>2 DEF Near
  <2>4. k \in 0 .. 7
    BY <1>7
  <2> QED
    BY <1>5, <2>3, <2>4
<1> QED
  BY <1>4, <1>11, <1>12

-----------------------------------------------------------------------------
(* The steps.                                                               *)

TiltInv ==
  /\ TiltTypeOK
  /\ angle \in Angles(acceleration)
  /\ PictureIsSound

LEMMA AngleTypes ==
  ASSUME NEW v \in Vectors, NEW a \in Angles(v)
  PROVE  a \in [pitch : -90..90, roll : -90..90, heading : 0..373]
<1>1. v[1] \in Int /\ v[2] \in Int /\ v[3] \in Int
  BY TiltAssumption
<1>2. \A x \in Int : Elevations(x) \subseteq -90 .. 90
  BY TiltAssumption DEF Elevations
<1>3. Pitches(v) \subseteq -90 .. 90
  <2>1. Pitches(v) \subseteq {-90} \cup Elevations(v[1]) \cup
                             {-p : p \in Elevations(v[1])}
    BY <1>1 DEF Pitches
  <2>2. \A p \in -90 .. 90 : -p \in -90 .. 90
    OBVIOUS
  <2> QED
    BY <1>1, <1>2, <2>1, <2>2
<1>4. Rolls(v) \subseteq -90 .. 90
  BY <1>1, <1>2 DEF Rolls
<1>5. {h + Declination : h \in Headings} \subseteq 0 .. 373
  BY TiltAssumption DEF Declination
<1> QED
  BY SMTT(30), <1>3, <1>4, <1>5 DEF Angles

LEMMA TiltStart == TiltInit => TiltInv
<1> SUFFICES ASSUME TiltInit PROVE TiltInv
  OBVIOUS
<1> USE DEF TiltInit
<1>1. angle \in [pitch : -90..90, roll : -90..90, heading : 0..373]
  BY AngleTypes
<1>2. picture \in [Cells -> Shades \X Shades \X Shades]
  <2>1. Dark \in Shades \X Shades \X Shades
    BY ShadesAre DEF Dark
  <2> QED
    BY <2>1
<1>3. TiltTypeOK
  BY <1>1, <1>2 DEF TiltTypeOK
<1>4. PictureIsSound
  BY DEF PictureIsSound, BubbleIsWhole, FreeFallIsNotLevel,
         ArrowPointsAtHeading
<1> QED
  BY <1>3, <1>4 DEF TiltInv

LEMMA AngleKeeps ==
  ASSUME TiltInv, NEW v \in Vectors, TakeAngle(v)
  PROVE  TiltInv'
<1> USE DEF TakeAngle
<1>1. angle' \in [pitch : -90..90, roll : -90..90, heading : 0..373]
  BY AngleTypes
<1>2. TiltTypeOK'
  BY <1>1 DEF TiltInv, TiltTypeOK
<1>3. PictureIsSound'
  BY DEF PictureIsSound, BubbleIsWhole, FreeFallIsNotLevel,
         ArrowPointsAtHeading
<1> QED
  BY <1>2, <1>3 DEF TiltInv

LEMMA TestKeeps ==
  ASSUME TiltInv, NEW lux \in LuxLevels, test(lux)
  PROVE  TiltInv'
<1> USE DEF test
<1>1. picture' \in [Cells -> Shades \X Shades \X Shades]
  <2>1. PICK b : b = brightness_from_lux(lux)
    OBVIOUS
  <2>2. b \in Shades /\ 0 \in Shades
    BY <2>1, Bright, ShadesAre, TiltAssumption
  <2>3. /\ <<0, b, 0>> \in Shades \X Shades \X Shades
        /\ <<0, 0, b>> \in Shades \X Shades \X Shades
    BY <2>2
  <2>4. PICK even : picture' = [c \in Cells |->
                      IF \E p \in even : Cell(p) = c
                      THEN <<0, b, 0>> ELSE <<0, 0, b>>]
    BY <2>1, Zenon
  <2> QED
    BY <2>3, <2>4
<1>2. TiltTypeOK'
  BY <1>1 DEF TiltInv, TiltTypeOK
<1>3. PictureIsSound'
  BY DEF PictureIsSound, BubbleIsWhole, FreeFallIsNotLevel,
         ArrowPointsAtHeading
<1> QED
  BY <1>2, <1>3 DEF TiltInv

LEMMA CompassKeeps ==
  ASSUME TiltInv, NEW lux \in LuxLevels, compass(lux)
  PROVE  TiltInv'
<1> USE DEF compass
<1>1. PICK b : b = brightness_from_lux(lux)
  OBVIOUS
<1>2. PICK colour : colour = <<0, (100 * b) \div 255, (200 * b) \div 255>>
  OBVIOUS
<1>3. colour \in Coloured /\ colour # Dark
  <2>1. b \in Int /\ 15 <= b /\ b <= 255
    BY <1>1, Bright, TiltAssumption
  <2>2. PICK g, u : g = (100 * b) \div 255 /\ u = (200 * b) \div 255
    OBVIOUS
  <2>3. g \in Int /\ 0 < g /\ g <= 255 /\ u \in Int /\ 0 < u /\ u <= 255
    BY <2>1, <2>2
  <2>4. 0 \in Shades /\ g \in Shades /\ u \in Shades
    BY <2>3, ShadesAre
  <2>5. colour = <<0, g, u>>
    BY <1>2, <2>2
  <2>6. colour \in Coloured
    BY <2>4, <2>5 DEF Coloured
  <2>7. colour # Dark
    BY <2>3, <2>5 DEF Dark
  <2> QED
    BY <2>6, <2>7
<1>4. PICK k : k = ArrowIndex(angle.heading)
  OBVIOUS
<1>5. k \in 0 .. 7 /\ Near(angle.heading, k)
  <2>1. angle.heading \in 0 .. 373
    BY DEF TiltInv, TiltTypeOK
  <2>2. PICK h : h = angle.heading
    OBVIOUS
  <2>3. h \in Int /\ 0 <= h /\ h < 720
    BY <2>1, <2>2
  <2> QED
    BY <1>4, <2>2, <2>3, Sector
<1>6. picture' = Painted(Arrows[k], colour)
  BY <1>1, <1>2, <1>4, Zenon
<1>7. Heavy(Arrows[k], k)
  BY <1>5, Arrow0, Arrow1, Arrow2, Arrow3, Arrow4, Arrow5, Arrow6, Arrow7
<1>8. Arrows[k] \subseteq Pixels8x6
  BY <1>7, ArePixels DEF Heavy
<1>9. Lit' = Arrows[k]
  BY <1>3, <1>6, <1>8, PaintedIsLit, LitIsOf
<1>10. angle' = angle /\ acceleration' = acceleration /\ shown' = "compass"
  OBVIOUS
<1>11. TiltTypeOK'
  <2>1. picture' \in [Cells -> Coloured]
    BY <1>3, <1>6, PaintedIsPicture
  <2> QED
    BY <2>1, <1>10 DEF TiltInv, TiltTypeOK, Coloured
<1>12. ArrowPointsAtHeading'
  BY <1>5, <1>7, <1>9, <1>10 DEF ArrowPointsAtHeading, Heavy
<1>13. PictureIsSound'
  BY <1>10, <1>12 DEF PictureIsSound, BubbleIsWhole, FreeFallIsNotLevel
<1> QED
  BY <1>10, <1>11, <1>13 DEF TiltInv

LEMMA BubbleKeeps ==
  ASSUME TiltInv, NEW lux \in LuxLevels, bubble_level(lux)
  PROVE  TiltInv'
<1>1. PICK pitch, roll : /\ pitch = Within(angle.pitch, -30, 30)
                         /\ roll = Within(angle.roll, -30, 30)
  OBVIOUS
<1>2. PICK tilt2 : tilt2 = pitch * pitch + roll * roll
  OBVIOUS
<1>3. PICK x : x = Within(LED_WIDTH \div 2 + Cut(roll * (LED_WIDTH - 2), 60),
                          1, LED_WIDTH - 1)
  OBVIOUS
<1>4. PICK y : y = Within(LED_HEIGHT \div 2 +
                            Cut(pitch * (LED_HEIGHT - 2), 30),
                          1, LED_HEIGHT - 1)
  OBVIOUS
<1>5. PICK b : b = brightness_from_lux(lux)
  OBVIOUS
<1>6. /\ picture' = IF tilt2 < 1 THEN [c \in Cells |-> <<0, b, 0>>]
                    ELSE Painted({x - 1, x} \X {y - 1, y},
                                 BubbleColour(tilt2, b))
      /\ shown' = "bubble"
      /\ acceleration' = acceleration /\ angle' = angle
  BY <1>1, <1>2, <1>3, <1>4, <1>5 DEF bubble_level
<1>7. /\ angle.pitch \in Int /\ angle.roll \in Int
      /\ Weightless(acceleration) => angle.pitch = -90
  <2>1. Weightless(acceleration) => Pitches(acceleration) = {-90}
    BY DEF Pitches
  <2> QED
    BY <2>1 DEF TiltInv, TiltTypeOK, Angles
<1>8. /\ pitch \in Int /\ roll \in Int
      /\ pitch = 0 => angle.pitch = 0
      /\ roll = 0 => angle.roll = 0
  BY <1>1, <1>7 DEF Within
<1>9. /\ tilt2 \in Int
      /\ tilt2 < 1 => pitch = 0 /\ roll = 0
  <2>1. PICK s, t : s = pitch * pitch /\ t = roll * roll
    OBVIOUS
  <2>2. /\ s \in Int /\ s >= 0 /\ (s < 1 => pitch = 0)
        /\ t \in Int /\ t >= 0 /\ (t < 1 => roll = 0)
    BY <1>8, <2>1, Square
  <2>3. tilt2 = s + t
    BY <1>2, <2>1
  <2> QED
    BY <2>2, <2>3
<1>10. b \in Int /\ 15 <= b /\ b <= 255
  BY <1>5, Bright, TiltAssumption
<1>11. /\ x \in 1 .. LED_WIDTH - 1
       /\ angle.roll >= 10 => x > 4
       /\ angle.roll <= -10 => x < 4
  BY <1>1, <1>3, <1>7, Centre
<1>12. /\ y \in 1 .. LED_HEIGHT - 1
       /\ angle.pitch >= 10 => y > 3
       /\ angle.pitch <= -10 => y < 3
  BY <1>1, <1>4, <1>7, Middle
<1>13. TiltTypeOK' /\ BubbleIsWhole' /\ FreeFallIsNotLevel'
  <2>1. CASE tilt2 < 1
    <3>1. picture' = [c \in Cells |-> <<0, b, 0>>]
      BY <1>6, <2>1
    <3>2. picture' \in [Cells -> Shades \X Shades \X Shades]
      BY <1>10, <3>1, ShadesAre
    <3>3. Lit' = Pixels8x6
      <4>1. \A p \in Pixels8x6 : picture'[Cell(p)] # Dark
        BY <1>10, <3>1, OneCellEach DEF Dark
      <4> QED
        BY <4>1, LitIsOf DEF LitOf
    <3>4. Cardinality(Lit') = LED_WIDTH * LED_HEIGHT
      BY <3>3, AllPixels
    <3>5. angle.pitch = 0 /\ angle.roll = 0
      BY <1>8, <1>9, <2>1
    <3>6. BubbleIsWhole'
      BY <1>6, <3>4, <3>5 DEF BubbleIsWhole
    <3>7. FreeFallIsNotLevel'
      BY <1>6, <1>7, <3>5 DEF FreeFallIsNotLevel, Weightless
    <3>8. TiltTypeOK'
      BY <1>6, <3>2 DEF TiltInv, TiltTypeOK
    <3> QED
      BY <3>6, <3>7, <3>8
  <2>2. CASE ~(tilt2 < 1)
    <3>1. PICK points, colour : /\ points = {x - 1, x} \X {y - 1, y}
                                /\ colour = BubbleColour(tilt2, b)
      OBVIOUS
    <3>2. picture' = Painted(points, colour)
      BY <1>6, <2>2, <3>1
    <3>3. colour \in Coloured /\ colour # Dark
      BY <1>9, <1>10, <3>1, Colours
    <3>4. /\ x \in Int /\ 1 <= x /\ x <= 7
          /\ y \in Int /\ 1 <= y /\ y <= 5
      BY <1>11, <1>12 DEF LED_WIDTH, LED_HEIGHT
    <3>5. points = {<<x - 1, y - 1>>, <<x - 1, y>>, <<x, y - 1>>, <<x, y>>}
      BY <3>1, <3>4
    <3>6. points \subseteq Pixels8x6
      BY <3>4, <3>5, ArePixels
    <3>7. Lit' = points
      BY <3>2, <3>3, <3>6, PaintedIsLit, LitIsOf
    <3>8. Cardinality(points) = 4
      <4>1. PICK f : f = <<<<x - 1, y - 1>>, <<x - 1, y>>,
                           <<x, y - 1>>, <<x, y>>>>
        OBVIOUS
      <4>2. PICK n \in Nat : n = 4
        OBVIOUS
      <4>3. Lists(f, n, points)
        BY <3>4, <3>5, <4>1, <4>2 DEF Lists
      <4> QED
        BY <4>2, <4>3, Points
    <3>9. BubbleIsWhole'
      BY <1>6, <1>11, <1>12, <3>1, <3>7 DEF BubbleIsWhole
    <3>10. FreeFallIsNotLevel'
      BY <3>7, <3>8 DEF FreeFallIsNotLevel
    <3>11. picture' \in [Cells -> Coloured]
      BY <3>2, <3>3, PaintedIsPicture
    <3>12. TiltTypeOK'
      BY <1>6, <3>11 DEF TiltInv, TiltTypeOK, Coloured
    <3> QED
      BY <3>9, <3>10, <3>12
  <2> QED
    BY <2>1, <2>2
<1>14. ArrowPointsAtHeading'
  BY <1>6 DEF ArrowPointsAtHeading
<1> QED
  BY <1>6, <1>13, <1>14 DEF TiltInv, PictureIsSound

LEMMA TiltSteps == TiltInv /\ [TiltNext]_tiltVars => TiltInv'
<1> SUFFICES ASSUME TiltInv, [TiltNext]_tiltVars
             PROVE  TiltInv'
  OBVIOUS
<1>1. CASE UNCHANGED tiltVars
  BY <1>1 DEF tiltVars, TiltInv, TiltTypeOK, PictureIsSound, BubbleIsWhole,
              FreeFallIsNotLevel, ArrowPointsAtHeading, Lit
<1>2. CASE \E v \in Vectors : TakeAngle(v)
  BY <1>2, AngleKeeps
<1>3. CASE \E lux \in LuxLevels : bubble_level(lux)
  BY <1>3, BubbleKeeps
<1>4. CASE \E lux \in LuxLevels : compass(lux)
  BY <1>4, CompassKeeps
<1>5. CASE \E lux \in LuxLevels : test(lux)
  BY <1>5, TestKeeps
<1> QED
  BY <1>1, <1>2, <1>3, <1>4, <1>5 DEF TiltNext

\* For any readings, tilts and headings: the bubble is whole and on the side of
\* the tilt, free fall is not shown as level, the arrow points to the direction
\* nearest to the heading (magnetometer_angle, bubble_level, compass); and the
\* variables keep their types.
THEOREM PictureCorrect == TiltSpec => [](TiltTypeOK /\ PictureIsSound)
<1>1. TiltInv => TiltTypeOK /\ PictureIsSound
  BY DEF TiltInv
<1> QED
  BY <1>1, TiltStart, TiltSteps, PTL DEF TiltSpec

-----------------------------------------------------------------------------
(* The light: LightFilter.                                                 *)

\* What has been read of a reading without a failure is of one exposure, and
\* the chip holds it until all is read.
BytesAreTaken ==
  readWhole =>
    /\ lightStep \in 2 .. 5 =>
         \A k \in 1 .. lightStep - 1 : raw_data[k] = Register(taken, Order[k])
    /\ lightStep \in 2 .. 4 => frozen = taken

\* The bounds the filters stay between.
Bounded ==
  \/ luxSeen = <<>> /\ smoothed_lux = -1 /\ prev_lux = -1
  \/ \E lo \in Nat, hi \in Nat :
       /\ luxSeen = <<lo, hi>>
       /\ lo <= smoothed_lux /\ smoothed_lux <= hi
       /\ lo <= prev_lux /\ prev_lux <= hi
       /\ lo <= light.lux /\ light.lux <= hi

LightInv == LightTypeOK /\ BytesAreTaken /\ NeverTorn /\ Bounded

LEMMA LightConstants ==
  /\ ByteSize \in Nat /\ ByteSize > 1
  /\ \A b \in Garbage : b \in 0 .. ByteSize - 1
  /\ \A e \in Exposures : e # None /\ e[1] \in Words /\ e[2] \in Words
                          /\ e = <<e[1], e[2]>>
  /\ Exposures # {} /\ Garbage # {} /\ MaxReads \in Nat
<1>1. ASSUME NEW e \in Exposures
      PROVE  e # None /\ e[1] \in Words /\ e[2] \in Words /\ e = <<e[1], e[2]>>
  <2>1. e \in Words \X Words
    BY LightAssumption DEF LightAssumption, Words
  <2>2. PICK a \in Words, b \in Words : e = <<a, b>>
    BY <2>1
  <2>3. e[1] = a /\ e[2] = b
    BY <2>2
  <2>4. <<a, b>> # <<>>
    OBVIOUS
  <2> QED
    BY <2>2, <2>3, <2>4 DEF None
<1> QED
  BY <1>1, LightAssumption DEF LightAssumption

\* A word is its two bytes, and two bytes make a word.
LEMMA BytesOfWord ==
  ASSUME NEW B \in Nat, B > 1, NEW w \in 0 .. B * B - 1
  PROVE  /\ w % B \in 0 .. B - 1 /\ w \div B \in 0 .. B - 1
         /\ (w \div B) * B + (w % B) = w
<1>1. w \in Nat /\ w % B \in 0 .. B - 1 /\ w \div B \in Int
  OBVIOUS
<1>2. w = B * (w \div B) + (w % B)
  OBVIOUS
<1> DEFINE q == w \div B  r == w % B
<1>3. q \in Int /\ r \in 0 .. B - 1 /\ w = B * q + r
  BY <1>1, <1>2
<1>4. B * q = q * B
  BY <1>3
<1> HIDE DEF q, r
<1>5. w < B * B
  BY <1>1
<1>6. q >= 0
  <2>1. ASSUME q <= -1 PROVE FALSE
    <3>1. B * q <= B * (-1)
      BY <1>3, <2>1
    <3> QED
      BY <1>1, <1>3, <3>1
  <2> QED
    BY <1>3, <2>1
<1>7. q <= B - 1
  <2>1. ASSUME q >= B PROVE FALSE
    <3>1. B * q >= B * B
      BY <1>3, <2>1
    <3> QED
      BY <1>3, <1>5, <3>1
  <2> QED
    BY <1>3, <2>1
<1> QED
  BY <1>3, <1>4, <1>6, <1>7 DEF q, r

LEMMA WordOfBytes ==
  ASSUME NEW B \in Nat, B > 1, NEW h \in 0 .. B - 1, NEW l \in 0 .. B - 1
  PROVE  h * B + l \in 0 .. B * B - 1
<1>1. h * B <= (B - 1) * B /\ h * B >= 0 /\ h * B \in Int
  OBVIOUS
<1>2. (B - 1) * B = B * B - B
  OBVIOUS
<1> QED
  BY <1>1, <1>2

LEMMA RegisterTypes ==
  ASSUME NEW e \in Exposures, NEW k \in 1 .. 4
  PROVE  /\ Register(e, Order[k]) \in 0 .. ByteSize - 1
         /\ Slot(Order[k]) = k
<1>1. e[1] \in Words /\ e[2] \in Words /\ ByteSize \in Nat /\ ByteSize > 1
  BY LightConstants
<1>2. /\ e[1] % ByteSize \in 0 .. ByteSize - 1
      /\ e[1] \div ByteSize \in 0 .. ByteSize - 1
  BY <1>1, BytesOfWord DEF Words
<1>3. /\ e[2] % ByteSize \in 0 .. ByteSize - 1
      /\ e[2] \div ByteSize \in 0 .. ByteSize - 1
  BY <1>1, BytesOfWord DEF Words
<1>4. k \in {1, 2, 3, 4}
  OBVIOUS
<1>5. Register(e, Order[k]) \in 0 .. ByteSize - 1
  BY <1>2, <1>3, <1>4 DEF Register, Order
<1>6. \A j \in 1 .. 4 : Order[j] = Order[k] => j = k
  BY <1>4 DEF Order
<1>7. Slot(Order[k]) \in 1 .. 4 /\ Order[Slot(Order[k])] = Order[k]
  BY DEF Slot
<1> QED
  BY <1>5, <1>6, <1>7

LEMMA WholeWords ==
  ASSUME NEW e \in Exposures
  PROVE  /\ Register(e, Order[2]) * ByteSize + Register(e, Order[1]) = e[2]
         /\ Register(e, Order[4]) * ByteSize + Register(e, Order[3]) = e[1]
<1>1. e[1] \in Words /\ e[2] \in Words /\ ByteSize \in Nat /\ ByteSize > 1
  BY LightConstants
<1>2. /\ Register(e, Order[1]) = e[2] % ByteSize
      /\ Register(e, Order[2]) = e[2] \div ByteSize
      /\ Register(e, Order[3]) = e[1] % ByteSize
      /\ Register(e, Order[4]) = e[1] \div ByteSize
  BY DEF Register, Order
<1>3. (e[2] \div ByteSize) * ByteSize + (e[2] % ByteSize) = e[2]
  BY <1>1, BytesOfWord DEF Words
<1>4. (e[1] \div ByteSize) * ByteSize + (e[1] % ByteSize) = e[1]
  BY <1>1, BytesOfWord DEF Words
<1> QED
  BY <1>2, <1>3, <1>4

LEMMA LuxTypes ==
  ASSUME NEW a \in Nat, NEW b \in Nat
  PROVE  LightLux(a, b) \in Nat
<1>1. CASE a = 0 \/ a < b
  BY <1>1 DEF LightLux
<1>2. CASE ~(a = 0 \/ a < b)
  <2>1. (a - b) * (a - b) \in Nat
    BY <1>2
  <2> DEFINE n == (a - b) * (a - b)
  <2>2. LightLux(a, b) = (n * 408) \div (100 * a)
    BY <1>2 DEF LightLux
  <2>3. n \in Nat /\ 100 * a \in Nat \ {0}
    BY <1>2, <2>1
  <2> HIDE DEF n
  <2> QED
    BY <2>2, <2>3
<1> QED
  BY <1>1, <1>2

\* A mixture lies between what it is mixed from.
LEMMA MixedBetween ==
  ASSUME NEW alpha \in {5, 20, 70}, NEW x \in Nat, NEW y \in Nat,
         NEW lo \in Nat, NEW hi \in Nat,
         lo <= x, x <= hi, lo <= y, y <= hi, NEW z \in Mixed(alpha, x, y)
  PROVE  z \in Nat /\ lo <= z /\ z <= hi
<1>1. \/ z = (alpha * x + (100 - alpha) * y) \div 100
      \/ z = ((alpha * x + (100 - alpha) * y) + 99) \div 100
  BY DEF Mixed
<1>2. CASE alpha = 5
  BY <1>1, <1>2
<1>3. CASE alpha = 20
  BY <1>1, <1>3
<1>4. CASE alpha = 70
  BY <1>1, <1>4
<1> QED
  BY <1>2, <1>3, <1>4

LEMMA LightStart == LightInit => LightInv
<1> SUFFICES ASSUME LightInit PROVE LightInv
  OBVIOUS
<1>1. /\ lightStep = 0 /\ reads = 0 /\ luxSeen = <<>> /\ frozen = None
      /\ smoothed_lux = -1 /\ prev_lux = -1 /\ readWhole = TRUE
      /\ light = [ch0 |-> 0, ch1 |-> 0, lux |-> 0]
  BY DEF LightInit
<1>2. exposure \in Exposures /\ taken \in Exposures
  BY LightConstants DEF LightInit
<1>3. raw_data \in [1 .. 4 -> 0 .. ByteSize - 1]
  BY LightConstants DEF LightInit
<1>4. 0 \in Words
  <2>1. ByteSize * ByteSize > 0
    BY LightConstants
  <2> QED
    BY <2>1, LightConstants DEF Words
<1>5. LightTypeOK
  BY <1>1, <1>2, <1>3, <1>4, LightConstants DEF LightTypeOK
<1> QED
  BY <1>1, <1>5 DEF LightInv, BytesAreTaken, NeverTorn, Bounded

LEMMA ReadByteKeeps == LightInv /\ ReadByte => LightInv'
<1> SUFFICES ASSUME LightInv, ReadByte PROVE LightInv'
  OBVIOUS
<1> DEFINE r == Order[lightStep]
<1>1. /\ lightStep \in 1 .. 4 /\ lightStep' = lightStep + 1
      /\ raw_data' = [raw_data EXCEPT ![Slot(r)] = Register(Shown, r)]
      /\ taken' = IF lightStep = 1 THEN Shown ELSE taken
      /\ UNCHANGED <<exposure, light, smoothed_lux, prev_lux, luxSeen,
                     readWhole, reads>>
  BY DEF ReadByte, ReadOrder
<1>2. frozen' = CASE r = "CH1_LOW"  -> Shown
                  [] r = "CH0_HIGH" -> None
                  [] OTHER          -> frozen
  BY DEF ReadByte, ReadOrder
<1>3. Shown \in Exposures
  BY DEF Shown, LightInv, LightTypeOK
<1>4. Slot(r) = lightStep /\ Register(Shown, r) \in 0 .. ByteSize - 1
  BY <1>1, <1>3, RegisterTypes
<1>5. lightStep \in {1, 2, 3, 4}
  BY <1>1
<1>6. /\ lightStep = 1 => frozen' = Shown
      /\ lightStep \in {2, 3} => frozen' = frozen
      /\ lightStep = 4 => frozen' = None
  BY <1>2, <1>5 DEF Order
<1>t. /\ frozen \in Exposures \cup {None} /\ taken \in Exposures
      /\ raw_data \in [1 .. 4 -> 0 .. ByteSize - 1]
  BY DEF LightInv, LightTypeOK
<1>7. frozen' \in Exposures \cup {None} /\ taken' \in Exposures
  BY <1>1, <1>3, <1>5, <1>6, <1>t
<1>8. /\ raw_data' \in [1 .. 4 -> 0 .. ByteSize - 1]
      /\ raw_data'[lightStep] = Register(Shown, r)
      /\ \A k \in 1 .. 4 : k # lightStep => raw_data'[k] = raw_data[k]
  BY <1>1, <1>4, <1>t
<1>9. LightTypeOK'
  BY <1>1, <1>7, <1>8 DEF LightInv, LightTypeOK
<1>10. readWhole => Shown = taken'
  <2>1. ASSUME readWhole, lightStep \in {2, 3, 4} PROVE Shown = taken'
    <3>1. frozen = taken
      BY <2>1 DEF LightInv, BytesAreTaken
    <3> QED
      BY <1>1, <1>t, <2>1, <3>1, LightConstants DEF Shown
  <2> QED
    BY <1>1, <1>5, <2>1
<1>11. BytesAreTaken'
  <2>1. ASSUME readWhole PROVE lightStep' \in 2 .. 4 => frozen' = taken'
    <3>1. lightStep \in {2, 3} => frozen = taken /\ taken' = taken
      BY <1>1, <2>1 DEF LightInv, BytesAreTaken
    <3> QED
      BY <1>1, <1>5, <1>6, <1>10, <2>1, <3>1
  <2>2. ASSUME readWhole, NEW k \in 1 .. lightStep' - 1
        PROVE  raw_data'[k] = Register(taken', Order[k])
    <3>1. CASE k = lightStep
      BY <1>8, <1>10, <2>2, <3>1
    <3>2. CASE k # lightStep
      <4>1. k \in 1 .. lightStep - 1 /\ k \in 1 .. 4 /\ lightStep \in 2 .. 5
        BY <1>1, <2>2, <3>2
      <4>2. raw_data[k] = Register(taken, Order[k])
        BY <2>2, <4>1 DEF LightInv, BytesAreTaken
      <4>3. taken' = taken
        BY <1>1, <4>1
      <4> QED
        BY <1>8, <3>2, <4>1, <4>2, <4>3
    <3> QED
      BY <3>1, <3>2
  <2> QED
    BY <1>1, <2>1, <2>2 DEF BytesAreTaken
<1>12. NeverTorn'
  BY <1>1 DEF NeverTorn
<1>13. Bounded'
  BY <1>1 DEF LightInv, Bounded
<1> QED
  BY <1>9, <1>11, <1>12, <1>13 DEF LightInv

LEMMA EvaluateKeeps == LightInv /\ Evaluate => LightInv'
<1> SUFFICES ASSUME LightInv, Evaluate PROVE LightInv'
  OBVIOUS
<1>0. PICK w1, w0 : /\ w1 = raw_data[2] * ByteSize + raw_data[1]
                    /\ w0 = raw_data[4] * ByteSize + raw_data[3]
  OBVIOUS
<1>1. PICK lux : lux = LightLux(w0, w1)
  OBVIOUS
<1>2. /\ lightStep = 5 /\ lightStep' = 0
      /\ smoothed_lux' \in Smoothed(lux)
      /\ prev_lux' \in Averaged(smoothed_lux')
      /\ light' = [ch0 |-> w0, ch1 |-> w1, lux |-> prev_lux']
      /\ luxSeen' = Widened(lux)
      /\ UNCHANGED <<exposure, frozen, raw_data, readWhole, taken, reads>>
  BY <1>0, <1>1 DEF Evaluate
<1>3. w1 \in Words /\ w0 \in Words
  <2>1. /\ raw_data[1] \in 0 .. ByteSize - 1
        /\ raw_data[2] \in 0 .. ByteSize - 1
        /\ raw_data[3] \in 0 .. ByteSize - 1
        /\ raw_data[4] \in 0 .. ByteSize - 1
    BY DEF LightInv, LightTypeOK
  <2> QED
    BY <1>0, <2>1, WordOfBytes, LightConstants DEF Words
<1>4. w1 \in Nat /\ w0 \in Nat
  BY <1>3, LightConstants DEF Words
<1>5. lux \in Nat
  BY <1>1, <1>4, LuxTypes
<1>6. PICK lo \in Nat, hi \in Nat :
         /\ luxSeen' = <<lo, hi>> /\ lo <= lux /\ lux <= hi
         /\ smoothed_lux = -1 \/ smoothed_lux \in lo .. hi
         /\ prev_lux = -1 \/ prev_lux \in lo .. hi
  <2>1. CASE luxSeen = <<>> /\ smoothed_lux = -1 /\ prev_lux = -1
    <3>1. luxSeen' = <<lux, lux>>
      BY <1>2, <2>1 DEF Widened
    <3> QED
      BY <1>5, <2>1, <3>1
  <2>2. CASE \E a \in Nat, b \in Nat :
               /\ luxSeen = <<a, b>>
               /\ a <= smoothed_lux /\ smoothed_lux <= b
               /\ a <= prev_lux /\ prev_lux <= b
    <3>1. PICK a \in Nat, b \in Nat :
               /\ luxSeen = <<a, b>>
               /\ a <= smoothed_lux /\ smoothed_lux <= b
               /\ a <= prev_lux /\ prev_lux <= b
      BY <2>2
    <3>2. luxSeen # <<>> /\ luxSeen[1] = a /\ luxSeen[2] = b
      BY <3>1
    <3>3. luxSeen' = <<Low(a, lux), High(b, lux)>>
      BY <1>2, <3>2 DEF Widened
    <3>4. PICK c, d : c = Low(a, lux) /\ d = High(b, lux)
      OBVIOUS
    <3>5. /\ c \in Nat /\ d \in Nat /\ c <= a /\ b <= d
          /\ c <= lux /\ lux <= d
      BY <1>5, <3>1, <3>4 DEF Low, High
    <3>6. smoothed_lux \in Int /\ prev_lux \in Int
      BY DEF LightInv, LightTypeOK
    <3>7. smoothed_lux \in c .. d /\ prev_lux \in c .. d
      BY <3>1, <3>5, <3>6
    <3> QED
      BY <3>3, <3>4, <3>5, <3>7
  <2> QED
    BY <2>1, <2>2 DEF LightInv, Bounded
<1>7. smoothed_lux' \in Nat /\ lo <= smoothed_lux' /\ smoothed_lux' <= hi
  <2>1. CASE smoothed_lux < 0
    BY <1>2, <1>5, <1>6, <2>1 DEF Smoothed
  <2>2. CASE ~(smoothed_lux < 0)
    <3>1. smoothed_lux \in Nat /\ lo <= smoothed_lux /\ smoothed_lux <= hi
      BY <1>6, <2>2
    <3>2. smoothed_lux' \in Mixed(Alpha(lux), lux, smoothed_lux)
      BY <1>2, <2>2 DEF Smoothed
    <3>3. Alpha(lux) \in {5, 20, 70}
      BY DEF Alpha, JumpAlpha, BaseAlpha
    <3> QED
      BY <1>5, <1>6, <3>1, <3>2, <3>3, MixedBetween
  <2> QED
    BY <2>1, <2>2
<1>8. prev_lux' \in Nat /\ lo <= prev_lux' /\ prev_lux' <= hi
  <2>1. CASE prev_lux < 0
    BY <1>2, <1>7, <2>1 DEF Averaged
  <2>2. CASE ~(prev_lux < 0)
    <3>1. prev_lux \in Nat /\ lo <= prev_lux /\ prev_lux <= hi
      BY <1>6, <2>2
    <3>2. prev_lux' \in Mixed(20, smoothed_lux', prev_lux)
      BY <1>2, <2>2 DEF Averaged, LuxAlpha
    <3> QED
      BY <1>6, <1>7, <3>1, <3>2, MixedBetween
  <2> QED
    BY <2>1, <2>2
<1>9. light'.ch0 = w0 /\ light'.ch1 = w1 /\ light'.lux = prev_lux'
  BY <1>2
<1>10. LightTypeOK'
  BY <1>2, <1>3, <1>7, <1>8, <1>9 DEF LightInv, LightTypeOK
<1>11. Bounded'
  BY <1>6, <1>7, <1>8, <1>9 DEF Bounded
<1>12. NeverTorn'
  <2> SUFFICES ASSUME readWhole PROVE <<w0, w1>> = taken
    BY <1>2, <1>9 DEF NeverTorn
  <2>1. \A k \in 1 .. 4 : raw_data[k] = Register(taken, Order[k])
    BY <1>2 DEF LightInv, BytesAreTaken
  <2>2. taken \in Exposures
    BY DEF LightInv, LightTypeOK
  <2>3. w1 = taken[2] /\ w0 = taken[1]
    BY <1>0, <2>1, <2>2, WholeWords
  <2> QED
    BY <2>2, <2>3, LightConstants
<1>13. BytesAreTaken'
  BY <1>2 DEF BytesAreTaken
<1> QED
  BY <1>10, <1>11, <1>12, <1>13 DEF LightInv

LEMMA LightSteps == LightInv /\ [LightNext]_lightVars => LightInv'
<1> SUFFICES ASSUME LightInv, [LightNext]_lightVars PROVE LightInv'
  OBVIOUS
<1>1. ASSUME NEW e \in Exposures, Expose(e) PROVE LightInv'
  <2>1. LightTypeOK'
    BY <1>1 DEF Expose, LightInv, LightTypeOK
  <2> QED
    BY <1>1, <2>1 DEF Expose, LightInv, BytesAreTaken, NeverTorn, Bounded
<1>2. CASE BeginLight
  <2>1. raw_data' \in [1 .. 4 -> 0 .. ByteSize - 1]
    BY <1>2, LightConstants DEF BeginLight
  <2>2. lightStep' = 1 /\ reads' \in 0 .. MaxReads
    BY <1>2, LightConstants DEF BeginLight, LightInv, LightTypeOK
  <2>3. LightTypeOK'
    BY <1>2, <2>1, <2>2 DEF BeginLight, LightInv, LightTypeOK
  <2> QED
    BY <1>2, <2>2, <2>3
       DEF BeginLight, LightInv, BytesAreTaken, NeverTorn, Bounded
<1>3. CASE ReadByte
  BY <1>3, ReadByteKeeps
<1>4. CASE MissByte
  <2>0. lightStep' \in 0 .. 5
    BY <1>4 DEF MissByte
  <2>1. LightTypeOK'
    BY <1>4, <2>0 DEF MissByte, LightInv, LightTypeOK
  <2> QED
    BY <1>4, <2>1 DEF MissByte, LightInv, BytesAreTaken, NeverTorn, Bounded
<1>5. CASE Evaluate
  BY <1>5, EvaluateKeeps
<1>6. CASE UNCHANGED lightVars
  <2>1. LightTypeOK'
    BY <1>6 DEF lightVars, LightInv, LightTypeOK
  <2> QED
    BY <1>6, <2>1 DEF lightVars, LightInv, BytesAreTaken, NeverTorn, Bounded
<1> QED
  BY <1>1, <1>2, <1>3, <1>4, <1>5, <1>6 DEF LightNext

\* For any exposures, and whichever of the four transfers fail: the words of a
\* whole reading are of one exposure, and no filter shows a light darker or
\* brighter than every lux computed so far (light_sensor_read and
\* sensors_read); and the variables keep their types.
THEOREM LuxCorrect == LightSpec => [](LightTypeOK /\ LuxIsSound)
<1>1. LightInv => LightTypeOK /\ LuxIsSound
  <2> SUFFICES ASSUME LightInv PROVE LuxIsSound
    BY DEF LightInv
  <2>1. NeverTorn
    BY DEF LightInv
  <2>2. LuxStaysBetween
    <3> SUFFICES ASSUME luxSeen # <<>>, NEW lux \in {smoothed_lux, prev_lux,
                          light.lux}
                 PROVE  luxSeen[1] <= lux /\ lux <= luxSeen[2]
      BY DEF LuxStaysBetween
    <3>1. PICK lo \in Nat, hi \in Nat :
             /\ luxSeen = <<lo, hi>>
             /\ lo <= smoothed_lux /\ smoothed_lux <= hi
             /\ lo <= prev_lux /\ prev_lux <= hi
             /\ lo <= light.lux /\ light.lux <= hi
      BY DEF LightInv, Bounded
    <3>2. luxSeen[1] = lo /\ luxSeen[2] = hi
      BY <3>1
    <3> QED
      BY <3>1, <3>2
  <2> QED
    BY <2>1, <2>2 DEF LuxIsSound
<1> QED
  BY <1>1, LightStart, LightSteps, PTL DEF LightSpec

-----------------------------------------------------------------------------
(* The packet: SensorPacket.                                               *)

-----------------------------------------------------------------------------
(* The integer types.                                                       *)

\* A range is used by its bounds: a prover would list its members.
LEMMA OctetsAre ==
  \A v : v \in Octets <=> v \in Int /\ 0 <= v /\ v <= 255
<1>1. PICK a, b : a = 0 /\ b = 255
  OBVIOUS
<1>2. Octets = a .. b
  BY <1>1 DEF Octets
<1>3. a \in Int /\ b \in Int
  BY <1>1
<1>4. \A v : v \in Octets <=> v \in Int /\ a <= v /\ v <= b
  BY <1>2, <1>3
<1> QED
  BY <1>1, <1>4

LEMMA Words16Are ==
  \A v : v \in Words16 <=> v \in Int /\ 0 <= v /\ v <= 65535
<1>1. PICK a, b : a = 0 /\ b = 65535
  OBVIOUS
<1>2. Words16 = a .. b
  BY <1>1 DEF Words16
<1>3. a \in Int /\ b \in Int
  BY <1>1
<1>4. \A v : v \in Words16 <=> v \in Int /\ a <= v /\ v <= b
  BY <1>2, <1>3
<1> QED
  BY <1>1, <1>4

LEMMA ShortsAre ==
  \A v : v \in Shorts <=> v \in Int /\ -32768 <= v /\ v <= 32767
<1>1. PICK a, b : a = -32768 /\ b = 32767
  OBVIOUS
<1>2. Shorts = a .. b
  BY <1>1 DEF Shorts
<1>3. a \in Int /\ b \in Int
  BY <1>1
<1>4. \A v : v \in Shorts <=> v \in Int /\ a <= v /\ v <= b
  BY <1>2, <1>3
<1> QED
  BY <1>1, <1>4

LEMMA HalvesAre ==
  \A v : v \in Halves <=> v \in Int /\ -16384 <= v /\ v <= 16383
<1>1. PICK a, b : a = -16384 /\ b = 16383
  OBVIOUS
<1>2. Halves = a .. b
  BY <1>1 DEF Halves
<1>3. a \in Int /\ b \in Int
  BY <1>1
<1>4. \A v : v \in Halves <=> v \in Int /\ a <= v /\ v <= b
  BY <1>2, <1>3
<1> QED
  BY <1>1, <1>4

-----------------------------------------------------------------------------
(* Sums.                                                                    *)

Adds(f, b, n) ==
  f = [k \in 0 .. n |-> IF k = 0 THEN 0 ELSE (f[k - 1] + b[k]) % 256]

LEMMA AddsExist ==
  ASSUME NEW b
  PROVE  \A n \in Nat : \E f : Adds(f, b, n)
<1> DEFINE S == {n \in Nat : ~ \E f : Adds(f, b, n)}
<1> SUFFICES ASSUME S # {} PROVE FALSE
  OBVIOUS
<1>1. PICK n \in S : \A m \in S : n <= m
  <2>1. S \in SUBSET Nat
    OBVIOUS
  <2> HIDE DEF S
  <2> QED
    BY <2>1, LeastNumber
<1>2. CASE n = 0
  <2> DEFINE g == [k \in 0 .. 0 |-> 0]
  <2>1. Adds(g, b, 0)
    BY DEF Adds
  <2> QED
    BY <1>1, <1>2, <2>1
<1>3. CASE n # 0
  <2>1. n \in Nat /\ n - 1 \in Nat /\ ~ (n <= n - 1)
    BY <1>1, <1>3
  <2>2. PICK f : Adds(f, b, n - 1)
    BY <1>1, <2>1
  <2> DEFINE g == [k \in 0 .. n |-> IF k = n THEN (f[n - 1] + b[n]) % 256
               ELSE f[k]]
  <2>3. ASSUME NEW k \in 0 .. n
        PROVE  g[k] = IF k = 0 THEN 0 ELSE (g[k - 1] + b[k]) % 256
    <3>1. CASE k = n
      BY <1>3, <2>1, <3>1
    <3>2. CASE k # n
      <4>1. k \in 0 .. n - 1 /\ (k # 0 => k - 1 \in 0 .. n /\ k - 1 # n)
        BY <2>1, <3>2
      <4>2. f[k] = IF k = 0 THEN 0 ELSE (f[k - 1] + b[k]) % 256
        BY <2>2, <4>1 DEF Adds
      <4> QED
        BY <3>2, <4>1, <4>2
    <3> QED
      BY <3>1, <3>2
  <2>4. g = [k \in 0 .. n |-> g[k]]
    OBVIOUS
  <2> HIDE DEF g
  <2>5. Adds(g, b, n)
    BY <2>3, <2>4 DEF Adds
  <2> QED
    BY <1>1, <2>5
<1> QED
  BY <1>2, <1>3

LEMMA SumsAre ==
  ASSUME NEW b
  PROVE  /\ Sums(b)[0] = 0
         /\ \A k \in 1 .. 31 : Sums(b)[k] = (Sums(b)[k - 1] + b[k]) % 256
<1>1. Sums(b) = CHOOSE f : f = [k \in 0 .. 31 |->
                  IF k = 0 THEN 0 ELSE (f[k - 1] + b[k]) % 256]
  BY DEF Sums
<1>2. \E f : f = [k \in 0 .. 31 |->
                   IF k = 0 THEN 0 ELSE (f[k - 1] + b[k]) % 256]
  <2>1. \E f : Adds(f, b, 31)
    BY AddsExist
  <2> QED
    BY <2>1 DEF Adds
<1> HIDE DEF Sums
<1>3. Sums(b) = [k \in 0 .. 31 |->
                   IF k = 0 THEN 0 ELSE (Sums(b)[k - 1] + b[k]) % 256]
  BY ZenonT(40), <1>1, <1>2
<1>4. PICK s : s = Sums(b)
  OBVIOUS
<1>5. s = [k \in 0 .. 31 |-> IF k = 0 THEN 0 ELSE (s[k - 1] + b[k]) % 256]
  BY <1>3, <1>4
<1>6. s[0] = 0 /\ \A k \in 1 .. 31 : s[k] = (s[k - 1] + b[k]) % 256
  BY <1>5
<1> QED
  BY <1>4, <1>6

LEMMA SumsAreBytes ==
  ASSUME NEW b, \A k \in 1 .. 31 : b[k] \in Octets
  PROVE  \A k \in 0 .. 31 : Sums(b)[k] \in Octets
<1> DEFINE S == {k \in 0 .. 31 : ~ (Sums(b)[k] \in Octets)}
<1> SUFFICES ASSUME S # {} PROVE FALSE
  OBVIOUS
<1>1. PICK k \in S : \A j \in S : k <= j
  <2>1. S \in SUBSET Nat
    OBVIOUS
  <2> HIDE DEF S
  <2> QED
    BY <2>1, LeastNumber
<1>2. k # 0
  BY <1>1, SumsAre, OctetsAre
<1>3. k \in 1 .. 31 /\ k - 1 \in 0 .. 31 /\ ~ (k <= k - 1)
  BY <1>1, <1>2
<1>4. Sums(b)[k - 1] \in Octets /\ b[k] \in Octets
  BY <1>1, <1>3
<1>5. Sums(b)[k] = (Sums(b)[k - 1] + b[k]) % 256
  BY <1>3, SumsAre
<1>6. ASSUME NEW x \in Octets, NEW y \in Octets
      PROVE  (x + y) % 256 \in Octets
  BY OctetsAre
<1>7. Sums(b)[k] \in Octets
  BY <1>4, <1>5, <1>6
<1> QED
  BY <1>1, <1>7

\* Bytes that agree have the same sums.
LEMMA SumsAgree ==
  ASSUME NEW b, NEW c, NEW n \in 0 .. 31, \A k \in 1 .. n : b[k] = c[k]
  PROVE  Sums(b)[n] = Sums(c)[n]
<1> DEFINE S == {k \in 0 .. n : Sums(b)[k] # Sums(c)[k]}
<1> SUFFICES ASSUME S # {} PROVE FALSE
  OBVIOUS
<1>1. PICK k \in S : \A j \in S : k <= j
  <2>1. S \in SUBSET Nat
    OBVIOUS
  <2> HIDE DEF S
  <2> QED
    BY <2>1, LeastNumber
<1>2. k # 0
  BY <1>1, SumsAre
<1>3. k \in 1 .. n /\ k \in 1 .. 31 /\ k - 1 \in 0 .. n /\ ~ (k <= k - 1)
  BY <1>1, <1>2
<1>4. Sums(b)[k - 1] = Sums(c)[k - 1]
  BY <1>1, <1>3
<1>5. /\ Sums(b)[k] = (Sums(b)[k - 1] + b[k]) % 256
      /\ Sums(c)[k] = (Sums(c)[k - 1] + c[k]) % 256
  BY <1>3, SumsAre
<1> QED
  BY <1>1, <1>3, <1>4, <1>5

\* One byte more by n, and every sum from there on is more by n.
LEMMA SumsDiffer ==
  ASSUME NEW b, \A k \in 1 .. 31 : b[k] \in Octets,
         NEW j \in 1 .. 31, NEW n \in Octets \ {0}, NEW c,
         c[j] = (b[j] + n) % 256,
         \A k \in 1 .. 31 : k # j => c[k] = b[k]
  PROVE  Sums(c)[31] # Sums(b)[31]
<1> DEFINE S == {k \in j .. 31 : Sums(c)[k] # (Sums(b)[k] + n) % 256}
<1>1. ASSUME S # {} PROVE FALSE
  <2>1. PICK k \in S : \A m \in S : k <= m
    <3>1. S \in SUBSET Nat
      OBVIOUS
    <3> HIDE DEF S
    <3> QED
      BY <1>1, <3>1, LeastNumber
  <2>2. /\ k \in 1 .. 31 /\ k - 1 \in 0 .. 31
        /\ Sums(b)[k] = (Sums(b)[k - 1] + b[k]) % 256
        /\ Sums(c)[k] = (Sums(c)[k - 1] + c[k]) % 256
    BY <2>1, SumsAre
  <2>3. Sums(b)[k - 1] \in Octets /\ b[k] \in Octets
    BY <2>2, SumsAreBytes
  <2>4. CASE k = j
    <3>1. \A m \in 1 .. k - 1 : c[m] = b[m]
      BY <2>2, <2>4
    <3>2. Sums(c)[k - 1] = Sums(b)[k - 1]
      BY SMTT(30), <2>2, <3>1, SumsAgree
    <3>3. PICK x, y : x = Sums(b)[k - 1] /\ y = b[k]
      OBVIOUS
    <3>4. /\ x \in Octets /\ y \in Octets
          /\ Sums(c)[k] = (x + ((y + n) % 256)) % 256
          /\ Sums(b)[k] = (x + y) % 256
      BY <2>2, <2>3, <2>4, <3>2, <3>3
    <3>5. (x + ((y + n) % 256)) % 256 = (((x + y) % 256) + n) % 256
      BY <3>4, OctetsAre
    <3> QED
      BY <2>1, <3>4, <3>5
  <2>5. CASE k # j
    <3>1. k - 1 \in j .. 31 /\ ~ (k <= k - 1)
      BY <2>1, <2>5
    <3>2. Sums(c)[k - 1] = (Sums(b)[k - 1] + n) % 256 /\ c[k] = b[k]
      BY <2>1, <2>2, <2>5, <3>1
    <3>3. PICK x, y : x = Sums(b)[k - 1] /\ y = b[k]
      OBVIOUS
    <3>4. /\ x \in Octets /\ y \in Octets
          /\ Sums(c)[k] = (((x + n) % 256) + y) % 256
          /\ Sums(b)[k] = (x + y) % 256
      BY <2>2, <2>3, <3>2, <3>3
    <3>5. (((x + n) % 256) + y) % 256 = (((x + y) % 256) + n) % 256
      BY <3>4, OctetsAre
    <3> QED
      BY <2>1, <3>4, <3>5
  <2> QED
    BY <2>4, <2>5
<1>2. Sums(c)[31] = (Sums(b)[31] + n) % 256
  BY <1>1
<1>3. Sums(b)[31] \in Octets
  BY SumsAreBytes
<1>4. ASSUME NEW x \in Octets PROVE (x + n) % 256 # x
  BY OctetsAre
<1> QED
  BY <1>2, <1>3, <1>4

-----------------------------------------------------------------------------
(* Words and floats.                                                        *)

LEMMA WordBytes ==
  ASSUME NEW v \in Int, -32768 <= v, v <= 65535
  PROVE  /\ Word(v)[1] \in Octets /\ Word(v)[2] \in Octets
         /\ v <= 32767 => Signed(Word(v)[1] + 256 * Word(v)[2]) = v
         /\ 0 <= v => Word(v)[1] + 256 * Word(v)[2] = v
<1>1. PICK l, h : l = v % 256 /\ h = (v \div 256) % 256
  OBVIOUS
<1>2. Word(v)[1] = l /\ Word(v)[2] = h
  BY <1>1 DEF Word
<1>3. /\ l \in Int /\ 0 <= l /\ l <= 255
      /\ h \in Int /\ 0 <= h /\ h <= 255
  BY <1>1
<1>4. 0 <= v => l + 256 * h = v
  BY <1>1
<1>5. v <= 32767 => ((l + 256 * h + 32768) % 65536) - 32768 = v
  BY <1>1
<1>6. l \in Octets /\ h \in Octets
  BY <1>3, OctetsAre
<1>7. Signed(l + 256 * h) = ((l + 256 * h + 32768) % 65536) - 32768
  BY DEF Signed
<1> QED
  BY <1>2, <1>4, <1>5, <1>6, <1>7

LEMMA Pow2Values ==
  /\ Pow2[0] = 1 /\ Pow2[1] = 2 /\ Pow2[2] = 4
  /\ Pow2[3] = 8 /\ Pow2[4] = 16 /\ Pow2[5] = 32
  /\ Pow2[6] = 64 /\ Pow2[7] = 128 /\ Pow2[8] = 256
  /\ Pow2[9] = 512 /\ Pow2[10] = 1024 /\ Pow2[11] = 2048
  /\ Pow2[12] = 4096 /\ Pow2[13] = 8192 /\ Pow2[14] = 16384
  /\ Pow2[15] = 32768 /\ Pow2[16] = 65536 /\ Pow2[17] = 131072
  /\ Pow2[18] = 262144 /\ Pow2[19] = 524288 /\ Pow2[20] = 1048576
  /\ Pow2[21] = 2097152 /\ Pow2[22] = 4194304 /\ Pow2[23] = 8388608
  /\ Pow2[24] = 16777216
<1>0. Pow2[0] = 1
  BY Pow2Steps
<1>1. Pow2[1] = 2
  BY <1>0, Pow2Steps, 0 + 1 = 1, 0 \in Nat
<1>2. Pow2[2] = 4
  BY <1>1, Pow2Steps, 1 + 1 = 2, 1 \in Nat
<1>3. Pow2[3] = 8
  BY <1>2, Pow2Steps, 2 + 1 = 3, 2 \in Nat
<1>4. Pow2[4] = 16
  BY <1>3, Pow2Steps, 3 + 1 = 4, 3 \in Nat
<1>5. Pow2[5] = 32
  BY <1>4, Pow2Steps, 4 + 1 = 5, 4 \in Nat
<1>6. Pow2[6] = 64
  BY <1>5, Pow2Steps, 5 + 1 = 6, 5 \in Nat
<1>7. Pow2[7] = 128
  BY <1>6, Pow2Steps, 6 + 1 = 7, 6 \in Nat
<1>8. Pow2[8] = 256
  BY <1>7, Pow2Steps, 7 + 1 = 8, 7 \in Nat
<1>9. Pow2[9] = 512
  BY <1>8, Pow2Steps, 8 + 1 = 9, 8 \in Nat
<1>10. Pow2[10] = 1024
  BY <1>9, Pow2Steps, 9 + 1 = 10, 9 \in Nat
<1>11. Pow2[11] = 2048
  BY <1>10, Pow2Steps, 10 + 1 = 11, 10 \in Nat
<1>12. Pow2[12] = 4096
  BY <1>11, Pow2Steps, 11 + 1 = 12, 11 \in Nat
<1>13. Pow2[13] = 8192
  BY <1>12, Pow2Steps, 12 + 1 = 13, 12 \in Nat
<1>14. Pow2[14] = 16384
  BY <1>13, Pow2Steps, 13 + 1 = 14, 13 \in Nat
<1>15. Pow2[15] = 32768
  BY <1>14, Pow2Steps, 14 + 1 = 15, 14 \in Nat
<1>16. Pow2[16] = 65536
  BY <1>15, Pow2Steps, 15 + 1 = 16, 15 \in Nat
<1>17. Pow2[17] = 131072
  BY <1>16, Pow2Steps, 16 + 1 = 17, 16 \in Nat
<1>18. Pow2[18] = 262144
  BY <1>17, Pow2Steps, 17 + 1 = 18, 17 \in Nat
<1>19. Pow2[19] = 524288
  BY <1>18, Pow2Steps, 18 + 1 = 19, 18 \in Nat
<1>20. Pow2[20] = 1048576
  BY <1>19, Pow2Steps, 19 + 1 = 20, 19 \in Nat
<1>21. Pow2[21] = 2097152
  BY <1>20, Pow2Steps, 20 + 1 = 21, 20 \in Nat
<1>22. Pow2[22] = 4194304
  BY <1>21, Pow2Steps, 21 + 1 = 22, 21 \in Nat
<1>23. Pow2[23] = 8388608
  BY <1>22, Pow2Steps, 22 + 1 = 23, 22 \in Nat
<1>24. Pow2[24] = 16777216
  BY <1>23, Pow2Steps, 23 + 1 = 24, 23 \in Nat
<1> QED
  BY <1>0, <1>1, <1>2, <1>3, <1>4, <1>5, <1>6, <1>7, <1>8, <1>9, <1>10,
     <1>11, <1>12, <1>13, <1>14, <1>15, <1>16, <1>17, <1>18, <1>19, <1>20,
     <1>21, <1>22, <1>23, <1>24

LEMMA ExponentIs ==
  ASSUME NEW v \in Int, 1 <= v, v <= 65535
  PROVE  /\ Exponent(v) \in 0 .. 15
         /\ Pow2[Exponent(v)] <= v /\ v < 2 * Pow2[Exponent(v)]
<1> DEFINE S == {n \in Nat : v < Pow2[n]}
<1>1. PICK n \in S : \A m \in S : n <= m
  <2>1. 16 \in S
    BY Pow2Values
  <2>2. S \in SUBSET Nat /\ S # {}
    BY <2>1
  <2> HIDE DEF S
  <2> QED
    BY <2>2, LeastNumber
<1>2. n \in Nat /\ v < Pow2[n] /\ n <= 16 /\ n # 0
  <2>1. 16 \in S
    BY Pow2Values
  <2>2. Pow2[0] = 1
    BY Pow2Values
  <2> QED
    BY <1>1, <2>1, <2>2
<1>3. PICK e : e = n - 1
  OBVIOUS
<1>4. e \in 0 .. 15 /\ e \in Nat /\ e + 1 = n /\ e < n
  BY <1>2, <1>3
<1>5. ~ (v < Pow2[e])
  BY <1>1, <1>4
<1>6. Pow2[e] \in Nat
  BY <1>4, Pow2Types
<1>7. Pow2[e] <= v /\ v < Pow2[e + 1]
  BY <1>2, <1>4, <1>5, <1>6
<1>8. Exponent(v) \in 0 .. 15 /\ Pow2[Exponent(v)] <= v
        /\ v < Pow2[Exponent(v) + 1]
  BY <1>4, <1>7 DEF Exponent
<1>9. Exponent(v) \in Nat
  BY <1>8
<1> QED
  BY <1>8, <1>9, Pow2Steps

LEMMA Complement ==
  ASSUME NEW e \in 0 .. 15
  PROVE  /\ Pow2[e] \in Nat \ {0} /\ Pow2[23 - e] \in Nat \ {0}
         /\ Pow2[e] * Pow2[23 - e] = 8388608
<1>1. Pow2[e] \in Nat \ {0} /\ Pow2[23 - e] \in Nat \ {0}
  BY Pow2Types
<1>c0. CASE e = 0
  BY <1>c0, Pow2Values, 23 - 0 = 23
<1>c1. CASE e = 1
  BY <1>c1, Pow2Values, 23 - 1 = 22
<1>c2. CASE e = 2
  BY <1>c2, Pow2Values, 23 - 2 = 21
<1>c3. CASE e = 3
  BY <1>c3, Pow2Values, 23 - 3 = 20
<1>c4. CASE e = 4
  BY <1>c4, Pow2Values, 23 - 4 = 19
<1>c5. CASE e = 5
  BY <1>c5, Pow2Values, 23 - 5 = 18
<1>c6. CASE e = 6
  BY <1>c6, Pow2Values, 23 - 6 = 17
<1>c7. CASE e = 7
  BY <1>c7, Pow2Values, 23 - 7 = 16
<1>c8. CASE e = 8
  BY <1>c8, Pow2Values, 23 - 8 = 15
<1>c9. CASE e = 9
  BY <1>c9, Pow2Values, 23 - 9 = 14
<1>c10. CASE e = 10
  BY <1>c10, Pow2Values, 23 - 10 = 13
<1>c11. CASE e = 11
  BY <1>c11, Pow2Values, 23 - 11 = 12
<1>c12. CASE e = 12
  BY <1>c12, Pow2Values, 23 - 12 = 11
<1>c13. CASE e = 13
  BY <1>c13, Pow2Values, 23 - 13 = 10
<1>c14. CASE e = 14
  BY <1>c14, Pow2Values, 23 - 14 = 9
<1>c15. CASE e = 15
  BY <1>c15, Pow2Values, 23 - 15 = 8
<1> QED
  BY <1>1, <1>c0, <1>c1, <1>c2, <1>c3, <1>c4, <1>c5, <1>c6, <1>c7, <1>c8,
     <1>c9, <1>c10, <1>c11, <1>c12, <1>c13, <1>c14, <1>c15

\* The parts of a float's bits.
LEMMA FloatParts ==
  ASSUME NEW v \in Int, 1 <= v, v <= 65535, NEW e, e = Exponent(v)
  PROVE  /\ FloatBits(v) \in Nat \ {0} /\ FloatBits(v) <= 2147483647
              /\ e \in 0 .. 15
         /\ FloatBits(v) \div 8388608 = 127 + e
         /\ Pow2[e] + (FloatBits(v) % 8388608) \div Pow2[23 - e] = v
<1>1. PICK p, q : p = Pow2[e] /\ q = Pow2[23 - e]
  OBVIOUS
<1>2. /\ e \in 0 .. 15 /\ p \in Nat \ {0} /\ q \in Nat \ {0} /\ p * q = 8388608
      /\ p <= v /\ v < 2 * p
  BY <1>1, ExponentIs, Complement
<1>3. PICK d : d = v - p
  OBVIOUS
<1>4. d \in Nat /\ d <= p - 1 /\ p - 1 \in Nat
  BY <1>2, <1>3
<1>5. PICK m : m = d * q
  OBVIOUS
<1>6. m \in Nat /\ m <= 8388607
  <2>1. d * q \in Nat /\ d * q <= (p - 1) * q
    BY <1>2, <1>4
  <2>2. (p - 1) * q = p * q - q
    BY <1>2
  <2> QED
    BY <1>2, <1>5, <2>1, <2>2
<1>7. FloatBits(v) = (127 + e) * 8388608 + m
  <2>1. Pow2[23] = 8388608
    BY Pow2Values
  <2> QED
    BY <1>1, <1>3, <1>5, <2>1 DEF FloatBits
<1>8. PICK bits : bits = FloatBits(v)
  OBVIOUS
<1>9. /\ bits \in Nat \ {0} /\ bits <= 2147483647
      /\ bits \div 8388608 = 127 + e
      /\ bits % 8388608 = m
  <2>1. e \in Nat /\ e <= 15
    BY <1>2
  <2> QED
    BY <1>6, <1>7, <1>8, <2>1
<1>10. m \div q = d
  <2>1. m \in Nat /\ q \in Nat \ {0} /\ 0 \in 0 .. q - 1 /\ m = q * d + 0
    BY <1>2, <1>4, <1>5, <1>6
  <2> QED
    BY <1>4, <2>1, DivisionIs
<1> QED
  BY <1>1, <1>2, <1>3, <1>8, <1>9, <1>10

LEMMA FourBytes ==
  ASSUME NEW b \in Nat, b <= 2147483647
  PROVE  /\ b % 256 \in Octets /\ (b \div 256) % 256 \in Octets
         /\ (b \div 65536) % 256 \in Octets
         /\ (b \div 16777216) % 256 \in Octets
         /\ (b % 256) + 256 * ((b \div 256) % 256)
               + 65536 * ((b \div 65536) % 256)
               + 16777216 * ((b \div 16777216) % 256) = b
<1>1. PICK x, y, z, w : /\ x = b % 256 /\ y = (b \div 256) % 256
                        /\ z = (b \div 65536) % 256
                        /\ w = (b \div 16777216) % 256
  OBVIOUS
<1>2. /\ x \in Int /\ 0 <= x /\ x <= 255
      /\ y \in Int /\ 0 <= y /\ y <= 255
  BY <1>1
<1>3. /\ z \in Int /\ 0 <= z /\ z <= 255
      /\ w \in Int /\ 0 <= w /\ w <= 255
  BY <1>1
<1>4. (b % 256) + 256 * ((b \div 256) % 256)
        + 65536 * ((b \div 65536) % 256)
        + 16777216 * ((b \div 16777216) % 256) = b
  OBVIOUS
<1>5. x \in Octets /\ y \in Octets /\ z \in Octets /\ w \in Octets
  BY <1>2, <1>3, OctetsAre
<1> QED
  BY <1>1, <1>4, <1>5

LEMMA FloatBytesAre ==
  ASSUME NEW v \in Words16, NEW b, b = FloatBits(v)
  PROVE  /\ b \in Nat /\ b <= 2147483647 /\ (b = 0 <=> v = 0)
         /\ FloatBytes(v)[1] = b % 256
         /\ FloatBytes(v)[2] = (b \div 256) % 256
         /\ FloatBytes(v)[3] = (b \div 65536) % 256
         /\ FloatBytes(v)[4] = (b \div 16777216) % 256
         /\ \A j \in 1 .. 4 : FloatBytes(v)[j] \in Octets
<1>1. v \in Int /\ 0 <= v /\ v <= 65535
  BY Words16Are
<1>2. b \in Nat /\ b <= 2147483647 /\ (b = 0 <=> v = 0)
  <2>1. CASE v = 0
    BY <2>1 DEF FloatBits
  <2>2. CASE v # 0
    <3>1. 1 <= v
      BY <1>1, <2>2
    <3>2. b \in Nat \ {0} /\ b <= 2147483647
      BY <1>1, <3>1, FloatParts
    <3> QED
      BY <2>2, <3>2
  <2> QED
    BY <2>1, <2>2
<1>3. /\ FloatBytes(v)[1] = b % 256
      /\ FloatBytes(v)[2] = (b \div 256) % 256
      /\ FloatBytes(v)[3] = (b \div 65536) % 256
      /\ FloatBytes(v)[4] = (b \div 16777216) % 256
  <2>1. \A j \in 1 .. 4 : FloatBytes(v)[j] = (b \div Pow2[8 * (j - 1)]) % 256
    BY DEF FloatBytes
  <2>2. /\ FloatBytes(v)[1] = (b \div Pow2[0]) % 256
        /\ FloatBytes(v)[2] = (b \div Pow2[8]) % 256
        /\ FloatBytes(v)[3] = (b \div Pow2[16]) % 256
        /\ FloatBytes(v)[4] = (b \div Pow2[24]) % 256
    BY <2>1
  <2>3. b \div 1 = b
    BY <1>2
  <2> QED
    BY <2>2, <2>3, Pow2Values
<1>4. \A j \in 1 .. 4 : j = 1 \/ j = 2 \/ j = 3 \/ j = 4
  OBVIOUS
<1> QED
  BY <1>2, <1>3, <1>4, FourBytes

LEMMA FloatIsRead ==
  ASSUME NEW v \in Words16, NEW bytes, NEW k \in Nat,
         bytes[k] = FloatBytes(v)[1], bytes[k + 1] = FloatBytes(v)[2],
         bytes[k + 2] = FloatBytes(v)[3], bytes[k + 3] = FloatBytes(v)[4]
  PROVE  FloatAt(bytes, k) = v
<1>1. PICK b : b = FloatBits(v)
  OBVIOUS
<1>2. /\ b \in Nat /\ b <= 2147483647 /\ (b = 0 <=> v = 0)
      /\ bytes[k] = b % 256 /\ bytes[k + 1] = (b \div 256) % 256
      /\ bytes[k + 2] = (b \div 65536) % 256
      /\ bytes[k + 3] = (b \div 16777216) % 256
  BY <1>1, FloatBytesAre
<1>3. bytes[k] + 256 * bytes[k + 1] + 65536 * bytes[k + 2]
        + 16777216 * bytes[k + 3] = b
  BY <1>2, FourBytes
<1>4. FloatAt(bytes, k) =
        IF b = 0 THEN 0
        ELSE Pow2[b \div Pow2[23] - 127]
             + (b % Pow2[23]) \div Pow2[23 - (b \div Pow2[23] - 127)]
  BY <1>3 DEF FloatAt
<1>5. CASE v = 0
  BY <1>2, <1>4, <1>5
<1>6. CASE v # 0
  <2>1. v \in Int /\ 1 <= v /\ v <= 65535 /\ Pow2[23] = 8388608
    BY <1>6, Words16Are, Pow2Values
  <2>2. PICK e : e = Exponent(v)
    OBVIOUS
  <2>3. /\ b \div 8388608 = 127 + e /\ e \in 0 .. 15
        /\ Pow2[e] + (b % 8388608) \div Pow2[23 - e] = v
    BY <1>1, <2>1, <2>2, FloatParts
  <2>4. (b \div Pow2[23]) - 127 = e
    BY <2>1, <2>3
  <2> QED
    BY <1>2, <1>4, <1>6, <2>1, <2>3, <2>4
<1> QED
  BY <1>5, <1>6

-----------------------------------------------------------------------------
(* Conversions.                                                             *)

LEMMA SmallIsItself ==
  ASSUME NEW t \in Int, -32768 <= t, t <= 32767
  PROVE  Signed(t) = t
BY DEF Signed

\* Truncation keeps the order and the sign.
LEMMA TruncatedKeeps ==
  ASSUME NEW a \in Int, NEW b \in Int, NEW n \in {10, 10000}
  PROVE  /\ Truncated(a, n) \in Int
         /\ a <= b => Truncated(a, n) <= Truncated(b, n)
         /\ 0 <= a => 0 <= Truncated(a, n)
         /\ a <= 0 => Truncated(a, n) <= 0
<1>1. CASE n = 10
  <2>1. /\ 0 <= a => Truncated(a, n) = a \div 10
        /\ ~ (0 <= a) => Truncated(a, n) = -((-a) \div 10)
        /\ 0 <= b => Truncated(b, n) = b \div 10
        /\ ~ (0 <= b) => Truncated(b, n) = -((-b) \div 10)
    BY <1>1 DEF Truncated
  <2> QED
    BY <2>1
<1>2. CASE n = 10000
  <2>1. /\ 0 <= a => Truncated(a, n) = a \div 10000
        /\ ~ (0 <= a) => Truncated(a, n) = -((-a) \div 10000)
        /\ 0 <= b => Truncated(b, n) = b \div 10000
        /\ ~ (0 <= b) => Truncated(b, n) = -((-b) \div 10000)
    BY <1>2 DEF Truncated
  <2> QED
    BY <2>1
<1> QED
  BY <1>1, <1>2

LEMMA AccelerationIs ==
  ASSUME NEW w \in Shorts
  PROVE  /\ w \div 16 \in Int
         /\ Q4_11(w) = Truncated((w \div 16) * 79872, 10000)
         /\ Q4_11(w) \in Halves
<1>1. w \in Int /\ -32768 <= w /\ w <= 32767
  BY ShortsAre
<1>2. PICK q : q = w \div 16
  OBVIOUS
<1>3. q \in Int /\ -2048 <= q /\ q <= 2047
  BY <1>1, <1>2
<1>4. PICK a : a = q * 79872
  OBVIOUS
<1>5. a \in Int /\ -163577856 <= a /\ a <= 163497984
  BY <1>3, <1>4
<1>6. PICK t : t = Truncated(a, 10000)
  OBVIOUS
<1>7. t \in Int /\ -16384 <= t /\ t <= 16383
  <2>1. CASE 0 <= a
    <3>1. t = a \div 10000
      BY <1>6, <2>1 DEF Truncated
    <3> QED
      BY <1>5, <2>1, <3>1
  <2>2. CASE ~ (0 <= a)
    <3>1. t = -((-a) \div 10000)
      BY <1>5, <1>6, <2>2 DEF Truncated
    <3> QED
      BY <1>5, <2>2, <3>1
  <2> QED
    BY <2>1, <2>2
<1>8. Q4_11(w) = Signed(t)
  BY <1>2, <1>4, <1>6 DEF Q4_11
<1>9. Signed(t) = t
  BY <1>7, SmallIsItself
<1> QED
  BY <1>2, <1>3, <1>4, <1>6, <1>7, <1>8, <1>9, HalvesAre

LEMMA AccelerationsKeepOrder ==
  ASSUME NEW v \in Shorts, NEW w \in Shorts
  PROVE  /\ v <= w => Q4_11(v) <= Q4_11(w)
         /\ 0 <= v => 0 <= Q4_11(v)
         /\ v <= 0 => Q4_11(v) <= 0
<1>1. v \in Int /\ w \in Int
  BY ShortsAre
<1>2. PICK p, q : p = (v \div 16) * 79872 /\ q = (w \div 16) * 79872
  OBVIOUS
<1>3. /\ p \in Int /\ q \in Int
      /\ v <= w => p <= q
      /\ 0 <= v => 0 <= p
      /\ v <= 0 => p <= 0
  BY <1>1, <1>2
<1>4. Q4_11(v) = Truncated(p, 10000) /\ Q4_11(w) = Truncated(q, 10000)
  BY <1>2, AccelerationIs
<1> QED
  BY <1>3, <1>4, TruncatedKeeps

\* The three ranges of a field, and what becomes of each.
LEMMA FieldIs ==
  ASSUME NEW w \in Shorts
  PROVE  /\ w \in Int /\ Q8_7(w) \in Halves
         /\ w > 853 => Q8_7(w) = 16382
         /\ w < -853 => Q8_7(w) = -16384
         /\ -853 <= w /\ w <= 853 =>
              /\ Q8_7(w) = Truncated(192 * w, 10)
              /\ -16384 <= Q8_7(w) /\ Q8_7(w) <= 16382
<1>1. w \in Int /\ -32768 <= w /\ w <= 32767
  BY ShortsAre
<1>2. PICK t : t = CASE 15 * w > 12799  -> 16382
                     [] 15 * w < -12800 -> -16384
                     [] OTHER           -> Truncated(192 * w, 10)
  OBVIOUS
<1>3. Q8_7(w) = Signed(t)
  BY <1>2 DEF Q8_7
<1>4. CASE w > 853
  <2>1. t = 16382
    BY <1>1, <1>2, <1>4
  <2>2. Signed(t) = 16382 /\ t \in Int
    BY <2>1, SmallIsItself
  <2> QED
    BY <1>1, <1>3, <1>4, <2>2, HalvesAre
<1>5. CASE w < -853
  <2>1. t = -16384
    <3>1. 15 * w < -12800 /\ ~ (15 * w > 12799)
      BY <1>1, <1>5
    <3> QED
      BY <1>2, <3>1
  <2>2. Signed(t) = -16384 /\ t \in Int
    BY <2>1, SmallIsItself
  <2> QED
    BY <1>1, <1>3, <1>5, <2>2, HalvesAre
<1>6. CASE -853 <= w /\ w <= 853
  <2>1. t = Truncated(192 * w, 10)
    <3>1. ~ (15 * w < -12800) /\ ~ (15 * w > 12799)
      BY <1>1, <1>6
    <3> QED
      BY <1>2, <3>1
  <2>2. t \in Int /\ -16384 <= t /\ t <= 16382
    <3>1. CASE 0 <= w
      <4>1. t = (192 * w) \div 10
        BY <1>1, <2>1, <3>1 DEF Truncated
      <4> QED
        BY <1>1, <1>6, <3>1, <4>1
    <3>2. CASE ~ (0 <= w)
      <4>1. t = -((-(192 * w)) \div 10)
        BY <1>1, <2>1, <3>2 DEF Truncated
      <4> QED
        BY <1>1, <1>6, <3>2, <4>1
    <3> QED
      BY <3>1, <3>2
  <2>3. Signed(t) = t
    BY <2>2, SmallIsItself
  <2> QED
    BY <1>1, <1>3, <1>6, <2>1, <2>2, <2>3, HalvesAre
<1> QED
  BY <1>1, <1>4, <1>5, <1>6

LEMMA FieldsKeepOrder ==
  ASSUME NEW v \in Shorts, NEW w \in Shorts
  PROVE  /\ v <= w => Q8_7(v) <= Q8_7(w)
         /\ 0 <= v => 0 <= Q8_7(v)
         /\ v <= 0 => Q8_7(v) <= 0
<1>1. v \in Int /\ w \in Int
  BY FieldIs
<1>2. 192 * v \in Int /\ 192 * w \in Int
  BY <1>1
<1>3. /\ v <= w => Truncated(192 * v, 10) <= Truncated(192 * w, 10)
      /\ 0 <= v => 0 <= Truncated(192 * v, 10)
      /\ v <= 0 => Truncated(192 * v, 10) <= 0
      /\ Truncated(192 * v, 10) \in Int /\ Truncated(192 * w, 10) \in Int
  <2>1. PICK a, b : a = 192 * v /\ b = 192 * w
    OBVIOUS
  <2>2. /\ a \in Int /\ b \in Int
        /\ v <= w => a <= b
        /\ 0 <= v => 0 <= a
        /\ v <= 0 => a <= 0
    BY <1>1, <2>1
  <2>3. /\ v <= w => Truncated(a, 10) <= Truncated(b, 10)
        /\ 0 <= v => 0 <= Truncated(a, 10)
        /\ v <= 0 => Truncated(a, 10) <= 0
        /\ Truncated(a, 10) \in Int /\ Truncated(b, 10) \in Int
    BY <2>2, TruncatedKeeps
  <2> QED
    BY <2>1, <2>3
<1>4. PICK x, y : x = Q8_7(v) /\ y = Q8_7(w)
  OBVIOUS
<1>5. /\ v > 853 => x = 16382
      /\ v < -853 => x = -16384
      /\ -853 <= v /\ v <= 853 => /\ x = Truncated(192 * v, 10)
                                  /\ -16384 <= x /\ x <= 16382
  BY <1>4, FieldIs
<1>6. /\ w > 853 => y = 16382
      /\ w < -853 => y = -16384
      /\ -853 <= w /\ w <= 853 => /\ y = Truncated(192 * w, 10)
                                  /\ -16384 <= y /\ y <= 16382
  BY <1>4, FieldIs
<1>7. v <= w => x <= y
  BY <1>1, <1>3, <1>5, <1>6
<1>8. (0 <= v => 0 <= x) /\ (v <= 0 => x <= 0)
  BY <1>1, <1>3, <1>5
<1> QED
  BY <1>4, <1>7, <1>8

LEMMA SameSign ==
  ASSUME NEW a \in Int, NEW b \in Int,
         (0 <= a => 0 <= b) /\ (a <= 0 => b <= 0)
  PROVE  b * a >= 0
<1>1. CASE 0 <= a
  BY <1>1
<1>2. CASE a <= 0
  <2>1. -a \in Nat /\ -b \in Nat
    BY <1>2
  <2>2. (-b) * (-a) >= 0
    BY <2>1
  <2>3. (-b) * (-a) = b * a
    OBVIOUS
  <2> QED
    BY <2>2, <2>3
<1> QED
  BY <1>1, <1>2

-----------------------------------------------------------------------------
(* The packet.                                                              *)

SensorData ==
  [accel : [1 .. 3 -> Halves], mag : [1 .. 3 -> Halves],
   angles : [1 .. 3 -> Shorts], temperature : Octets,
   channels : Words16 \X Words16, lux : Words16]

Registers ==
  [accel : [1 .. 3 -> Shorts], mag : [1 .. 3 -> Shorts], degrees : Octets,
   channels : Words16 \X Words16, lux : Words16]

\* The packet send_sensor_data builds.
Built(d) ==
  [k \in 1 .. 32 |-> IF k = 32 THEN Checksum(Body(d)) ELSE Body(d)[k]]

LEMMA TripleIs ==
  ASSUME NEW words, NEW first \in Int, NEW i \in 1 .. 3
  PROVE  /\ InTriple(words, first, first + 2 * (i - 1)) = Word(words[i])[1]
         /\ InTriple(words, first, first + 2 * (i - 1) + 1)
              = Word(words[i])[2]
<1>1. PICK j : j = i - 1
  OBVIOUS
<1>2. j \in Int /\ i = 1 + j
  BY <1>1
<1>3. /\ (first + 2 * j) - first = 2 * j
      /\ (first + 2 * j + 1) - first = 2 * j + 1
  BY <1>2
<1>4. /\ 1 + ((2 * j) \div 2) = i /\ 1 + ((2 * j) % 2) = 1
      /\ 1 + ((2 * j + 1) \div 2) = i /\ 1 + ((2 * j + 1) % 2) = 2
  BY <1>2
<1> QED
  BY <1>1, <1>3, <1>4 DEF InTriple

LEMMA BodyIs ==
  ASSUME NEW d
  PROVE  /\ Body(d)[1] = START
         /\ \A k \in 2 .. 7 : Body(d)[k] = InTriple(d.accel, 2, k)
         /\ \A k \in 8 .. 11 : Body(d)[k] = FloatBytes(d.temperature)[k - 7]
         /\ \A k \in 12 .. 17 : Body(d)[k] = InTriple(d.mag, 12, k)
         /\ \A k \in 18 .. 23 : Body(d)[k] = InTriple(d.angles, 18, k)
         /\ \A k \in 24 .. 27 : Body(d)[k] = InTriple(d.channels, 24, k)
         /\ \A k \in 28 .. 31 : Body(d)[k] = FloatBytes(d.lux)[k - 27]
<1>1. Body(d)[1] = START
  BY DEF Body
<1>2. ASSUME NEW k \in 2 .. 7 PROVE Body(d)[k] = InTriple(d.accel, 2, k)
  <2>1. k \in 1 .. 31 /\ k # 1
    OBVIOUS
  <2> QED
    BY <2>1 DEF Body
<1>3. ASSUME NEW k \in 8 .. 11
      PROVE  Body(d)[k] = FloatBytes(d.temperature)[k - 7]
  <2>1. k \in 1 .. 31 /\ k # 1 /\ k \notin 2 .. 7
    OBVIOUS
  <2> QED
    BY <2>1 DEF Body
<1>4. ASSUME NEW k \in 12 .. 17 PROVE Body(d)[k] = InTriple(d.mag, 12, k)
  <2>1. k \in 1 .. 31 /\ k # 1 /\ k \notin 2 .. 7 /\ k \notin 8 .. 11
    OBVIOUS
  <2> QED
    BY <2>1 DEF Body
<1>5. ASSUME NEW k \in 18 .. 23 PROVE Body(d)[k] = InTriple(d.angles, 18, k)
  <2>1. /\ k \in 1 .. 31 /\ k # 1 /\ k \notin 2 .. 7 /\ k \notin 8 .. 11
        /\ k \notin 12 .. 17
    OBVIOUS
  <2> QED
    BY <2>1 DEF Body
<1>6. ASSUME NEW k \in 24 .. 27 PROVE Body(d)[k] = InTriple(d.channels, 24, k)
  <2>1. /\ k \in 1 .. 31 /\ k # 1 /\ k \notin 2 .. 7 /\ k \notin 8 .. 11
        /\ k \notin 12 .. 17 /\ k \notin 18 .. 23
    OBVIOUS
  <2> QED
    BY <2>1 DEF Body
<1>7. ASSUME NEW k \in 28 .. 31 PROVE Body(d)[k] = FloatBytes(d.lux)[k - 27]
  <2>1. /\ k \in 1 .. 31 /\ k # 1 /\ k \notin 2 .. 7 /\ k \notin 8 .. 11
        /\ k \notin 12 .. 17 /\ k \notin 18 .. 23 /\ k \notin 24 .. 27
    OBVIOUS
  <2> QED
    BY <2>1 DEF Body
<1> QED
  BY <1>1, <1>2, <1>3, <1>4, <1>5, <1>6, <1>7

\* A word of any of the types is two octets.
LEMMA WordsAreOctets ==
  ASSUME NEW v, v \in Halves \/ v \in Shorts \/ v \in Words16
  PROVE  Word(v)[1] \in Octets /\ Word(v)[2] \in Octets
<1>1. v \in Int /\ -32768 <= v /\ v <= 65535
  BY HalvesAre, ShortsAre, Words16Are
<1> QED
  BY <1>1, WordBytes

LEMMA DataFields ==
  ASSUME NEW d \in SensorData
  PROVE  /\ \A i \in 1 .. 3 : /\ d.accel[i] \in Halves /\ d.mag[i] \in Halves
                              /\ d.angles[i] \in Shorts
         /\ d.temperature \in Octets /\ d.lux \in Words16
         /\ d.channels[1] \in Words16 /\ d.channels[2] \in Words16
         /\ d.channels = <<d.channels[1], d.channels[2]>>
         /\ d.temperature \in Words16
<1>1. /\ d.accel \in [1 .. 3 -> Halves] /\ d.mag \in [1 .. 3 -> Halves]
      /\ d.angles \in [1 .. 3 -> Shorts]
      /\ d.temperature \in Octets /\ d.lux \in Words16
      /\ d.channels \in Words16 \X Words16
  BY DEF SensorData
<1>2. d.temperature \in Words16
  BY <1>1, OctetsAre, Words16Are
<1>3. PICK a \in Words16, b \in Words16 : d.channels = <<a, b>>
  BY <1>1
<1> QED
  BY <1>1, <1>2, <1>3

LEMMA BodyIsOctets ==
  ASSUME NEW d \in SensorData
  PROVE  \A k \in 1 .. 31 : Body(d)[k] \in Octets
<1>1. ASSUME NEW words, NEW first \in Int, NEW n \in {2, 3},
             \A i \in 1 .. n : /\ Word(words[i])[1] \in Octets
                               /\ Word(words[i])[2] \in Octets,
             NEW k \in first .. first + 2 * n - 1
      PROVE  InTriple(words, first, k) \in Octets
  <2>1. PICK t : t = k - first
    OBVIOUS
  <2>2. t \in 0 .. 2 * n - 1
    BY <1>1, <2>1
  <2>3. PICK i, j : i = 1 + (t \div 2) /\ j = 1 + (t % 2)
    OBVIOUS
  <2>4. i \in 1 .. n /\ (j = 1 \/ j = 2)
    BY <1>1, <2>2, <2>3
  <2>5. InTriple(words, first, k) = Word(words[i])[j]
    BY <2>1, <2>3 DEF InTriple
  <2> QED
    BY <1>1, <2>4, <2>5
<1>2. START \in Octets
  BY OctetsAre DEF START
<1>3. /\ \A i \in 1 .. 3 : /\ Word(d.accel[i])[1] \in Octets
                           /\ Word(d.accel[i])[2] \in Octets
      /\ \A i \in 1 .. 3 : /\ Word(d.mag[i])[1] \in Octets
                           /\ Word(d.mag[i])[2] \in Octets
      /\ \A i \in 1 .. 3 : /\ Word(d.angles[i])[1] \in Octets
                           /\ Word(d.angles[i])[2] \in Octets
  BY DataFields, WordsAreOctets
<1>4. \A i \in 1 .. 2 : /\ Word(d.channels[i])[1] \in Octets
                        /\ Word(d.channels[i])[2] \in Octets
  <2>1. \A i \in 1 .. 2 : i = 1 \/ i = 2
    OBVIOUS
  <2> QED
    BY <2>1, DataFields, WordsAreOctets
<1>5. \A k \in 2 .. 7 : InTriple(d.accel, 2, k) \in Octets
  <2>1. 2 + 2 * 3 - 1 = 7 /\ 3 \in {2, 3}
    OBVIOUS
  <2> QED
    BY <1>1, <1>3, <2>1
<1>6. \A k \in 12 .. 17 : InTriple(d.mag, 12, k) \in Octets
  <2>1. 12 + 2 * 3 - 1 = 17 /\ 3 \in {2, 3}
    OBVIOUS
  <2> QED
    BY <1>1, <1>3, <2>1
<1>7. \A k \in 18 .. 23 : InTriple(d.angles, 18, k) \in Octets
  <2>1. 18 + 2 * 3 - 1 = 23 /\ 3 \in {2, 3}
    OBVIOUS
  <2> QED
    BY <1>1, <1>3, <2>1
<1>8. \A k \in 24 .. 27 : InTriple(d.channels, 24, k) \in Octets
  <2>1. 24 + 2 * 2 - 1 = 27 /\ 2 \in {2, 3}
    OBVIOUS
  <2> QED
    BY <1>1, <1>4, <2>1
<1>9. /\ \A k \in 8 .. 11 : FloatBytes(d.temperature)[k - 7] \in Octets
      /\ \A k \in 28 .. 31 : FloatBytes(d.lux)[k - 27] \in Octets
  <2>1. /\ \A j \in 1 .. 4 : FloatBytes(d.temperature)[j] \in Octets
        /\ \A j \in 1 .. 4 : FloatBytes(d.lux)[j] \in Octets
    BY DataFields, FloatBytesAre
  <2>2. \A k \in 8 .. 11 : k - 7 \in 1 .. 4
    OBVIOUS
  <2>3. \A k \in 28 .. 31 : k - 27 \in 1 .. 4
    OBVIOUS
  <2> QED
    BY <2>1, <2>2, <2>3
<1> SUFFICES ASSUME NEW k \in 1 .. 31 PROVE Body(d)[k] \in Octets
  OBVIOUS
<1>10. \/ k = 1 \/ k \in 2 .. 7 \/ k \in 8 .. 11 \/ k \in 12 .. 17
       \/ k \in 18 .. 23 \/ k \in 24 .. 27 \/ k \in 28 .. 31
  OBVIOUS
<1>11. CASE k = 1
  BY <1>2, <1>11, BodyIs
<1>12. CASE k \in 2 .. 7
  BY <1>5, <1>12, BodyIs
<1>13. CASE k \in 8 .. 11 \/ k \in 28 .. 31
  BY <1>9, <1>13, BodyIs
<1>14. CASE k \in 12 .. 17
  BY <1>6, <1>14, BodyIs
<1>15. CASE k \in 18 .. 23
  BY <1>7, <1>15, BodyIs
<1>16. CASE k \in 24 .. 27
  BY <1>8, <1>16, BodyIs
<1> QED
  BY <1>10, <1>11, <1>12, <1>13, <1>14, <1>15, <1>16

LEMMA BuiltIs ==
  ASSUME NEW d \in SensorData
  PROVE  /\ Built(d) \in [1 .. 32 -> Octets]
         /\ \A k \in 1 .. 31 : Built(d)[k] = Body(d)[k]
         /\ Built(d)[32] = Checksum(Body(d))
         /\ Checksum(Built(d)) = Checksum(Body(d))
<1>1. /\ \A k \in 1 .. 31 : Built(d)[k] = Body(d)[k]
      /\ Built(d)[32] = Checksum(Body(d))
  BY DEF Built
<1>2. Checksum(Body(d)) \in Octets
  BY BodyIsOctets, SumsAreBytes DEF Checksum
<1>3. \A k \in 1 .. 32 : k = 32 \/ k \in 1 .. 31
  OBVIOUS
<1>4. \A k \in 1 .. 32 : Built(d)[k] \in Octets
  BY <1>1, <1>2, <1>3, BodyIsOctets
<1>5. Built(d) \in [1 .. 32 -> Octets]
  BY <1>4 DEF Built
<1>6. Sums(Built(d))[31] = Sums(Body(d))[31]
  <2>1. \A k \in 1 .. 31 : Built(d)[k] = Body(d)[k]
    BY <1>1
  <2>2. PICK x, y : x = Built(d) /\ y = Body(d)
    OBVIOUS
  <2>3. 31 \in 0 .. 31 /\ \A k \in 1 .. 31 : x[k] = y[k]
    BY <2>1, <2>2
  <2>4. Sums(x)[31] = Sums(y)[31]
    BY <2>3, SumsAgree
  <2> QED
    BY <2>2, <2>4
<1> QED
  BY <1>1, <1>5, <1>6 DEF Checksum

-----------------------------------------------------------------------------
(* The host.                                                                *)

LEMMA SumOfTwo ==
  ASSUME NEW v, v \in Halves \/ v \in Shorts
  PROVE  Signed(Word(v)[1] + 256 * Word(v)[2]) = v
<1>1. v \in Int /\ -32768 <= v /\ v <= 65535 /\ v <= 32767
  BY HalvesAre, ShortsAre
<1> QED
  BY <1>1, WordBytes

\* Three signed words are read from where they were put.
LEMMA TripleIsRead ==
  ASSUME NEW words, NEW first \in Nat, NEW bytes,
         words \in [1 .. 3 -> Halves] \/ words \in [1 .. 3 -> Shorts],
         \A k \in first .. first + 5 : bytes[k] = InTriple(words, first, k)
  PROVE  TripleAt(bytes, first) = words
<1>1. ASSUME NEW i \in 1 .. 3
      PROVE  SignedAt(bytes, first + 2 * (i - 1)) = words[i]
  <2>1. PICK k : k = first + 2 * (i - 1)
    OBVIOUS
  <2>2. k \in first .. first + 5 /\ k + 1 \in first .. first + 5
    BY <2>1
  <2>3. bytes[k] = InTriple(words, first, k)
        /\ bytes[k + 1] = InTriple(words, first, k + 1)
    BY <2>2
  <2>4. InTriple(words, first, k) = Word(words[i])[1]
        /\ InTriple(words, first, k + 1) = Word(words[i])[2]
    <3>1. first \in Int
      OBVIOUS
    <3> QED
      BY <2>1, <3>1, TripleIs, Zenon
  <2>5. words[i] \in Halves \/ words[i] \in Shorts
    OBVIOUS
  <2>6. Signed(bytes[k] + 256 * bytes[k + 1]) = words[i]
    BY <2>3, <2>4, <2>5, SumOfTwo
  <2> QED
    BY <2>1, <2>6 DEF SignedAt
<1>2. TripleAt(bytes, first) =
        [i \in 1 .. 3 |-> SignedAt(bytes, first + 2 * (i - 1))]
  BY DEF TripleAt
<1>3. words = [i \in 1 .. 3 |-> words[i]]
  OBVIOUS
<1> QED
  BY <1>1, <1>2, <1>3

\* A packet the line left alone.
LEMMA BuiltIsRead ==
  ASSUME NEW d \in SensorData
  PROVE  /\ Decoded(Built(d)).accepted = TRUE
         /\ Decoded(Built(d)).accel = d.accel
         /\ Decoded(Built(d)).mag = d.mag
         /\ Decoded(Built(d)).angles = d.angles
         /\ Decoded(Built(d)).temperature = d.temperature
         /\ Decoded(Built(d)).channels = d.channels
         /\ Decoded(Built(d)).lux = d.lux
<1>1. PICK p : p = Built(d)
  OBVIOUS
<1>2. \A k \in 1 .. 31 : p[k] = Body(d)[k]
  BY <1>1, BuiltIs
<1>3. /\ d.accel \in [1 .. 3 -> Halves] /\ d.mag \in [1 .. 3 -> Halves]
      /\ d.angles \in [1 .. 3 -> Shorts]
  BY DEF SensorData
<1>4. TripleAt(p, 2) = d.accel
  <2>1. \A k \in 2 .. 2 + 5 : k \in 1 .. 31 /\ k \in 2 .. 7
    OBVIOUS
  <2>2. \A k \in 2 .. 7 : Body(d)[k] = InTriple(d.accel, 2, k)
    BY BodyIs, Zenon
  <2>3. \A k \in 2 .. 2 + 5 : p[k] = InTriple(d.accel, 2, k)
    BY <1>2, <2>1, <2>2
  <2>4. 2 \in Nat
    OBVIOUS
  <2> QED
    BY <1>3, <2>3, <2>4, TripleIsRead, Zenon
<1>5. TripleAt(p, 12) = d.mag
  <2>1. \A k \in 12 .. 12 + 5 : k \in 1 .. 31 /\ k \in 12 .. 17
    OBVIOUS
  <2>2. \A k \in 12 .. 17 : Body(d)[k] = InTriple(d.mag, 12, k)
    BY BodyIs, Zenon
  <2>3. \A k \in 12 .. 12 + 5 : p[k] = InTriple(d.mag, 12, k)
    BY <1>2, <2>1, <2>2
  <2>4. 12 \in Nat
    OBVIOUS
  <2> QED
    BY <1>3, <2>3, <2>4, TripleIsRead, Zenon
<1>6. TripleAt(p, 18) = d.angles
  <2>1. \A k \in 18 .. 18 + 5 : k \in 1 .. 31 /\ k \in 18 .. 23
    OBVIOUS
  <2>2. \A k \in 18 .. 23 : Body(d)[k] = InTriple(d.angles, 18, k)
    BY BodyIs, Zenon
  <2>3. \A k \in 18 .. 18 + 5 : p[k] = InTriple(d.angles, 18, k)
    BY <1>2, <2>1, <2>2
  <2>4. 18 \in Nat
    OBVIOUS
  <2> QED
    BY <1>3, <2>3, <2>4, TripleIsRead, Zenon
<1>7. FloatAt(p, 8) = d.temperature
  <2>1. /\ p[8] = FloatBytes(d.temperature)[1]
        /\ p[8 + 1] = FloatBytes(d.temperature)[2]
        /\ p[8 + 2] = FloatBytes(d.temperature)[3]
        /\ p[8 + 3] = FloatBytes(d.temperature)[4]
    <3>1. \A k \in 8 .. 11 : Body(d)[k] = FloatBytes(d.temperature)[k - 7]
      BY BodyIs, Zenon
    <3>2. \A k \in 8 .. 11 : k \in 1 .. 31
      OBVIOUS
    <3>3. \A k \in 8 .. 11 : p[k] = FloatBytes(d.temperature)[k - 7]
      BY <1>2, <3>1, <3>2
    <3> QED
      BY <3>3
  <2> QED
    BY <2>1, DataFields, FloatIsRead
<1>8. FloatAt(p, 28) = d.lux
  <2>1. /\ p[28] = FloatBytes(d.lux)[1]
        /\ p[28 + 1] = FloatBytes(d.lux)[2]
        /\ p[28 + 2] = FloatBytes(d.lux)[3]
        /\ p[28 + 3] = FloatBytes(d.lux)[4]
    <3>1. \A k \in 28 .. 31 : Body(d)[k] = FloatBytes(d.lux)[k - 27]
      BY BodyIs, Zenon
    <3>2. \A k \in 28 .. 31 : k \in 1 .. 31
      OBVIOUS
    <3>3. \A k \in 28 .. 31 : p[k] = FloatBytes(d.lux)[k - 27]
      BY <1>2, <3>1, <3>2
    <3> QED
      BY <3>3
  <2> QED
    BY <2>1, DataFields, FloatIsRead
<1>9. UnsignedAt(p, 24) = d.channels[1] /\ UnsignedAt(p, 26) = d.channels[2]
  <2>1. \A k \in 24 .. 27 : p[k] = InTriple(d.channels, 24, k)
    <3>1. \A k \in 24 .. 27 : Body(d)[k] = InTriple(d.channels, 24, k)
      BY BodyIs, Zenon
    <3>2. \A k \in 24 .. 27 : k \in 1 .. 31
      OBVIOUS
    <3> QED
      BY <1>2, <3>1, <3>2
  <2>2. /\ p[24] = Word(d.channels[1])[1] /\ p[24 + 1] = Word(d.channels[1])[2]
        /\ p[26] = Word(d.channels[2])[1] /\ p[26 + 1] = Word(d.channels[2])[2]
    <3>1. 1 \in 1 .. 3 /\ 2 \in 1 .. 3 /\ 24 \in Int
      OBVIOUS
    <3>3. /\ InTriple(d.channels, 24, 24 + 2 * (1 - 1))
               = Word(d.channels[1])[1]
          /\ InTriple(d.channels, 24, 24 + 2 * (1 - 1) + 1)
               = Word(d.channels[1])[2]
          /\ InTriple(d.channels, 24, 24 + 2 * (2 - 1))
               = Word(d.channels[2])[1]
          /\ InTriple(d.channels, 24, 24 + 2 * (2 - 1) + 1)
               = Word(d.channels[2])[2]
      BY <3>1, TripleIs, Zenon
    <3>2. /\ InTriple(d.channels, 24, 24) = Word(d.channels[1])[1]
          /\ InTriple(d.channels, 24, 25) = Word(d.channels[1])[2]
          /\ InTriple(d.channels, 24, 26) = Word(d.channels[2])[1]
          /\ InTriple(d.channels, 24, 27) = Word(d.channels[2])[2]
      BY <3>3
    <3> QED
      BY <2>1, <3>2
  <2>3. ASSUME NEW v \in Words16 PROVE Word(v)[1] + 256 * Word(v)[2] = v
    <3>1. v \in Int /\ -32768 <= v /\ v <= 65535 /\ 0 <= v
      BY Words16Are
    <3> QED
      BY <3>1, WordBytes
  <2> QED
    BY <2>2, <2>3, DataFields DEF UnsignedAt
<1> QED
  BY <1>1, <1>4, <1>5, <1>6, <1>7, <1>8, <1>9, DataFields DEF Decoded

Accepts(bytes) == bytes[1] = START /\ bytes[32] = Checksum(bytes)

LEMMA OctetMoves ==
  ASSUME NEW x \in Octets, NEW n \in Octets \ {0}
  PROVE  (x + n) % 256 # x
<1>1. /\ x \in Int /\ 0 <= x /\ x <= 255
      /\ n \in Int /\ 1 <= n /\ n <= 255
  BY OctetsAre
<1> QED
  BY <1>1

LEMMA ChecksumsAgree ==
  ASSUME NEW b, NEW c, \A k \in 1 .. 31 : b[k] = c[k]
  PROVE  Checksum(b) = Checksum(c)
BY SumsAgree DEF Checksum

LEMMA ChecksumsDiffer ==
  ASSUME NEW b, \A k \in 1 .. 31 : b[k] \in Octets,
         NEW j \in 1 .. 31, NEW n \in Octets \ {0}, NEW c,
         c[j] = (b[j] + n) % 256,
         \A k \in 1 .. 31 : k # j => c[k] = b[k]
  PROVE  Checksum(c) # Checksum(b)
BY SumsDiffer DEF Checksum

\* One wrong byte, and the sum does not agree.
LEMMA WrongByteIsSeen ==
  ASSUME NEW b, \A k \in 1 .. 31 : b[k] \in Octets,
         b[32] \in Octets, b[32] = Checksum(b),
         NEW j \in 1 .. 32, NEW n \in Octets \ {0}, NEW c,
         c[j] = (b[j] + n) % 256,
         \A k \in 1 .. 32 : k # j => c[k] = b[k]
  PROVE  ~ Accepts(c)
<1>1. CASE j = 32
  <2>1. \A k \in 1 .. 31 : b[k] = c[k]
    BY <1>1
  <2>2. Checksum(b) = Checksum(c)
    BY <2>1, ChecksumsAgree
  <2>3. c[32] # b[32]
    BY <1>1, OctetMoves
  <2> QED
    BY <2>2, <2>3 DEF Accepts
<1>2. CASE j # 32
  <2>1. j \in 1 .. 31 /\ c[32] = b[32]
    BY <1>2
  <2>2. \A k \in 1 .. 31 : k # j => c[k] = b[k]
    OBVIOUS
  <2>3. Checksum(c) # Checksum(b)
    BY <2>1, <2>2, ChecksumsDiffer
  <2> QED
    BY <2>1, <2>3 DEF Accepts
<1> QED
  BY <1>1, <1>2

LEMMA BuiltIsAccepted ==
  ASSUME NEW d \in SensorData
  PROVE  Accepts(Built(d))
<1>1. Built(d)[1] = START
  <2>1. 1 \in 1 .. 31
    OBVIOUS
  <2>2. Built(d)[1] = Body(d)[1] /\ Body(d)[1] = START
    BY <2>1, BuiltIs, BodyIs, Zenon
  <2> QED
    BY <2>2
<1> QED
  BY <1>1, BuiltIs DEF Accepts

-----------------------------------------------------------------------------
(* The inductive invariant.                                                 *)

\* What sensor_data holds is converted from what the registers hold, or has
\* not been read yet.
Converted ==
  /\ registers \in Registers
  /\ sensor_data \in SensorData
  /\ \/ \A i \in 1 .. 3 : sensor_data.accel[i] = Q4_11(registers.accel[i])
     \/ \A i \in 1 .. 3 : sensor_data.accel[i] = 0
  /\ \/ \A i \in 1 .. 3 : sensor_data.mag[i] = Q8_7(registers.mag[i])
     \/ \A i \in 1 .. 3 : sensor_data.mag[i] = 0
  /\ sensor_data.temperature \in {0, registers.degrees}

\* What the host gets is what was built of it, or differs in one byte.
OnTheLine ==
  /\ packetStep \in {"reading", "sent", "received"} /\ noisy \in BOOLEAN
  /\ packetStep = "reading" => ~noisy
  /\ packetStep # "reading" =>
       /\ packet \in [1 .. 32 -> Octets]
       /\ ~noisy => packet = Built(sensor_data)
       /\ noisy => ~ Accepts(packet)
  /\ packetStep = "received" =>
       host = IF Accepts(packet) THEN Decoded(packet) ELSE Rejected

PacketInv == Converted /\ OnTheLine

LEMMA PacketStart == PacketInit => PacketInv
<1> SUFFICES ASSUME PacketInit PROVE PacketInv
  OBVIOUS
<1>1. PICK a \in Axes, m \in Axes, t \in Degrees, c \in Lights, x \in Luxes :
        registers = [accel |-> a, mag |-> m, degrees |-> t,
                     channels |-> c, lux |-> x]
  BY DEF PacketInit
<1>2. /\ a \in [1 .. 3 -> Shorts] /\ m \in [1 .. 3 -> Shorts] /\ t \in Octets
      /\ c \in Words16 \X Words16 /\ x \in Words16
  BY <1>1, PacketAssumption, Zenon DEF PacketAssumption
<1>3. registers \in Registers
  BY <1>1, <1>2 DEF Registers
<1>4. 0 \in Halves /\ 0 \in Shorts /\ 0 \in Octets /\ 0 \in Words16
  BY HalvesAre, ShortsAre, OctetsAre, Words16Are
<1>5. sensor_data =
        [accel |-> [k \in 1 .. 3 |-> 0], mag |-> [k \in 1 .. 3 |-> 0],
         angles |-> [k \in 1 .. 3 |-> 0], temperature |-> 0,
         channels |-> <<0, 0>>, lux |-> 0]
  BY DEF PacketInit
<1>6. /\ [k \in 1 .. 3 |-> 0] \in [1 .. 3 -> Halves]
      /\ [k \in 1 .. 3 |-> 0] \in [1 .. 3 -> Shorts]
      /\ <<0, 0>> \in Words16 \X Words16
  BY <1>4
<1>7. sensor_data \in SensorData
  BY <1>4, <1>5, <1>6 DEF SensorData
<1>8. /\ \A i \in 1 .. 3 : sensor_data.accel[i] = 0
      /\ \A i \in 1 .. 3 : sensor_data.mag[i] = 0
      /\ sensor_data.temperature = 0
  BY <1>5
<1>9. OnTheLine
  <2>1. packetStep = "reading" /\ noisy \in BOOLEAN /\ ~noisy
    BY Zenon DEF PacketInit
  <2> QED
    BY <2>1 DEF OnTheLine
<1> QED
  BY <1>3, <1>7, <1>8, <1>9 DEF PacketInv, Converted

LEMMA RegisterWords ==
  ASSUME registers \in Registers
  PROVE  /\ \A i \in 1 .. 3 : registers.accel[i] \in Shorts
                              /\ registers.mag[i] \in Shorts
         /\ registers.degrees \in Octets
         /\ registers.channels \in Words16 \X Words16
         /\ registers.lux \in Words16
BY DEF Registers

\* A reading changes fields of sensor_data only.
LEMMA ReadingKeeps ==
  ASSUME PacketInv, packetStep = "reading",
         UNCHANGED <<registers, packet, packetStep, noisy, host>>,
         sensor_data' \in SensorData,
         \/ \A i \in 1 .. 3 : sensor_data'.accel[i] = Q4_11(registers.accel[i])
         \/ sensor_data'.accel = sensor_data.accel,
         \/ \A i \in 1 .. 3 : sensor_data'.mag[i] = Q8_7(registers.mag[i])
         \/ sensor_data'.mag = sensor_data.mag,
         sensor_data'.temperature \in {sensor_data.temperature, registers.degrees}
  PROVE  PacketInv'
<1>1. OnTheLine'
  BY DEF PacketInv, OnTheLine
<1>2. \/ \A i \in 1 .. 3 : sensor_data'.accel[i] = Q4_11(registers.accel[i])
      \/ \A i \in 1 .. 3 : sensor_data'.accel[i] = 0
  BY DEF PacketInv, Converted
<1>3. \/ \A i \in 1 .. 3 : sensor_data'.mag[i] = Q8_7(registers.mag[i])
      \/ \A i \in 1 .. 3 : sensor_data'.mag[i] = 0
  BY DEF PacketInv, Converted
<1>4. registers' = registers /\ registers \in Registers
  BY DEF PacketInv, Converted
<1>6. sensor_data'.temperature \in {0, registers.degrees}
  BY DEF PacketInv, Converted
<1>5. Converted'
  BY <1>2, <1>3, <1>4, <1>6 DEF Converted
<1> QED
  BY <1>1, <1>5 DEF PacketInv

LEMMA SendKeeps == PacketInv /\ send_sensor_data => PacketInv'
<1> SUFFICES ASSUME PacketInv, send_sensor_data PROVE PacketInv'
  OBVIOUS
<1>1. /\ packetStep = "reading" /\ packetStep' = "sent"
      /\ registers' = registers /\ sensor_data' = sensor_data
      /\ noisy' = noisy /\ host' = host
      /\ packet' = Built(sensor_data)
  BY DEF send_sensor_data, Built
<1>2. sensor_data \in SensorData /\ ~noisy
  BY <1>1 DEF PacketInv, Converted, OnTheLine
<1>3. packet' \in [1 .. 32 -> Octets] /\ packet' = Built(sensor_data')
  BY <1>1, <1>2, BuiltIs
<1>4. OnTheLine'
  <2>1. noisy' \in BOOLEAN /\ ~noisy'
    BY <1>1, <1>2, Zenon DEF PacketInv, OnTheLine
  <2> QED
    BY <1>1, <1>3, <2>1 DEF OnTheLine
<1>5. Converted'
  BY <1>1 DEF PacketInv, Converted
<1> QED
  BY <1>4, <1>5 DEF PacketInv

LEMMA DisturbKeeps ==
  ASSUME PacketInv, NEW k \in 1 .. 32, NEW n \in Noise, Disturb(k, n)
  PROVE  PacketInv'
<1>1. /\ packetStep = "sent" /\ ~noisy /\ noisy' = TRUE
      /\ packetStep' = packetStep
      /\ registers' = registers /\ sensor_data' = sensor_data
      /\ host' = host
  BY DEF Disturb
<1>2. PICK b : b = packet
  OBVIOUS
<1>3. b \in [1 .. 32 -> Octets] /\ b = Built(sensor_data)
      /\ sensor_data \in SensorData
  BY <1>1, <1>2 DEF PacketInv, Converted, OnTheLine
<1>4. packet' = [b EXCEPT ![k] = (b[k] + n) % 256]
  BY <1>2 DEF Disturb
<1>5. /\ packet'[k] = (b[k] + n) % 256
      /\ \A j \in 1 .. 32 : j # k => packet'[j] = b[j]
  BY <1>3, <1>4
<1>6. n \in Octets \ {0}
  BY PacketAssumption, Zenon DEF PacketAssumption
<1>7. b[32] = Checksum(b)
  BY <1>3, BuiltIs
<1>8. \A j \in 1 .. 31 : b[j] \in Octets
  BY <1>3
<1>9. b[32] \in Octets
  BY <1>3
<1>10. ~ Accepts(packet')
  <2>1. PICK c : c = packet'
    OBVIOUS
  <2>2. /\ c[k] = (b[k] + n) % 256
        /\ \A j \in 1 .. 32 : j # k => c[j] = b[j]
    BY <1>5, <2>1
  <2>3. ~ Accepts(c)
    BY <1>6, <1>7, <1>8, <1>9, <2>2, WrongByteIsSeen
  <2> QED
    BY <2>1, <2>3
<1>11. packet' \in [1 .. 32 -> Octets]
  <2>1. ASSUME NEW x \in Octets PROVE (x + n) % 256 \in Octets
    BY <1>6, OctetsAre
  <2>2. (b[k] + n) % 256 \in Octets
    BY <1>3, <2>1
  <2> QED
    BY <1>3, <1>4, <2>2
<1>12. OnTheLine'
  <2>1. Accepts(packet)' <=> Accepts(packet')
    BY DEF Accepts, Checksum, Sums
  <2> QED
    BY <1>1, <1>10, <1>11, <2>1 DEF OnTheLine
<1>13. Converted'
  BY <1>1 DEF PacketInv, Converted
<1> QED
  BY <1>12, <1>13 DEF PacketInv

LEMMA ReceiveKeeps == PacketInv /\ Receive => PacketInv'
<1> SUFFICES ASSUME PacketInv, Receive PROVE PacketInv'
  OBVIOUS
<1>1. /\ packetStep = "sent" /\ packetStep' = "received"
      /\ registers' = registers /\ sensor_data' = sensor_data
      /\ packet' = packet /\ noisy' = noisy
      /\ host' = IF Accepts(packet) THEN Decoded(packet) ELSE Rejected
  BY DEF Receive, Accepts
<1>2. /\ noisy' \in BOOLEAN
      /\ ~noisy' => packet' = Built(sensor_data')
      /\ noisy' => ~ Accepts(packet)
  BY <1>1, Zenon DEF PacketInv, OnTheLine
<1>3. packet' \in [1 .. 32 -> Octets]
  BY <1>1 DEF PacketInv, OnTheLine
<1>4. /\ Accepts(packet') <=> Accepts(packet)
      /\ Decoded(packet') = Decoded(packet)
  BY <1>1
<1>5. OnTheLine'
  BY <1>1, <1>2, <1>3, <1>4 DEF OnTheLine
<1>6. Converted'
  BY <1>1 DEF PacketInv, Converted
<1> QED
  BY <1>5, <1>6 DEF PacketInv

\* A record with two fields replaced.
LEMMA LightFields ==
  ASSUME NEW d \in SensorData, NEW x, NEW y
  PROVE  [d EXCEPT !.channels = x, !.lux = y] =
           [accel |-> d.accel, mag |-> d.mag, angles |-> d.angles,
            temperature |-> d.temperature, channels |-> x, lux |-> y]
<1>1. PICK a, m, g, t, c, l :
        d = [accel |-> a, mag |-> m, angles |-> g, temperature |-> t,
             channels |-> c, lux |-> l]
  BY DEF SensorData
<1>2. PICK e : e = [d EXCEPT !.channels = x]
  BY Zenon
<1>3. e = [accel |-> a, mag |-> m, angles |-> g, temperature |-> t,
           channels |-> x, lux |-> l]
  BY <1>1, <1>2
<1>4. [d EXCEPT !.channels = x, !.lux = y] = [e EXCEPT !.lux = y]
  BY <1>2
<1>5. [e EXCEPT !.lux = y] =
        [accel |-> a, mag |-> m, angles |-> g, temperature |-> t,
         channels |-> x, lux |-> y]
  BY <1>3
<1> QED
  BY <1>1, <1>4, <1>5

LEMMA FieldAndAngles ==
  ASSUME NEW d \in SensorData, NEW x, NEW y
  PROVE  [d EXCEPT !.mag = x, !.angles = y] =
           [accel |-> d.accel, mag |-> x, angles |-> y,
            temperature |-> d.temperature, channels |-> d.channels,
            lux |-> d.lux]
<1>1. PICK a, m, g, t, c, l :
        d = [accel |-> a, mag |-> m, angles |-> g, temperature |-> t,
             channels |-> c, lux |-> l]
  BY DEF SensorData
<1>2. PICK e : e = [d EXCEPT !.mag = x]
  BY Zenon
<1>3. e = [accel |-> a, mag |-> x, angles |-> g, temperature |-> t,
           channels |-> c, lux |-> l]
  BY <1>1, <1>2
<1>4. [d EXCEPT !.mag = x, !.angles = y] = [e EXCEPT !.angles = y]
  BY <1>2
<1>5. [e EXCEPT !.angles = y] =
        [accel |-> a, mag |-> x, angles |-> y, temperature |-> t,
         channels |-> c, lux |-> l]
  BY <1>3
<1> QED
  BY <1>1, <1>4, <1>5

LEMMA PacketSteps == PacketInv /\ [PacketNext]_packetVars => PacketInv'
<1> SUFFICES ASSUME PacketInv, [PacketNext]_packetVars PROVE PacketInv'
  OBVIOUS
<1>d. sensor_data \in SensorData /\ registers \in Registers
  BY DEF PacketInv, Converted
<1>t. /\ sensor_data.accel \in [1 .. 3 -> Halves]
      /\ sensor_data.mag \in [1 .. 3 -> Halves]
      /\ sensor_data.angles \in [1 .. 3 -> Shorts]
      /\ sensor_data.temperature \in Octets
      /\ sensor_data.channels \in Words16 \X Words16
      /\ sensor_data.lux \in Words16
  BY <1>d DEF SensorData
<1>1. CASE ReadAccelerometer
  <2>1. PICK a : a = [k \in 1 .. 3 |-> Q4_11(registers.accel[k])]
    BY Zenon
  <2>2. /\ packetStep = "reading"
        /\ sensor_data' = [sensor_data EXCEPT !.accel = a]
        /\ UNCHANGED <<registers, packet, packetStep, noisy, host>>
    BY <1>1, <2>1 DEF ReadAccelerometer
  <2>3. a \in [1 .. 3 -> Halves]
    BY <1>d, <2>1, RegisterWords, AccelerationIs
  <2>4. sensor_data' \in SensorData
    BY <1>d, <2>2, <2>3 DEF SensorData
  <2>5. /\ sensor_data'.accel = a /\ sensor_data'.mag = sensor_data.mag
        /\ sensor_data'.temperature = sensor_data.temperature
    BY <1>d, <2>2 DEF SensorData
  <2>6. \A i \in 1 .. 3 : sensor_data'.accel[i] = Q4_11(registers.accel[i])
    BY <2>1, <2>5
  <2> QED
    BY <2>2, <2>4, <2>5, <2>6, ReadingKeeps
<1>2. CASE ReadMagnetometer
  <2>1. PICK m : m = [k \in 1 .. 3 |-> Q8_7(registers.mag[k])]
    BY Zenon
  <2>2. PICK angles \in Axes :
          sensor_data' = [sensor_data EXCEPT
            !.mag = [k \in 1 .. 3 |-> Q8_7(registers.mag[k])],
            !.angles = angles]
    BY <1>2, Zenon DEF ReadMagnetometer
  <2>9. sensor_data' =
          [accel |-> sensor_data.accel, mag |-> m, angles |-> angles,
           temperature |-> sensor_data.temperature,
           channels |-> sensor_data.channels, lux |-> sensor_data.lux]
    BY <1>d, <2>1, <2>2, FieldAndAngles, Zenon
  <2>3. /\ packetStep = "reading"
        /\ UNCHANGED <<registers, packet, packetStep, noisy, host>>
    BY <1>2 DEF ReadMagnetometer
  <2>4. m \in [1 .. 3 -> Halves]
    BY <1>d, <2>1, RegisterWords, FieldIs
  <2>5. angles \in [1 .. 3 -> Shorts]
    BY PacketAssumption, Zenon DEF PacketAssumption
  <2>6. sensor_data' \in SensorData
    BY <1>t, <2>9, <2>4, <2>5 DEF SensorData
  <2>7. /\ sensor_data'.mag = m /\ sensor_data'.accel = sensor_data.accel
        /\ sensor_data'.temperature = sensor_data.temperature
    BY <2>9
  <2>8. \A i \in 1 .. 3 : sensor_data'.mag[i] = Q8_7(registers.mag[i])
    BY <2>1, <2>7
  <2> QED
    BY <2>3, <2>6, <2>7, <2>8, ReadingKeeps
<1>3. CASE ReadTemperature
  <2>1. /\ packetStep = "reading"
        /\ sensor_data' =
             [sensor_data EXCEPT !.temperature = registers.degrees]
        /\ UNCHANGED <<registers, packet, packetStep, noisy, host>>
    BY <1>3 DEF ReadTemperature
  <2>2. registers.degrees \in Octets
    BY <1>d, RegisterWords
  <2>3. /\ sensor_data' \in SensorData
        /\ sensor_data'.mag = sensor_data.mag
        /\ sensor_data'.accel = sensor_data.accel
        /\ sensor_data'.temperature = registers.degrees
    BY <1>d, <2>1, <2>2 DEF SensorData
  <2> QED
    BY <2>1, <2>3, ReadingKeeps
<1>4. CASE ReadLight
  <2>1. /\ packetStep = "reading"
        /\ sensor_data' = [sensor_data EXCEPT !.channels = registers.channels,
                                              !.lux = registers.lux]
        /\ UNCHANGED <<registers, packet, packetStep, noisy, host>>
    BY <1>4 DEF ReadLight
  <2>2. registers.channels \in Words16 \X Words16 /\ registers.lux \in Words16
    BY <1>d, RegisterWords
  <2>4. sensor_data' =
          [accel |-> sensor_data.accel, mag |-> sensor_data.mag,
           angles |-> sensor_data.angles,
           temperature |-> sensor_data.temperature,
           channels |-> registers.channels, lux |-> registers.lux]
    BY <1>d, <2>1, LightFields, Zenon
  <2>3. /\ sensor_data' \in SensorData
        /\ sensor_data'.mag = sensor_data.mag
        /\ sensor_data'.accel = sensor_data.accel
        /\ sensor_data'.temperature = sensor_data.temperature
    BY <1>t, <2>2, <2>4 DEF SensorData
  <2> QED
    BY <2>1, <2>3, ReadingKeeps
<1>5. CASE send_sensor_data
  BY <1>5, SendKeeps
<1>6. CASE Receive
  BY <1>6, ReceiveKeeps
<1>7. ASSUME NEW k \in 1 .. 32, NEW n \in Noise, Disturb(k, n)
      PROVE  PacketInv'
  BY <1>7, DisturbKeeps
<1>8. CASE UNCHANGED packetVars
  <2>1. /\ registers' = registers /\ sensor_data' = sensor_data
        /\ packet' = packet /\ packetStep' = packetStep
        /\ noisy' = noisy /\ host' = host
    BY <1>8 DEF packetVars
  <2>2. Converted'
    BY <2>1 DEF PacketInv, Converted
  <2>3. OnTheLine'
    BY <2>1, Zenon DEF PacketInv, OnTheLine
  <2> QED
    BY <2>2, <2>3 DEF PacketInv
<1> QED
  BY <1>1, <1>2, <1>3, <1>4, <1>5, <1>6, <1>7, <1>8 DEF PacketNext

LEMMA PacketTypesFollow == PacketInv => PacketTypeOK
<1> SUFFICES ASSUME PacketInv PROVE PacketTypeOK
  OBVIOUS
<1>1. packetStep # "reading" =>
        Len(packet) = 32 /\ \A k \in 1 .. 32 : packet[k] \in Octets
  <2> SUFFICES ASSUME packetStep # "reading"
               PROVE  Len(packet) = 32
                        /\ \A k \in 1 .. 32 : packet[k] \in Octets
    OBVIOUS
  <2>1. packet \in [1 .. 32 -> Octets]
    BY DEF PacketInv, OnTheLine
  <2>2. Len(packet) = 32
    BY <2>1
  <2> QED
    BY <2>1, <2>2
<1>2. sensor_data \in SensorData
  BY DEF PacketInv, Converted
<1>3. /\ \A k \in 1 .. 3 : /\ sensor_data.accel[k] \in Halves
                           /\ sensor_data.mag[k] \in Halves
                           /\ sensor_data.angles[k] \in Shorts
      /\ sensor_data.temperature \in Octets
  BY <1>2, DataFields
<1>4. packetStep \in {"reading", "sent", "received"} /\ noisy \in BOOLEAN
  BY DEF PacketInv, OnTheLine
<1> QED
  BY <1>1, <1>3, <1>4 DEF PacketTypeOK

LEMMA HostFollows == PacketInv => HostReadsSensorData
<1> SUFFICES ASSUME PacketInv, packetStep = "received"
             PROVE  /\ host.accepted = ~noisy
                    /\ host.accepted =>
                         \A f \in DOMAIN sensor_data : host[f] = sensor_data[f]
  BY DEF HostReadsSensorData
<1>1. sensor_data \in SensorData
  BY DEF PacketInv, Converted
<1>2. host = IF Accepts(packet) THEN Decoded(packet) ELSE Rejected
  BY DEF PacketInv, OnTheLine
<1>3. CASE noisy
  <2>1. noisy = TRUE
    BY <1>3, Zenon DEF PacketInv, OnTheLine
  <2>2. ~ Accepts(packet)
    BY <1>3 DEF PacketInv, OnTheLine
  <2>3. host.accepted = FALSE
    BY <1>2, <2>2 DEF Rejected
  <2> QED
    BY <2>1, <2>3, Zenon
<1>4. CASE ~noisy
  <2>1. noisy = FALSE
    BY <1>4, Zenon DEF PacketInv, OnTheLine
  <2>2. packet = Built(sensor_data)
    BY <1>4 DEF PacketInv, OnTheLine
  <2>3. host = Decoded(Built(sensor_data))
    BY <1>1, <1>2, <2>2, BuiltIsAccepted
  <2>4. /\ host.accepted = TRUE
        /\ host.accel = sensor_data.accel /\ host.mag = sensor_data.mag
        /\ host.angles = sensor_data.angles
        /\ host.temperature = sensor_data.temperature
        /\ host.channels = sensor_data.channels
        /\ host.lux = sensor_data.lux
    BY <1>1, <2>3, BuiltIsRead, Zenon
  <2>5. DOMAIN sensor_data =
          {"accel", "mag", "angles", "temperature", "channels", "lux"}
    BY <1>1 DEF SensorData
  <2>6. \A f \in DOMAIN sensor_data : host[f] = sensor_data[f]
    BY <2>4, <2>5
  <2> QED
    BY <2>1, <2>4, <2>6, Zenon
<1> QED
  BY <1>3, <1>4

LEMMA ColdFollows == PacketInv => OnlyColdTurnsRound
<1> SUFFICES ASSUME PacketInv, sensor_data.temperature # 0
             PROVE  sensor_data.temperature =
                      SignedByte(registers.degrees)
                        + (IF registers.degrees < 128 THEN 0 ELSE 256)
  BY DEF OnlyColdTurnsRound
<1>1. registers.degrees \in 0 .. 255
  BY RegisterWords DEF PacketInv, Converted, Octets
<1>2. sensor_data.temperature = registers.degrees
  BY DEF PacketInv, Converted
<1> QED
  BY <1>1, <1>2 DEF SignedByte

LEMMA OrderFollows == PacketInv => NoAxisTurnsRound
<1> SUFFICES ASSUME PacketInv, NEW i \in 1 .. 3, NEW j \in 1 .. 3
             PROVE  /\ registers.mag[i] <= registers.mag[j] =>
                         sensor_data.mag[i] <= sensor_data.mag[j]
                    /\ registers.accel[i] <= registers.accel[j] =>
                         sensor_data.accel[i] <= sensor_data.accel[j]
                    /\ sensor_data.mag[i] * registers.mag[i] >= 0
                    /\ sensor_data.accel[i] * registers.accel[i] >= 0
  BY DEF NoAxisTurnsRound
<1>1. PICK a, b, m, n : /\ a = registers.accel[i] /\ b = registers.accel[j]
                        /\ m = registers.mag[i] /\ n = registers.mag[j]
  OBVIOUS
<1>2. a \in Shorts /\ b \in Shorts /\ m \in Shorts /\ n \in Shorts
  BY <1>1, RegisterWords DEF PacketInv, Converted
<1>3. a \in Int /\ b \in Int /\ m \in Int /\ n \in Int
  BY <1>2, ShortsAre
<1>4. \/ sensor_data.accel[i] = Q4_11(a) /\ sensor_data.accel[j] = Q4_11(b)
      \/ sensor_data.accel[i] = 0 /\ sensor_data.accel[j] = 0
  BY <1>1 DEF PacketInv, Converted
<1>5. \/ sensor_data.mag[i] = Q8_7(m) /\ sensor_data.mag[j] = Q8_7(n)
      \/ sensor_data.mag[i] = 0 /\ sensor_data.mag[j] = 0
  BY <1>1 DEF PacketInv, Converted
<1>6. /\ a <= b => Q4_11(a) <= Q4_11(b)
      /\ m <= n => Q8_7(m) <= Q8_7(n)
  BY <1>2, AccelerationsKeepOrder, FieldsKeepOrder
<1>7. Q4_11(a) * a >= 0
  <2>1. Q4_11(a) \in Int
    BY <1>2, AccelerationIs, HalvesAre
  <2> QED
    BY <1>2, <1>3, <2>1, AccelerationsKeepOrder, SameSign
<1>8. Q8_7(m) * m >= 0
  <2>1. Q8_7(m) \in Int
    BY <1>2, FieldIs, HalvesAre
  <2> QED
    BY <1>2, <1>3, <2>1, FieldsKeepOrder, SameSign
<1>9. 0 * a >= 0 /\ 0 * m >= 0 /\ 0 <= 0
  BY <1>3
<1> QED
  BY <1>1, <1>4, <1>5, <1>6, <1>7, <1>8, <1>9

\* For any words in the registers, any lux and any noise on the line: what the
\* host takes apart is what sensor_data held, no axis of the accelerometer or the
\* magnetometer is turned round on the way there (send_sensor_data,
\* float_to_q4_11, float_to_q8_7), a temperature is, by 256 degrees, exactly when
\* it is below zero (temperature_read); and the variables keep their types.
THEOREM PacketCorrect ==
  PacketSpec => [](PacketTypeOK /\ HostReadsSensorData /\ NoAxisTurnsRound
                   /\ OnlyColdTurnsRound)
<1>1. PacketInv => PacketTypeOK /\ HostReadsSensorData /\ NoAxisTurnsRound
                   /\ OnlyColdTurnsRound
  BY PacketTypesFollow, HostFollows, OrderFollows, ColdFollows
<1> QED
  BY <1>1, PacketStart, PacketSteps, PTL DEF PacketSpec

-----------------------------------------------------------------------------
(* What becomes of a reading.                                              *)

LEMMA SensingInitParts ==
  SensingInit => /\ AverageInit /\ ScheduleInit /\ FluidInit
                 /\ TiltInit /\ LightInit /\ PacketInit
  BY DEF SensingInit

\* A step is a step of one part, or none, for every part.
LEMMA SensingStepParts ==
  ASSUME [SensingNext]_sensingVars
  PROVE  /\ [AverageNext]_averageVars /\ [ScheduleNext]_scheduleVars
         /\ [FluidNext]_fluidVars /\ [TiltNext]_tiltVars
         /\ [LightNext]_lightVars /\ [PacketNext]_packetVars
<1>1. CASE AverageRuns
  BY <1>1 DEF AverageRuns
<1>2. CASE ScheduleRuns
  BY <1>2 DEF ScheduleRuns
<1>3. CASE FluidRuns
  BY <1>3 DEF FluidRuns
<1>4. CASE TiltRuns
  BY <1>4 DEF TiltRuns
<1>5. CASE LightRuns
  BY <1>5 DEF LightRuns
<1>6. CASE PacketRuns
  BY <1>6 DEF PacketRuns
<1>7. CASE UNCHANGED sensingVars
  BY <1>7 DEF sensingVars
<1> QED
  BY <1>1, <1>2, <1>3, <1>4, <1>5, <1>6, <1>7 DEF SensingNext

LEMMA SensingParts ==
  SensingSpec => /\ AverageSpec /\ ScheduleSpec /\ FluidSpec
                 /\ TiltSpec /\ LightSpec /\ PacketSpec
  BY SensingInitParts, SensingStepParts, PTL
     DEF SensingSpec, AverageSpec, ScheduleSpec, FluidSpec, TiltSpec,
         LightSpec, PacketSpec

\* All variables of the sensors' path, from sample to packet, keep their types
\* in the composition.
THEOREM SensingTypes == SensingSpec => []SensingTypeOK
<1>1. SensingSpec => /\ [](AverageTypeOK /\ SumIsWindow)
                     /\ []ResultWithinWindow
                     /\ [](ScheduleTypeOK /\ StampsAreOrdered)
                     /\ [](FluidTypeOK /\ WaterIsSound)
                     /\ [](TiltTypeOK /\ PictureIsSound)
                     /\ [](LightTypeOK /\ LuxIsSound)
                     /\ [](PacketTypeOK /\ HostReadsSensorData
                          /\ NoAxisTurnsRound /\ OnlyColdTurnsRound)
  BY SensingParts, SumCorrect, ResultCorrect, StampsCorrect, WaterCorrect,
     PictureCorrect, LuxCorrect, PacketCorrect, PTL
<1>2. ASSUME AverageTypeOK /\ SumIsWindow, ResultWithinWindow,
             ScheduleTypeOK /\ StampsAreOrdered, FluidTypeOK /\ WaterIsSound,
             TiltTypeOK /\ PictureIsSound, LightTypeOK /\ LuxIsSound,
             PacketTypeOK /\ HostReadsSensorData /\ NoAxisTurnsRound
               /\ OnlyColdTurnsRound
      PROVE  SensingTypeOK
  BY <1>2 DEF SensingTypeOK
<1> QED
  BY <1>1, <1>2, PTL

\* What the LEDs show is true: bubble, compass and brightness of the readings
\* they are made of, the fluid of the particles (led_matrix.c).
THEOREM PicturesCorrect == SensingSpec => []PicturesAreTrue
<1>1. SensingSpec => /\ [](FluidTypeOK /\ WaterIsSound)
                     /\ [](TiltTypeOK /\ PictureIsSound)
  BY SensingParts, WaterCorrect, PictureCorrect, PTL
<1>2. (FluidTypeOK /\ WaterIsSound) /\ (TiltTypeOK /\ PictureIsSound)
        => PicturesAreTrue
  BY DEF PicturesAreTrue
<1> QED
  BY <1>1, <1>2, PTL

\* What is made of a reading is true: the filtered light lies among the lights
\* seen, and the packet the host takes apart holds what sensor_data held.
THEOREM AnswersCorrect == SensingSpec => []AnswersAreTrue
<1>1. SensingSpec => /\ [](LightTypeOK /\ LuxIsSound)
                     /\ [](PacketTypeOK /\ HostReadsSensorData
                          /\ NoAxisTurnsRound /\ OnlyColdTurnsRound)
  BY SensingParts, LuxCorrect, PacketCorrect, PTL
<1>2. /\ LightTypeOK /\ LuxIsSound
      /\ PacketTypeOK /\ HostReadsSensorData /\ NoAxisTurnsRound
      /\ OnlyColdTurnsRound
      => AnswersAreTrue
  BY DEF AnswersAreTrue
<1> QED
  BY <1>1, <1>2, PTL
==============================================================================
