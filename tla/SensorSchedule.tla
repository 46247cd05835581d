--------------------------- MODULE SensorSchedule ---------------------------
(***************************************************************************)
(* sensors_read of sensors/sensors.c inside the super loop: one look at    *)
(* the timer per call, then each sensor in turn is read if its interval    *)
(* has passed.  The UART is polled before the sensors, so a request is     *)
(* answered with what earlier iterations left in sensor_data.              *)
(*                                                                         *)
(* A reading is abstracted to whether it was ever made: "unset" is what    *)
(* the stack held when main entered (sensor_data has no initialiser),      *)
(* "written" is what a read left, also one whose I2C transfer failed       *)
(* (return codes are ignored, the raw bytes are then what the stack held). *)
(***************************************************************************)
EXTENDS Naturals

CONSTANTS
  Interval,     \* Interval[s]: the update interval of sensor s, in ticks
  BootDelay,    \* ticks from reset to the first iteration, at least
  Steps,        \* ticks a piece of the loop may take
  MaxTime       \* bound on the timer

Sensors == {"accelerometer", "magnetometer", "light", "temperature"}

ASSUME ScheduleAssumption ==
  /\ Interval \in [Sensors -> Nat \ {0}]
  /\ BootDelay \in Nat
  /\ Steps \subseteq Nat
  /\ MaxTime \in Nat

\* init() waits 1000 ms, main() another 1000 ms; no interval is longer.
ASSUME BootAssumption == \A s \in Sensors : Interval[s] <= BootDelay

Sources == {"unset", "written"}

VARIABLES
  phase,     \* where the loop is; a sensor's name: about to look at it
  time,      \* metal_cpu_get_timer
  now,       \* the timer as sampled by the running, or last, sensors_read
  last,      \* lastAccelerometerUpdateTime and its three siblings
  data,      \* sensor_data
  takenAt,   \* history: when the reading in sensor_data came from its sensor
  tilt,      \* history: the accelerometer reading in the last angle
  passes,    \* history: sensors_read has returned at least once
  reply      \* the packet sent last, or none

scheduleVars == <<phase, time, now, last, data, takenAt, tilt, passes,
                  reply>>

Phases == Sensors \cup {"poll", "timer"}

NoReply == [s \in Sensors |-> "written"]

ScheduleTypeOK ==
  /\ phase \in Phases
  /\ time \in Nat
  /\ now \in Nat
  /\ last \in [Sensors -> Nat]
  /\ data \in [Sensors -> Sources]
  /\ takenAt \in [Sensors -> Nat]
  /\ tilt \in Sources
  /\ passes \in BOOLEAN
  /\ reply \in [Sensors -> Sources]

-----------------------------------------------------------------------------

\* Mutant: main does not wait before its loop.
BootTimes_NoDelay == {0}

BootTimes == {BootDelay + d : d \in Steps}

ScheduleInit ==
  /\ phase = "poll"
  /\ time \in BootTimes
  /\ now = 0
  /\ last = [s \in Sensors |-> 0]
  /\ data = [s \in Sensors |-> "unset"]
  /\ takenAt = [s \in Sensors |-> 0]
  /\ tilt = "unset"
  /\ passes = FALSE
  /\ reply = NoReply

\* Time passes at any point of the loop: I2C transfers, drawing, calibration.
Elapse ==
  /\ \E d \in Steps : time + d <= MaxTime /\ time' = time + d
  /\ UNCHANGED <<phase, now, last, data, takenAt, tilt, passes, reply>>

\* read_data, with or without a complete request in the FIFO.
Poll ==
  /\ phase = "poll"
  /\ phase' = "timer"
  /\ reply' \in {reply, data}
  /\ UNCHANGED <<time, now, last, data, takenAt, tilt, passes>>

SampleTimer ==
  /\ phase = "timer"
  /\ phase' = "accelerometer"
  /\ now' = time
  /\ UNCHANGED <<time, last, data, takenAt, tilt, passes, reply>>

Due(s) == now - last[s] >= Interval[s]

After(s) ==
  CASE s = "accelerometer" -> "magnetometer"
    [] s = "magnetometer"  -> "light"
    [] s = "light"         -> "temperature"
    [] s = "temperature"   -> "poll"

\* The update is stamped with the time the call began with.
Stamp == now

\* One of the four if blocks of sensors_read.  magnetometer_read computes the
\* angle from the accelerometer reading that is in sensor_data.
Read(s) ==
  /\ phase = s
  /\ Due(s)
  /\ phase' = After(s)
  /\ last' = [last EXCEPT ![s] = Stamp]
  /\ data' = [data EXCEPT ![s] = "written"]
  /\ takenAt' = [takenAt EXCEPT ![s] = time]
  /\ tilt' = IF s = "magnetometer" THEN data["accelerometer"] ELSE tilt
  /\ passes' = (passes \/ s = "temperature")
  /\ UNCHANGED <<time, now, reply>>

Skip(s) ==
  /\ phase = s
  /\ ~Due(s)
  /\ phase' = After(s)
  /\ passes' = (passes \/ s = "temperature")
  /\ UNCHANGED <<time, now, last, data, takenAt, tilt, reply>>

ScheduleNext ==
  \/ Elapse \/ Poll \/ SampleTimer
  \/ \E s \in Sensors : Read(s) \/ Skip(s)

ScheduleSpec == ScheduleInit /\ [][ScheduleNext]_scheduleVars

-----------------------------------------------------------------------------
(* Properties.                                                              *)

\* The sensors the running sensors_read has already looked at.
Done(s) ==
  \/ phase \in {"poll", "timer"}
  \/ s = "accelerometer" /\ phase # "accelerometer"
  \/ s = "magnetometer" /\ phase \in {"light", "temperature"}
  \/ s = "light" /\ phase = "temperature"

\* The ages sensors_read computes with unsigned subtraction never wrap: no
\* update is stamped later than the time it is compared with.  The stamp is not
\* later than the reading either, so an age it computes is never too small.
StampsAreOrdered ==
  /\ now <= time
  /\ \A s \in Sensors : /\ last[s] <= now
                        /\ last[s] <= takenAt[s]
                        /\ takenAt[s] <= time

\* How old a reading is, and how much of that its schedule accounts for: its
\* interval, and the time since the running or last sensors_read sampled the
\* timer, in which the transfers of the sensors before it, the drawing and the
\* next poll take place.
Age(s) == time - takenAt[s]

AgeAllowed(s) == Interval[s] + (time - now)

\* At every moment from the first call on, also while the other sensors are
\* read and when the next request is answered, a reading that sensors_read has
\* looked at was taken less than its interval before the call.  Its age may
\* exceed the interval, by the time that the rest of the call and the loop took:
\* a sensor that falls due in the middle of a call waits for the next one.
DataIsYoung ==
  \A s \in Sensors : (passes \/ phase \notin {"poll", "timer"}) /\ Done(s)
    => Age(s) < AgeAllowed(s)

\* Only the very first poll can answer with memory nobody wrote: the boot
\* delays make all four sensors due in the first call, the rarest included.
NoUnsetReply ==
  [][passes /\ reply' # reply =>
       \A s \in Sensors : reply'[s] # "unset"]_scheduleVars

\* An angle is always computed from an accelerometer reading that was written,
\* and written at most as long ago as its interval and the running call.
AngleIsFresh ==
  [][last'["magnetometer"] # last["magnetometer"] =>
       /\ tilt' # "unset"
       /\ Age("accelerometer") < AgeAllowed("accelerometer")]_scheduleVars

\* Together: whatever the loop hands on, to the host, to the displays or from
\* one sensor to another, is as young as the intervals and the loop allow.
ReadingsAreFresh ==
  /\ []StampsAreOrdered
  /\ []DataIsYoung
  /\ NoUnsetReply
  /\ AngleIsFresh
=============================================================================
