--------------------------- MODULE RunningAverage ---------------------------
(***************************************************************************)
(* accel_running_avg of sensors/sensors.c for one axis (the three axes     *)
(* share the index and the count and are otherwise independent): a ring of *)
(* the last five samples and a sum that is adjusted, never recomputed.     *)
(***************************************************************************)
EXTENDS Integers

CONSTANTS
  Samples,       \* values accelerometer_read can deliver
  MaxSample      \* their largest magnitude

Values == -MaxSample..MaxSample

\* accelerometer_read scales a 12 bit reading by 0.0039 * 2048 (q4.11):
\* no sample exceeds 16358.
ASSUME SamplesAssumption ==
  /\ MaxSample \in Nat /\ MaxSample <= 16358
  /\ Samples \subseteq Values

WINDOW == 5            \* ACCELEROMETER_SMOOTHING_WINDOW

Slots == 0..(WINDOW - 1)

VARIABLES
  data_buffer,           \* accelerometer_data_buffer
  smoothing_sum,         \* accelerometer_smoothing_sum_x
  read_idx,              \* accelerometer_read_idx
  valid_accel_samples,
  result                 \* the value returned last

averageVars ==
  <<data_buffer, smoothing_sum, read_idx, valid_accel_samples, result>>

\* Conversion to a signed integer of 2 * half values.
Wrap(x, half) == ((x + half) % (2 * half)) - half

Int16 == {x \in Int : -32768 <= x /\ x <= 32767}

ToInt16(x) == Wrap(x, 32768)

\* Division of C: towards zero.
Quotient(a, b) == IF a >= 0 THEN a \div b ELSE -((-a) \div b)

AverageInit ==
  /\ data_buffer = [i \in Slots |-> 0]
  /\ smoothing_sum = 0
  /\ read_idx = 0
  /\ valid_accel_samples = 0
  /\ result = 0

NextSlot(i) == (i + 1) % WINDOW

\* Mutant: the sample of the neighbouring slot is taken off the sum.
NewSum_WrongSlot(v) == (smoothing_sum - data_buffer[NextSlot(read_idx)]) + v

\* The sums are int32_t; AverageTypeOK shows that they come nowhere near its
\* ends.
NewSum(v) == (smoothing_sum - data_buffer[read_idx]) + v

\* accel_running_avg
accel_running_avg(v) ==
  /\ valid_accel_samples' =
       IF valid_accel_samples < WINDOW THEN valid_accel_samples + 1 ELSE WINDOW
  /\ smoothing_sum' = NewSum(v)
  /\ data_buffer' = [data_buffer EXCEPT ![read_idx] = v]
  /\ read_idx' = NextSlot(read_idx)
  /\ result' = IF valid_accel_samples' < WINDOW THEN v
               ELSE ToInt16(Quotient(smoothing_sum', WINDOW))

AverageNext == \E v \in Samples : accel_running_avg(v)

AverageSpec == AverageInit /\ [][AverageNext]_averageVars

-----------------------------------------------------------------------------
(* Properties.                                                              *)

AverageTypeOK ==
  /\ data_buffer \in [Slots -> Values]
  /\ smoothing_sum \in -(WINDOW * MaxSample)..(WINDOW * MaxSample)
  /\ read_idx \in Slots
  /\ valid_accel_samples \in 0..WINDOW
  /\ result \in Int16

\* The sum is adjusted by what enters and what leaves and never drifts from
\* the ring it stands for.
SumIsWindow ==
  smoothing_sum =
    data_buffer[0] + data_buffer[1] + data_buffer[2] + data_buffer[3]
      + data_buffer[4]

\* A smoothed value lies between two samples of the window: neither the
\* narrowing to 16 bits nor the rounding invents an acceleration.
ResultWithinWindow ==
  valid_accel_samples = WINDOW =>
    \E i, j \in Slots : data_buffer[i] <= result /\ result <= data_buffer[j]

\* The ring, read backwards from the slot written last, is the window of the
\* moving average, and the adjusted sum gives its mean.
Mean == INSTANCE MovingAverage WITH
  window <- [k \in Slots |-> data_buffer[(read_idx + WINDOW - 1 - k) % WINDOW]],
  filled <- valid_accel_samples,
  mean   <- result

MeanSpec == Mean!Spec
=============================================================================
