----------------------------- MODULE MCSensing -----------------------------
(***************************************************************************)
(* What happens to a reading, in small: when it is taken, how it is        *)
(* smoothed, what is shown of it and what is sent of it.  The parts share  *)
(* no state that their modules keep, so a behaviour runs one of them,      *)
(* chosen at the start, and the others stay as they were.                  *)
(***************************************************************************)
EXTENDS RunningAverage, SensorSchedule, FluidGrid, TiltDisplay, LightFilter,
        SensorPacket

VARIABLE running     \* the part that runs

sensingVars == <<running, averageVars, scheduleVars, fluidVars, tiltVars,
                 lightVars, packetVars>>

-----------------------------------------------------------------------------
(* Both ends of an axis and the values around the rounding of a negative    *)
(* and of a positive sum.                                                   *)
MCSamples == {-16358, -1, 2, 16358}

\* The intervals scaled down in their order: 3, 10, 250 and 1000 ms become 1,
\* 2, 3 and 5 ticks, the boot delay 5 or more.
MCInterval == [s \in Sensors |->
  CASE s = "accelerometer" -> 1
    [] s = "magnetometer"  -> 2
    [] s = "light"         -> 3
    [] s = "temperature"   -> 5]

\* Into two opposite corners, and close enough to one to be pushed there.
MCReach == {<<0, 0>>, <<4, 3>>, <<4, 4>>, <<99, 99>>}

\* Free fall, level, upside down, and tilted.
MCVectors == {<<0, 0, 0>>, <<0, 0, 16>>, <<3, 0, -9>>, <<-3, 5, 9>>}

\* A dim and a bright exposure that differ in every byte.
MCExposures == {<<3, 1>>, <<15, 4>>}

\* The ends of a word, both signs of one, and around the limit of the field.
MCAxes == {<<-32768, -1, 32767>>, <<16, 853, 854>>}

MCLights == {<<65535, 258>>}

-----------------------------------------------------------------------------
SensingInit ==
  /\ running \in {"average", "schedule", "fluid", "tilt", "light", "packet"}
  /\ AverageInit
  /\ ScheduleInit
  /\ running # "schedule" => time = CHOOSE t \in BootTimes : TRUE
  /\ FluidInit
  /\ TiltInit
  /\ running # "tilt" =>
       /\ acceleration = (CHOOSE v \in Vectors : TRUE)
       /\ angle = CHOOSE a \in Angles(acceleration) : TRUE
  /\ LightInit
  /\ PacketInit
  /\ running # "packet" =>
       /\ registers.accel = (CHOOSE a \in Axes : TRUE)
       /\ registers.mag = (CHOOSE a \in Axes : TRUE)
       /\ registers.degrees = CHOOSE t \in Degrees : TRUE

AverageRuns == /\ running = "average" /\ AverageNext
               /\ UNCHANGED <<running, scheduleVars, fluidVars, tiltVars,
                              lightVars, packetVars>>
ScheduleRuns == /\ running = "schedule" /\ ScheduleNext
                /\ UNCHANGED <<running, averageVars, fluidVars, tiltVars,
                               lightVars, packetVars>>
FluidRuns == /\ running = "fluid" /\ FluidNext
             /\ UNCHANGED <<running, averageVars, scheduleVars, tiltVars,
                            lightVars, packetVars>>
TiltRuns == /\ running = "tilt" /\ TiltNext
            /\ UNCHANGED <<running, averageVars, scheduleVars, fluidVars,
                           lightVars, packetVars>>
LightRuns == /\ running = "light" /\ LightNext
             /\ UNCHANGED <<running, averageVars, scheduleVars, fluidVars,
                            tiltVars, packetVars>>
PacketRuns == /\ running = "packet" /\ PacketNext
              /\ UNCHANGED <<running, averageVars, scheduleVars, fluidVars,
                             tiltVars, lightVars>>

SensingNext ==
  AverageRuns \/ ScheduleRuns \/ FluidRuns \/ TiltRuns \/ LightRuns
  \/ PacketRuns

SensingSpec == SensingInit /\ [][SensingNext]_sensingVars

-----------------------------------------------------------------------------
\* The types of all parts, the sum of the smoothed axis with them.
SensingTypeOK ==
  /\ AverageTypeOK /\ SumIsWindow /\ ResultWithinWindow
  /\ ScheduleTypeOK /\ FluidTypeOK /\ TiltTypeOK /\ LightTypeOK
  /\ PacketTypeOK

\* What the LEDs show: the bubble, the compass and the water.
PicturesAreTrue == PictureIsSound /\ WaterIsSound

\* What is made of a reading, on the way to the LEDs and on the way to the
\* host: no filter invents a light, no conversion changes the sense of an axis,
\* and that of the temperature only below zero.
AnswersAreTrue ==
  /\ HostReadsSensorData /\ NoAxisTurnsRound /\ OnlyColdTurnsRound
  /\ LuxIsSound
=============================================================================
