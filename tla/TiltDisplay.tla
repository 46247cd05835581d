---------------------------- MODULE TiltDisplay ----------------------------
(***************************************************************************)
(* From the accelerometer and the magnetometer to the LEDs: the angles of  *)
(* magnetometer_angle in sensors/magnetometer.c and the bubble level, the  *)
(* compass and the test picture of led/led_matrix.c that show them.        *)
(*                                                                         *)
(* The arc functions are abstracted: an angle has the sign of its          *)
(* numerator and any size, a heading is any direction.  What they return   *)
(* for a vector of length zero is not abstracted.                          *)
(***************************************************************************)
EXTENDS Integers, FiniteSets

CONSTANTS
  Vectors,      \* accelerometer readings <<x, y, z>>
  Tilts,        \* sizes an elevation may have, in degrees
  Headings,     \* directions, in whole degrees
  LuxLevels

ASSUME TiltAssumption ==
  /\ Vectors \subseteq Int \X Int \X Int
  /\ Tilts \subseteq 0..90
  /\ Headings \subseteq 0..360
  /\ LuxLevels \subseteq Nat

LED_WIDTH == 8
LED_HEIGHT == 6

VARIABLES
  acceleration,   \* sensor_data.accelerometer, as the angle was taken from it
  angle,          \* sensor_data.magnetometer.angle
  picture,        \* led_matrix
  shown           \* history: the mode the picture was drawn for by this angle

tiltVars == <<acceleration, angle, picture, shown>>

Shades == 0..255

Cells == 0..(LED_WIDTH * LED_HEIGHT - 1)

Dark == <<0, 0, 0>>

TiltTypeOK ==
  /\ acceleration \in Vectors
  /\ angle \in [pitch : -90..90, roll : -90..90, heading : 0..373]
  /\ picture \in [Cells -> Shades \X Shades \X Shades]
  /\ shown \in {"none", "bubble", "compass", "test"}

-----------------------------------------------------------------------------
(* magnetometer_angle.                                                      *)

\* atan2f(a, b) with b >= 0, and a, b not both zero.
Elevations(a) ==
  IF a = 0 THEN {0} ELSE {IF a < 0 THEN -t ELSE t : t \in Tilts}

\* A vector of length zero makes each quotient a NaN; fminf and fmaxf return
\* their other argument then: the limit they are there to keep.
Weightless(v) == v = <<0, 0, 0>>

Pitches(v) ==
  CASE Weightless(v) -> {-90}
    [] ~Weightless(v) /\ v[3] < 0  -> Elevations(v[1])
    [] ~Weightless(v) /\ v[3] >= 0 -> {-p : p \in Elevations(v[1])}

Rolls(v) == IF Weightless(v) THEN {-90} ELSE Elevations(v[2])

\* The declination of 12.78 degrees is added after the cast and cut again.
Declination == 12

Angles(v) ==
  [pitch : Pitches(v), roll : Rolls(v),
   heading : {h + Declination : h \in Headings}]

TakeAngle(v) ==
  /\ acceleration' = v
  /\ angle' \in Angles(v)
  /\ shown' = "none"
  /\ UNCHANGED picture

TiltInit ==
  /\ acceleration \in Vectors
  /\ angle \in Angles(acceleration)
  /\ picture = [c \in Cells |-> Dark]
  /\ shown = "none"

-----------------------------------------------------------------------------
(* Drawing.                                                                 *)

Within(x, lo, hi) == IF x < lo THEN lo ELSE IF x > hi THEN hi ELSE x

\* A cast of a quotient to int: towards zero.
Cut(a, b) == IF a >= 0 THEN a \div b ELSE -((-a) \div b)

brightness_from_lux(lux) ==
  15 + ((Within(lux, 10, 3000) - 10) * 240) \div 2990

\* set_pixel: the strip runs from right to left; points off it are left out.
Cell(p) == p[2] * LED_WIDTH + LED_WIDTH - 1 - p[1]

OnMatrix(p) == p[1] \in 0..(LED_WIDTH - 1) /\ p[2] \in 0..(LED_HEIGHT - 1)

\* The points of each colour on a cleared matrix.
Painted(points, colour) ==
  [c \in Cells |-> IF \E p \in points : OnMatrix(p) /\ Cell(p) = c
                   THEN colour ELSE Dark]

BubbleColour(tilt2, b) ==
  CASE tilt2 < 25                  -> <<0, b, 0>>
    [] tilt2 >= 25 /\ tilt2 < 225  -> <<b, b, 0>>
    [] tilt2 >= 225 /\ tilt2 < 625 -> <<b, b \div 2, 0>>
    [] tilt2 >= 625                -> <<b, 0, 0>>

bubble_level(lux) ==
  LET pitch == Within(angle.pitch, -30, 30)
      roll  == Within(angle.roll, -30, 30)
      tilt2 == pitch * pitch + roll * roll
      x == Within(LED_WIDTH \div 2 + Cut(roll * (LED_WIDTH - 2), 60),
                  1, LED_WIDTH - 1)
      y == Within(LED_HEIGHT \div 2 + Cut(pitch * (LED_HEIGHT - 2), 30),
                  1, LED_HEIGHT - 1)
      b == brightness_from_lux(lux)
  IN
  /\ picture' = IF tilt2 < 1 THEN [c \in Cells |-> <<0, b, 0>>]
                ELSE Painted({x - 1, x} \X {y - 1, y}, BubbleColour(tilt2, b))
  /\ shown' = "bubble"
  /\ UNCHANGED <<acceleration, angle>>

\* compass.h: tip, head and shaft of the eight arrows, clockwise from north.
Arrows ==
  [k \in 0..7 |->
    CASE k = 0 -> {<<3, 0>>, <<2, 1>>, <<4, 1>>, <<1, 2>>, <<5, 2>>,
                   <<3, 1>>, <<3, 2>>, <<3, 3>>, <<3, 4>>}
      [] k = 1 -> {<<5, 0>>, <<3, 0>>, <<4, 0>>, <<5, 1>>, <<5, 2>>,
                   <<4, 1>>, <<3, 2>>, <<2, 3>>, <<1, 4>>}
      [] k = 2 -> {<<5, 2>>, <<4, 1>>, <<3, 0>>, <<4, 3>>, <<3, 4>>,
                   <<4, 2>>, <<3, 2>>, <<2, 2>>, <<1, 2>>}
      [] k = 3 -> {<<5, 4>>, <<3, 4>>, <<4, 4>>, <<5, 3>>, <<5, 2>>,
                   <<4, 3>>, <<3, 2>>, <<2, 1>>, <<1, 0>>}
      [] k = 4 -> {<<3, 4>>, <<2, 3>>, <<4, 3>>, <<1, 2>>, <<5, 2>>,
                   <<3, 0>>, <<3, 1>>, <<3, 2>>, <<3, 3>>}
      [] k = 5 -> {<<1, 4>>, <<1, 3>>, <<1, 2>>, <<2, 4>>, <<3, 4>>,
                   <<2, 3>>, <<3, 2>>, <<4, 1>>, <<5, 0>>}
      [] k = 6 -> {<<1, 2>>, <<2, 3>>, <<2, 1>>, <<3, 0>>, <<3, 4>>,
                   <<2, 2>>, <<3, 2>>, <<4, 2>>, <<5, 2>>}
      [] k = 7 -> {<<1, 0>>, <<2, 0>>, <<3, 0>>, <<1, 1>>, <<1, 2>>,
                   <<2, 1>>, <<3, 2>>, <<4, 3>>, <<5, 4>>}]

\* One turn up or down, as compass normalises its argument.
Normalised(h) == CASE h < 0    -> h + 360
                   [] h >= 360 -> h - 360
                   [] OTHER    -> h

\* Mutant: the sectors begin at their arrows instead of being centred on them.
ArrowIndex_NotCentred(h) == ((Normalised(h) % 360) \div 45) % 8

ArrowIndex(h) == (((Normalised(h) % 360) + 22) \div 45) % 8

compass(lux) ==
  LET b == brightness_from_lux(lux) IN
  /\ picture' = Painted(Arrows[ArrowIndex(angle.heading)],
                        <<0, (100 * b) \div 255, (200 * b) \div 255>>)
  /\ shown' = "compass"
  /\ UNCHANGED <<acceleration, angle>>

test(lux) ==
  LET b == brightness_from_lux(lux)
      even == {p \in (0..(LED_WIDTH - 1)) \X (0..(LED_HEIGHT - 1)) :
                 (p[1] + p[2]) % 2 = 0}
  IN
  /\ picture' = [c \in Cells |-> IF \E p \in even : Cell(p) = c
                                 THEN <<0, b, 0>> ELSE <<0, 0, b>>]
  /\ shown' = "test"
  /\ UNCHANGED <<acceleration, angle>>

TiltNext ==
  \/ \E v \in Vectors : TakeAngle(v)
  \/ \E lux \in LuxLevels : bubble_level(lux) \/ compass(lux) \/ test(lux)

TiltSpec == TiltInit /\ [][TiltNext]_tiltVars

-----------------------------------------------------------------------------
(* Properties.                                                              *)

Lit == {p \in (0..(LED_WIDTH - 1)) \X (0..(LED_HEIGHT - 1)) :
          picture[Cell(p)] # Dark}

\* The bubble is four pixels in a square, whatever the tilt, off the centre on
\* the side of every tilt of ten degrees or more; a level board lights all.
BubbleIsWhole ==
  shown = "bubble" =>
    \/ Cardinality(Lit) = LED_WIDTH * LED_HEIGHT
       /\ angle.pitch = 0 /\ angle.roll = 0
    \/ \E x \in 1..(LED_WIDTH - 1), y \in 1..(LED_HEIGHT - 1) :
         /\ Lit = {x - 1, x} \X {y - 1, y}
         /\ angle.roll >= 10 => x > 4
         /\ angle.roll <= -10 => x < 4
         /\ angle.pitch >= 10 => y > 3
         /\ angle.pitch <= -10 => y < 3

\* A board in free fall, or one whose accelerometer cannot be read and gives
\* zeros, has no angle; it is never shown as level.
FreeFallIsNotLevel ==
  shown = "bubble" /\ Weightless(acceleration) => Cardinality(Lit) = 4

\* East and north of the eight directions, from the middle of the arrows.
Toward(k, p) ==
  LET east  == CASE k \in 1..3 -> 1 [] k \in 5..7 -> -1 [] OTHER -> 0
      south == CASE k \in 3..5 -> 1 [] k \in {0, 1, 7} -> -1 [] OTHER -> 0
  IN  east * (p[1] - 3) + south * (p[2] - 2)

Near(h, k) == (h - 45 * k) % 360 <= 22 \/ (45 * k - h) % 360 <= 22

\* The arrow on the matrix is whole and has its head, which is its heavier
\* end, toward the direction that is nearest to the heading, through north too.
ArrowPointsAtHeading ==
  shown = "compass" =>
    \E k \in 0..7 :
      /\ Near(angle.heading, k)
      /\ Cardinality(Lit) = 9
      /\ Cardinality({p \in Lit : Toward(k, p) > 0}) >
           Cardinality({p \in Lit : Toward(k, p) < 0}) + 1

PictureIsSound == BubbleIsWhole /\ FreeFallIsNotLevel /\ ArrowPointsAtHeading
=============================================================================
