------------------------------ MODULE ModeLoop ------------------------------
(***************************************************************************)
(* The super loop of example-i2c.c with the mode selection of led/state.c, *)
(* the push buttons of led/button.c and the LED strip of led/led_matrix.c. *)
(*                                                                         *)
(* One iteration polls the UART and the sensors, draws the frame of the    *)
(* selected mode with interrupts masked, then samples the two buttons, A   *)
(* before B, and acts on a rising edge.  The buttons move at any instant,  *)
(* also between the two samples and while a frame is being shifted out.    *)
(*                                                                         *)
(* A pixel is abstracted to the mode that lit it, or "black".              *)
(***************************************************************************)
EXTENDS Naturals

CONSTANT Pixels        \* the LEDs of the matrix

ASSUME PixelsAssumption == Pixels # {}

Modes == {"BUBBLE_LEVEL", "COMPASS", "FLUID_SIM", "TEST", "CALIBRATION", "OFF"}

Buttons == {"A", "B"}

Black == "black"

Frames == [Pixels -> Modes \cup {Black}]

VARIABLES
  pc,             \* where the loop is
  current_state,  \* the selected mode
  pressed,        \* pressed[b]: the (active low) pin of button b reads 0
  sampled,        \* current_button_a_state, current_button_b_state
  previous,       \* previous_button_a_state, previous_button_b_state
  mie,            \* mstatus.MIE: interrupts are enabled
  led_matrix,     \* the frame buffer
  strip,          \* what the LEDs show
  painted,        \* history: a frame was shifted out since reset
  exposed,        \* history: colours that were shifted out with MIE set
  pending         \* history: b was pressed since it was last sampled

display == <<strip, exposed>>
program == <<current_state, sampled, previous, mie, led_matrix, display, painted>>
vars == <<pc, program, pressed, pending>>

Phases == {"poll", "mask", "render", "calibrate", "unmask",
           "buttonA", "buttonB", "dispatch", "clear", "remember"}

TypeOK ==
  /\ pc \in Phases
  /\ current_state \in Modes
  /\ pressed \in [Buttons -> BOOLEAN]
  /\ sampled \in [Buttons -> BOOLEAN]
  /\ previous \in [Buttons -> BOOLEAN]
  /\ mie \in BOOLEAN
  /\ led_matrix \in Frames
  /\ strip \in Frames
  /\ painted \in BOOLEAN
  /\ exposed \subseteq Modes \cup {Black}
  /\ pending \in [Buttons -> BOOLEAN]

Goto(from, to) == pc = from /\ pc' = to

-----------------------------------------------------------------------------
(* After reset interrupts are off and the frame buffer is zeroed with the   *)
(* rest of .bss; the LEDs keep whatever they showed, the buttons are        *)
(* wherever the user's fingers are.                                         *)

Init ==
  /\ pc = "poll"
  /\ current_state = "BUBBLE_LEVEL"
  /\ pressed \in [Buttons -> BOOLEAN]
  /\ sampled = [b \in Buttons |-> FALSE]
  /\ previous = [b \in Buttons |-> FALSE]
  /\ mie = FALSE
  /\ led_matrix = [p \in Pixels |-> Black]
  /\ strip \in Frames
  /\ painted = FALSE
  /\ exposed = {}
  /\ pending = pressed

-----------------------------------------------------------------------------
(* The user.                                                                *)

Press(b) ==
  /\ ~pressed[b]
  /\ pressed' = [pressed EXCEPT ![b] = TRUE]
  /\ pending' = [pending EXCEPT ![b] = TRUE]
  /\ UNCHANGED <<pc, program>>

Release(b) ==
  /\ pressed[b]
  /\ pressed' = [pressed EXCEPT ![b] = FALSE]
  /\ UNCHANGED <<pc, program, pending>>

-----------------------------------------------------------------------------
(* Drawing.                                                                 *)

ClearedFrame == [p \in Pixels |-> Black]

Fill(frame, lit, m) == [p \in Pixels |-> IF p \in lit THEN m ELSE frame[p]]

\* Mutant: the compass draws over whatever the frame buffer held.
Drawing_CompassKeepsOldPixels(frame, m) ==
  CASE m = "BUBBLE_LEVEL" -> {Fill(ClearedFrame, lit, m) : lit \in (SUBSET Pixels) \ {{}}}
    [] m = "COMPASS"      -> {Fill(frame, lit, m) : lit \in (SUBSET Pixels) \ {{}}}
    [] m = "TEST"         -> {Fill(ClearedFrame, Pixels, m)}
    [] m = "FLUID_SIM"    -> {Fill(Fill(frame, Pixels \ wet, Black), wet, m) :
                                wet \in SUBSET Pixels}

\* The frame buffers bubble_level, compass, test and fluid_sim can leave
\* behind: the first three clear it and light some pixels (test all of them),
\* fluid_sim writes every pixel without clearing.
Drawing(frame, m) ==
  CASE m \in {"BUBBLE_LEVEL", "COMPASS"} ->
         {Fill(ClearedFrame, lit, m) : lit \in (SUBSET Pixels) \ {{}}}
    [] m = "TEST" -> {Fill(ClearedFrame, Pixels, m)}
    [] m = "FLUID_SIM" -> {Fill(Fill(frame, Pixels \ wet, Black), wet, m) :
                             wet \in SUBSET Pixels}

-----------------------------------------------------------------------------
(* One iteration of the loop.                                               *)

\* disable_interrupts and enable_interrupts: the MIE bit of mstatus.
SetMie(enable) == mie' = enable

\* clear and show: a colour for every LED, then silence, which latches them.
Send(frame) ==
  /\ strip' = frame
  /\ exposed' = exposed \cup {frame[p] : p \in {q \in Pixels : mie}}

\* read_data and sensors_read: nothing of this module's state changes.
Poll ==
  /\ Goto("poll", "mask")
  /\ UNCHANGED <<program, pressed, pending>>

\* disable_interrupts
Mask ==
  /\ Goto("mask", "render")
  /\ SetMie(FALSE)
  /\ UNCHANGED <<current_state, sampled, previous, led_matrix, display, painted,
                 pressed, pending>>

DrawnModes == {"BUBBLE_LEVEL", "COMPASS", "FLUID_SIM", "TEST"}

\* Draw the selected mode into the frame buffer and shift it out (show).
Render ==
  /\ current_state \in DrawnModes
  /\ Goto("render", "unmask")
  /\ led_matrix' \in Drawing(led_matrix, current_state)
  /\ Send(led_matrix')
  /\ painted' = TRUE
  /\ UNCHANGED <<current_state, sampled, previous, mie, pressed, pending>>

\* OFF: clear() shifts black out and leaves the frame buffer alone.
RenderOff ==
  /\ current_state = "OFF"
  /\ Goto("render", "unmask")
  /\ Send(ClearedFrame)
  /\ painted' = TRUE
  /\ UNCHANGED <<current_state, sampled, previous, mie, led_matrix, pressed, pending>>

\* CALIBRATION needs the I2C driver, so interrupts come back on first.
RenderCalibration ==
  /\ current_state = "CALIBRATION"
  /\ Goto("render", "calibrate")
  /\ SetMie(TRUE)
  /\ UNCHANGED <<current_state, sampled, previous, led_matrix, display, painted,
                 pressed, pending>>

\* calibrate_magnetometer: nothing of this module's state changes.
Calibrate ==
  /\ Goto("calibrate", "unmask")
  /\ UNCHANGED <<program, pressed, pending>>

\* enable_interrupts
Unmask ==
  /\ Goto("unmask", "buttonA")
  /\ SetMie(TRUE)
  /\ UNCHANGED <<current_state, sampled, previous, led_matrix, display, painted,
                 pressed, pending>>

-----------------------------------------------------------------------------
(* handle_state.                                                            *)

\* The first two lines of handle_state read the pins, one after the other.
SampleButton(b, from, to) ==
  /\ Goto(from, to)
  /\ sampled' = [sampled EXCEPT ![b] = pressed[b]]
  /\ pending' = [pending EXCEPT ![b] = FALSE]
  /\ UNCHANGED <<current_state, previous, mie, led_matrix, display, painted, pressed>>

SampleA == SampleButton("A", "buttonA", "buttonB")

SampleB == SampleButton("B", "buttonB", "dispatch")

\* Mutant: a level instead of an edge.
Edge_Level(b) == sampled[b]

Edge(b) == sampled[b] /\ ~previous[b]

\* Mutant: the last mode has no successor.
Forward_StopsAtOff(m) ==
  CASE m = "BUBBLE_LEVEL" -> "COMPASS"
    [] m = "COMPASS"      -> "FLUID_SIM"
    [] m = "FLUID_SIM"    -> "TEST"
    [] m = "TEST"         -> "CALIBRATION"
    [] m = "CALIBRATION"  -> "OFF"
    [] m = "OFF"          -> "OFF"

Forward(m) ==
  CASE m = "BUBBLE_LEVEL" -> "COMPASS"
    [] m = "COMPASS"      -> "FLUID_SIM"
    [] m = "FLUID_SIM"    -> "TEST"
    [] m = "TEST"         -> "CALIBRATION"
    [] m = "CALIBRATION"  -> "OFF"
    [] m = "OFF"          -> "BUBBLE_LEVEL"

Back(m) ==
  CASE m = "BUBBLE_LEVEL" -> "OFF"
    [] m = "COMPASS"      -> "BUBBLE_LEVEL"
    [] m = "FLUID_SIM"    -> "COMPASS"
    [] m = "TEST"         -> "FLUID_SIM"
    [] m = "CALIBRATION"  -> "TEST"
    [] m = "OFF"          -> "CALIBRATION"

Turn(m) ==
  /\ Goto("dispatch", "clear")
  /\ current_state' = m
  /\ UNCHANGED <<sampled, previous, mie, led_matrix, display, painted, pressed, pending>>

TurnForward == Edge("B") /\ Turn(Forward(current_state))

\* The else-if: a new press of A counts only when B has none.
TurnBack == ~Edge("B") /\ Edge("A") /\ Turn(Back(current_state))

NoEdge ==
  /\ ~Edge("A") /\ ~Edge("B")
  /\ Goto("dispatch", "remember")
  /\ UNCHANGED <<program, pressed, pending>>

\* clear(), here with interrupts enabled.
Clear ==
  /\ Goto("clear", "remember")
  /\ Send(ClearedFrame)
  /\ UNCHANGED <<current_state, sampled, previous, mie, led_matrix, painted,
                 pressed, pending>>

Remember ==
  /\ Goto("remember", "poll")
  /\ previous' = sampled
  /\ UNCHANGED <<current_state, sampled, mie, led_matrix, display, painted,
                 pressed, pending>>

-----------------------------------------------------------------------------

Loop ==
  \/ Poll \/ Mask \/ Render \/ RenderOff \/ RenderCalibration \/ Calibrate \/ Unmask
  \/ SampleA \/ SampleB \/ TurnForward \/ TurnBack \/ NoEdge \/ Clear \/ Remember

User == \E b \in Buttons : Press(b) \/ Release(b)

Next == Loop \/ User

Spec == Init /\ [][Next]_vars

\* main never returns and no step of it blocks: every wait in it has a bound.
FairSpec == Spec /\ WF_vars(Loop)

-----------------------------------------------------------------------------
(* Properties.                                                              *)

\* From the first frame on, every lit pixel was lit by the selected mode: no
\* remains of the mode that was left, in the strip or drawn around by the next
\* one, and nothing at all in OFF and CALIBRATION.  Only while clear() is
\* shifting black out does the old frame stay up.
StripShowsMode ==
  painted /\ pc # "clear" =>
    \A p \in Pixels : strip[p] \in {Black} \cup ({current_state} \cap DrawnModes)

\* A frame is shifted out by timed instructions, which a trap would stretch
\* beyond what a WS2812 takes for silence.  Nothing that lights an LED is ever
\* sent with interrupts enabled: of all frames only the black one that clear()
\* sends from handle_state goes out unmasked.  On every path interrupts are back
\* before the calibration talks to the I2C driver and before the buttons are read.
PicturesAreMasked ==
  /\ exposed \subseteq {Black}
  /\ pc = "render" => ~mie
  /\ pc \in {"calibrate", "buttonA", "buttonB", "dispatch", "clear", "remember"} => mie

Unsampled(b) ==
  {"poll", "mask", "render", "calibrate", "unmask", "buttonA"}
    \cup (IF b = "B" THEN {"buttonB"} ELSE {})

\* An edge handle_state sees, or will see at the next sample, always stands for
\* a press that happened since the sample before: a button that stays down
\* gives no second edge.
EdgeIsAPress ==
  \A b \in Buttons :
    /\ pc \in Unsampled(b) /\ pressed[b] /\ ~previous[b] => pending[b]
    /\ pc \notin Unsampled(b) /\ pressed[b] /\ ~sampled[b] => pending[b]

\* All three, and the types: what the loop keeps whatever the buttons do.
LoopIsSound ==
  TypeOK /\ StripShowsMode /\ PicturesAreMasked /\ EdgeIsAPress

\* The place of a mode on the ring of six.
Place(m) ==
  CASE m = "BUBBLE_LEVEL" -> 0
    [] m = "COMPASS"      -> 1
    [] m = "FLUID_SIM"    -> 2
    [] m = "TEST"         -> 3
    [] m = "CALIBRATION"  -> 4
    [] m = "OFF"          -> 5

\* b was sampled with a new press that dispatch has not acted on yet.
Claimed(b) ==
  /\ Edge(b)
  /\ pc \in (IF b = "A" THEN {"buttonB", "dispatch"} ELSE {"dispatch"})

Credit(b) ==
  (IF pending[b] THEN 1 ELSE 0) + (IF Claimed(b) THEN 1 ELSE 0)

\* The loop implements the two-button ring: the two hand-written transition
\* chains of handle_state are one ring walked both ways, and each turn uses up
\* one press of its own button.
Ring == INSTANCE ModeSwitch WITH
  NumModes <- 6,
  selected <- Place(current_state),
  down     <- pressed,
  credit   <- [b \in Buttons |-> Credit(b)]

RingSpec == Ring!Spec

\* The selection has just been turned by n places from m.
Turned(m, n) == pc = "clear" /\ Place(current_state) = (Place(m) + n) % 6

Held(b, m) == pc = "poll" /\ current_state = m /\ pressed[b] /\ ~previous[b]

\* A button that is down and was up at the last sample turns the selection its
\* own way, unless it comes up again first.  For B this holds whatever A does; a
\* press of A is dropped, held or not, when B has a new press in the same pair
\* of samples (the else-if of handle_state), and for no other reason.
PressIsAnswered ==
  \A m \in Modes :
    /\ Held("B", m) ~> (Turned(m, 1) \/ ~pressed["B"])
    /\ Held("A", m) ~> \/ Turned(m, 5) \/ ~pressed["A"]
                       \/ Turned(m, 1) /\ Edge("A") /\ Edge("B")

\* Buttons left alone, down or up, do not keep turning the selection.
Settles ==
  <>[][UNCHANGED pressed]_pressed => <>[][UNCHANGED current_state]_current_state

\* Presses are answered, and nothing else turns the selection.
LoopIsLive == PressIsAnswered /\ Settles
=============================================================================
