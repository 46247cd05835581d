--------------------------- MODULE ModeLoopProofs ---------------------------
(***************************************************************************)
(* Proofs about ModeLoop, for every set of LEDs: its type invariant, its   *)
(* three safety invariants (each with TypeOK is inductive), and that the   *)
(* loop implements the ring of ModeSwitch.                                 *)
(***************************************************************************)
EXTENDS ModeLoop, TLAPS

\* Every frame buffer the four drawing functions leave is a frame whose
\* pixels are black or lit by the mode that drew.
LEMMA DrawingIsOwn ==
  ASSUME NEW frame \in Frames, NEW m \in DrawnModes, NEW f \in Drawing(frame, m)
  PROVE  /\ f \in Frames
         /\ \A p \in Pixels : f[p] \in {Black, m}
<1>1. m \in Modes
  BY DEF DrawnModes, Modes
<1>2. CASE m \in {"BUBBLE_LEVEL", "COMPASS"}
  <2>1. PICK lit \in (SUBSET Pixels) \ {{}} : f = Fill(ClearedFrame, lit, m)
    BY <1>2 DEF Drawing
  <2>2. f = [p \in Pixels |-> IF p \in lit THEN m ELSE ClearedFrame[p]]
    BY <2>1 DEF Fill
  <2> QED BY <1>1, <2>2 DEF ClearedFrame, Frames
<1>3. CASE m = "TEST"
  <2>1. f = Fill(ClearedFrame, Pixels, m)
    BY <1>3 DEF Drawing
  <2> QED BY <1>1, <2>1 DEF Fill, ClearedFrame, Frames
<1>4. CASE m = "FLUID_SIM"
  <2>1. PICK wet \in SUBSET Pixels :
          f = Fill(Fill(frame, Pixels \ wet, Black), wet, m)
    BY <1>4 DEF Drawing
  <2>2. f = [p \in Pixels |-> IF p \in wet THEN m ELSE Black]
    BY <2>1 DEF Fill
  <2> QED BY <1>1, <2>2 DEF Frames
<1> QED BY <1>2, <1>3, <1>4 DEF DrawnModes

LEMMA ModesAreClosed ==
  ASSUME NEW m \in Modes
  PROVE  Forward(m) \in Modes /\ Back(m) \in Modes
BY DEF Modes, Forward, Back

\* What is sent while interrupts are masked exposes nothing, and a frame exposes
\* only its own colours.
LEMMA SendExposes ==
  ASSUME NEW frame \in Frames, Send(frame), mie \in BOOLEAN
  PROVE  /\ exposed' = IF mie THEN exposed \cup {frame[p] : p \in Pixels} ELSE exposed
         /\ {frame[p] : p \in Pixels} \subseteq Modes \cup {Black}
<1>1. {frame[p] : p \in Pixels} \subseteq Modes \cup {Black}
  BY DEF Frames
<1>2. CASE mie
  <2>1. {q \in Pixels : mie} = Pixels
    BY <1>2
  <2> QED BY <1>1, <1>2, <2>1 DEF Send
<1>3. CASE ~mie
  <2>1. {q \in Pixels : mie} = {}
    BY <1>3
  <2>2. {frame[p] : p \in {}} = {}
    OBVIOUS
  <2> QED BY <1>1, <1>3, <2>1, <2>2 DEF Send
<1> QED BY <1>2, <1>3

LEMMA BlackIsAFrame == ClearedFrame \in Frames
BY DEF ClearedFrame, Frames

LEMMA TypeInit == Init => TypeOK
BY DEF Init, TypeOK, Phases, Modes, Frames

LEMMA TypeNext == TypeOK /\ [Next]_vars => TypeOK'
<1> SUFFICES ASSUME TypeOK, [Next]_vars PROVE TypeOK'
  OBVIOUS
<1> USE DEF TypeOK, Goto, display
<1>1. CASE Poll \/ Calibrate \/ NoEdge
  BY <1>1 DEF Poll, Calibrate, NoEdge, program, Phases
<1>2. CASE Mask \/ Unmask \/ RenderCalibration
  BY <1>2 DEF SetMie, Mask, Unmask, RenderCalibration, Phases
<1>3. CASE Render
  <2>1. led_matrix' \in Frames
    BY <1>3, DrawingIsOwn DEF Send, Render
  <2>2. exposed' \subseteq Modes \cup {Black}
    BY <1>3, <2>1, SendExposes DEF Render
  <2> QED BY <1>3, <2>1, <2>2 DEF Send, Render, Phases
<1>4. CASE RenderOff \/ Clear
  <2>1. exposed' \subseteq Modes \cup {Black}
    BY <1>4, BlackIsAFrame, SendExposes DEF RenderOff, Clear
  <2> QED BY <1>4, <2>1, BlackIsAFrame DEF Send, RenderOff, Clear, Phases
<1>5. CASE SampleA \/ SampleB
  BY <1>5 DEF SampleA, SampleB, SampleButton, Phases
<1>6. CASE TurnForward \/ TurnBack
  BY <1>6, ModesAreClosed DEF TurnForward, TurnBack, Turn, Phases
<1>7. CASE Remember
  BY <1>7 DEF Remember, Phases
<1>8. CASE User
  BY <1>8 DEF User, Press, Release, program
<1>9. CASE UNCHANGED vars
  BY <1>9 DEF vars, program
<1> QED BY <1>1, <1>2, <1>3, <1>4, <1>5, <1>6, <1>7, <1>8, <1>9 DEF Next, Loop

\* The variables keep their types, whatever the number of LEDs.
THEOREM TypeCorrect == Spec => []TypeOK
BY TypeInit, TypeNext, PTL DEF Spec

-----------------------------------------------------------------------------

\* What goes out with interrupts enabled is black, whichever call sends it; they
\* are off while a mode draws, on while the I2C driver or the buttons are used.
THEOREM MaskingCorrect == Spec => []PicturesAreMasked
<1>1. Init => PicturesAreMasked
  BY DEF Init, PicturesAreMasked
<1>2. TypeOK /\ PicturesAreMasked /\ [Next]_vars => PicturesAreMasked'
  <2> SUFFICES ASSUME TypeOK, PicturesAreMasked, [Next]_vars PROVE PicturesAreMasked'
    OBVIOUS
  <2> USE DEF TypeOK, PicturesAreMasked, Goto
  <2>1. CASE Mask \/ Unmask \/ RenderCalibration
    BY <2>1 DEF SetMie, Mask, Unmask, RenderCalibration, display
  <2>2. CASE Poll \/ Calibrate \/ NoEdge
    BY <2>2 DEF Poll, Calibrate, NoEdge, program, display
  <2>3. CASE Render \/ RenderOff
    <3>1. led_matrix' \in Frames
      BY <2>3, TypeNext
    <3>2. ~mie /\ exposed' = exposed
      BY <2>3, <3>1, BlackIsAFrame, SendExposes DEF Render, RenderOff
    <3> QED BY <2>3, <3>2 DEF Render, RenderOff
  <2>4. CASE Clear
    <3>1. exposed' \subseteq exposed \cup {Black}
      <4>1. {ClearedFrame[p] : p \in Pixels} \subseteq {Black}
        BY DEF ClearedFrame
      <4> QED BY <2>4, <4>1, BlackIsAFrame, SendExposes DEF Clear
    <3> QED BY <2>4, <3>1 DEF Clear
  <2>5. CASE Remember
    BY <2>5 DEF Remember, display
  <2>6. CASE SampleA \/ SampleB \/ TurnForward \/ TurnBack
    BY <2>6 DEF SampleA, SampleB, SampleButton, TurnForward, TurnBack, Turn, display
  <2>7. CASE User \/ UNCHANGED vars
    BY <2>7 DEF User, Press, Release, vars, program, display
  <2> QED BY <2>1, <2>2, <2>3, <2>4, <2>5, <2>6, <2>7 DEF Next, Loop
<1> QED BY <1>1, <1>2, TypeCorrect, PTL DEF Spec

\* From the first frame on, the lit pixels belong to the selected mode.
THEOREM StripCorrect == Spec => []StripShowsMode
<1>1. Init => StripShowsMode
  BY DEF Init, StripShowsMode
<1>2. TypeOK /\ StripShowsMode /\ [Next]_vars => StripShowsMode'
  <2> SUFFICES ASSUME TypeOK, StripShowsMode, [Next]_vars PROVE StripShowsMode'
    OBVIOUS
  <2> USE DEF TypeOK, StripShowsMode, Goto, display
  <2>1. CASE Render
    <3>1. \A p \in Pixels : led_matrix'[p] \in {Black, current_state}
      BY <2>1, DrawingIsOwn DEF Send, Render
    <3> QED BY <2>1, <3>1 DEF Send, Render
  <2>2. CASE RenderOff \/ Clear
    BY <2>2 DEF Send, RenderOff, Clear, ClearedFrame
  <2>3. CASE TurnForward \/ TurnBack
    BY <2>3 DEF TurnForward, TurnBack, Turn
  <2>4. CASE Poll \/ Calibrate \/ NoEdge \/ User \/ UNCHANGED vars
    BY <2>4 DEF Poll, Calibrate, NoEdge, User, Press, Release, vars, program
  <2>5. CASE Mask \/ Unmask \/ RenderCalibration \/ SampleA \/ SampleB \/ Remember
    BY <2>5 DEF SetMie, Mask, Unmask, RenderCalibration, SampleA, SampleB, SampleButton, Remember
  <2> QED BY <2>1, <2>2, <2>3, <2>4, <2>5 DEF Next, Loop
<1> QED BY <1>1, <1>2, TypeCorrect, PTL DEF Spec

-----------------------------------------------------------------------------

LEMMA PressNext == TypeOK /\ EdgeIsAPress /\ [Next]_vars => EdgeIsAPress'
<1> SUFFICES ASSUME TypeOK, EdgeIsAPress, [Next]_vars, NEW b \in Buttons
    PROVE  /\ pc' \in Unsampled(b) /\ pressed'[b] /\ ~previous'[b] => pending'[b]
           /\ pc' \notin Unsampled(b) /\ pressed'[b] /\ ~sampled'[b] => pending'[b]
  BY DEF EdgeIsAPress
<1> USE DEF TypeOK, EdgeIsAPress, Goto, Unsampled, Buttons
<1>1. CASE Poll \/ Calibrate \/ NoEdge
  BY <1>1 DEF Poll, Calibrate, NoEdge, program
<1>2. CASE Mask \/ Unmask \/ RenderCalibration
  BY <1>2 DEF SetMie, Mask, Unmask, RenderCalibration
<1>3. CASE Render \/ RenderOff \/ Clear \/ Remember
  BY <1>3 DEF Send, Render, RenderOff, Clear, Remember
<1>4. CASE SampleA \/ SampleB
  BY <1>4 DEF SampleA, SampleB, SampleButton
<1>5. CASE TurnForward \/ TurnBack
  BY <1>5 DEF TurnForward, TurnBack, Turn
<1>6. CASE User
  BY <1>6 DEF User, Press, Release, program
<1>7. CASE UNCHANGED vars
  BY <1>7 DEF vars, program
<1> QED BY <1>1, <1>2, <1>3, <1>4, <1>5, <1>6, <1>7 DEF Next, Loop

\* Every edge handle_state sees stands for a press made since the last sample.
THEOREM EdgeCorrect == Spec => []EdgeIsAPress
<1>1. Init => EdgeIsAPress
  BY DEF Init, EdgeIsAPress, Unsampled, Buttons
<1> QED BY <1>1, PressNext, TypeCorrect, PTL DEF Spec

-----------------------------------------------------------------------------

IInv == TypeOK /\ EdgeIsAPress

CreditOf == [b \in Buttons |-> Credit(b)]

\* Steps that touch neither pins nor samples, between phases where no sampled
\* edge is waiting, leave the abstract credit alone.
LEMMA CreditKept ==
  ASSUME TypeOK, UNCHANGED pending,
         pc \notin {"buttonB", "dispatch"}, pc' \notin {"buttonB", "dispatch"}
  PROVE  CreditOf' = CreditOf
BY DEF CreditOf, Credit, Claimed, Buttons

LEMMA RingInit == Init => Ring!Init
<1> SUFFICES ASSUME Init PROVE Ring!Init
  OBVIOUS
<1>1. \A b \in Buttons : Credit(b) = (IF pressed[b] THEN 1 ELSE 0)
  BY DEF Init, Credit, Claimed, Buttons
<1>2. Place(current_state) = 0
  BY DEF Init, Place
<1> QED BY <1>1, <1>2 DEF Init, Ring!Init, Ring!Buttons, Buttons

\* A step of the user is a step of the ring's user.
LEMMA RingUser == IInv /\ User => [Ring!Next]_(Ring!vars)
<1> SUFFICES ASSUME IInv, NEW b \in Buttons, Press(b) \/ Release(b)
    PROVE  Ring!Next \/ UNCHANGED Ring!vars
  BY DEF User
<1> USE DEF IInv, TypeOK, Buttons, Ring!Buttons
<1>1. CASE Press(b)
  <2>1. \A c \in Buttons : c # b => Credit(c)' = Credit(c)
    BY <1>1 DEF Press, program, Credit, Claimed, Edge
  <2>2. Credit(b)' \in {Credit(b), Credit(b) + 1}
    BY <1>1 DEF Press, program, Credit, Claimed, Edge
  <2>3. Credit(b)' <= 2
    BY <1>1 DEF Press, program, Credit, Claimed, Edge
  <2>4. CreditOf' = [CreditOf EXCEPT ![b] = Credit(b)']
    BY <2>1 DEF CreditOf
  <2>5. Ring!Press(b)
    BY <1>1, <2>2, <2>3, <2>4 DEF Press, program, Ring!Press, Ring!Capacity, CreditOf
  <2> QED BY <2>5 DEF Ring!Next
<1>2. CASE Release(b)
  <2>1. CreditOf' = CreditOf
    BY <1>2 DEF Release, program, CreditOf, Credit, Claimed, Edge
  <2>2. Ring!Release(b)
    BY <1>2, <2>1 DEF Release, program, Ring!Release, CreditOf
  <2> QED BY <2>2 DEF Ring!Next
<1> QED BY <1>1, <1>2

\* Sampling a button either moves its waiting press from "pending" to "sampled
\* edge", which the ring does not see, or loses it.
LEMMA RingSample == IInv /\ (SampleA \/ SampleB) => [Ring!Next]_(Ring!vars)
<1> SUFFICES ASSUME IInv, SampleA \/ SampleB
    PROVE  Ring!Next \/ UNCHANGED Ring!vars
  OBVIOUS
<1> USE DEF IInv, TypeOK, Buttons, Ring!Buttons
<1>1. PICK b \in Buttons : b = (IF SampleA THEN "A" ELSE "B")
  OBVIOUS
<1>2. \A c \in Buttons : c # b => Credit(c)' = Credit(c)
  BY <1>1 DEF SampleA, SampleB, SampleButton, Goto, Credit, Claimed, Edge
<1>3. Credit(b)' = Credit(b) \/ (Credit(b) > 0 /\ Credit(b)' = Credit(b) - 1)
  BY <1>1 DEF SampleA, SampleB, SampleButton, Goto, Credit, Claimed, Edge,
              EdgeIsAPress, Unsampled
<1>4. CreditOf' = [CreditOf EXCEPT ![b] = Credit(b)']
  BY <1>2 DEF CreditOf
<1>5. UNCHANGED <<Place(current_state), pressed>>
  BY DEF SampleA, SampleB, SampleButton, Place
<1>6. CASE Credit(b)' = Credit(b)
  <2>1. CreditOf' = CreditOf
    BY <1>4, <1>6 DEF CreditOf
  <2> QED BY <1>5, <2>1 DEF Ring!vars, CreditOf
<1>7. CASE Credit(b) > 0 /\ Credit(b)' = Credit(b) - 1
  <2>1. Ring!Lose(b)
    BY <1>4, <1>5, <1>7 DEF Ring!Lose, CreditOf
  <2> QED BY <2>1 DEF Ring!Next
<1> QED BY <1>3, <1>6, <1>7

\* Acting on an edge is a turn of the ring paid by that edge.
LEMMA RingTurn == IInv /\ (TurnForward \/ TurnBack) => Ring!Next
<1> SUFFICES ASSUME IInv, TurnForward \/ TurnBack PROVE Ring!Next
  OBVIOUS
<1> USE DEF IInv, TypeOK, Buttons, Ring!Buttons
<1>1. \A b \in Buttons : Credit(b)' = Credit(b) - (IF Edge(b) THEN 1 ELSE 0)
  BY DEF TurnForward, TurnBack, Turn, Goto, Credit, Claimed, Edge
<1>2. \A b \in Buttons : Credit(b) \in 0..2 /\ (Edge(b) => Credit(b) > 0)
  BY DEF TurnForward, TurnBack, Turn, Goto, Credit, Claimed
<1>3. UNCHANGED pressed
  BY DEF TurnForward, TurnBack, Turn
<1>4. CASE TurnForward
  <2>1. Edge("B")
    BY <1>4 DEF TurnForward
  <2>2. Place(current_state)' = (Place(current_state) + 1) % 6
    BY <1>4 DEF TurnForward, Turn, Modes, Forward, Place
  <2>3. Ring!Spend("B")
    <3>1. CASE Edge("A")
      BY <1>1, <1>2, <1>3, <2>1, <3>1 DEF Ring!Spend
    <3>2. CASE ~Edge("A")
      BY <1>1, <1>2, <1>3, <2>1, <3>2 DEF Ring!Spend
    <3> QED BY <3>1, <3>2
  <2> QED BY <2>2, <2>3 DEF Ring!TurnForward, Ring!Next
<1>5. CASE TurnBack
  <2>1. Edge("A") /\ ~Edge("B")
    BY <1>5 DEF TurnBack
  <2>2. Place(current_state)' = (Place(current_state) + 6 - 1) % 6
    BY <1>5 DEF TurnBack, Turn, Modes, Back, Place
  <2>3. Ring!Spend("A")
    BY <1>1, <1>2, <1>3, <2>1 DEF Ring!Spend
  <2> QED BY <2>2, <2>3 DEF Ring!TurnBack, Ring!Next
<1> QED BY <1>4, <1>5

\* The other steps of the loop stutter on the ring.
LEMMA RingStutter ==
  ASSUME TypeOK,
         \/ Poll \/ Mask \/ Render \/ RenderOff \/ RenderCalibration \/ Calibrate
         \/ Unmask \/ NoEdge \/ Clear \/ Remember
  PROVE  UNCHANGED Ring!vars
<1>1. UNCHANGED <<current_state, pressed, pending>>
  BY DEF SetMie, Send, Poll, Mask, Render, RenderOff, RenderCalibration, Calibrate, Unmask, NoEdge,
         Clear, Remember, program
<1>2. CASE NoEdge
  <2>1. CreditOf' = CreditOf
    BY <1>2, <1>1 DEF TypeOK, NoEdge, Goto, program, CreditOf, Credit, Claimed, Edge, Buttons
  <2> QED BY <1>1, <2>1 DEF Ring!vars, CreditOf, Place
<1>3. CASE ~NoEdge
  <2>1. CreditOf' = CreditOf
    BY <1>3, <1>1, CreditKept
       DEF SetMie, Send, Poll, Mask, Render, RenderOff, RenderCalibration, Calibrate, Unmask, Clear,
           Remember, Goto
  <2> QED BY <1>1, <2>1 DEF Ring!vars, CreditOf, Place
<1> QED BY <1>2, <1>3

\* The loop implements the ring: one hand-written ring walked both ways, every
\* turn paid for by a press of its own.
THEOREM RingImplemented == Spec => RingSpec
<1>1. Init => IInv
  BY TypeInit DEF Init, IInv, EdgeIsAPress, Unsampled, Buttons
<1>2. IInv /\ [Next]_vars => IInv'
  BY TypeNext, PressNext DEF IInv
<1>3. IInv /\ [Next]_vars => [Ring!Next]_(Ring!vars)
  <2> SUFFICES ASSUME IInv, [Next]_vars PROVE Ring!Next \/ UNCHANGED Ring!vars
    OBVIOUS
  <2>1. CASE UNCHANGED vars
    BY <2>1 DEF vars, program, Ring!vars, Credit, Claimed, Edge, Place
  <2>2. CASE User
    BY <2>2, RingUser
  <2>3. CASE Loop
    BY <2>3, RingSample, RingTurn, RingStutter DEF Loop, IInv
  <2> QED BY <2>1, <2>2, <2>3 DEF Next
<1> QED BY RingInit, <1>1, <1>2, <1>3, PTL DEF Spec, RingSpec, Ring!Spec

\* The four state invariants of the loop together.
THEOREM LoopCorrect == Spec => []LoopIsSound
BY TypeCorrect, MaskingCorrect, StripCorrect, EdgeCorrect, PTL
   DEF LoopIsSound
=============================================================================
