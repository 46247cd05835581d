------------------------------- MODULE PinMux -------------------------------
(***************************************************************************)
(* Who drives a pin.  The GPIO controller routes every pin to one of two   *)
(* peripheral functions or to its own port; the drivers of the devices     *)
(* claim their pins when they are initialised, in whatever order the       *)
(* program does that, and the firmware uses pins of the port for its       *)
(* buttons, the board's LEDs and the LED strip.                            *)
(***************************************************************************)
EXTENDS Board

CONSTANTS
  Devices,      \* the devices the program initialises
  Lamps,        \* the LEDs of the board it uses
  Hands         \* pins it routes and drives itself, with the calls of gpio.h

ASSUME PinAssumption ==
  /\ Devices \subseteq Pwms \cup Spis \cup Uarts \cup I2cs
  /\ Lamps \subseteq Leds
  /\ Hands \subseteq GpioPins

VARIABLES
  iof_sel,      \* pins routed to their second function, once enabled
  iof_en,       \* pins given to a peripheral
  input_en,     \* pins whose input is enabled
  output_en,    \* pins whose output is enabled
  port,         \* pins whose output is high
  inUse,        \* history: devices and users that have their pins now
  everUsed,     \* history: and that ever had them
  lit,          \* history: LEDs that were last switched on
  told          \* history: what was last asked of the port by hand

pinVars == <<iof_sel, iof_en, input_en, output_en, port, inUse, everUsed, lit,
             told>>

Io == <<iof_sel, iof_en>>
Port == <<input_en, output_en, port>>
Users == <<inUse, everUsed>>

PinInit ==
  /\ iof_sel = {} /\ iof_en = {}
  /\ input_en = {} /\ output_en = {} /\ port = {}
  /\ inUse = {} /\ everUsed = {} /\ lit = {}
  /\ told = [p \in Hands |-> {}]

\* The types of the variables.
PinTypeOK ==
  /\ iof_sel \cup iof_en \cup input_en \cup output_en \cup port
       \subseteq GpioPins
  /\ inUse \subseteq everUsed /\ lit \subseteq Leds
  /\ everUsed \subseteq Devices \cup Lamps \cup {"buttons", "strip"}
  /\ told \in [Hands -> SUBSET {"input", "output", "high"}]

PinsFor(d) == CASE d \in Pwms -> PwmPins(d)   [] d \in Spis -> SpiPins(d)
                [] d \in Uarts -> UartPins(d) [] d \in I2cs -> I2cPins(d)
                [] d \in Leds -> {LedPin(d)}
                [] d = "buttons" -> {0, 11}   [] d = "strip" -> {22}

SelectFor(d) == CASE d \in Pwms -> PwmSelect(d)   [] d \in Spis -> SpiSelect(d)
                  [] d \in Uarts -> UartSelect(d) [] d \in I2cs -> I2cSelect(d)

Claims(d) == inUse' = inUse \cup {d} /\ everUsed' = everUsed \cup {d}

-----------------------------------------------------------------------------
(* The GPIO driver.                                                         *)

\* enable_io: the selection only ever grows.
EnableIo(source, dest) ==
  /\ iof_sel' = iof_sel \cup source
  /\ iof_en' = iof_en \cup dest

\* Mutant: disable_io gives the other pins back too.
DisableIo_All(source) == iof_en' = {} /\ UNCHANGED iof_sel

DisableIo(source) == iof_en' = iof_en \ source /\ UNCHANGED iof_sel

EnableInput(pins) == input_en' = input_en \cup pins
DisableInput(pins) == input_en' = input_en \ pins
EnableOutput(pins) == output_en' = output_en \cup pins
DisableOutput(pins) == output_en' = output_en \ pins

OutputSet(pins) == port' = port \cup pins
OutputClear(pins) == port' = port \ pins
OutputToggle(pins) == port' = (port \ pins) \cup (pins \ port)

-----------------------------------------------------------------------------
(* Devices.                                                                 *)

\* metal_uart_init, metal_i2c_init, metal_spi_init, metal_pwm_enable.
ClaimPins(d) ==
  /\ EnableIo(SelectFor(d), PinsFor(d))
  /\ Claims(d)
  /\ UNCHANGED <<Port, lit, told>>

\* Only the PWM driver has a way back.
PwmReleasePins(d) ==
  /\ d \in inUse
  /\ DisableIo(PinsFor(d))
  /\ inUse' = inUse \ {d}
  /\ UNCHANGED <<Port, everUsed, lit, told>>

\* metal_gpio_enable_pinmux hands enable_io the pin as what to select and the
\* function as what to enable.
EnablePinmux(p, function) ==
  /\ EnableIo({p}, IF function = 1 THEN {p} ELSE {})
  /\ UNCHANGED <<Port, Users, lit, told>>

DisablePinmux(p) ==
  /\ DisableIo({p})
  /\ UNCHANGED <<Port, Users, lit, told>>

Tell(p, what, on) ==
  told' = [told EXCEPT ![p] = IF on THEN @ \cup {what} ELSE @ \ {what}]

\* metal_gpio_enable_input, metal_gpio_disable_input.
SetInput(p, on) ==
  /\ IF on THEN EnableInput({p}) ELSE DisableInput({p})
  /\ Tell(p, "input", on)
  /\ UNCHANGED <<Io, output_en, port, Users, lit>>

SetOutput(p, on) ==
  /\ IF on THEN EnableOutput({p}) ELSE DisableOutput({p})
  /\ Tell(p, "output", on)
  /\ UNCHANGED <<Io, input_en, port, Users, lit>>

\* metal_gpio_set_pin; metal_gpio_clear_pin is its case of 0.
SetPin(p, on) ==
  /\ IF on THEN OutputSet({p}) ELSE OutputClear({p})
  /\ Tell(p, "high", on)
  /\ UNCHANGED <<Io, input_en, output_en, Users, lit>>

TogglePin(p) ==
  /\ OutputToggle({p})
  /\ Tell(p, "high", "high" \notin told[p])
  /\ UNCHANGED <<Io, input_en, output_en, Users, lit>>

OutputPin(p) == p \in port

-----------------------------------------------------------------------------
(* The port: buttons, LEDs, strip.                                          *)

InitButtons ==
  /\ DisableOutput(PinsFor("buttons"))
  /\ EnableInput(PinsFor("buttons"))
  /\ Claims("buttons")
  /\ UNCHANGED <<Io, port, lit, told>>

LedEnable(l) ==
  /\ DisableInput({LedPin(l)})
  /\ EnableOutput({LedPin(l)})
  /\ Claims(l)
  /\ UNCHANGED <<Io, port, lit, told>>

LedOn(l) ==
  /\ l \in inUse
  /\ OutputSet({LedPin(l)})
  /\ lit' = lit \cup {l}
  /\ UNCHANGED <<Io, input_en, output_en, Users, told>>

LedOff(l) ==
  /\ l \in inUse
  /\ OutputClear({LedPin(l)})
  /\ lit' = lit \ {l}
  /\ UNCHANGED <<Io, input_en, output_en, Users, told>>

LedToggle(l) ==
  /\ l \in inUse
  /\ OutputToggle({LedPin(l)})
  /\ lit' = (lit \ {l}) \cup ({l} \ lit)
  /\ UNCHANGED <<Io, input_en, output_en, Users, told>>

GpioDirectInit ==
  /\ EnableOutput(PinsFor("strip"))
  /\ UNCHANGED <<Io, input_en, port, Users, lit, told>>

\* gpio_low and gpio_high store to the whole port, first the mask of the strip's
\* pin and then zero.
SendBit ==
  /\ PinsFor("strip") \subseteq output_en
  /\ \E value \in {PinsFor("strip"), {}} : port' = value
  /\ Claims("strip")
  /\ UNCHANGED <<Io, input_en, output_en, lit, told>>

PinNext ==
  \/ \E d \in Devices : ClaimPins(d)
  \/ \E d \in Devices \cap Pwms : PwmReleasePins(d)
  \/ \E p \in Hands : DisablePinmux(p) \/ \E f \in {0, 1} : EnablePinmux(p, f)
  \/ \E p \in Hands : \/ TogglePin(p)
                       \/ \E on \in BOOLEAN : \/ SetInput(p, on)
                                            \/ SetOutput(p, on)
                                            \/ SetPin(p, on)
  \/ \E l \in Lamps : LedEnable(l) \/ LedOn(l) \/ LedOff(l) \/ LedToggle(l)
  \/ InitButtons
  \/ GpioDirectInit
  \/ SendBit

PinSpec == PinInit /\ [][PinNext]_pinVars

-----------------------------------------------------------------------------
(* Properties.                                                              *)

\* Users of a pin, by the tables of metal.h and the firmware's own choices.
Clash(c, d) == c # d /\ PinsFor(c) \cap PinsFor(d) # {}

Alone(d) == /\ \A c \in everUsed : ~Clash(c, d)
            /\ PinsFor(d) \cap Hands = {}

\* The pins of a user are as its calls left them.
AsSetUp(d) ==
  CASE d \in Devices -> /\ PinsFor(d) \subseteq iof_en
                        /\ PinsFor(d) \cap iof_sel = SelectFor(d)
    [] d = "buttons" -> /\ PinsFor(d) \cap (iof_en \cup output_en) = {}
                        /\ PinsFor(d) \subseteq input_en
    [] d = "strip" -> /\ PinsFor(d) \cap iof_en = {}
                      /\ PinsFor(d) \subseteq output_en
    [] d \in Leds -> /\ LedPin(d) \notin iof_en
                     /\ LedPin(d) \in output_en \ input_en
                     /\ "strip" \in everUsed \/
                          (LedPin(d) \in port <=> d \in lit)

\* sifive_gpio0.c with the drivers' init functions: a user none of whose pins
\* was ever wanted by another finds them as it set them up, whatever is
\* initialised, released or switched before or after; and an LED shows what it
\* was last told unless the strip, which stores to the whole port, is driven;
\* and so does a pin driven by hand that no user has.
Undisturbed ==
  /\ \A d \in inUse : Alone(d) => AsSetUp(d)
  /\ \A p \in Hands :
       (\A d \in everUsed : d # "strip" /\ p \notin PinsFor(d)) =>
         told[p] = {w \in {"input", "output", "high"} :
                      CASE w = "input" -> p \in input_en
                        [] w = "output" -> p \in output_en
                        [] w = "high" -> OutputPin(p)}

\* Nobody drives the pin of the strip by hand: gpio_direct_init takes it
\* without a claim.
StripIsItsOwn == PinsFor("strip") \cap Hands = {}
============================================================================
