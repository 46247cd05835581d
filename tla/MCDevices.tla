------------------------------ MODULE MCDevices ------------------------------
(***************************************************************************)
(* The devices of the board in small: the clock tree with the PLL and the  *)
(* UART and I2C drivers behind it, the pins, the UART with its interrupts, *)
(* and the drivers of the SPI, the PWM, the watchdog and the real-time     *)
(* clock.  They share no state that their modules keep, so a behaviour     *)
(* runs one of them, chosen at the start, and the others stay as they      *)
(* were.                                                                   *)
(***************************************************************************)
EXTENDS ClockTree, MCPllDriver, MCClockCallbacks, PinMux, MCSpiDriver,
        PwmDriver, Watchdog, RealTimeClock, UartInterrupts

\* What the theorems suppose of the watermark, of the program that calls the
\* clock and of the pins driven by hand.
ASSUME DevicesAssumption ==
  RoomAboveWatermark /\ ScriptsAreLegal /\ StripIsItsOwn

VARIABLE active     \* the part that runs

Parts == {"clock", "pins", "spi", "pwm", "wdog", "rtc", "uart"}

devicesVars == <<active, treeVars, pinVars, spiVars, pwmVars, wdogVars, rtcVars,
                 uartVars>>

-----------------------------------------------------------------------------
\* A watermark of two, which is asked for when a change of the clock has left one.
MCLevels == {{17}}

-----------------------------------------------------------------------------
\* What is chosen or random at reset is chosen for the part that runs, the state
\* of the PLL only where the firmware's own program follows.
TwoChanges == <<SetRateCall, SetRateCall>>

DevicesInit ==
  /\ active \in Parts
  /\ TreeInit
  /\ active # "clock" => clockScript = TwoChanges
  /\ clockScript \notin BootScripts =>
       ~sel /\ ~refsel /\ ~bypass /\ Head(script).op = "init"
  /\ SpiInit
  /\ active # "spi" => spi_clock = (CHOOSE r \in SpiRates : TRUE)
  /\ PwmInit
  /\ active # "pwm" => pwm_rate = (CHOOSE r \in PwmRates : TRUE)
  /\ PinInit /\ WdogInit /\ RtcInit /\ UartInit

TreeRuns == /\ active = "clock" /\ TreeNext
            /\ UNCHANGED <<active, pinVars, spiVars, pwmVars, wdogVars, rtcVars,
                           uartVars>>
PinsRun == /\ active = "pins" /\ PinNext
           /\ UNCHANGED <<active, treeVars, spiVars, pwmVars, wdogVars,
                          rtcVars, uartVars>>
SpiRuns == /\ active = "spi" /\ SpiNext
           /\ UNCHANGED <<active, treeVars, pinVars, pwmVars, wdogVars,
                          rtcVars, uartVars>>
PwmRuns == /\ active = "pwm" /\ PwmNext
           /\ UNCHANGED <<active, treeVars, pinVars, spiVars, wdogVars,
                          rtcVars, uartVars>>
WdogRuns == /\ active = "wdog" /\ WdogNext
            /\ UNCHANGED <<active, treeVars, pinVars, spiVars, pwmVars,
                           rtcVars, uartVars>>
RtcRuns == /\ active = "rtc" /\ RtcNext
           /\ UNCHANGED <<active, treeVars, pinVars, spiVars, pwmVars,
                          wdogVars, uartVars>>
UartRuns == /\ active = "uart" /\ UartNext
            /\ UNCHANGED <<active, treeVars, pinVars, spiVars, pwmVars,
                           wdogVars, rtcVars>>

DevicesNext == TreeRuns \/ PinsRun \/ SpiRuns \/ PwmRuns
               \/ WdogRuns \/ RtcRuns \/ UartRuns

DevicesSpec == DevicesInit /\ [][DevicesNext]_devicesVars

\* The processor and the PLL go on, and the shift registers empty.  (The PLL
\* needs no more: mtime is capped and it locks once, so that without a step of
\* the driver there is none after a while.)
DevicesFairSpec ==
  /\ DevicesSpec
  /\ WF_treeVars(/\ active = "clock"
                 /\ ((Tick \/ Lock) /\ UNCHANGED clockVars) \/ Processor)
  /\ \A d \in Clients : WF_treeVars(active = "clock" /\ Sent(d) /\ UNCHANGED vars)

-----------------------------------------------------------------------------
\* The types of all parts.
DevicesTypeOK ==
  /\ TypeOK /\ ClockTypeOK /\ PinTypeOK /\ SpiTypeOK /\ PwmTypeOK /\ WdogTypeOK
  /\ RtcTypeOK /\ UartTypeOK

(* A clock is changed only while nobody depends on it: the PLL's settings   *)
(* while the core is off it, and the rate and the PLL while no byte is on   *)
(* the line of an initialised device.  A byte that went out at a clock of   *)
(* which the UART's wait does not fit its 32 bits may be cut               *)
(* (sifive_fe310-g000_pll.c, clock.h, the pre callback of sifive_uart0.c).  *)
ChangesAreSafe ==
  UnselectedWhileChanged /\ ChangedWhenDrained /\ PllChangesWhenDrained

(* What the callers of the serial links may rely on: SPI transfers send     *)
(* each byte and store the answers in order, late by as many as transfers   *)
(* have timed out before (sifive_spi0.c); a request to the UART's           *)
(* interrupts stands unless the other side was updating the same register,  *)
(* a watermark is what was asked of it since the clock changed, all         *)
(* together, and who sleeps for a byte or for room is woken                 *)
(* (sifive_uart0.c).                                                        *)
LinksAreSound == TransfersAreSound /\ InterruptsAreKept

\* A call to the PLL's driver or the clock's returns.
ClockCallsReturn == (pc # "idle" \/ cpc # "idle")
                    ~> (pc = "idle" /\ cpc = "idle")
=============================================================================
