------------------------------- MODULE Board -------------------------------
(***************************************************************************)
(* What bsp/metal.h says of the HiFive1 rev B: which clocks, controllers   *)
(* and devices there are, where their registers and interrupt lines are,   *)
(* and which pins each device wants.  A table that asks for the handle of  *)
(* a device answers 0 or NULL for any other; here a device is its name.    *)
(* A bit mask over the pins is the set of pins whose bits are set.         *)
(***************************************************************************)
EXTENDS Naturals, Sequences

Pwms == {"pwm_10015000", "pwm_10025000", "pwm_10035000"}
Spis == {"spi_10014000", "spi_10024000", "spi_10034000"}
Uarts == {"serial_10013000", "serial_10023000"}
I2cs == {"i2c_10016000"}
Leds == {"led_0", "led_1", "led_2"}

FixedClocks == {"clock_0", "clock_2", "clock_5", "clock_6"}
Memories == {"dtim_80000000", "itim_8000000", "spi_10014000"}
Intc == "cpu_0_interrupt_controller"
Plic == "interrupt_controller_c000000"
Gpio == "gpio_10012000"
Prci == "prci_10008000"

\* The tables that number the devices of a kind: no buttons and no switches.
Tables == [cpu |-> {"cpu_0"}, gpio |-> {Gpio}, button |-> {}, led |-> Leds,
           switch |-> {}, i2c |-> I2cs, pwm |-> Pwms,
           rtc |-> {"rtc_10000000"}, spi |-> Spis, uart |-> Uarts,
           wdog |-> {"aon_10000000"}]

\* The driver behind each device that is declared.
DriverOf(d) ==
  CASE d \in FixedClocks -> "fixed_clock"  [] d \in Leds -> "sifive_led"
    [] d \in I2cs -> "sifive_i2c0"         [] d \in Pwms -> "sifive_pwm0"
    [] d \in Spis -> "sifive_spi0"         [] d \in Uarts -> "sifive_uart0"
    [] d = "clint_2000000" -> "riscv_clint0"
    [] d = "cpu_0" -> "cpu"
    [] d = Intc -> "riscv_cpu_intc"
    [] d = Plic -> "riscv_plic0"
    [] d = Gpio -> "sifive_gpio0"
    [] d = "rtc_10000000" -> "sifive_rtc0"
    [] d = "aon_10000000" -> "sifive_wdog0"
    [] d = "clock_1" -> "sifive_fe310_g000_hfxosc"
    [] d = "clock_3" -> "sifive_fe310_g000_hfrosc"
    [] d = "clock_4" -> "sifive_fe310_g000_pll"
    [] d = "clock_7" -> "sifive_fe310_g000_lfrosc"
    [] d = Prci -> "sifive_fe310_g000_prci"
    [] OTHER -> "none"

Declared ==
  FixedClocks \cup Leds \cup I2cs \cup Pwms \cup Spis \cup Uarts \cup
  {"clint_2000000", "cpu_0", Intc, Plic, Gpio, "rtc_10000000", "aon_10000000",
   "clock_1", "clock_3", "clock_4", "clock_7", Prci}

\* printf goes to the first UART.
Stdout == [uart |-> "serial_10013000", baud |-> 115200]

\* The pins of the GPIO controller.
GpioPins == 0 .. 31

-----------------------------------------------------------------------------
(* Processor, interrupt controllers.                                        *)

HartIds == {0}
Timebase == 16000000
NumPmpRegions == 8

ClintLines == [idx \in 0 .. 1 |-> <<3, 7>>[idx + 1]]

PlicNumInterrupts == 53
PlicMaxPriority == 7
PlicLine == 11
PlicContext == [hart \in HartIds |-> 0]

\* Every pin has a line of its own, but for the last three.
GpioLine(pin) == IF pin \in 29 .. 31 THEN pin - 2
                 ELSE IF pin \in GpioPins THEN pin + 8 ELSE 0

I2cLine == [d \in I2cs |-> 52]
RtcLine == 2
WdogLine == 1
UartLine(d) == CASE d = "serial_10013000" -> 3
                 [] d = "serial_10023000" -> 4
PwmLine(d, idx) == idx + CASE d = "pwm_10015000" -> 40
                           [] d = "pwm_10025000" -> 44
                           [] d = "pwm_10035000" -> 48

-----------------------------------------------------------------------------
(* Register blocks: [base, size], in units of one page of 2^12 bytes.       *)

Block(base, size) == [base |-> base, size |-> size]

ClintBlock == Block(8192, 16)
PlicBlock == Block(49152, 16384)
AonBlock == Block(65536, 8)
PrciBlock == Block(65544, 8)
GpioBlock == Block(65554, 1)
I2cBlock(d) == Block(65558, 1)
UartBlock(d) == Block(IF d = "serial_10013000" THEN 65555 ELSE 65571, 1)
SpiBlock(d) == Block(CASE d = "spi_10014000" -> 65556
                       [] d = "spi_10024000" -> 65572
                       [] d = "spi_10034000" -> 65588, 1)
PwmBlock(d) == Block(CASE d = "pwm_10015000" -> 65557
                       [] d = "pwm_10025000" -> 65573
                       [] d = "pwm_10035000" -> 65589, 1)

\* The memories; the flash has 500000 bytes, less than its last page.
MemoryBlock(m) == CASE m = "dtim_80000000" -> Block(524288, 4)
                    [] m = "itim_8000000" -> Block(32768, 2)
                    [] m = "spi_10014000" -> Block(131072, 123)

-----------------------------------------------------------------------------
(* Registers: sets of <<name, offset in bytes>> in the block.               *)

\* Names of words that follow each other.
Words(base, names) == {<<names[i], base + 4 * (i - 1)>> : i \in 1 .. Len(names)}

ClintRegisters == {<<"msip", 0>>, <<"mtimecmp", 16384>>, <<"mtime", 49144>>}

PlicPriority(line) == 4 * line
PlicPending == 4096
PlicEnable(context) == 8192 + 128 * context
PlicThreshold(context) == 2097152 + 4096 * context
PlicClaim(context) == PlicThreshold(context) + 4

AonRegisters ==
  { <<"wdogcfg", 0>>, <<"wdogcount", 8>>, <<"wdogs", 16>> }
  \cup Words(24, <<"wdogfeed", "wdogkey", "wdogcmp">>)
  \cup { <<"rtccfg", 64>>, <<"rtclo", 72>>, <<"rtchi", 72>>, <<"rtcs", 80>>,
         <<"rtccmp", 96>>, <<"lfrosccfg", 112>> }
AonBackup == [i \in 0 .. 31 |-> IF i = 7 THEN 152 ELSE 128 + 4 * i]
PmuRegisters == {<<"wakeup", 256>>, <<"sleep", 288>>}
                \cup Words(320, <<"pmuie", "pmucause", "pmusleep", "pmukey">>)

PrciRegisters == Words(0, <<"hfrosccfg", "hfxosccfg", "pllcfg", "plloutdiv">>)

GpioRegisters ==
  Words(0, <<"value", "input_en", "output_en", "port", "pue", "ds", "rise_ie",
             "rise_ip", "fall_ie", "fall_ip", "high_ie", "high_ip", "low_ie",
             "low_ip", "iof_en", "iof_sel", "out_xor">>)

\* The last two words are other registers for a read.
I2cRegisters ==
  Words(0, <<"prescale_low", "prescale_high", "control", "transmit",
             "command">>)
  \cup Words(12, <<"receive", "status">>)

PwmRegisters ==
  {<<"pwmcfg", 0>>, <<"pwmcount", 8>>, <<"pwms", 16>>}
  \cup Words(32, <<"pwmcmp0", "pwmcmp1", "pwmcmp2", "pwmcmp3">>)

RtcRegisters == {<<"rtccfg", 64>>, <<"rtcs", 80>>, <<"rtccmp", 96>>}
                \cup Words(72, <<"rtclo", "rtchi">>)

SpiRegisters ==
  Words(0, <<"sckdiv", "sckmode">>)
  \cup Words(16, <<"csid", "csdef", "csmode">>)
  \cup Words(40, <<"delay0", "delay1">>) \cup {<<"fmt", 64>>}
  \cup Words(72, <<"txdata", "rxdata", "txmark", "rxmark">>)
  \cup Words(96, <<"fctrl", "ffmt">>) \cup Words(112, <<"ie", "ip">>)

UartRegisters == Words(0, <<"txdata", "rxdata", "txctrl", "rxctrl", "ie", "ip",
                            "div">>)

WdogRegisters == {<<"wdogcfg", 0>>, <<"wdogcount", 8>>, <<"wdogs", 16>>}
                 \cup Words(24, <<"wdogfeed", "wdogkey", "wdogcmp">>)

-----------------------------------------------------------------------------
(* Clocks: the oscillators, and what each device is driven by.              *)

FixedRate(c) == CASE c = "clock_0" -> 16000000
                  [] c = "clock_2" -> 72000000
                  [] c \in {"clock_5", "clock_6"} -> 32768
                  [] OTHER -> 0

\* hfxosc (clock_1), hfrosc (clock_3), the PLL (clock_4), lfrosc (clock_7).
ClockSources == [clock_1 |-> {"clock_0"}, clock_3 |-> {"clock_2"},
                 clock_4 |-> {"clock_3", "clock_1"},
                 clock_7 |-> {"clock_5", "clock_6"}]
PllInitRate == 16000000
LfroscRegisters == [config |-> 112, mux |-> 124]

ClockOf(d) == IF d \in Pwms \cup Spis \cup Uarts \cup I2cs THEN "clock_4"
              ELSE "clock_7"   \* the RTC and the watchdog

-----------------------------------------------------------------------------
(* Pins.  A device's source selector names its pins, its output selector    *)
(* those of them that are to be its second function.                        *)

LedPin(d) == CASE d = "led_0" -> 22 [] d = "led_1" -> 19 [] d = "led_2" -> 21

I2cPins(d) == {12, 13}
I2cSelect(d) == {}

PwmPins(d) == CASE d = "pwm_10015000" -> 0 .. 3
                [] d = "pwm_10025000" -> 19 .. 22
                [] d = "pwm_10035000" -> 10 .. 13
PwmSelect(d) == CASE d = "pwm_10015000" -> 0 .. 3
                  [] d = "pwm_10025000" -> 19 .. 22
                  [] d = "pwm_10035000" -> 10 .. 13

\* The flash on spi_10014000 has pins of its own.
SpiPins(d) == CASE d = "spi_10014000" -> {}
                [] d = "spi_10024000" -> 2 .. 5
                [] d = "spi_10034000" -> 26 .. 31
SpiSelect(d) == {}

UartPins(d) == CASE d = "serial_10013000" -> {16, 17}
                 [] d = "serial_10023000" -> {18, 23}
UartSelect(d) == {}

PwmCompareWidth(d) == IF d = "pwm_10015000" THEN 8 ELSE 16
PwmComparators(d) == 4

-----------------------------------------------------------------------------
(* What the driver of a device is told of it.                               *)

Cpu == [hartid |-> 0, timebase |-> Timebase, intc |-> Intc,
        pmp |-> NumPmpRegions, buserror |-> "none"]

ClintDevice == [block |-> ClintBlock, registers |-> ClintRegisters,
                parent |-> Intc, lines |-> {ClintLines[i] : i \in 0 .. 1}]

PlicDevice == [block |-> PlicBlock, parent |-> Intc, lines |-> {PlicLine}]

GpioDevice == [block |-> GpioBlock, registers |-> GpioRegisters,
               parent |-> Plic, lines |-> {GpioLine(p) : p \in GpioPins}]

LedDevice(d) == [gpio |-> Gpio, pin |-> LedPin(d),
                 label |-> CASE d = "led_0" -> "LD0red"
                             [] d = "led_1" -> "LD0green"
                             [] d = "led_2" -> "LD0blue"]

I2cDevice(d) == [block |-> I2cBlock(d), registers |-> I2cRegisters,
                 parent |-> Plic, lines |-> {I2cLine[d]},
                 clock |-> ClockOf(d), pinmux |-> Gpio,
                 output |-> I2cSelect(d), source |-> I2cPins(d)]

PwmDevice(d) == [block |-> PwmBlock(d), registers |-> PwmRegisters,
                 parent |-> Plic, lines |-> {PwmLine(d, i) : i \in 0 .. 3},
                 clock |-> ClockOf(d), pinmux |-> Gpio,
                 output |-> PwmSelect(d), source |-> PwmPins(d)]

RtcDevice == [block |-> AonBlock, registers |-> RtcRegisters,
              parent |-> Plic, lines |-> {RtcLine},
              clock |-> ClockOf("rtc_10000000")]

\* The SPI driver takes no interrupt.
SpiDevice(d) == [block |-> SpiBlock(d), registers |-> SpiRegisters,
                 lines |-> {}, clock |-> ClockOf(d), pinmux |-> Gpio,
                 output |-> SpiSelect(d), source |-> SpiPins(d)]

UartDevice(d) == [block |-> UartBlock(d), registers |-> UartRegisters,
                  parent |-> Plic, lines |-> {UartLine(d)},
                  clock |-> ClockOf(d), pinmux |-> Gpio,
                  output |-> UartSelect(d), source |-> UartPins(d)]

WdogDevice == [block |-> AonBlock, registers |-> WdogRegisters,
               parent |-> Plic, lines |-> {WdogLine},
               clock |-> ClockOf("aon_10000000")]

PrciDevice == [block |-> PrciBlock, registers |-> PrciRegisters, lines |-> {}]

\* The oscillators and the PLL are settings in the PRCI block.
ClockRegisters == [clock_3 |-> {"hfrosccfg"}, clock_1 |-> {"hfxosccfg"}]
PllRegisters == {"pllcfg", "plloutdiv"}

-----------------------------------------------------------------------------
(* What the drivers rely on, of tables that a tool writes from the device   *)
(* tree.                                                                    *)

Muxed == {I2cDevice(d) : d \in I2cs} \cup {PwmDevice(d) : d \in Pwms}
         \cup {SpiDevice(d) : d \in Spis} \cup {UartDevice(d) : d \in Uarts}

Units == Muxed \cup {ClintDevice, GpioDevice, RtcDevice, WdogDevice, PrciDevice}

Disjoint(blocks) ==
  \A b, c \in blocks : b # c => \/ b.base + b.size <= c.base
                               \/ c.base + c.size <= b.base

\* No two names of a register, but for those of the I2C unit.
Distinct(registers) == \A r, q \in registers : r[2] = q[2] => r = q

OnPlic == {u \in Units : u.lines # {} /\ u.parent = Plic}

ASSUME BoardAssumption ==
  /\ \A d \in Declared : DriverOf(d) # "none"
  /\ UNION {Tables[k] : k \in DOMAIN Tables} \subseteq Declared
  /\ Stdout.uart \in Uarts
  \* Nothing overlaps in memory.
  /\ Disjoint({u.block : u \in Units} \cup {PlicBlock}
              \cup {MemoryBlock(m) : m \in Memories})
  \* Registers are words of their block, one name each.
  /\ \A u \in Units : \A r \in u.registers :
       r[2] % 4 = 0 /\ r[2] < 4096 * u.block.size
  /\ \A u \in Units : u.registers # I2cRegisters => Distinct(u.registers)
  \* The RTC and the watchdog are where the AON block has them, but that the
  \* block has both halves of the count in one place, and two of its backups.
  /\ (RtcRegisters \cup WdogRegisters) \ AonRegisters = {<<"rtchi", 76>>}
  /\ {i \in 0 .. 31 : \E j \in 0 .. i - 1 : AonBackup[i] = AonBackup[j]} = {7}
  /\ \A i \in 0 .. 31 : \A r \in AonRegisters \cup PmuRegisters :
       AonBackup[i] # r[2]
  /\ LfroscRegisters.config \in {r[2] : r \in AonRegisters}
  /\ UNION {ClockRegisters[c] : c \in DOMAIN ClockRegisters} \cup PllRegisters
       = {r[1] : r \in PrciRegisters}
  \* The arrays of the PLIC do not run into each other.
  /\ \A line \in 0 .. PlicNumInterrupts : PlicPriority(line) < PlicPending
  /\ \A hart \in HartIds :
       /\ PlicEnable(PlicContext[hart]) + 4 * (PlicNumInterrupts \div 32)
            < PlicThreshold(0)
       /\ PlicClaim(PlicContext[hart]) < 4096 * PlicBlock.size
  \* Every device's lines are the PLIC's and its own.
  /\ \A u \in OnPlic : u.lines \subseteq 1 .. PlicNumInterrupts
  /\ \A u, v \in OnPlic : u # v => u.lines \cap v.lines = {}
  /\ {p \in GpioPins : \E q \in GpioPins \ {p} : GpioLine(p) = GpioLine(q)}
       = {19, 20, 21, 29, 30, 31}
  /\ PlicDevice.lines \cap ClintDevice.lines = {}
  \* Outputs are among the pins a device takes, and only two pairs of devices
  \* take pins of each other.
  /\ \A u \in Muxed : u.output \subseteq u.source
                       /\ u.source \subseteq GpioPins
  /\ \A u, v \in Muxed :
       (u # v /\ u.source \cap v.source # {}) =>
         {u, v} \in { {I2cDevice("i2c_10016000"), PwmDevice("pwm_10035000")},
                     {SpiDevice("spi_10024000"), PwmDevice("pwm_10015000")} }
============================================================================
