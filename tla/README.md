# Verification of the fe310-inventor firmware

TLA+ models of the firmware of the SiFive/BBC "learn inventor" board (`src/src`), of the
freedom-metal library it stands on (`src/freedom-metal`) and of the tables that describe the board
(`src/bsp/metal.h`), model-checked with TLC on small instances and, for the parts the firmware
leans on most, proved with TLAPS for every instance.

`PROJECT.json` lists the components, the runs, the source lines of every definition, the mutants,
the hazards and the theorems. This file explains them.

- [1. The system](#1-the-system)
- [2. The plan](#2-the-plan)
- [3. The modules](#3-the-modules)
- [4. The runs and their bounds](#4-the-runs-and-their-bounds)
- [5. Fairness](#5-fairness)
- [6. What is proved](#6-what-is-proved)
- [7. Where the code and its comments disagree](#7-where-the-code-and-its-comments-disagree)
- [8. What is not modelled](#8-what-is-not-modelled)

Run a model with `tlc -config ModeLoop.cfg ModeLoop`, check proofs with `tlapm ModeLoopProofs.tla`.

## 1. The system

The board has an FE310 (one RV32 core), four I2C sensors, an 8 x 6 matrix of WS2812 LEDs on one GPIO
pin, two push buttons, a console UART and a second UART to an ESP32, the *host*. The firmware has
neither threads nor interrupt handlers: what goes on beside it is the hardware and the world: fingers
on buttons, bytes on the line, a slave holding the I2C clock, a PLL locking, time passing. The
library below it is written for more than that: several harts, traps between any two instructions,
drivers of devices this firmware leaves alone. Those parts are modelled as the library's headers say
they are to be used.

### Components, their state and their operations

| Component | State | Operations | Hard behaviours |
|---|---|---|---|
| Main loop and mode selection (`example-i2c.c`, `led/state.c`, `led/button.c`) | `current_state`, two stored button samples, MIE | poll, mask, render or calibrate, unmask, `handle_state` | a button moves between the two samples or while a frame is shifted out; samples are stored last, after a slow `clear()` |
| LED drawing (`led/led_matrix.c`, `led/compass.c`) | `led_matrix[48]`, the strip | `bubble_level`, `compass`, `test`, `clear`, `show` | one mode writes without clearing, another clears and lights some; a bubble at the edge; a heading that wraps |
| Fluid simulation (`led/fluid_sim.c`) | particles, velocity grids, `cellType`, densities | `update`, `fluid_sim` | positions become indices after they were last clamped |
| Sensor schedule (`sensors/sensors.c`) | four time stamps, `sensor_data` | `sensors_read` | the timer is sampled once, transfers take time, any of them may fail; one sensor's value is input to another's |
| Accelerometer smoothing (`sensors/sensors.c`) | ring of 5 samples, running sums, index, count | `accel_running_avg` | a sum that is only ever adjusted; integer widths; negative means |
| Light sensor (`sensors/light.c`) | two filters with a sentinel | `light_sensor_read`, smoothing | four transfers while the chip measures on, each of which may fail |
| Angles, magnetometer, temperature | `sensor_data` | conversions, `magnetometer_angle` | quotients by a norm of zero; limits of 16-bit fields |
| Sensor packet (`utils/uart.c`, `utils/uart.h`) | 32 bytes and a checksum | `send_sensor_data` | layout, sign and byte order on both ends; a wrong byte |
| UART command link (`utils/uart.c`, `sifive_uart0.c`) | receive and transmit FIFO, locals of `read_data` | `read_data`, `process_command`, `print_esp` | requests torn between polls, overruns, corruption, bytes that arrive while the answer goes out, a host that retries |
| UART driver and its interrupts (`sifive_uart0.c`) | IE, TXCTRL, RXCTRL, FIFOs | enable, disable, watermarks, baud rate, `putc`, `getc` | every update is a read and a write, and a handler may come between; watermarks add up |
| I2C driver (`sifive_i2c0.c`) | `init_done`, the controller, the bus | `init`, `write`, `read`, `transfer` | every byte may be refused or stalled; a transfer that timed out is still going on when the next call starts |
| Clock callbacks (`metal/clock.h` and the drivers) | two intrusive lists, baud divisors | register, `set_rate_hz`, the pre and post callbacks | pointer lists changed while they are walked; order of constructors; bytes on the line |
| PLL driver (`sifive_fe310-g000_pll.c`) | `PLLCFG`, `PLLOUTDIV` | `init`, `set_rate_hz`, `get_rate_hz` | lock bit that is not to be trusted yet, a boot loader's settings, a table of 68 rows |
| GPIO, pins, LEDs, buttons (`sifive_gpio0.c`, `sifive_gpio-leds.c`, `metal/gpio.h`) | IOF, port, direction and interrupt registers | route, claim, release, set, clear, toggle | drivers claim pins in any order and never give the selection back; the strip stores to the whole port |
| SPI, PWM, watchdog, real-time clock drivers | their registers and FIFOs | transfers, frequency and duty, timeout and result, count and comparator | late answers after a timeout; flags raised during read-change-write; values in between two register writes; words read apart |
| Delays and time (`utils/delay.c`, `time.c`, `timer.c`, `riscv_cpu.c`, `riscv_clint0.c`) | `mcycle`, `mtime`, `mtimecmp` | `delay_ms`, `delay_us`, `metal_cpu_get_mtime`, `set_mtimecmp` | 64-bit registers in two words; the default handler rearms in the middle of main's update |
| CPU and interrupt controllers (`riscv_cpu.c`, `riscv_clint0.c`, `riscv_plic0.c`, `vector.S`, `trap.S`) | mtvec, mie, tables, PLIC priorities, enables, claims | init, register, enable, dispatch, claim, complete | traps in the middle of configuration; edges that rise while another is handled |
| Core-local interrupt controller, performance counters, memory protection | control bytes; counters and access bits; address and configuration registers | set level, priority, vector; read, clear, event; set, lock | shared bytes with moving fields; carries; half-written and locked regions |
| Start-up of the harts (`crt0.S`, `synchronize_harts.c`, `init.c`, `lock.h`) | RAM, MSIP bits, once-flags, a lock | reset to `main`, constructors, barrier, `metal_lock_take` | harts that run ahead of the one that initialises memory |
| Board tables (`bsp/metal.h`) | none | which device has which registers, lines, pins and clock | tables that disagree with each other |

### How they interact

`main` runs `init` (clock to 160 MHz, UART, sensors, I2C, LEDs, buttons, with delays), waits and
then loops for ever:

```
 host --bytes--> UART FIFO --read_data--> process_command --sensor_data--> packet --> host
                                                              ^
 I2C slaves <--- metal_i2c_write/read <--- sensors_read ------+--> bubble/compass/fluid --> strip
 buttons -------------------------------> handle_state --current_state------^
 PLL driver --pre/post callbacks--> UART, I2C, SPI and PWM divisors --get_rate_hz--> PLL registers
 pins --GPIO--> PLIC --hart, vector table--> CPU's controller --> PLIC's handler --> program's handler
```

The loop is a chain of bounded waits; what one step leaves in `sensor_data`, the FIFO, the frame
buffer or on the I2C bus is what the next one finds. The shared state is therefore `sensor_data`
(written by `sensors_read`, sent by `read_data`, drawn by the modes), the frame buffer (written by
four modes), the bus (each call takes it as the last one left it), the callback lists, the GPIO port
and the interrupt tables (written by main, read by traps).

### What makes each of them correct

- *Loop*: the strip never shows remains of another mode; whatever lights an LED is sent with
  interrupts masked, and only the black frame of `clear()` is not; each press turns the selection at
  most once, and a press as long as an iteration at least once, unless it is of A and B has one too
  at the same samples; a held button does not keep turning it. In short: it is a two-button ring.
- *Sensing*: a reading is older than its interval only by what the rest of the call and of the loop
  took, no packet but the very first carries memory nobody wrote, the adjusted sum is the sum of the
  window, a light reading is of one exposure, the host reads what `sensor_data` held (but for a
  temperature below zero, which comes out 256 degrees too high), pictures are whole and point the
  right way, water stays on the grid and none of it is lost.
- *Command link*: only requests are answered, each packet is paid for by a request of its own, a
  request that is complete is answered, the buffer is not overrun, and the loop gets its turn.
- *I2C*: no command overwrites another, data follows its address, a result of 0 means what it says
  and leaves the bus as asked, every call returns.
- *Clock tree*: each device is told of each change, once; nothing changes under a byte that was
  sent at up to 214 MHz; the core never runs from an unlocked PLL; the rate is the closest of the
  table.
- *Devices*: a device whose pins nobody else wants keeps them; the answers of SPI transfers come in
  order, and as many places late as transfers timed out; a request to the UART's interrupts is
  undone only while the same register is being updated; a PWM output is never faster than reported;
  the watchdog does not bite early but between the two writes of `set_rate`; the clocks are never
  ahead.
- *Core*: an edge on a pin reaches the handler registered for it, whatever main is configuring;
  64-bit values were there between call and return; no hart goes on before memory is good; a region
  is locked as the call asked, unless the region above has locked its address, and stays so.

The hazards of `PROJECT.json` name the lines where each of these could go wrong.

## 2. The plan

In order of importance for the program: what the user sees (loop), what the host gets (schedule,
smoothing, command link), what both depend on (I2C, clock, PLL), the data on the way, and then the
library below.

| # | Modules | Abstract specification | State |
|---|---|---|---|
| 1 | `ModeLoop` | `ModeSwitch`: a ring turned by presses | checked, proved |
| 2 | `SensorSchedule` | | checked, proved |
| 3 | `RunningAverage` | `MovingAverage`: the mean of a window | checked, proved |
| 4 | `UartCommands` | `RequestService`: packets paid for by request bytes | checked, proved |
| 5 | `I2cDriver` | | checked, proved |
| 6 | `ClockCallbacks` | | checked as part of 7, proved |
| 7 | `PllDriver`; `ClockTree`, which composes it with `ClockCallbacks` | `PllDriver` and `ClockCallbacks`, each implemented by the tree | checked in `MCDevices`, proved |
| 8 | `TiltDisplay`, `LightFilter`, `SensorPacket`, `FluidGrid` | | checked in `MCSensing`, proved |
| 9 | `HartStart` | `HartBarrier`: no hart passes before all have arrived | checked in `MCCore`, proved |
| 10 | `TrapDispatch`, `WideTimer`, `HpmCounters`, `PmpRegions`, `ClicController` | | checked in `MCCore`, proved |
| 11 | `Board`, `PinMux`, `SpiDriver`, `PwmDriver`, `Watchdog`, `RealTimeClock` | | checked in `MCDevices`, proved |
| 12 | `UartInterrupts` | | checked in `MCDevices`, proved |

Two compositions were planned and are not written. One sensor read as two I2C calls, on top of
`I2cDriver`: `SensorSchedule` and `LightFilter` take the outcome of a call (data, old data after a
failure, a stray byte) as a choice, and the I2C theorems say which outcomes there are, but no theorem
joins the two. `ModeLoop`, `SensorSchedule` and `UartCommands` in one loop: what a packet carries is
covered inside `SensorSchedule` (`ReplyCorrect`), and the three modules agree on the order of the
steps of an iteration by construction only.

`MCDevices`, `MCCore` and `MCSensing` each hold several components that share no state. They extend
all of them and add one variable, `active` or `running`, chosen at the start: a behaviour runs one
of the parts and leaves the variables of the others alone. The states of such a run are the sum, not
the product, of the parts' states, every property of a part holds in the behaviours of the others for
want of a step, and each mutant still shows that the part itself can break the property.

A property of such a run may be a conjunction of properties of one part, or of several
(`LinksAreSound`, `ChangesAreSafe`, `AnswersAreTrue`): the conjuncts are named, and each has its own
comment where it is defined.

Every safety property of the passing runs is a theorem (section 6).

## 3. The modules

Variables keep the names of the code's variables where there is one. A definition whose name ends in
an underscore and a word (`Complete_Forgotten`) is a *mutant*: a plausible bug, defined just before the
definition it would replace, used only to show that a property can fail.

### ModeLoop and ModeSwitch

`pc` is the place in the loop: `poll` (UART and sensors), `mask`, `render` or `calibrate`, `unmask`,
then `handle_state`: `buttonA`, `buttonB`, `dispatch`, `clear`, `remember`. Buttons move in any of
these places, also between the sample of A and that of B. A pixel is abstracted to the mode that lit
it, which is all that the question "does the strip show another mode's pixels" can tell apart;
`Drawing` gives the frames each mode can leave, `Send` shifts one out and `SetMie` is the mask around
it. `clear()` is a frame too, sent from `handle_state` with interrupts enabled. `pending`, `painted`
and `exposed` are history variables: they record presses since the last sample, that a frame was
shown, and what was ever shifted out with interrupts enabled.

`ModeSwitch` knows no loop: a ring, two buttons, and for each at most two presses of credit that a
turn spends. `RingSpec` says that `ModeLoop` implements it, with the two hand-written chains of
`handle_state` as the ring walked both ways, and credit made of `pending` and of the edge sampled
but not yet acted on. When both buttons have an edge, the chain of B comes first in `handle_state`
and A's is its `else if`: B wins and A's press is dropped, `Lose`, though it may be held for ever.
`PressIsAnswered` states both: B's press is answered whatever A does, A's is unless B has one too.

### SensorSchedule

One action per `if` block of `sensors_read` (`Read`, `Skip`), with time passing anywhere (`Elapse`).
A reading is abstracted to where it came from: `unset` (never written), `failed` (the I2C results
are ignored, so the bytes are whatever was on the stack) or `measured`. `tilt` remembers which
accelerometer reading the last angle was computed from, `reply` what the last packet carried, and
`takenAt` is the history of when each sensor was really read, which is later than the sampled `now`
that its stamp gets. The age of a reading (`Age`) is against that and the running time, and holds at
every moment, not only when a call ends (`AgeAllowed`). The boot delays are the least value of the
first time.

### RunningAverage and MovingAverage

One axis of `accel_running_avg`: ring, index, count, adjusted sum, result, with C's truncating
division and the conversion to 16 bits. `MovingAverage` keeps the window as "k samples ago" and
computes the mean from scratch; `MeanSpec` maps the ring, read backwards from the slot written last,
to it.

### UartCommands and RequestService

`read_data` byte by byte: `Enter`, `Store`, `Process`, `Leave`, the packet (`SendByte`, `SendDone`)
and the complaint about a wrong checksum. Around it the receive FIFO (which drops bytes silently
when full), the end of a packet in the transmit FIFO, and a host that sends a request of two bytes,
waits, may give up and ask again (`patient` hosts do not). The line may turn a byte into any byte of
`Noise`. `gap` counts polls since the last byte: the loop of `read_data` is faster than the line,
and that is the only thing that keeps the unchecked index in the buffer.

`RequestService` counts request bytes that arrived and may still pay for a packet. `ServiceSpec`
says that however requests are torn, corrupted and run together, each packet takes two of them, and
packets do not overlap.

### I2cDriver

The three calls as sequences of commands to the controller. Each wait is two steps, a status read
(`SeeBusy`) and a clock read (`CheckClock`), because a transfer may end between them; the timeout is
restarted when a command is issued, not when the status is looked at. The controller finishes a
command whenever it likes (`Finish`), the slave acknowledges or not, and drives the line when
addressed for reading. A call that ends with an error leaves controller and bus as they are and the
next call starts from there. Which bytes are sent is left out; how many, in which direction and with
which of START, STOP and NACK is not.

### ClockCallbacks

The two lists of `metal/clock.h`, whose nodes are embedded in the devices: `head[l]`, `next[l][d]`.
Registration walks to the end node by node (`Scan`), `_metal_clock_call_all_callbacks` node by node
too (`Drain`, `Notify`), so a list that became a ring is a walk that does not end. `divisor[d]` is
the rate for which d's baud divisor was computed. A change of the rate has a first and a last step
(`BeginChange`, `Change`), since the clock has another rate in between; here both choose any rate.
The UART's wait for the line (`Drain`) is the timed one of the code: it lasts the cycles that ten
bits take at the rate of the moment (`CyclesToWait`), in the 32 bits of a `long`, against the cycles
that the byte takes with the divisor the UART has (`SymbolCycles`). Where the product overflows the
wait is none and the byte may be left on the line (`Left`).
The program above is a *script* of calls; `MCClockCallbacks` gives the scripts of this firmware's
boot in every link order and all short legal ones for UARTs.

### PllDriver

`set_rate_hz` and `init` register by register, next to a PLL that loses its lock when its input or
dividers change and finds it again in its own time. `Output` is what a reference and a row of the
table make, the powers of two by `PowersOfTwo`. Its lock bit may be set before that:
`LockBitMayBeSet` trusts it only when `StableTicks` ticks have passed. `age` is the time since the
last change, `waited` the time since `mtime_end` was computed. `find_closest_config` searches the
table from its fast end as the code does. `MCPllDriver` holds the full table of 68 rows, and scripts
with both constructors in either order, then 160 MHz, then any other rate.

### ClockTree

Both together, as they are in the program: `metal_clock_set_rate_hz` (and `pll_init`) calls the pre
callbacks, then the driver of the PLL, then the post callbacks, and these read the rate back through
`get_rate_hz`, from the registers of the PLL. `TakeOff` is the driver's first step, taken where the
walk over the pre callbacks ends, `PutOn` its last, after which the other walk starts; between them
the clients' calls wait and the lines stay empty (`Configure`). `clockRate` of `ClockCallbacks`
becomes `Rate`: the ring oscillator's while the PLL is not selected, and otherwise what
`pll_get_rate_hz` makes of the registers. Only in the composition does it show that a device is never
left with the rate of an oscillator that was selected for the time of a change. A call of one script
is the call of the other: the n-th change in either is the same one.

### The rest of sensing: TiltDisplay, LightFilter, SensorPacket, FluidGrid

`TiltDisplay` goes from an accelerometer vector to the pixels of the bubble, the compass and the test
picture. The arc functions are abstracted to what the pictures depend on: an angle has the sign of
its numerator and any size of `Tilts`, a heading is any of `Headings`, and what they give for a
vector of length zero (`fminf` and `fmaxf` with a NaN) is as in the code. `LightFilter` reads four
bytes, one step each, while the chip replaces the exposure behind its registers, and then filters
twice; any of the four may fail and leave what was on the stack. `SensorPacket` makes the 32 bytes
from the register words and has a host take them apart by the comment in `uart.h`, with one byte
changed on the way or none. `FluidGrid` has the passes of `update` as steps over a lattice of
positions with whole weights; of a velocity only remains whether it may differ from zero. The loops
over the cells are sums in the order of the code (`CellAt`, `SumOf`).

What `FluidGrid` claims is two properties. `WaterIsSound`: walls stand still, the interpolation
shares out each particle once, a frame lights the cells with particles and no others. It holds for
any number of particles. `FluidIsContained` is about the positions after `pushParticlesApart`, which
moves particles without looking at the walls they were just clamped to. Each pair moves a particle by
half a cell or less (`LittlePushed`), so that N particles move one by at most (N - 1) / 2 cells and
three cannot push one off the grid (`OnTheGrid`). The faces are indexed with clamped positions and lie
within their arrays wherever a particle went (`FacesAreThere`), and the grid carries every particle
that is not in the right or the lower wall (`AllAreCarried`): there the last face taken is the inner
one, and a particle with no water beside it keeps its velocity. The index of a cell is truncated
towards zero, as C does it (`CellIndex`); one that is off the array names no cell of the model, while
the code, which checks nothing, would read and write beside `cellType`. The bound leaves open whether
the firmware's 30 particles can get that far, and the model says nothing of it.
`MCSensing` joins the pictures of tilt and water as `PicturesAreTrue`.

### The core: HartStart, TrapDispatch, WideTimer, HpmCounters, PmpRegions, ClicController

`HartStart` runs `crt0.S` and `__metal_synchronize_harts` on every hart; RAM holds anything at
reset. `HartBarrier` is what that promises; `BarrierSpec` maps the MSIP handshake to it. The hart that
arrives last may pass with the same step, as a lone hart does.

`TrapDispatch` takes an edge on a pin through GPIO, PLIC, mtvec, the vector table or the direct
handler, the CPU's table, the PLIC's claim and the program's handler, and back. Main may be in the
middle of configuring any of them; a registration is the three stores it is in the code.
Of the pending lines the PLIC offers one of the highest priority above the threshold (`Best`), and
`WithMie` is a change of one enable bit.
`Programs` says which calls a program makes (pins, local interrupts, exceptions, modes, priorities),
so that each combination is explored with all its orders.

`WideTimer` has two contexts, main and the default timer handler, which read and write the words of
`mcycle`, `mtime` and `mtimecmp` one by one while both counters run. `HpmCounters` does the same for
the performance counters and has the change of access with the trap vector moved away. `PmpRegions`
writes address and configuration of a region as the code does, against hardware that ignores writes
to what is locked; an address is the set of its bits that are 1, of which those below the grain read
as 0. `RegionsAreKept` is about each step: what the lock is put on (`LockedAsAsked`, with the one
case in which the address is not the one given), that it holds, and that no other region changes.
`ClicController` has the control bytes as sets of bits whose fields move with `cliccfg`, for any
`nmbits`, so that a level read is the level set moved up by those bits, and with the vector flag that
both `set_vector_mode` and `set_priority` write; of the
calls of `metal/interrupt.h` it has those that reach this controller (`InterruptCalls`), the software
interrupt among them.

### The devices: Board, PinMux, SpiDriver, PwmDriver, Watchdog, RealTimeClock, UartInterrupts

`Board` is `bsp/metal.h` as functions of device names. `BoardAssumption` states how the tables must
agree (blocks and memories disjoint, registers in their blocks, lines and pins each one's own) and
names the places where they do not: the GPIO's pins 29 to 31 have the lines of 19 to 21, the AON
table gives RTCLO and RTCHI one address and BACKUP6 and BACKUP7 another, and two pairs of devices
want the same pins. TLC evaluates it on every run that extends `Board`.

`PinMux` has every call that routes, claims, releases or drives a pin, by drivers, the board's LEDs,
the buttons, the strip and a program's own hands; `told` is a history of what the latter asked for.
`SpiDriver`, `PwmDriver`, `Watchdog` and `RealTimeClock` make each call the sequence of register
accesses it is, with the hardware moving between any two: bytes shifted, counters and flags. Where
the code reads a register, changes it and writes it back, these are separate steps. `SpiDriver`
numbers the bytes, and an answer is that of its byte, so that what a timeout leaves in the FIFOs is
seen by the transfers after it (`Late`). `Watchdog` remembers every timeout and scale that was
accepted, and knows when a call is between the two writes of `set_rate` (`ScalesAtWork`).
`UartInterrupts` does the same for the UART and has a handler of the program that may make any one
call in between. `uasked` is the history of what was asked for, by main or the handler, bit by bit;
`overwritten` is what the handler asked for during an update of the same register by main, and main
then wrote back. A watermark is what the driver makes of it, the levels asked for added up.

## 4. The runs and their bounds

| Run | Instance | Shows |
|---|---|---|
| `mode_loop` | 2 pixels | the loop's properties and its refinement of the ring |
| `uart_commands` | FIFO 4, buffer 10, packet 2, noise {0, 7}, 2 polls per byte | service and liveness of the link |
| `uart_backlog` | same, impatient host, no noise | *fails*: see section 7 |
| `uart_torn_request` | same, patient host, no noise | *fails*: see section 7 |
| `i2c_bus` | all calls, lengths 0, 1, 2 | all of the driver's properties |
| `i2c_transfer` | transfers of 1 and 2 bytes | *fails*: see section 7 |
| `clock_change_after_i2c` | one more change after `metal_i2c_init` | *fails*: see section 7 |
| `sensing` | `MCSensing`: smoothing, schedule, fluid, tilt, light, packet | from registers to LEDs and host |
| `core` | `MCCore`: 3 harts, 2 pins, words of 2 values | start-up, traps, counters, regions, CLIC |
| `vectored_external` | the same | *fails*: see section 7 |
| `devices` | `MCDevices`: PLL, callbacks, pins, UART, SPI, PWM, watchdog, RTC | clock tree and devices |
| `spi_answers` | two SPI transfers, the first of which times out | *fails*: see section 7 |

Why these bounds are enough for the interesting cases to happen:

- *Pixels*: a property of the strip speaks of one pixel at a time; a second one is there so that a
  frame can be lit in part. The theorems hold for every set.
- *Sensing*. `MaxTime` 11 is the boot delay and more than the longest interval after it, so that
  every sensor is due again, alone and together with others; a step of 3 skips whole intervals. The
  samples are the extremes, whose sum is five times larger than 16 bits, and -1 and 2, whose sums'
  quotients are rounded from either side of zero. Three particles on a grid of ten by eight with two
  lattice points per cell can crowd into a corner; two frames let what one leaves meet the next.
  Vectors are free fall, level, upside down and tilted; headings lie around a border between two
  arrows and around north. Three light readings fill both filters. The packet has both signs, both
  limits and bytes that all differ.
- *UART link*: the FIFO holds two whole requests, so that one can be torn, overrun or behind
  another; 10 is the least buffer that `LinkAssumption` allows for this FIFO. 0 is noise that is no
  command and no checksum, 7 another one. A packet of two bytes is one whose sending is not atomic.
  Real sizes are 8, 64, 32; the proofs cover them.
- *I2C*: two bytes make a first, a last and a byte that is followed by another; 0 is the unsigned
  edge; calls follow each other without end.
- *Clock*: three devices make a head, a middle and a tail; the scripts are the firmware's boot in
  three link orders and all legal ones of two to five calls for two UARTs, with two to four changes
  of the rate. The UARTs are alike, so that the first one initialised is `uart0`.
- *PLL*: the full table of 68 rows, the real crystal, and rates that select a row, the crystal or
  neither, and one (`FastestRate`) for which the PLL makes the 384 MHz of its fastest row, from
  which the UART's wait is too short. In the tree the settings a boot loader may have left are
  combined with the firmware's own scripts only; the other scripts start out of reset, with
  `pll_init`. `MaxTicks` caps both counters one above the wait, beyond which no test tells them
  apart.
- *Core*: words of two values (four for the CLIC's byte) carry at every other count; two pins can
  share the PLIC, three harts make a boot hart and two that may run ahead on either side of it. Edges
  are not bounded, so that one pin may rise again and again while the other waits.
  `MaxCounter` and `MaxCalls` bound counts and calls.
- *Devices*: I2C and PWM 2 are the two that want the same pins, `led_1` is one of the strip's
  neighbours in the port, pin 11 belongs to nobody. SPI FIFOs of three bytes hold what two timeouts
  leave and the byte that is waited for; three transfers and two timeouts (`MaxTransfers`,
  `MaxTimeouts`, which has to be below the FIFO's depth) let a late answer meet the next transfer
  and the one after. The configurations (`MCSpiDriver`) have each place of the switch of wires, a
  protocol the driver does not know and empty stages; `spi_answers` has FIFOs of eight bytes. PWM
  rates and frequencies make prescalers that differ, one of them too small. The watchdog's masks of
  2 and 3 make the limits of compare and scale occur; `MaxWdog` and `MaxCount` stop the counters.
  Words of 3 values and a high word of 2 for the real-time clock. The UART has two watermark bits,
  of which programs ask for a level of 2 and a change of the clock sets a 1, so that they add up to
  3, and FIFOs of four bytes, the least with room above that; the proof covers the three bits and
  eight bytes there are.

`CHECK_DEADLOCK FALSE` stands in the three union runs (`Core`, `Devices`, `Sensing`) and in
`vectored_external` and `clock_change_after_i2c`: there a script of calls, a counter or a number of
calls comes to its end and the system really stops. All other systems run for ever and deadlock is
checked.

The mutants of `PROJECT.json` are one plausible bug for each property (a dropped wait, a forgotten
reset, an assignment for an update, a flag not completed), which the run must then find.

## 5. Fairness

- `ModeLoop`: weak fairness of the loop. One thread, no handler, and every wait in an iteration has
  a bound (the delays count cycles, the I2C waits time out). The user owes nothing.
- `UartCommands`: weak fairness of the program, strong fairness of the packet's end leaving the
  transmitter: the UART shifts out what it has, and a poll that begins meanwhile only hides it for a
  moment. The host owes nothing. `uart_backlog` adds strong fairness of `Leave`, so that its
  counterexample is not a byte that arrives each time just before the FIFO would have been found
  empty: the loop starves although it is as lucky as it can be.
- `I2cDriver`: weak fairness of the driver and of the clock passing the timeout. The slave owes
  nothing, not even an end to a command.
- `MCDevices`: weak fairness of the processor, mtime and the PLL in the clock tree, and of each
  shift register emptying. The PLL's wait for its lock has no timeout in the code, so that without
  the lock a call may not return; this is listed as a hazard. The other devices owe and are owed
  nothing: only safety is claimed of them.
- `MCCore`: weak fairness of each hart's own steps and of the two that meet at the barrier: harts
  execute. For traps, weak fairness of the handler's steps and strong fairness of taking an interrupt
  that stays enabled and keeps pending: main may mask for a while, again and again, but a hart does
  not pass over a pending, enabled interrupt for ever. `EdgesAreHandled` is claimed only of a pin that
  the program leaves set up (`Armed`), and only while no other pin of higher rank (`Outranks`) keeps
  rising and keeps being claimed: edges are not bounded, the PLIC serves the highest priority first,
  and such a pin does keep another one waiting for ever.

## 6. What is proved

All theorems are of the form "for every value of the constants". What they assume of them are the
named assumptions of the modules and, where a theorem says so, one more condition on the board or
the program; TLC evaluates all of them on the runs:

| Condition | Of | Why the code has it |
|---|---|---|
| `OwnLines` | `EdgesAreKept` | the pins the firmware uses have a line each in `bsp/metal.h`; pins 29 to 31 do not (section 3, `Board`) |
| `WholeGrains` | `LockedRegionsAreKept` | what a caller owes the driver: addresses in multiples of the granularity that `metal_pmp_init` found (`pmp.c` refuses a finer NA4 or NAPOT region) |
| `RowsAreExact` | `RatesCorrect` | each row of the table makes the rate it is listed for, and no rate is `LONG_MAX` away |
| `PllIsInitialised` | `RatesCorrect` | the constructor that calls `pll_init` is linked into every image |
| `RatesAreNumbers` | `ClockTree` | `get_rate_hz` returns a `long`: clients may be told any number, and no rate the PLL makes is refused |
| `ScriptsAreLegal` | the theorems on `ClockCallbacks` and `ClockTree` | devices are initialised once, and no clock is changed after `metal_i2c_init`: this is what section 7, item 1 is about |
| `StripIsItsOwn` | `PinsAreUndisturbed` | nobody drives the strip's pin by hand |
| `RoomAboveWatermark` | `InterruptsCorrect` | FIFOs of eight bytes, watermarks of at most seven |

A safety property is seldom inductive. Each is proved from an invariant that is, named for the
module (`HartInv`, `PmpInv`, ...): the initial states have it, every action keeps it, and it implies
the property. Below is what each of them has to add, which is the reason the code works. The
theorems about `MCCore`, `MCDevices` and `MCSensing` carry those of the parts over to the union: a
step of the union is a step of one part and stutters in the others, so that its behaviours are
behaviours of each part.

**ModeLoopProofs** (assumes only that there is an LED). `LoopCorrect` (all of the following
invariants), `TypeCorrect`, `MaskingCorrect` (what was ever sent unmasked is black), `StripCorrect`
(no remains of another mode), `EdgeCorrect` (an edge is a press), `RingImplemented` (the
refinement). The three safety properties were stated phase by phase so that each is inductive
together with the types: `EdgeIsAPress`, for instance, says which of the two stored samples counts
in which phase. The refinement rests on `EdgeIsAPress` and on lemmas that follow the abstract credit
through each step; the one of the drawing functions (`DrawingIsOwn`) is what the strip needs.

**UartCommandsProofs** (at least two polls per byte; a buffer of at least twice FIFO and one).
`LinkCorrect` (the following three), `TypeCorrect`, `IndexInBounds`, `RequestsOnly`,
`ServiceImplemented`. The index cannot be bounded alone. The invariant weighs the bytes waiting in
the FIFO, the bytes in the buffer and the polls since the last byte against each other (`Credit`):
reading a byte lowers the credit by what the time it takes gives back, and a byte that arrives has
paid for itself with the polls it took, so that a poll never has more credit than a full FIFO gave it
at its start. The refinement counts request bytes through every step on FIFO and buffer.

**I2cDriverProofs** (any operations, any lengths). `BusCorrect` and `ReturnCorrect` (what the run
checks), made of `CommandsCorrect`, `DataCorrect`, `IndexCorrect`, `OkCorrect`, `EndsCorrect`. That
commands do not overlap is inductive: each is written right after a status read that saw the
controller idle, timeouts included. The rest needs `Bus`: what a pending command is (`Addressing`,
`InFlight`) and how bus and slave stand between two bytes (`Between`); and `Progress`: how many bytes
of the call have been delivered when byte i is in flight.

**SensingProofs**, from registers to LEDs and host; the composition is `SensingTypes`,
`PicturesCorrect` and `AnswersCorrect`.

- *Schedule* (intervals positive, none longer than the boot delay): `FreshCorrect` (all of the
  following), `StampsCorrect`, `YoungCorrect`, `ReplyCorrect`, `AngleCorrect`. The stamps are
  inductive with the types; that a stamp is not later than the reading is what bounds the age of the
  reading, which goes on growing after the call, by the age the code computes. The others need
  `FirstCall`: the sampled time of the first call is at
  least the boot delay, a sensor without a reading has the stamp zero, so that every sensor is due in
  the first call and has been read by the time it is looked at.
- *Smoothing* (samples of at most 16358 in magnitude: what 12 bits times the scale give):
  `SumCorrect`, `ResultCorrect`, `MeanImplemented`. Types and `SumIsWindow` are inductive together:
  the sum's bounds follow from the ring's, the ring's from the samples'. `MeanIsBetween` (a truncated
  mean of five lies between two of them) gives the result, `WindowSum` (the ring read backwards holds
  the same five samples) the refinement.
- *Fluid* (any box of at least 4 by 4, any number of particles): `WaterCorrect`, `ContainedCorrect`.
  `FluidInv` adds that from the transfer to the grid until the next frame the water cells are the
  cells of particles off the walls (`Wet`), and that they are never walls. That nothing is lost in
  the interpolation is that the four weights of a particle add up to the square of `Unit` and that
  each falls on a cell of the grid; the sum over cells and the sum over particles are exchanged by
  an argument on the first place where they would differ. `ContainedCorrect` rests on
  `ContainedInv`, which counts the pairs a particle has been in (`Pushes`) against the half cells it
  may be off the box; that a pair moves it by no more than half a cell is the arithmetic of the
  rounded root (`OffsetIsSmall`), that a particle is carried is that one of its faces with a weight
  touches its own cell or a wall (`CarriedOne`).
- *Pictures* (any readings, any angles the arc functions may give): `PictureCorrect`. The work is in
  counting: bubbles at the edge of the matrix are shown with all their pixels, and each of the eight
  arrows has more pixels on the side it points to.
- *Light* (any exposures, any failing transfers): `LuxCorrect`. `BytesAreTaken` says which bytes of a
  reading without a failure have been read and that the chip still holds the exposure they are of;
  `Bounded` that both filters stay between the least and the largest light computed so far, which
  needs that a weighted mean in truncating arithmetic lies between its terms.
- *Packet* (any words, any one byte changed): `PacketCorrect`. Each field is taken apart and put
  together again, with the signs of two's complement and little-endian halves, and the checksum of a
  packet with one byte changed differs. The temperature's high byte is read as unsigned: the theorem
  says that what comes out differs from the signed value exactly below zero, and by how much.

**CoreProofs**, the library's core; the composition is `CoreTypes`.

- *Harts* (any number): `StartUpCorrect`, and `BarrierImplemented`, that the MSIP handshake refines
  `HartBarrier`. `HartInv` says where the boot hart is when memory is good (`MemoryFollowsBoot`), and,
  for each place in the two loops of `synchronize_harts`, which harts spin with their bit set
  (`MeetingInOrder`).
- *Delays and time* (any word width): `CountersReadCorrectly`, `ComparatorIsQuiet`, `DelaysLast`.
  `ReadSoFar`: what has been read belongs to one value the counter had between call and now, that is,
  the low word read and the high word before it fit one such value. `ComparatorIsParked`: while main
  has the comparator's high word at its largest, neither main nor the handler can see an interrupt
  that neither the old nor the new value is due for.
- *Performance counters*: `HpmCorrect`, with the same idea for a counter that may be cleared
  (`ClearedSoFar`).
- *Memory protection*: `LockedRegionsAreKept`. `AddressFirst`: while the configuration is written
  the address is there already, or the region above has locked it, which is the case the theorem
  names. `NoRemainders`: no register has bits below the grain but for the moment in which
  `metal_pmp_init` looks for them; without it an address read back would not be the one it was
  locked with.
- *CLIC* (any width of a control byte, any `nmbits`): `LevelsCorrect`. `LevelIsHeld` speaks of the
  bits of the level's field, not of the byte: what else is stored there is written by others;
  `FlagIsHeld` of the vector bit, which belongs to whoever wrote it last.

**TrapDispatchProofs** (any number of pins, any programs). `DispatchSound`: `Configured` (an enabled
cause has its entry, a mode its initialised tables), `InTrap` (what is claimed where) and
`Registrations` (a pin counts as registered while both of its stores are in the table) are what keep
a trap in the middle of a configuration from a null entry or another pin's handler. `EdgesAreKept`
needs, beside them, that a pin that is owed its handler has its interrupt enabled and is the owner of
its line (`OwedInv`).

**DevicesProofs**; the composition is `DevicesTypes`, `LinksCorrect` and `ChangesCorrect`.

- *PLL* (any table, rates and calls; stable after at most the ticks waited for): `LockedCorrect`,
  `UnselectedCorrect`, `RatesCorrect`. `WaitIsEnough` is the heart of the first two: the PLL has been
  left alone for at least as long as the driver has waited. The rate needs that the search from the
  fast end returns a row to which none is closer (`BestFrom`, by the first row at which it would
  not) and that nothing on the way from the choice to the registers changes it (`ChoiceIsMade`).
- *Clock callbacks* (any devices, any legal program): `ListsStayChains`, `DivisorsFollow`,
  `RateChangesWhenDrained`. The last is arithmetic: the divisor is that of the rate which is left,
  so that the wait outlasts the byte wherever its product fits 32 bits (`LinesAreDrained`). That a
  list is a chain is reachability along pointers. It is proved with a witness: there is a sequence
  without repetitions of exactly the members, with the head first and each pointing to the next
  (`IsList`); a registration appends to it, and a walk is a place in it, everybody before which has
  been called (`Passed`).
- *Clock tree* (everything that the two have as parameters): `TreeImplementsParts`, by which each
  theorem of either part holds of the tree; `DivisorsFollowRegisters` and `PllIsDrained`, which
  neither part can state. `TreeInv` says that the driver of the PLL is at work exactly while a change
  is, and that the rate the clients would read is the one the registers make; it is kept while the
  dividers change because the core is off the PLL then (`LockedInv`), and the lines are empty for as
  long as the driver works because they are when the change begins and none of the clients runs
  (`ClockInv`), but for a byte that was cut.
- *Pins*: `PinsAreUndisturbed`. The invariant says of each kind of user what the registers have for
  it as long as nobody else ever wanted its pins.
- *SPI* (any configurations, any depth above the number of timeouts): `TransfersCorrect`. The two FIFOs together hold the last
  bytes that were sent, consecutive, one for each timeout and the one waited for
  (`QueuesAreConsecutive`): from this follow the place of each answer and how far the driver runs
  ahead of the wire (`ShapeFollows`).
- *PWM* (any width): `OutputCorrect`. `PeriodIsTracked` and `DutiesAreTracked` relate the registers,
  also those an update is about to write, to what was accepted; `FlagsAreTracked` says that no word
  on its way to the register takes back a flag. After more than one `set_freq` the register has at
  least the bits of the last prescaler (`SlowedDown`), a number with more bits is no smaller
  (`BitsOrder`), and a greater prescaler makes no faster an output.
- *Watchdog* (any width): `WatchdogBitesWhenDue`. The count since the last feed is in the
  register, and the comparator is one of those that the timeouts accepted allow
  (`RegistersAreInForce`); the scale is one that was accepted, but between the two writes of
  `set_rate` (`ScaleIsInForce`).
- *Real-time clock* (any word width): `ClockCorrect`. Between its two reads a call has a high word
  that is not ahead.
- *UART interrupts* (any of the three watermark bits, any depth): `RequestsCorrect`, `RoomCorrect`,
  `InterruptsCorrect`. The value main has read differs from the register only in bits the handler has
  asked for since (`SeenIsCurrent`): these are what main's write undoes, and exactly the loss the
  property admits. That a full FIFO is announced needs that the levels together stay below the depth
  (`RoomAboveWatermark`).

**PowersOfTwoProofs** holds what the shifts need: the values of `Pow2`, and the arithmetic of
quotients. The prover has no induction rule that takes an operator. These facts, and those on `SumOf`
and on the search of the PLL's table, are proved without one: a function defined by recursion is
shown to exist and to be unique, which lets its definition be unfolded, and a fact about all numbers
is proved from the least number that would be a counterexample (`LeastNumber`, from the order of the
naturals being well-founded).

**Only model-checked.**

- All liveness (`LoopIsLive`, `LinkIsLive`, `CallsReturn`, `ClockCallsReturn`, `HartsStart`,
  `EdgesAreHandled`) and whatever speaks of ENABLED: the prover has no rules for them.
- Where a crowd of more than three particles can end: `LittlePushed` bounds it for any number,
  `OnTheGrid` is about three.

## 7. Where the code and its comments disagree

Six runs are meant to fail. Each checks what a comment or header says.

1. `clock_change_after_i2c`: "Prior to and after the rate change of the clock, this will call the
   registered ... callbacks" (`metal/clock.h:125`). The I2C driver registers its embedded nodes
   again on each `set_baud_rate`, also from its own post callback: the list is closed into a ring
   and the next walk does not end. This firmware changes the clock only before `metal_i2c_init` and
   is not affected (`devices`).
2. `uart_torn_request`: "Read data from UART and process commands" (`example-i2c.c:60`). `buffer`
   and `idx` are locals, so the half of a request that was read when the FIFO ran dry is forgotten.
3. `uart_backlog`: "break to return to main loop" (`uart.c:54`). The FIFO fills while the packet
   goes out; a host with two requests outstanding gets its stale packet during the next one and its
   next request keeps `read_data` from returning. `LinkIsLive` shows that one outstanding request
   cannot.
4. `i2c_transfer`: "0 if the transfer succeeds" (`metal/i2c.h:87`). When a transmitted byte is
   refused, the receiving part runs all the same and its result overwrites the error.
5. `vectored_external`: "Metal External interrupt vector handler, that can be overriden by user"
   (`metal/interrupt.h:408`). Slot 11 of the vector table goes to the handler of unused slots, which
   shuts down.
6. `spi_answers`: "0 if the transfer succeeds" (`metal/spi.h:72`). A transfer that times out leaves
   its byte in the FIFOs, and nothing empties them: the next one stores the late answer as that of
   its own first byte, leaves its last answer behind, and returns 0.

Met on the way, with no run that fails: the model follows the code, and where a property would be
false without it, the case is part of its statement.

- *I2C*: a write or read of length 0 that is to end with a STOP returns 0 with the bus held
  (`OkEndsAsAsked` excludes it; nobody calls it so).
- *Loop*: `clear()` in `handle_state` shifts out its 48 black pixels with interrupts enabled
  (`PicturesAreMasked`); a press of A at the same samples as one of B is dropped even when it is held
  (`PressIsAnswered`).
- *PLL*: the reference itself is taken only within a quarter of it; 22 MHz from 16 MHz gives 32 MHz.
- *UART*: a watermark is added to the one there is, bit by bit, where `metal/uart.h:176` and `:196`
  say it is set, and a change of the clock leaves the transmit watermark at 1 (`WatermarksAddUp`); a
  bit a handler asks for while main updates the register is undone (`RequestsAreKept`); the wait for
  the line before a change of the clock is computed in 32 bits, which overflow above 214 MHz
  (`sifive_uart0.c:176`, `LinesAreDrained`); `txready` is nonzero when the FIFO is full.
- *Interrupts*: `set_priority` refuses `max_priority` itself; a PLIC line with a priority but no
  handler is claimed for ever; `affinity_get_threshold` always returns 0; initialising the CLINT
  before the CPU's controller has its entries wiped; the vector bit of the CLIC is the lowest
  priority bit, so that `set_priority` turns vectoring on or off, and with `nmbits` above 0 the level
  that `get_level` returns is not the number `set_level` was given (`LevelsAreKept`); a pin of low
  priority may wait for ever behind one that keeps rising (`EdgesAreHandled`).
- *Timers*: the watchdog's `set_rate` clears the scale first, and between its two writes the
  watchdog may bite earlier than either rate allows (`ScalesAtWork`); the real-time clock's
  `set_compare` shifts by one more at each turn and its `get_count` reads the words without a second
  look; the PWM is not triggered again after a change of the clock, and its prescaler is only added
  to, so that the output may be slower than `get_freq` reports, though never faster
  (`OutputIsAsReported`); a flag raised during an update of its register is lost.
- *SPI*: a divider of -1 is masked to the slowest rate.
- *Pins*: `metal_gpio_enable_pinmux` (`metal/gpio.h:215`) passes `enable_io` its two arguments
  swapped in meaning: function 0 selects function 1 and enables nothing, `EnablePinmux`; its comment
  calls `pin` a mask, the code shifts by it.
- *Regions and counters*: `set_region` returns 0 also when the region above has locked the address,
  which is then not written (`LockedAsAsked`); a region number equal to the number of regions passes
  the check; clearing the performance counters clears `mcycle`, on which delays count.
- *Firmware*: `temperature.c:17` describes a conversion the code does not do; the point counts in
  `compass.h` are not those of the arrows; `sensors.h:8` says 150 MHz beside the 160000000 it
  defines; the timebase stays at 16 MHz when the core runs at 160 MHz, so that the I2C driver's
  one-second timeout takes a tenth of one; a heading may come out above 360 degrees; a temperature
  below zero is read as unsigned (`temperature.c:15`, `OnlyColdTurnsRound`).

## 8. What is not modelled

- *Floating point*: the calibration matrix, the tilt compensation, the fluid's pressure, colours and
  the arc functions. What the properties need of them (where they came from, their sign, whether they
  may be zero) is in the models.
- *WS2812 timing*: straight lines of nops; nothing to interleave once interrupts are masked, which
  `PicturesAreMasked` covers.
- *Bytes on the I2C bus*: only their number, direction and framing matter to the driver.
- *PLIC affinity*, which needs a second hart that takes external interrupts; the bus error unit,
  caches, GPIO buttons and switches, trace, test finisher, HTIF, privilege modes and local interrupts
  of other cores: vendored, absent from this board's tables and called by nothing here.
- *Console and C library* (`tty.c`, `gloss`): no state but the UART's.
- *NULL checks of device handles, out-of-range prescalers*: cannot occur on this board.
- *`bsp/install/include`*: the headers of freedom-metal and `bsp/metal.h` (as `machine.h`) again,
  copied by the build; they are modelled where they come from.
- *Linker scripts, prebuilt objects, HTML*: generated.
