-------------------------- MODULE MCClockCallbacks --------------------------
(***************************************************************************)
(* The scripts ClockCallbacks is checked with: what this firmware does     *)
(* from reset to its main loop, and every short legal script.              *)
(***************************************************************************)
EXTENDS ClockCallbacks, SequencesExt

CONSTANTS uart0, uart1, i2c0

ClockCall(op, arg) == [op |-> op, arg |-> arg]

SetRateCall == ClockCall("rate", NULL)

\* The constructors run in link order: the PLL is set to its initial rate
\* twice (metal_sifive_fe310_g000_pll_init, use_hfxosc), the console UART is
\* initialised before, between or after.
BootConstructors ==
  LET tty == ClockCall("init", uart0)
  IN  {<<tty, SetRateCall, SetRateCall>>, <<SetRateCall, tty, SetRateCall>>,
       <<SetRateCall, SetRateCall, tty>>}

\* init() of example-i2c.c.
FirmwareInit ==
  << SetRateCall, ClockCall("init", i2c0), ClockCall("init", uart1) >>

BootScripts == {s \o FirmwareInit : s \in BootConstructors}

\* The same drivers under a program that changes the clock once more.
LaterChangeScripts == {s \o << SetRateCall >> : s \in BootScripts}

\* A device is initialised at most once and not used before.
Legal(s) ==
  /\ \A i, j \in DOMAIN s : s[i] = s[j] /\ s[i].op = "init" => i = j
  /\ \A i \in DOMAIN s : s[i].op = "baud" =>
       \E j \in 1..(i - 1) : s[j] = ClockCall("init", s[i].arg)

\* Longest script enumerated.
MaxCalls == 5

\* Every legal script for the UARTs, which register once and are alike, between
\* and after the constructors' two changes of the rate.
UartCalls == {c \in ClockCalls : c.arg \in {uart0, uart1, NULL}}

UartScripts ==
  {s \in UNION {[1..n -> UartCalls] : n \in 2..MaxCalls} :
     /\ Legal(s)
     /\ \A i \in DOMAIN s : s[i].arg = uart1 => \E j \in 1..i : s[j].arg = uart0
     /\ Cardinality({i \in DOMAIN s : s[i] = SetRateCall}) \in 2..4}

CheckedScripts == BootScripts \cup UartScripts
=============================================================================
