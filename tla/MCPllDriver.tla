---------------------------- MODULE MCPllDriver ----------------------------
(***************************************************************************)
(* The table and the calls PllDriver is checked with: the constructors in  *)
(* both orders, the firmware's 160 MHz, other rates after it, and a change *)
(* from the fastest the table has.                                         *)
(***************************************************************************)
EXTENDS PllDriver

Row(multiplier, divisor, min, max, r, f, q, d) ==
  [multiplier |-> multiplier, divisor |-> divisor, min_input_rate |-> min,
   max_input_rate |-> max, r |-> r, f |-> f, q |-> q, d |-> d]

MCConfigs == <<
  Row(1, 32, 12000000, 24000000, 1, 31, 3, 63),
  Row(1, 32, 24000000, 48000000, 3, 31, 2, 63),
  Row(1, 16, 6000000, 12000000, 0, 31, 3, 63),
  Row(1, 16, 12000000, 24000000, 1, 31, 2, 63),
  Row(1, 16, 24000000, 48000000, 3, 31, 2, 31),
  Row(1, 8, 6000000, 12000000, 0, 31, 3, 31),
  Row(1, 8, 12000000, 24000000, 1, 31, 2, 31),
  Row(1, 8, 24000000, 48000000, 3, 31, 2, 15),
  Row(1, 4, 6000000, 12000000, 0, 31, 3, 15),
  Row(1, 4, 12000000, 24000000, 1, 31, 2, 15),
  Row(1, 4, 24000000, 48000000, 3, 31, 2, 7),
  Row(1, 2, 6000000, 12000000, 0, 31, 2, 15),
  Row(1, 2, 12000000, 24000000, 1, 31, 1, 15),
  Row(1, 2, 24000000, 48000000, 3, 31, 1, 7),
  Row(2, 1, 6000000, 12000000, 0, 31, 1, 7),
  Row(2, 1, 12000000, 24000000, 1, 31, 1, 3),
  Row(2, 1, 24000000, 48000000, 3, 31, 3, -1),
  Row(4, 1, 6000000, 12000000, 0, 31, 3, 0),
  Row(4, 1, 12000000, 24000000, 1, 31, 3, -1),
  Row(4, 1, 24000000, 48000000, 3, 31, 2, -1),
  Row(6, 1, 6000000, 10666666, 0, 35, 1, 2),
  Row(6, 1, 10666666, 12000000, 0, 23, 3, -1),
  Row(6, 1, 12000000, 16000000, 1, 47, 3, -1),
  Row(6, 1, 16000000, 18000000, 1, 23, 2, -1),
  Row(6, 1, 18000000, 21333333, 2, 35, 2, -1),
  Row(8, 1, 6000000, 12000000, 0, 31, 3, -1),
  Row(8, 1, 12000000, 24000000, 1, 31, 2, -1),
  Row(8, 1, 24000000, 48000000, 3, 31, 1, -1),
  Row(10, 1, 6000000, 9600000, 0, 39, 3, -1),
  Row(10, 1, 9600000, 12000000, 0, 19, 2, -1),
  Row(10, 1, 12000000, 19200000, 1, 39, 2, -1),
  Row(10, 1, 19200000, 24000000, 1, 19, 1, -1),
  Row(10, 1, 24000000, 38400000, 3, 39, 1, -1),
  Row(12, 1, 6000000, 8000000, 0, 47, 3, -1),
  Row(12, 1, 8000000, 12000000, 0, 23, 2, -1),
  Row(12, 1, 12000000, 16000000, 1, 47, 2, -1),
  Row(12, 1, 16000000, 24000000, 1, 23, 1, -1),
  Row(12, 1, 24000000, 30000000, 3, 47, 1, -1),
  Row(12, 1, 30000000, 32000000, 3, 47, 1, -1),
  Row(14, 1, 6000000, 6857142, 0, 55, 3, -1),
  Row(14, 1, 6857143, 12000000, 0, 27, 2, -1),
  Row(14, 1, 12000000, 13714285, 1, 55, 2, -1),
  Row(14, 1, 13714286, 24000000, 1, 27, 1, -1),
  Row(14, 1, 24000000, 27428571, 3, 55, 1, -1),
  Row(16, 1, 6000000, 12000000, 0, 31, 2, -1),
  Row(16, 1, 12000000, 24000000, 1, 31, 1, -1),
  Row(18, 1, 6000000, 10666666, 0, 35, 2, -1),
  Row(18, 1, 10666667, 12000000, 0, 17, 1, -1),
  Row(18, 1, 12000000, 21333333, 1, 35, 1, -1),
  Row(20, 1, 6000000, 9600000, 0, 39, 2, -1),
  Row(20, 1, 9600000, 12000000, 0, 19, 1, -1),
  Row(20, 1, 12000000, 19200000, 1, 39, 1, -1),
  Row(22, 1, 6000000, 8727272, 0, 43, 2, -1),
  Row(22, 1, 8727273, 12000000, 0, 21, 1, -1),
  Row(22, 1, 12000000, 17454545, 1, 43, 1, -1),
  Row(24, 1, 6000000, 8000000, 0, 47, 2, -1),
  Row(24, 1, 8000000, 12000000, 0, 23, 1, -1),
  Row(24, 1, 12000000, 16000000, 1, 47, 1, -1),
  Row(26, 1, 6000000, 7384615, 0, 51, 2, -1),
  Row(26, 1, 7384616, 12000000, 0, 25, 1, -1),
  Row(26, 1, 12000000, 14768230, 1, 51, 1, -1),
  Row(28, 1, 6000000, 6857142, 0, 55, 2, -1),
  Row(28, 1, 6857143, 12000000, 0, 27, 1, -1),
  Row(28, 1, 12000000, 13714285, 1, 55, 1, -1),
  Row(30, 1, 6000000, 6400000, 0, 59, 2, -1),
  Row(30, 1, 6400000, 12000000, 0, 29, 1, -1),
  Row(30, 1, 12000000, 12800000, 1, 59, 1, -1),
  Row(32, 1, 6000000, 12000000, 0, 31, 1, -1) >>

ASSUME RowsAssumption == RowsAreExact /\ PllIsInitialised

CallOf(op, rate) == [op |-> op, rate |-> rate]

\* metal_sifive_fe310_g000_pll_init and use_hfxosc, in link order.
Constructors ==
  LET init == CallOf("init", InitRate)
      use == CallOf("rate", InitRate)
  IN  {<<init, use>>, <<use, init>>}

\* init() of example-i2c.c sets the clock once; one more change may follow.
FirmwareRate == 160000000

\* Asked for more than any row gives, the PLL makes its fastest, 384 MHz.
FastestRate == 1000000000

MCScripts ==
  LET firmware(c) == Append(c, CallOf("rate", FirmwareRate))
  IN  Constructors \cup {firmware(c) : c \in Constructors}
      \cup {Append(firmware(c), CallOf("rate", r)) : c \in Constructors, r \in Rates}
      \cup {firmware(Append(c, CallOf("rate", FastestRate))) : c \in Constructors}
=============================================================================
