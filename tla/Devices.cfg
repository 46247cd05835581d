SPECIFICATION DevicesFairSpec
CONSTANTS
  pll_configs <- MCConfigs
  CrystalRate = 16000000
  RingRate = 14400000
  InitRate = 16000000
  Rates = {16000000, 160000000, 500000, 22000000, 1000000000}
  StableTicks = 4
  Scripts <- MCScripts
  uart0 = uart0
  uart1 = uart1
  i2c0 = i2c0
  BaudRate = 115200
  NULL = NULL
  Clients = {uart0, uart1, i2c0}
  Reregister = {i2c0}
  ClockRates <- Int
  ClockScripts <- CheckedScripts
  Devices = {"i2c_10016000", "pwm_10035000"}
  Lamps = {"led_1"}
  Hands = {11}
  Configs <- MCSpiConfigs
  SpiRates = {9, 16}
  Bauds = {1, 2, 8, 20}
  DivMask = 3
  TxDepth = 3
  RxDepth = 3
  MaxTransfers = 3
  MaxTimeouts = 2
  PwmRates = {40, 24}
  Freqs = {2, 5}
  Duties = {50, 101}
  NCmp = 2
  MaxCount = 3
  ScaleBits = 2
  ClockRate = 8
  WdogRates = {3, 9}
  Timeouts = {1, 5}
  CmpMask = 2
  ScaleMask = 3
  MaxWdog = 6
  Word = 3
  HiWords = 2
  Compares = {2, 5, 11, 40}
  RtcScaleMask = 3
  CountBits = {16, 17}
  Levels <- MCLevels
  Depth = 4
INVARIANTS
  DevicesTypeOK
  SelectedMeansLocked
  RateIsSound
  ListsAreChains
  DivisorsFollowPll
  Undisturbed
  LinksAreSound
  OutputIsSound
  ClockIsNeverAhead
PROPERTIES
  BitesAreDue
  ChangesAreSafe
  ClockCallsReturn
CHECK_DEADLOCK FALSE
