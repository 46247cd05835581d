SPECIFICATION CoreFairSpec
CONSTANTS
  N = 3
  BootHart = 1
  Workers = {0, 2}
  Constructors = 2
  Pins = {1, 2}
  PinLine <- MCPinLine
  NumLines = 53
  MaxPriority = 3
  Programs <- MCPrograms
  Base = 2
  TickRate = 1500
  Micros = {0}
  Millis = {2}
  Again = 1
  HpmBase = 2
  HpmHigh = 2
  Events = 1
  MaxCounter = 5
  Watched = {0, 3}
  HasAccess = TRUE
  NumRegions = 2
  AddrBits = 2
  GrainBits = 1
  Asked = {{1}}
  Perms = {{}, {"r"}}
  ByteBits = 4
  NumIntBits = 3
  MaxLevels = 2
  NumSub = 2
  Csw = 1
  MaxCalls = 3
  Levels = {{}, {1, 3}, {0, 2, 3}}
INVARIANTS
  CoreTypeOK
  DispatchIsSound
  NoEdgeIsLost
  SharedStateIsSound
  ReadsAreCurrent
  NoSpuriousInterrupt
  DelayLasts
  CountsAreTrue
  LevelsAreKept
PROPERTIES
  RegionsAreKept
  BarrierSpec
  HartsStart
  EdgesAreHandled
CHECK_DEADLOCK FALSE
