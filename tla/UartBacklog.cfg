SPECIFICATION LuckySpec
CONSTANTS
  RxDepth = 4
  BufferSize = 10
  PollsPerByte = 2
  PacketSize = 2
  Noise = {}
  Patience = {FALSE}
PROPERTY PollAlwaysReturns
