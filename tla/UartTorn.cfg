SPECIFICATION FairSpec
CONSTANTS
  RxDepth = 4
  BufferSize = 10
  PollsPerByte = 2
  PacketSize = 2
  Noise = {}
  Patience = {TRUE}
PROPERTY RequestIsProcessed
