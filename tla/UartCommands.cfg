SPECIFICATION FairSpec
CONSTANTS
  RxDepth = 4
  BufferSize = 10
  PollsPerByte = 2
  PacketSize = 2
  Noise = {0, 7}
  Patience = {TRUE, FALSE}
INVARIANT LinkIsSound
PROPERTIES
  ServiceSpec
  LinkIsLive
