SPECIFICATION FairSpec
CONSTANT Pixels = {p1, p2}
INVARIANT LoopIsSound
PROPERTIES
  RingSpec
  LoopIsLive
