SPECIFICATION FairSpec
CONSTANTS
  Operations = {"write", "read", "transfer"}
  Lengths = {0, 1, 2}
INVARIANTS
  BusIsSound
  OkIsTrue
PROPERTY CallsReturn
