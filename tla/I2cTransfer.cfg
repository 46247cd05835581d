SPECIFICATION Spec
CONSTANTS
  Operations = {"transfer"}
  Lengths = {1, 2}
INVARIANT TransferOkMeansDone
