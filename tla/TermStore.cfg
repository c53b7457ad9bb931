SPECIFICATION Spec
CONSTANTS
  Prop = {p1, p2}
  MaxSequence = 3
  MaxOperations = 5
  MaxBatch = 2
CHECK_DEADLOCK FALSE
INVARIANTS
  LivenessIsDerived
  WithdrawsNewestLive
PROPERTIES
  LoadRestoresFold
  ImplementsHistory
