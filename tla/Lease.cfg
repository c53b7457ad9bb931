SPECIFICATION Spec
CONSTANTS
  r = r
  a = a
  b = b
  Resource = {r}
  Holder = {a, b}
  Ttl = {1, 2}
  MaxTime = 3
  Batches <- MCBatches
  MaxVersion = 4
INVARIANTS
  OneLease
  FencedWritesOrdered
  EndedNeverAccepted
PROPERTIES
  ValidLeaseStays
CHECK_DEADLOCK FALSE
