SPECIFICATION FairSpec
CONSTANTS
  w1 = w1
  w2 = w2
  rd = rd
  ck = ck
  Write <- MCWrite
  Read = {rd}
  Checkpoint = {ck}
  Header = header
  Guards = {1}
  Parts = 2
  CompactAt = 1
  MaxTries = 2
  MaxCrashes = 2
  Spent <- MCSpent
INVARIANTS
  AnswersAreDurable
  LogStaysReadable
  ImagesChangeNothing
PROPERTIES
  ImplementsAtomicLog
  FatalStops
CHECK_DEADLOCK FALSE
