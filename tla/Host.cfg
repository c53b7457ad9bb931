SPECIFICATION FairSpec
CONSTANTS
  Program = {g1, g2}
  Path = {p1, p2}
  Size <- MCSize
  FirstRoom = 1
  Bounds = {1, 2}
  MaxCalls = 2
  MaxLosses = 1
  Owner = {o1, o2}
  LastFd = 4
  MaxOpens = 3
  Writer = {w1, w2}
  Message <- MCMessage
  PipeBuf = 3
  PipeRoom = 4
  LineBounds = {0, 1}
  MaxSends = 2
  MaxReads = 3
  MaxIo = 2
  SocketRoom = 2
  ArenaRoom = 4
  MaxWrites = 3
  MaxErrors = 1
  Outputs <- MCOutputs
  OutputRoom = 1
  MaxOutput = 2
  MaxRuns = 2
  Watched <- MCWatched
  QueueRoom = 1
  MaxChanges = 4
  MaxWaits = 2
INVARIANTS
  FilesAreWhole
  LeaseIsExclusive
  MessagesAreWhole
PROPERTIES
  HostCallsEnd
CHECK_DEADLOCK FALSE
