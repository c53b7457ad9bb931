SPECIFICATION FairSpec
CONSTANTS
  Conn = {c1, c2}
  MaxActive = 2
  QuietPolls = 2
  IoTimeouts = {TRUE, FALSE}
  Nobody = Nobody
PROPERTIES
  StopEnds
  SlotsAreFreed
  QuietIsCompacted
CHECK_DEADLOCK FALSE
