SPECIFICATION ServerSpec
CONSTANTS
  Conn = {c1, c2, c3}
  MaxActive = 2
  QuietPolls = 2
  IoTimeouts = {TRUE}
  Nobody = Nobody
  Worker = {w1, w2}
  Hosts = {"server", "embedded"}
  Budgets = {0, 3}
  GenerationBytes = 8
  MinGenerations = 1
  DefaultGenerations = 2
  MaxOwners = 5
  Thread = {t1, t2}
  Regimes = {"posix", "host"}
  MaxSessions = 2
  MaxEntries = 2
  Opener = {p1, p2}
  Settings <- MCSettings
  MaxStarts = 4
  MaxRecords = 2
  HeaderDigits = 2
  Radix = 2
  MaxBody = 2
  AnswerLength = 3
  SendRoom = 2
INVARIANTS
  ClientsAreAccounted
  MemoryIsOwned
  CallsAreClean
  OpeningIsExclusive
PROPERTIES
  RequestsAreServed
CHECK_DEADLOCK FALSE
