SPECIFICATION SessionSpec
CONSTANTS
  s1 = s1
  s2 = s2
  t = t
  u = u
  x = x
  y = y
  Term <- MCTerm
  Prop <- MCValues
  Unbound = Unbound
  Policies = {FALSE}
  FoldCap = 1
  MaxHistory = 5
  MaxStaged = 3
  MaxActions = 1
INVARIANTS
  StagingAgrees
  ReceiptsHold
CHECK_DEADLOCK FALSE
