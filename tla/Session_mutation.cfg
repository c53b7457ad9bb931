SPECIFICATION SessionSpec
CONSTANTS
  s1 = s1
  s2 = s2
  t = t
  u = u
  x = x
  y = y
  Term <- MCTerm
  Prop <- MCProp
  Unbound = Unbound
  Policies = {TRUE, FALSE}
  FoldCap = 1
  MaxHistory = 3
  MaxStaged = 1
  MaxActions = 2
INVARIANTS
  ReadsAgree
  DecisionsHold
CHECK_DEADLOCK FALSE
