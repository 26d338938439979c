CONSTANTS
  c1 = c1  c2 = c2  n1 = n1  n2 = n2
  Configs = {c1, c2}
  Configured = {c1}
  Url <- TwoUrls
  Remote <- TwoNodes
  Nodes = {n1}
  MaxExponent = 1
  EqualInstants = FALSE
  Slots = {1, 2, 3, 4}
  MaxIncidents = 4
SPECIFICATION ManagerFairSpec
INVARIANT ManagerTypeOK
INVARIANT NoPeerForgotten
INVARIANT EarliestFirst
PROPERTY WaitingIsDialled
CHECK_DEADLOCK FALSE
