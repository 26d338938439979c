CONSTANTS
  c1 = c1  c2 = c2  n1 = n1  n2 = n2
  Configs = {c1}
  Configured = {c1}
  Url <- OneUrl
  Remote <- OneNode
  Nodes = {n1}
  MaxExponent = 1
  EqualInstants = FALSE
  Slots = {1, 2}
  MaxIncidents = 2
SPECIFICATION ManagerFairSpec
PROPERTY LostPeersAreRetried
CHECK_DEADLOCK FALSE
