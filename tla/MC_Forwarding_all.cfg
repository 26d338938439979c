CONSTANTS
  Nodes = {1, 2, 3, 4}
  MaxCost = 100
  Conns = {12, 120, 13, 24, 34, 23}
  NoConn = 0
  LinkCosts = {1, 3}
  Nets <- AllNets
SPECIFICATION Spec
INVARIANT TypeOK
INVARIANT NoDuplicates
INVARIANT OneReceiver
INVARIANT NeighboursAreDirect
INVARIANT BroadcastOverAgreedPaths
INVARIANT ClosestServed
CHECK_DEADLOCK FALSE
