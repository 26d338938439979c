CONSTANTS
  c1 = c1  c2 = c2  e1 = e1
  Nodes = {1, 2, 3}
  Remotes = {1, 2, 3}
  MaxCost = 100
  Endpoints = {e1}
  Channels = {c1, c2}
  Scenarios <- AllScenarios
SPECIFICATION Spec
INVARIANT TypeOK
INVARIANT RealmConfinement
INVARIANT RouterLsasAgree
INVARIANT RoutesBacked
INVARIANT Converged
CHECK_DEADLOCK FALSE
