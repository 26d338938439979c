CONSTANTS
  Nodes = {1, 2, 3, 4}
  Root = 1
  MaxCost = 4
  LinkCosts = {1, 2}
  Views <- AllViews
SPECIFICATION FairSpec
INVARIANT HopBeforeExpansion
INVARIANT CostsAreShortest
INVARIANT TreeIsDeterministic
PROPERTY Terminates
CHECK_DEADLOCK FALSE
