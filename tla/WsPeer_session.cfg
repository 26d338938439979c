CONSTANTS
  Interval = 2
  Timeout = 5
  MaxDelay = 1
  MaxInputs = 2
SPECIFICATION FairSpec
INVARIANT TypeOK
INVARIANT LivePeerIsHeard
INVARIANT SilenceIsNoticed
PROPERTY EndsTogether
CHECK_DEADLOCK FALSE
