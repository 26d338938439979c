CONSTANTS
  Conns = {1, 2, 3}
  MaxDials = 2
  MaxFaults = 2
SPECIFICATION Spec
INVARIANT TypeOK
INVARIANT EntriesAreServed
INVARIANT OpenIsListed
INVARIANT PendingEnds
INVARIANT QuietAgreement
CHECK_DEADLOCK FALSE
