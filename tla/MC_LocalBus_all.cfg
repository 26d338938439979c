CONSTANTS
  c1 = c1  c2 = c2  c3 = c3  e1 = e1  e2 = e2
  Channels = {c1, c2, c3}
  Remotes = {}
  Endpoints = {e1}
  Requests <- MixedRequests
  Costs = {2}
  Senders = {s1}
  MaxSends = 1
  BrokerCap = 2
  MailboxCap = 2
  StatusEndpoint = e1
  MayShutdown = TRUE
SPECIFICATION Spec
SYMMETRY Symmetry
INVARIANT TypeOK
INVARIANT ExclusiveRegistration
INVARIANT ReachableOnceRegistered
INVARIANT AnycastPrefersCheapest
CHECK_DEADLOCK FALSE
