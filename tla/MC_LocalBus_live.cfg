CONSTANTS
  c1 = c1  c2 = c2  c3 = c3  e1 = e1  e2 = e2
  Channels = {c1, c2}
  Remotes = {}
  Endpoints = {e1}
  Requests <- MixedRequests
  Costs = {}
  Senders = {s1}
  MaxSends = 2
  BrokerCap = 2
  MailboxCap = 1
  StatusEndpoint = e1
  MayShutdown = TRUE
SPECIFICATION FairSpec
PROPERTY RegistrationAnswered
CHECK_DEADLOCK FALSE
