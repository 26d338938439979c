SPECIFICATION FairSpec
CONSTANTS
    c1 = c1  c2 = c2  d1 = d1  d2 = d2
    Clients = {c1, c2}
    Depots = {d1, d2}
    Uses <- Chain
    Patient = {c1}
    Once = {c2}
    Misfits <- Second
    Mailed = {d2}
    MaxCalls = 2
    MailboxCap = 2
INVARIANT TypeOK
PROPERTIES CallsEnd ImplementsRequestReply
CHECK_DEADLOCK FALSE
