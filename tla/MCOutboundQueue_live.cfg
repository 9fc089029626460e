SPECIFICATION FairSpec
CONSTANTS
    Msg = {1}
    Rcpt <- MCRcpt
    To <- MCPairTo
    DomainOf <- MCDomainOf
    NoDomain <- MCNoDomain
    LocalSender = {}
    Smarthost = FALSE
    MaxAddrs = 1
    Backoff <- MCBackoff
    MaxAge = 2
    Ticks = {1}
    MaxClock = 2
    EnqueueBy = 0
    MaxFaults = 1
    MaxCrashes = 1
PROPERTIES
    HandoffSpec
    QueueDrains
