SPECIFICATION Spec
CONSTANTS
    Msg = {1}
    Rcpt <- MCRcpt
    To <- MCPairTo
    DomainOf <- MCDomainOf
    NoDomain <- MCNoDomain
    LocalSender = {1}
    Smarthost = FALSE
    MaxAddrs = 1
    Backoff <- MCBackoff
    MaxAge = 3
    Ticks = {1}
    MaxClock = 3
    EnqueueBy = 0
    MaxFaults = 0
    MaxCrashes = 0
INVARIANTS
    OnlyWholeMessages
