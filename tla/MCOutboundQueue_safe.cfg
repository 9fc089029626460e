SPECIFICATION Spec
CONSTANTS
    Msg = {1}
    Rcpt <- MCRcpt
    To <- MCAllTo
    DomainOf <- MCDomainOf
    NoDomain <- MCNoDomain
    LocalSender = {1}
    Smarthost = FALSE
    MaxAddrs = 2
    Backoff <- MCBackoff
    MaxAge = 3
    Ticks = {1}
    MaxClock = 3
    EnqueueBy = 0
    MaxFaults = 1
    MaxCrashes = 1
INVARIANTS
    IndInv
    NoSilentLoss
    OneFateBarringFaults
    AttemptBeforeExpiry
