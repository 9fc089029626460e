SPECIFICATION MCSpec
CONSTANTS
    c1 = c1  c2 = c2  c3 = c3  c4 = c4  c5 = c5
    s1 = s1  s2 = s2  s3 = s3
    m1 = m1  m2 = m2
    near = near  far = far
    lower = lower  mixed = mixed
    Nobody = Nobody
    Conn <- MCConn
    Ip = {near, far}
    IpOf <- MCIpOf
    MaxGlobal = 3
    MaxPerIp = 2
    Session <- MCSession
    PeerOf <- MCPeerOf
    AuthMax = 2
    AuthWindow = 2
    AuthLockout = 3
    AuthLag = 1
    AuthClock = 3
    AuthTries = 4
    Spelling = {lower, mixed}
    NameOf <- MCNameOf
    OutMax = 2
    OutWindow = 2
    OutClock = 3
    GreySession <- MCPair
    GreyStranger = {s3}
    GreyDelay = 1
    GreyTtl = 1
    GreyGrace = 1
    GreyClock <- MCGreyLast
    GreyFaults = 1
    SizeSession <- MCPair
    Message <- MCMessage
    Folder = {"inbox", "junk"}
    Inbox = "inbox"
    Quota = 1
    SizeTtl = 2
    ScanLag = 1
    SizeClock = 3
    SizeChanges = 2
SYMMETRY MCSymmetry
INVARIANTS
    CountersExact
    LimitsHold
    GuessBudget
    CapWithSlack
    NoEarlyAccept
    RetryAccepted
PROPERTIES
    RefusedOnlyWhenFull
    RefusedForCause
    NothingForgotten
    LeftOutForCause
