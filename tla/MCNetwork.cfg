SPECIFICATION MCSpec
CONSTANTS
    ann = ann  bob = bob  eve = eve
    Nobody = Nobody
    Address <- MCAddress
    Local <- MCLocal
    Ours <- MCLocal
    User <- MCLocal
    MaxRcpts = 2
    MaxCharged = 2
    MaxReloads = 1
    sub = sub  org = org  other = other
    Domain <- MCDomain
    Org <- MCOrg
    Zones <- MCZones
    Bits = 3
    Client = 5
    MaxLookups = 4
    MaxDepth = 3
    Policies <- MCPolicies
    Signatures <- MCSignatures
    Settings <- MCSettings
    Word = {"a", "b", "x"}
    Forged = "x"
    FieldName = {"from", "to", "subject", "received"}
    Signed <- MCSigned
    Messages <- MCMessages
    Keys = {"own", "other", "none", "revoked", "malformed"}
    MaxChanges = 2
    Servers = 2
    Responses <- MCResponses
    Records = 2
    Pointer = 100
    MaxLabel = 2
    MaxHops = 2
    Loop = loop
    Shot = {shot}
    Domains = 1
    Life = 3
    Ahead = 2
    MaxAge = 1
    CertClock = 4
    MaxOrders = 2
    MaxStops = 1
    Tolerance = 1
    Forwarded = {web, smtp}
    Web = web
    Lease = 6
    Grants = {1, 5, 6}
    Sleep = 2
    Round = 1
    MaxRestarts = 1
INVARIANTS
    NoRelay
    NothingAcrossStartTls
    EveryRecipientCharged
    SpfMeant
    RefusalJustified
    VerifiedIffAuthentic
    NamesEnd
    ChallengeAnswered
    RenewedInTime
    MappingSurvives
PROPERTIES
    AckComplete
