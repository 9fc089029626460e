SPECIFICATION Spec
CONSTANTS
    Session = {s1}
    Stranger = {}
    Delay = 2
    Ttl = 3
    Grace = 1
    MaxClock = 12
    MaxFaults = 0
INVARIANTS
    WhitelistLasts
