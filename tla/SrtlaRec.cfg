SPECIFICATION FairSpec
CONSTANTS
    Addrs = {a1, a2}
    Slots = {s1, s2}
    None = None
    MaxGroups = 2
    MaxConns = 2
    NakFanout = 1
    AckInterval = 2
    AckFlush = 1
    LinkPass = 1
    CleanupPeriod = 1
    ConnTimeout = 0
    GroupTimeout = 0
INVARIANTS
    RegistryExact
    

    
    
