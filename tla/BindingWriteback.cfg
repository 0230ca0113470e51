SPECIFICATION Spec
CONSTANTS
    m = m
    p = p
    h1 = h1
    h2 = h2
    MainLinks = {m}
    OtherLinks = {p}
    Hosts = {h1, h2}
    Length = 3
    HttpAttempts = 2
    MaxFaults = 1
    MaxResends = 2
    MaxGarbled = 1
    MaxRemovals = 1
    None = None
SYMMETRY HostSymmetry
INVARIANTS
    ResolverFollowsEvents
CHECK_DEADLOCK FALSE
