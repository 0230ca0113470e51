SPECIFICATION Spec

CONSTANTS
    b1 = b1
    b2 = b2
    Browsers = {b1, b2}
    Versions <- MCVersions
    FirstHooks <- MCFirstHooks
    FirstVersions = {1}
    Wanted <- MCWantedOf
    Edits <- MCEdits
    Strangers <- MCStrangers
    Auths = {"new"}
    Configured = "new"
    Outside = outside
    OutsideCode = outside
    ClassName = className
    HostProfile = hostProfile
    OutputProfile = outputProfile
    EventType = eventType
    NoField = noField
    Blank = blank
    None = blank
    fold <- FoldOf
    token <- TokenOf
    FixedKeys <- MCFixedKeys
    CardPrefix = "card"
    DefaultUrl <- MCReceiver
    rankOf <- RankOfName
    rankOfCode <- RankOfCode
    MaxHooks = 4
    MaxReads = 2
    MaxRequests = 2
    MaxEdits = 1
    MaxOutside = 1
    MaxHistory = 2

SYMMETRY MCSymmetry

CHECK_DEADLOCK FALSE

INVARIANTS
    PlanSettles

PROPERTIES
    RequestsKeepToOwn
    AuthorizationKept
