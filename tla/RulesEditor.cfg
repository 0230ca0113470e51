SPECIFICATION Spec

CONSTANTS
    p1 = p1
    p2 = p2
    OutsideCode = outside
    ClassName = className
    HostProfile = hostProfile
    OutputProfile = outputProfile
    EventType = eventType
    NoField = noField
    Blank = blank

CHECK_DEADLOCK FALSE

INVARIANTS
    DraftStaysAccepted

PROPERTIES
    OthersKeepTheirRules
    ReplacesItsSource
    UsesAreServed
    SavingTellsRight
