SPECIFICATION FairSpec
CONSTANTS
    Inputs <- MCInputs
    n1 = n1
    n2 = n2
    aggregate = aggregate
    Names = {n1, n2}
    ProtectedNames = {n2}
    Tags = {aggregate}
    Protective = aggregate
    Length = 2
    MaxAttempts = 2
    HttpAttempts = 2
    MaxMishaps = 2
INVARIANTS
    SuccessIsReal
    LastAnswerHolds
    ProtectedUntouched
PROPERTIES
    EveryRequestEnds
CHECK_DEADLOCK FALSE
