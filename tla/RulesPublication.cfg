SPECIFICATION FairSpec
CONSTANTS
    Plans <- MCPlans
    d0 = d0
    d1 = d1
    odd = odd
    bad = bad
    r1 = r1
    r2 = r2
    worker = worker
    None = None
    Docs = {d0, d1, odd, bad}
    First = d0
    Json = {d0, d1, odd}
    BffValid = {d0, d1, odd}
    ConverterValid = {d0, d1}
    Requests = {r1, r2}
    Callers = {worker}
    Forced = {}
    CoarseClock = TRUE
    MaxEdits = 1
    MaxCalls = 1
    MaxFaults = 1
INVARIANTS
    LoadsAreCurrent
    AppliedIsLoaded
PROPERTIES
    PublishesOverRead
    EveryOperationEnds
CHECK_DEADLOCK FALSE
