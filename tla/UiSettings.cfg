SPECIFICATION Spec

CONSTANTS
    first = first
    second = second
    wrong = wrong
    i1 = i1
    i2 = i2
    typed = typed
    p1 = p1
    p2 = p2
    None = none
    Pages = {p1, p2}
    Plains = {first, second, wrong}
    Refused = {wrong}
    Ids = {i1}
    Texts = {typed}
    Defaults <- MCDefaults
    Environments <- MCEnvironments
    MaxEdits = 2
    MaxSaves = 2
    MaxCrashes = 1

SYMMETRY MCSymmetry

INVARIANTS
    SavesSurvive
    MemoryFollowsFile

CHECK_DEADLOCK FALSE
