SPECIFICATION FileSpec
CONSTANTS
    Writes = {w1, w2, w3}
    Reads = {r1, r2}
    w1 = w1
    w2 = w2
    w3 = w3
    r1 = r1
    r2 = r2
    Absent = Absent
    Torn = Torn
    Chunks = 2
SYMMETRY CallSymmetry
PROPERTIES
    ImplementsCell
CHECK_DEADLOCK FALSE
