SPECIFICATION Spec

CONSTANTS
    admin = admin
    operator = operator
    r1 = r1
    r2 = r2
    s1 = s1
    s2 = s2
    new = new
    Admin = admin
    Others = {operator}
    Nobody = nobody
    Passwords = {new}
    SessionIds = {s1, s2}
    Slots = {r1, r2}
    FirstFiles <- MCFirstFiles
    StoreModes = {"memory", "redis"}
    Idle = 1
    Absolute = 2
    MinTtl = 2
    MaxTime = 3
    MaxRequests = 3
    MaxCrashes = 1

SYMMETRY MCSymmetry

INVARIANTS
    AcceptedPasswordsHold
    BootstrapKnown
    LoggedOutStaysOut
    LiveSessionStays

CHECK_DEADLOCK FALSE
