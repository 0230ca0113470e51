SPECIFICATION Spec

CONSTANTS
    c1 = c1
    c2 = c2
    c3 = c3
    q1 = q1
    q2 = q2
    t1 = t1
    t2 = t2
    admins = admins
    editors = editors
    Callers = {c1, c2, c3}
    MaxRetryAttempts = 2
    Threshold = 2
    BreakTime = 2
    OutageEnd = 5
    Groups = {admins, editors}
    RoleMapping <- MCRoleMapping
    Memberships <- MCMemberships
    States = {t1, t2}
    Configs <- MCConfigs
    SavedConfigs <- MCSavedConfigs
    LoginSlots = {q1, q2}
    StateModes = {"memory", "redis"}
    StateTtl = 1
    MetadataTtl = 1
    LastTime = 2
    MaxLogins = 2
    MaxMoves = 1

SYMMETRY Symmetry

INVARIANTS
    OneBreakAfterOutage
    RolesFollowGroups
    JudgedByTheCurrent

CHECK_DEADLOCK FALSE
