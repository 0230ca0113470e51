SPECIFICATION AdminSpec
CONSTANTS
    p1 = p1
    p2 = p2
    NotThere = notThere
    HalfWritten = halfWritten
    Blank = blank
    Syncs = {p1, p2}
    ZabbixIds = {"g1", "g9", "q1", "t1", "t2", "t3", "t9", "new"}
    ZabbixNames = {"Linux", "Old", "Templates", "os", "agent", "icmp", "gone", "t1", "t2", "t3"}
    ItemKeys = {"cpu", "ping"}
    FreshId = "new"
    MaxOperations = 2
    Starts <- MCStarts
    Pages = {p1, p2}
    Parent <- MCParent
    Participating = {"A", "B", "Gone"}
    Binding = "Bindings"
    Main = "main"
    BindingAttrs = {"owner", "host"}
    None = None
    Broken = Broken
    Attempts = 2
    Budgets <- MCBudgets
    BulkClass = "B"
    LookupValues <- MCLookupValues
    BatchSize = 1
    Repeats = 2
    FirstCards <- MCFirstCards
    Newcomers = {"c4"}
INVARIANTS
    SyncedIsNew
    ReadyIsComplete
    TurnedOnce
    NobodyMissed
    ChecksCanBeTrusted
CHECK_DEADLOCK FALSE
SYMMETRY Symmetry
