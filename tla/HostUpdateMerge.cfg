SPECIFICATION MergeSpec
CONSTANTS
    g1 = g1
    g2 = g2
    t1 = t1
    t2 = t2
    m1 = m1
    m2 = m2
    v1 = v1
    v2 = v2
    GroupIds = {g1, g2}
    TemplateIds = {t1, t2}
    Macros = {m1, m2}
    Values = {v1, v2}
    MaxSteps = 3
    ClassName = "className"
    HostProfile = "hostProfile"
    OutputProfile = "outputProfile"
    EventType = "eventType"
    NoField = ""
    Blank = ""
    Id = "id"
    Code = "code"
    HostId = "zabbixHostId"
    IpAddress = "ipAddress"
    DnsName = "dnsName"
    MainHostId = "zabbix_main_hostid"
    BindingClass = "ZabbixHostBinding"
    RootClass = "Class"
    Unset = Unset
    Malformed = {"bad"}
    CodeOf <- MCCodeOf
    Pieces <- MCPieces
    GroupNamed <- MCGroupNamed
    NormalName <- MCNormalName
    HostTags <- MCTags
    Addresses <- MCAddresses
    Payloads <- MCPayloads
    Cases <- MCCases
INVARIANTS
    ExternalKept
    SecondUpdateIsNoop
    ReadersAgree
    DeletionReachesHost
CHECK_DEADLOCK FALSE
