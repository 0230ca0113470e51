------------------------- MODULE MCHostUpdateMerge --------------------------
(* A host with its primary interface, which may move, and a second one;    *)
(* and the cards of one class whose updates are converted by five rules    *)
(* documents of the editor's form, with a main and an additional profile.  *)
EXTENDS HostAudit

CONSTANTS g1, g2, t1, t2, m1, m2, v1, v2

Address(useip, ip, dns) ==
    [type |-> "agent", useip |-> useip, ip |-> ip, dns |-> dns, port |-> "10050"]

\* The primary address before and after a change, its name, and a second one.
Primary == Address(TRUE, "ip1", "name")
Moved == Address(TRUE, "ip2", "")
Named == Address(FALSE, "", "name")
Second == Address(TRUE, "ip3", "")

MCTags == {[key |-> k, spelling |-> "lower"] : k \in {"env", "owner"}}

\* Lists of interfaces whose matches in the host's never coincide.
Lists == {<<Primary>>, <<Primary, Second>>, <<Primary, Named>>, <<Moved, Second>>}

Rules(fields, tags, lists) ==
    {[fields |-> f, groups |-> {g1}, templates |-> {t1}, clear |-> c,
      tags |-> tags, macros |-> m1 :> v1, interfaces |-> a] :
     f \in fields, c \in {{}, {t2}, {t1, t2}}, a \in lists}

AllFields == {"groups", "templates", "tags", "macros", "interfaces"}

-----------------------------------------------------------------------------
(* Cards and rules. *)

MCPieces(v) == IF v = "both" THEN {"linux", "windows"} ELSE {v} \ {""}
MCGroupNamed(v) == IF v = "linux" THEN g1 ELSE g2
MCCodeOf == "k1" :> "linux" @@ "k2" :> "windows"
MCNormalName(n) == n

Server == Leaf(ClassName, "regex", Text("Server"))
Has(f) == Leaf(f, "exists", Broken)
Is(f, v) == Leaf(f, "equals", Text(v))
Deleted == Is(EventType, "delete")

Interface1(f, priority, ref) ==
    [priority |-> priority, enabled |-> TRUE, when |-> Has(f), ref |-> ref,
     valueField |-> f, mode |-> Unset]

Profile(name, when, hostName, interfaces) ==
    [name |-> name, enabled |-> TRUE, priority |-> 10, main |-> Unset, when |-> when,
     hostName |-> hostName, hostIdField |-> Unset, interfaces |-> interfaces,
     ref |-> Unset, valueField |-> Unset, mode |-> Unset]

Profiles ==
    <<Profile("server-dns", AllOf(<<Server, AnyOf(<<Has(DnsName), Deleted>>)>>), "profile",
              <<Interface1(DnsName, 10, "snmp")>>),
      Profile("server-main", Server, "plain",
              <<Interface1(DnsName, 20, "agent"), Interface1(IpAddress, 10, "agent")>>)>>

Rule(profile, priority, when, items, leaf) ==
    [priority |-> priority, when |-> ProfileBound(profile, when), items |-> items,
     leaf |-> leaf, template |-> TRUE]

Route(event, method, fallback, address) ==
    [event |-> event, publish |-> TRUE, method |-> method, fallback |-> fallback,
     needsHostId |-> event # "create", address |-> address, required |-> {Id, ClassName}]

Routes == <<Route("create", "host.create", Unset, TRUE), Route("update", "host.update", "host.get", TRUE),
            Route("delete", "host.delete", "host.get", FALSE)>>

Document(groups, templates, conflicts, suppressions) ==
    [fields |-> Id :> <<"id">> @@ Code :> <<"code">> @@ ClassName :> <<"className">>
                @@ IpAddress :> <<"ip_address", "PrimaryIp">> @@ DnsName :> <<"DnsName">>
                @@ "kind" :> <<"Kind">>,
     lookups |-> {"kind"}, checked |-> {IpAddress}, entityClasses |-> {}, roots |-> {},
     routes |-> Routes, createEvents |-> {"create"}, method |-> Unset,
     hostProfiles |-> Profiles, suppressions |-> suppressions, groups |-> groups, templates |-> templates,
     conflicts |-> conflicts, interfaceProfileRules |-> <<>>, interfaceRules |-> <<>>, addressRules |-> <<>>,
     interfaces |-> [r \in {"agent", "snmp"} |->
                       [type |-> r, port |-> IF r = "agent" THEN "10050" ELSE "161"]]]

Static == <<Rule("server-main", 100, Always, <<g1>>, Unset), Rule("server-dns", 100, Always, <<g2>>, Unset)>>
Dynamic == <<Rule("server-main", 100, Has("kind"), <<>>, "kind"), Rule("server-dns", 90, Always, <<g1>>, Unset)>>
ByKind == <<Rule("server-main", 100, Is("kind", "linux"), <<t1>>, Unset),
            Rule("server-main", 50, Leaf("kind", "notregex", Text("linux")), <<t2>>, Unset),
            Rule("server-dns", 100, Has(DnsName), <<t1>>, Unset)>>
Both == <<Rule("server-main", 100, Always, <<t1>>, Unset), Rule("server-main", 100, Is("kind", "linux"), <<t2>>, Unset),
          Rule("server-dns", 10, Always, <<t2, t1>>, Unset)>>
Conflict == {[when |-> {t2}, remove |-> {t1}]}
NoWindows == <<[priority |-> 1, enabled |-> TRUE, when |-> Is("kind", "windows")],
               [priority |-> 1, enabled |-> FALSE, when |-> Server]>>

Documents == {Document(Static, ByKind, {}, <<>>), Document(Static, Both, {}, NoWindows),
              Document(Dynamic, ByKind, Conflict, <<>>), Document(Dynamic, Both, {}, <<>>),
              [Document(Static, Both, Conflict, <<>>) EXCEPT !.routes = Tail(Routes)]}

Cards == {"id" :> "1" @@ "PrimaryIp" :> ip @@ "DnsName" :> dns @@ "Kind" :> kind @@ MainHostId :> id :
            ip \in {"", "ip1", "bad"}, dns \in {"", "name"}, kind \in {"", "k1", "k2"}, id \in {"", "h1"}}

MCCases ==
    {[rules |-> d, class |-> "Server", card |-> card,
      catalog |-> [classes |-> {[name |-> "Server", parent |-> RootClass]}, lookups |-> MCCodeOf],
      bindings |-> IF card[MainHostId] = "" THEN <<>>
                   ELSE <<[class |-> "Server", card |-> "1", profile |-> "server-dns", hostId |-> "h2",
                           deleted |-> FALSE]>>,
      hostIds |-> ("server-main" :> "h1" @@ "server-dns" :> "h2"),
      found |-> [p \in {"server-main", "server-dns"} |->
                   IF card[MainHostId] = "" \/ p = "server-main" THEN "" ELSE "h2"]] :
     d \in Documents, card \in Cards}

\* Everything, or some fields only.
Written ==
    Rules({AllFields}, {[key |-> "env", spelling |-> "lower"]}, Lists)
    \cup {p \in Rules({{"interfaces"}, {"groups", "tags"}},
                      {[key |-> "env", spelling |-> "lower"]}, Lists) :
             p.clear # {t2} /\ ("interfaces" \in p.fields => p.interfaces[1] # Primary)
             /\ ("groups" \in p.fields => p.interfaces = <<Primary>>)}

\* What the converter makes of the cards, among others: see Covered.
ByIp == [Address(TRUE, "ip1", "") EXCEPT !.port = "10050"]
BySnmp == [Named EXCEPT !.type = "snmp", !.port = "161"]

Converted ==
    {[fields |-> {"groups", "templates", "tags", "interfaces"}, groups |-> g, templates |-> t,
      clear |-> c, tags |-> {}, macros |-> <<>>, interfaces |-> a] :
     g \in {{}, {g1}, {g2}}, t \in SUBSET {t1, t2} \ {{}}, c \in {{}, {t1}},
     a \in {<<ByIp>>, <<Named>>, <<ByIp, Named>>, <<BySnmp>>}}

MCPayloads == Written \cup Converted

MCAddresses == {Primary, Moved, Named, Second, ByIp, BySnmp}

ASSUME Covered == {x.payload : x \in Conversions} \subseteq MCPayloads
=============================================================================
