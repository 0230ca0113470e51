--------------------------- MODULE MCWebhookRules ---------------------------
(***************************************************************************)
(* A small CMDBuild and what rules may read of it: two classes under a     *)
(* superclass, plain attributes, a reference and a domain, names that are  *)
(* equal but for case or punctuation.                                      *)
(***************************************************************************)
EXTENDS Naturals, Sequences, TLC

CONSTANTS ClassName, HostProfile, OutputProfile, EventType, NoField, Blank, OutsideCode

\* Names, by spelling; the second column is the spelling without case, the
\* third normalizeToken.
Spellings ==
    {<<"id", "id", "id">>, <<"Id", "id", "id">>, <<"entityId", "entityid", "entityid">>,
     <<"code", "code", "code">>, <<"Code", "code", "code">>,
     <<"os", "os", "os">>, <<"OS", "os", "os">>,
     <<"ip_address", "ip_address", "ipaddress">>, <<"ipAddress", "ipaddress", "ipaddress">>,
     <<"ipaddress", "ipaddress", "ipaddress">>, <<"PrimaryIp", "primaryip", "primaryip">>,
     <<"vpnIp", "vpnip", "vpnip">>, <<"ipAddr", "ipaddr", "ipaddr">>,
     <<"room", "room", "room">>, <<"Location", "location", "location">>,
     <<"site", "site", "site">>, <<"{domain:Site}", "{domain:site}", "domainsite">>,
     <<"Server", "server", "server">>, <<"VPN", "vpn", "vpn">>, <<"CI", "ci", "ci">>,
     <<"source", "source", "source">>, <<"className", "classname", "classname">>}
MCNames == {s[1] : s \in Spellings}
MCfold == [n \in MCNames |-> (CHOOSE s \in Spellings : s[1] = n)[2]]
    @@ [n \in {ClassName, HostProfile, OutputProfile, EventType} |-> n]
MCtoken == [n \in MCNames |-> (CHOOSE s \in Spellings : s[1] = n)[3]]
    @@ [n \in {ClassName, HostProfile, OutputProfile, EventType} |-> n]
MCcanonical == [n \in MCNames |-> CASE MCtoken[n] \in {"id", "entityid"} -> "entityId"
                                    [] MCtoken[n] = "code" -> "code"
                                    [] MCtoken[n] = "os" -> "os"
                                    [] MCtoken[n] = "ipaddress" -> "ipAddress"
                                    [] MCtoken[n] = "classname" -> ClassName
                                    [] OTHER -> n]
    @@ [n \in {ClassName, HostProfile, OutputProfile, EventType} |-> n]
MCrank == [n \in {"Server", "VPN", "CI"} |-> CASE n = "Server" -> 2 [] n = "VPN" -> 3 [] OTHER -> 1]
    @@ [n \in {"update"} |-> 1]
MCrankOfCode == <<"CI", "update">> :> 1 @@ <<"Server", "update">> :> 2 @@ <<"VPN", "update">> :> 3
    @@ <<"short", "VPN">> :> 4
FoldOf(n) == MCfold[n]
TokenOf(n) == MCtoken[n]
CanonicalOf(n) == MCcanonical[n]
RankOfName(n) == MCrank[n]
RankOfCode(c) == MCrankOfCode[c]
MCFixedKeys == {"source", "className"}
MCReceiver == "receiver"

W == INSTANCE WebhookPayload WITH
    None <- Blank, fold <- FoldOf, token <- TokenOf, canonical <- CanonicalOf,
    rankOf <- RankOfName, rankOfCode <- RankOfCode,
    Id <- "Id", Code <- "Code", entityId <- "entityId", code <- "code",
    Domains <- {"{domain:Site}"}, FixedKeys <- MCFixedKeys, CardPrefix <- "card", DefaultUrl <- MCReceiver,
    Outside <- OutsideCode

Field(key, sources, attrs, path, required) ==
    [key |-> key, sources |-> sources, attrs |-> attrs, path |-> path, required |-> required]
Rule(name, when, fields, nodes) ==
    [name |-> name, when |-> when, fields |-> fields, nodes |-> nodes]

Attribute(n) == [name |-> n, alias |-> Blank]
Catalog ==
    [classes |-> [Server |-> FALSE, VPN |-> FALSE, CI |-> TRUE],
     attributes |-> [Server |-> <<Attribute("Id"), Attribute("Code"), Attribute("OS"), Attribute("PrimaryIp"),
                                  Attribute("Location")>>,
                     VPN |-> <<Attribute("Id"), Attribute("Code"),
                               [name |-> "ipaddress", alias |-> "ip_address"]>>]]

Fields ==
    <<Field("entityId", <<"id">>, <<>>, <<>>, TRUE),
      Field("code", <<"code">>, <<"Code">>, <<>>, FALSE),
      Field("ipAddress", <<"ip_address", "PrimaryIp">>, <<"PrimaryIp">>, <<>>, FALSE),
      Field("os", <<"OS">>, <<"OS">>, <<>>, FALSE),
      Field("vpnIp", <<"ipaddress">>, <<"ipaddress">>, <<"VPN", "ipaddress", "ipAddr">>, FALSE),
      Field("room", <<"Location">>, <<>>, <<"Server", "Location", "room">>, FALSE),
      Field("site", <<"site">>, <<>>, <<"VPN", "{domain:Site}", "site">>, FALSE)>>

IsClass(c) == W!Leaf(ClassName, "equals", W!Text(c))
Exists(f) == W!Leaf(f, "exists", W!Broken)

=============================================================================
