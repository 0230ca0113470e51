------------------------ MODULE MCCmdbuildWebhooks ------------------------
(***************************************************************************)
(* Two versions of the rules, webhooks of every owner and two browsers.    *)
(***************************************************************************)
EXTENDS CmdbuildWebhooks, MCWebhookRules

VpnProfile == Rule("vpn-main", IsClass("VPN"), {}, {Rule("vpn-ip", Exists("vpnIp"), {"vpnIp"}, {})})
AnyAddress == Rule("prefer-ip", Exists("ipAddress"), {"ipAddress"}, {})
NotVpn == Rule("os-group",
    W!AllOf(<<W!NotOf(IsClass("VPN")), W!Leaf("os", "regex", W!Pattern({"linux"}, {"linux"}))>>), {}, {})
Somewhere == Rule("room-tag",
    W!AnyOf(<<W!Leaf(ClassName, "regex", W!Pattern({"Server", "VPN"}, {"Ser"})), W!Leaf(EventType, "equals", W!Text("delete"))>>),
    {"room", "site"}, {})

MCRules ==
    <<[classes |-> <<"Server", "CI", "VPN">>, events |-> <<"update">>, fields |-> Fields,
       always |-> {"code"}, nodes |-> {VpnProfile, AnyAddress, NotVpn, Somewhere}],
      [classes |-> <<"VPN">>, events |-> <<"update">>, fields |-> Fields,
       always |-> {}, nodes |-> {VpnProfile, Somewhere}]>>

MCVersions == DOMAIN MCRules
Asked(v) == W!WantedWebhooks(W!BuildRequirements(MCRules[v], Catalog), MCRules[v].events)
MCWanted == <<Asked(1), Asked(2)>>
MCWantedOf(v) == MCWanted[v]

Body(prefix, keys) == [k \in keys |-> Placeholder(prefix, k)]
Hook(code, owner, url, class, body, auth) ==
    [code |-> code, owner |-> owner, url |-> url, target |-> class, event |-> "update",
     body |-> body, auth |-> auth, active |-> TRUE]

\* One of before the identifier, one of before the long codes.
MCFirstHooks ==
    {<<Hook(<<"Server", "update">>, "legacy", DefaultUrl, "Server", Body("VPN", {"id", "ip_address"}), "old"),
       Hook(<<"short", "VPN">>, "ours", DefaultUrl, "VPN", Body("card", {"id"}), "old")>>}
MCStrangers == {Hook(<<"VPN", "update">>, "topic", DefaultUrl, "VPN", <<>>, "own")}
\* The Authorization and the url are cleared.
MCEdits(hook) == IF hook.code = <<"Server", "update">> THEN {[hook EXCEPT !.auth = Blank, !.url = Blank]} ELSE {}

MCSymmetry == Permutations(Browsers)
=============================================================================
