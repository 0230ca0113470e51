---------------------------- MODULE MCRulesEditor ----------------------------
(***************************************************************************)
(* Two pages over a rules file with a profile and a rule, and rules files  *)
(* written by hand whose rules test everything.                            *)
(***************************************************************************)
EXTENDS MCWebhookRules

CONSTANTS p1, p2
VARIABLES active, page, edits, saves, reads

MCFieldRule == [k \in {Fields[i].key : i \in DOMAIN Fields} |->
    Fields[CHOOSE i \in DOMAIN Fields : Fields[i].key = k]]

Profile(name, class, field) ==
    [name |-> name, main |-> TRUE, valueField |-> field, when |-> IsClass(class)]
ScopedRule(name, profile, object, field) ==
    [name |-> name, when |-> W!ProfileBound(profile, object), valueField |-> field, reads |-> {field} \ {Blank}]
Document(fields, rules) ==
    [version |-> 0, classes |-> {"Server", "VPN"}, fields |-> fields, selectionRules |-> rules,
     hostProfiles |-> <<Profile("server-main", "Server", "ipAddress"), Profile("vpn-main", "VPN", "vpnIp")>>]

Base == Document(<<"entityId", "ipAddress", "vpnIp", "room">>,
                 <<ScopedRule("r1", "server-main", Exists("ipAddress"), Blank)>>)

Small == [Base EXCEPT !.hostProfiles = <<Profile("server-main", "Server", "ipAddress")>>, !.fields = <<"entityId", "ipAddress">>,
                      !.selectionRules = <<>>]

\* Files written by hand.
Tests == {W!Always, Exists("ipAddress"), Exists("room"), W!Leaf(EventType, "equals", W!Text("delete")),
          W!Leaf("os", "equals", W!Text("linux")), W!Leaf("os", "notregex", W!Pattern({"linux"}, {"linux"}))}
Conditions == Tests \cup {W!NotOf(t) : t \in Tests}
    \cup {W!AllOf(<<s, t>>) : s \in Tests, t \in Tests} \cup {W!AnyOf(<<s, t>>) : s \in Tests, t \in Tests}
AllFields == [i \in DOMAIN Fields |-> Fields[i].key]
Reversed == [i \in DOMAIN Fields |-> AllFields[Len(Fields) + 1 - i]]
OfClasses == {IsClass("VPN"), W!NotOf(IsClass("VPN")), W!Leaf(ClassName, "notequals", W!Text("Server")),
              W!Leaf(ClassName, "regex", W!Pattern({"Server", "VPN"}, {"Ser"}))}
ProfileConditions == OfClasses \cup {W!AllOf(<<c, t>>) : c \in OfClasses, t \in Conditions}
    \cup {W!AnyOf(<<t, c>>) : c \in OfClasses, t \in Tests}
ByHand == {Document(fields, <<ScopedRule("r1", "server-main", when, field)>>) :
               fields \in {AllFields, Reversed}, when \in Conditions, field \in {Blank, "ipAddress", "room"}}
    \cup {[Document(AllFields, <<>>) EXCEPT !.hostProfiles[1] = [Profile("odd", "Server", "room") EXCEPT !.when = when]] :
               when \in ProfileConditions}

Forms == {[profile |-> p, when |-> w, kind |-> k[1], field |-> k[2]] :
    p \in {"server-main", "vpn-main", "extra"},
    w \in {W!Always, W!AnyOf(<<Exists("room"), Exists("os")>>), IsClass("VPN")},
    k \in {<<"static", Blank>>, <<"dynamic", "room">>, <<"template", "vpnIp">>}}
NewProfiles == {[name |-> n[1], main |-> n[2], class |-> c[1], field |-> c[2]] :
    n \in {<<"server-main", TRUE>>, <<"extra", FALSE>>, <<"extra", TRUE>>},
    c \in {<<"Server", "ipAddress">>, <<"VPN", "vpnIp">>}}

\* Edits in a row; one edit of a page while both save and read; analyses only.
Start(doc, first, second, savings, readings) ==
    [active |-> doc, edits |-> (p1 :> first @@ p2 :> second), saves |-> savings, reads |-> readings]
MCStarts == {Start(Base, 2, 0, 0, 0), Start(Small, 3, 0, 0, 0), Start(Small, 1, 0, 2, 1)}
    \cup {Start(d, 0, 0, 0, 1) : d \in ByHand}

E == INSTANCE RulesEditor WITH
    None <- Blank, fold <- FoldOf, token <- TokenOf, canonical <- CanonicalOf,
    rankOf <- RankOfName, rankOfCode <- RankOfCode,
    Id <- "Id", Code <- "Code", entityId <- "entityId", code <- "code",
    Domains <- {"{domain:Site}"}, FixedKeys <- MCFixedKeys, CardPrefix <- "card", DefaultUrl <- MCReceiver,
    Outside <- OutsideCode,
    FieldRule <- MCFieldRule, ClassOrder <- <<"Server", "VPN">>,
    Pages <- {p1, p2}, Starts <- MCStarts,
    RuleForms <- Forms, ProfileForms <- NewProfiles, RuleNames <- <<"r1", "r2", "r3", "r4">>

Spec == E!Spec

\* The draft stays one the BFF accepts, whatever the forms do to it.
DraftStaysAccepted == E!DraftStaysAccepted
\* Creating, saving or removing a profile leaves the rules of the others alone.
OthersKeepTheirRules == E!OthersKeepTheirRules
\* A publication replaces the file that its draft was made from.
ReplacesItsSource == E!ReplacesItsSource
\* The webhooks planned for the active rules send what these read.
UsesAreServed == E!UsesAreServed
\* The file of webhook bodies tells what the draft's rules need, and the classes
\* warned about are those without a host.
SavingTellsRight == E!SavingTellsRight
=============================================================================
