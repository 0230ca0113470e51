----------------------------- MODULE Conversion -----------------------------
(***************************************************************************)
(* CmdbToZabbixConverter: which hosts an event of a card is converted to,  *)
(* one for every matching profile, and what each host gets.                *)
(*                                                                         *)
(*   an event   [type, card]; a card is a function from attributes to texts*)
(*   rules      [fields, lookups, checked, routes, createEvents, method,   *)
(*              suppressions, hostProfiles, interfaceProfileRules,         *)
(*              interfaceRules, addressRules, groups, templates,           *)
(*              conflicts, interfaces]                                     *)
(*     a rule      [priority, when, ...], in a sequence                    *)
(*     a profile   [name, enabled, main, hostName, hostIdField,            *)
(*                 interfaces, ref, valueField, mode, ...]                 *)
(*     a selection [items, leaf, template, ...]: the leaf of a dynamic one *)
(*   a result   [profile, main, skip, method, fallback, hostId, host]      *)
(*                                                                         *)
(* Groups and templates are their ids; tags, macros, proxies, encryption,  *)
(* inventory, the texts of the T4 templates and the main flags of          *)
(* interfaces are left out.  C#'s MatchesExpression and RequiredHost-      *)
(* ProfileName are the functions of ConditionExpression.                   *)
(***************************************************************************)
EXTENDS ConditionExpression, Integers, FiniteSets, TLC

LOCAL INSTANCE SequencesExt

CONSTANTS Id, Code, HostId, IpAddress, DnsName, \* fields a source may have
          Unset,       \* a choice the rules leave open
          CodeOf,      \* the code of a lookup value, a function from its id
          Pieces(_),   \* the values a text splits into at its separators
          GroupNamed(_), \* the host group of that name
          Malformed,   \* texts that fail the validation of their field
          NormalName(_)  \* a host name after the replacements

Read(source, f) == IF f \in DOMAIN source THEN source[f] ELSE Blank
FirstFilled(texts) ==
    LET filled == SelectSeq(texts, LAMBDA v : v # Blank)
    IN  IF filled = <<>> THEN Blank ELSE filled[1]

\* OrderBy is stable: equal priorities keep the order of the document.
ByPriority(s) ==
    LET before(i, j) == \/ s[i].priority < s[j].priority
                        \/ s[i].priority = s[j].priority /\ i < j
        order == SortSeq([i \in DOMAIN s |-> i], before)
    IN  [k \in DOMAIN s |-> s[order[k]]]

EnabledOnes(s) == SelectSeq(s, LAMBDA r : r.enabled)
Matching(s, source) == SelectSeq(s, LAMBDA r : Matches(r.when, source))

(***************************************************************************)
(* The source of an event                                                  *)
(***************************************************************************)
\* A configured field is the first of its attributes that is filled in.
ReadEvent(event, rules) ==
    [f \in DOMAIN rules.fields |->
        FirstFilled([i \in DOMAIN rules.fields[f] |-> Read(event.card, rules.fields[f][i])])]
        @@ (EventType :> event.type)

\* A lookup field is its code; a value that is not in the lookup stays.
ResolveFields(source, rules) ==
    [f \in DOMAIN source |->
        IF f \in rules.lookups /\ source[f] \in DOMAIN CodeOf THEN CodeOf[source[f]] ELSE source[f]]

(***************************************************************************)
(* Routes, suppressions, profiles                                          *)
(***************************************************************************)
\* The routes the document has for the event: in a sequence, none or one.
RoutingRule(source, rules) ==
    SelectSeq(rules.routes, LAMBDA r : r.event = source[EventType])

\* An event without one is routed all the same if it may create hosts.
DefaultRoute(source, rules) ==
    [event |-> source[EventType], publish |-> TRUE,
     method |-> IF rules.method = Unset THEN "host.create" ELSE rules.method,
     fallback |-> Unset, needsHostId |-> FALSE, address |-> TRUE, required |-> {Id, ClassName}]

ResolveRoute(source, rules) ==
    IF RoutingRule(source, rules) # <<>> THEN RoutingRule(source, rules)
    ELSE IF rules.createEvents = {} \/ source[EventType] \in rules.createEvents
    THEN <<DefaultRoute(source, rules)>>
    ELSE <<>>

ResolveSuppressionRule(source, rules) ==
    ByPriority(Matching(EnabledOnes(rules.suppressions), source))

ResolveHostProfiles(source, rules) ==
    ByPriority(Matching(EnabledOnes(rules.hostProfiles), source))

IsMainProfile(profile) ==
    IF profile.main # Unset THEN profile.main
    ELSE profile.name \in {"main", "default"} \/ profile.hostName = "plain"

AddHostProfileFields(source, name) ==
    (HostProfile :> name) @@ (OutputProfile :> name) @@ source

\* The id in the card belongs to the only host, or to the main one.
ResolveProfileZabbixHostId(source, profile, alone) ==
    IF profile.hostIdField # Unset THEN Read(source, profile.hostIdField)
    ELSE IF alone \/ IsMainProfile(profile) THEN Read(source, HostId) ELSE Blank

\* The name a template renders to, with the profile's name in it or not.
HostName(source, profile) ==
    NormalName(<<Read(source, ClassName), FirstFilled(<<Read(source, Code), Read(source, Id)>>),
                 IF profile.hostName = "profile" THEN profile.name ELSE Blank>>)

(***************************************************************************)
(* Selection rules                                                         *)
(***************************************************************************)
MatchesSelectionRule(source, rules, rule) ==
    LET name == RequiredHostProfileName(rule.when)
    IN  /\ name # Blank /\ name = source[HostProfile]
        /\ ProfilesNamed(rules, name) # {}
        /\ Matches(rule.when, source)

Selected(list, source, rules) ==
    ByPriority(SelectSeq(list, LAMBDA r : MatchesSelectionRule(source, rules, r)))

\* The host groups of a rule: those it lists, or one for each value of its leaf.
ResolveGroups(rule, source) ==
    IF rule.leaf = Unset THEN ToSet(rule.items)
    ELSE {GroupNamed(v) : v \in Pieces(Read(source, rule.leaf))}

SelectGroups(source, rules) ==
    UNION {ResolveGroups(r, source) : r \in ToSet(Selected(rules.groups, source, rules))}

\* Mutant: the first rule that matches is the only one.
SelectTemplatesOfFirst(source, rules) ==
    LET selected == Selected(rules.templates, source, rules)
    IN  IF selected = <<>> THEN {} ELSE ToSet(selected[1].items)

SelectTemplates(source, rules) ==
    UNION {ToSet(r.items) : r \in ToSet(Selected(rules.templates, source, rules))}

\* What the conflict rules take away, and have the update clear.
TemplatesInConflict(selected, rules) ==
    UNION {c.remove : c \in {d \in rules.conflicts : d.when \cap selected # {}}}

(***************************************************************************)
(* Interfaces                                                              *)
(***************************************************************************)
NoAddress == <<>>
AddressIn(source, field, mode) ==
    IF Read(source, field) = Blank THEN NoAddress
    ELSE [mode |-> IF mode # Unset THEN mode ELSE IF field = DnsName THEN "dns" ELSE "ip",
          value |-> Read(source, field)]

\* SelectInterfaceAddress(source, rules).
DefaultAddress(source, rules) ==
    LET own == FirstFilled(<<Read(source, IpAddress), Read(source, DnsName)>>)
        matched == ByPriority(Matching(rules.addressRules, source))
    IN  IF rules.addressRules = <<>>
        THEN IF own = Blank THEN NoAddress
             ELSE [mode |-> IF Read(source, IpAddress) # Blank THEN "ip" ELSE "dns", value |-> own]
        ELSE IF matched = <<>> THEN NoAddress
        ELSE AddressIn(source, matched[1].valueField, matched[1].mode)

\* SelectInterfaceAddress of a profile and of an interface rule, or of neither.
InterfaceAddress(source, rules, own, profile) ==
    IF own.valueField # Unset THEN AddressIn(source, own.valueField, own.mode)
    ELSE IF profile.valueField # Unset THEN AddressIn(source, profile.valueField, profile.mode)
    ELSE DefaultAddress(source, rules)

ResolveInterface(ref, rules) ==
    rules.interfaces[IF ref \in DOMAIN rules.interfaces THEN ref ELSE "agent"]

\* SelectInterface: the first rule for a profile of interfaces, else the first other.
DefaultRef(source, rules) ==
    LET profiles == Selected(rules.interfaceProfileRules, source, rules)
        others == Selected(rules.interfaceRules, source, rules)
    IN  IF profiles # <<>> /\ profiles[1].ref # Unset THEN profiles[1].ref
        ELSE IF others # <<>> THEN others[1].ref ELSE Unset

MapInterface(settings, address, source) ==
    LET dns == address # NoAddress /\ address.mode = "dns"
    IN  [type |-> settings.type, port |-> settings.port, useip |-> ~dns,
         ip |-> IF dns THEN "" ELSE IF address # NoAddress THEN address.value ELSE Read(source, IpAddress),
         dns |-> IF dns THEN address.value ELSE ""]

SelectProfileInterfaceRules(source, profile) ==
    ByPriority(Matching(EnabledOnes(profile.interfaces), source))

\* Equal interfaces are one; those of a type stand together.
GroupedByType(interfaces) ==
    LET first(i) == CHOOSE k \in DOMAIN interfaces :
                        /\ interfaces[k].type = interfaces[i].type
                        /\ \A j \in 1 .. k - 1 : interfaces[j].type # interfaces[i].type
        before(i, j) == first(i) < first(j) \/ (first(i) = first(j) /\ i < j)
        order == SortSeq([i \in DOMAIN interfaces |-> i], before)
    IN  [k \in DOMAIN interfaces |-> interfaces[order[k]]]

WithoutRepeats(s) ==
    LET kept == SelectSeq([i \in DOMAIN s |-> i], LAMBDA i : \A j \in 1 .. i - 1 : s[j] # s[i])
    IN  [k \in DOMAIN kept |-> s[kept[k]]]

HasAddress(interface) == interface.ip # "" \/ interface.dns # ""

\* What one interface rule makes, or, without one, the profile itself.
NoRule == [ref |-> Unset, valueField |-> Unset, mode |-> Unset]

RuleInterface(source, rules, profile, own) ==
    LET ref == IF own.ref # Unset THEN own.ref
               ELSE IF profile.ref # Unset THEN profile.ref ELSE DefaultRef(source, rules)
    IN  MapInterface(ResolveInterface(ref, rules), InterfaceAddress(source, rules, own, profile), source)

SelectInterfaces(source, rules, profile) ==
    LET own == SelectProfileInterfaceRules(source, profile)
        used == IF own = <<>> THEN <<NoRule>> ELSE own
        all == [i \in DOMAIN used |-> RuleInterface(source, rules, profile, used[i])]
    IN  GroupedByType(WithoutRepeats(SelectSeq(all, HasAddress)))

(***************************************************************************)
(* The conversion                                                          *)
(***************************************************************************)
ModelWith(source, rules, profile, selected, conflicting) ==
    [name |-> HostName(source, profile),
     groups |-> SelectGroups(source, rules),
     templates |-> selected \ conflicting,
     clear |-> conflicting,
     interfaces |-> SelectInterfaces(source, rules, profile)]

BuildModel(source, rules, profile) ==
    LET selected == SelectTemplates(source, rules)
    IN  ModelWith(source, rules, profile, selected, TemplatesInConflict(selected, rules))

ProfileInterfaceValueFields(source, profile) ==
    LET own == SelectProfileInterfaceRules(source, profile)
        field(r) == IF r.valueField # Unset THEN r.valueField ELSE profile.valueField
    IN  (IF own # <<>> THEN {field(r) : r \in ToSet(own)} ELSE {profile.valueField}) \ {Unset}

Validate(source, rules, route, interfaces, profile) ==
    LET invalid(f) == f \in rules.checked /\ Read(source, f) \in Malformed
    IN  IF \E f \in route.required : Read(source, f) = Blank THEN "missing_field"
        ELSE IF \E f \in route.required \cup ProfileInterfaceValueFields(source, profile) : invalid(f)
        THEN "invalid_field"
        ELSE IF \E i \in ToSet(interfaces) : i.useip /\ i.ip \in Malformed THEN "invalid_interface_ip"
        ELSE IF route.address /\ interfaces = <<>> THEN "missing_interface_address"
        ELSE ""

\* Mutant: a deletion needs a template too.
WithoutTemplateAlways(source, model) == model.templates = {}

WithoutTemplate(source, model) == source[EventType] # "delete" /\ model.templates = {}

\* What becomes of the host of a profile, its id and its model being known.
ProfileResult(source, rules, route, profile, hostId, model) ==
    LET unbound == route.needsHostId /\ hostId = Blank
    IN  [profile |-> profile.name, main |-> IsMainProfile(profile),
         skip |-> IF unbound /\ route.fallback = Unset THEN "missing_zabbix_hostid"
                  ELSE IF WithoutTemplate(source, model) THEN "no_template_rule_matched"
                  ELSE Validate(source, rules, route, model.interfaces, profile),
         method |-> IF unbound THEN route.fallback ELSE route.method,
         fallback |-> IF unbound THEN route.method ELSE Unset,
         hostId |-> hostId, host |-> model]

ConvertProfile(source, rules, route, profile, alone, bound) ==
    LET own == ResolveProfileZabbixHostId(source, profile, alone)
    IN  ProfileResult(source, rules, route, profile,
                      IF route.needsHostId /\ own = Blank THEN bound[profile.name] ELSE own,
                      BuildModel(source, rules, profile))

\* bound: the host id the resolver finds for each profile of the card.
Convert(event, rules, bound) ==
    LET source == ResolveFields(ReadEvent(event, rules), rules)
        route == ResolveRoute(source, rules)
        profiles == ResolveHostProfiles(source, rules)
    IN  IF \/ route = <<>>
           \/ route # <<>> /\ ~route[1].publish
           \/ ResolveSuppressionRule(source, rules) # <<>>
        THEN <<>>
        ELSE [i \in DOMAIN profiles |->
                ConvertProfile(AddHostProfileFields(source, profiles[i].name), rules, route[1],
                               profiles[i], Len(profiles) = 1, bound)]

Published(results) == SelectSeq(results, LAMBDA r : r.skip = "")

=============================================================================
