----------------------------- MODULE QuickAudit -----------------------------
(***************************************************************************)
(* The quick audit of the monitoring UI (server.mjs): it reads cards from  *)
(* CMDBuild, works out by rules of its own what their hosts should be, and *)
(* compares that with Zabbix.  The rules are those of Conversion, read     *)
(* here by the BFF.                                                        *)
(*                                                                         *)
(*   the catalog  [classes : set of [name, parent], lookups : function     *)
(*                from a lookup value to its code]                         *)
(*   a binding    [class, card, profile, hostId, deleted]                  *)
(*   a request    [class, descendants, onlyRules, max, offset]             *)
(*   Zabbix       a set of [hostid, name, groups, templates, interfaces]   *)
(*   an item      [class, card, profile, main, suppressed, checks]         *)
(*                                                                         *)
(* Maintenances, the host's status and visible name and the texts of the   *)
(* report are left out.                                                    *)
(***************************************************************************)
EXTENDS Conversion

LOCAL INSTANCE SequencesExt

CONSTANTS MainHostId,   \* the attribute zabbix_main_hostid of a card
          BindingClass, \* the class of the bindings
          RootClass     \* Class, the root of CMDBuild's classes

(***************************************************************************)
(* Which classes are audited                                               *)
(***************************************************************************)
\* The conditions of the whole document.
ConditionsOf(rules) ==
    {r.when : r \in ToSet(rules.suppressions \o rules.groups \o rules.templates
                          \o rules.interfaceProfileRules \o rules.interfaceRules \o rules.addressRules)}
    \cup UNION {{p.when} \cup {r.when : r \in ToSet(p.interfaces)} : p \in ToSet(rules.hostProfiles)}

\* Classes named by a pattern; those named by equals are not collected.
ClassNameConditions(rules) ==
    UNION {l.value.literals : l \in {k \in UNION {Leaves(e) : e \in ConditionsOf(rules)} :
                                        k.op \in {"regex", "notregex"} /\ k.field = ClassName}}

ParticipatingClasses(rules, catalog) ==
    rules.entityClasses \cup (rules.roots \cap {c.name : c \in catalog.classes})
    \cup ClassNameConditions(rules)

RECURSIVE Descendants(_, _)
Descendants(catalog, found) ==
    LET next == {c.name : c \in {d \in catalog.classes : d.parent \in found}} \ found
    IN  IF next = {} THEN found ELSE Descendants(catalog, found \cup next)

AuditScope(catalog, rules, request) ==
    LET participating == ParticipatingClasses(rules, catalog)
        named == IF request.class = RootClass
                 THEN IF request.onlyRules THEN participating ELSE {c.name : c \in catalog.classes}
                 ELSE IF request.descendants /\ \E c \in catalog.classes : c.name = request.class
                 THEN Descendants(catalog, {request.class})
                 ELSE {request.class}
    IN  (IF request.onlyRules THEN named \cap participating ELSE named) \ {BindingClass}

(***************************************************************************)
(* What the hosts of a card should be                                      *)
(***************************************************************************)
\* readSourceField: the other spellings of a field are the field.
ReadSourceField(source, f) == IF f \in DOMAIN source THEN source[f] ELSE Blank

\* normalizeSourcePayload: a configured field is the first of its attributes
\* that is filled in, the rest of the payload stays.
NormalizeSourcePayload(data, rules) ==
    LET value(f) == FirstFilled([i \in DOMAIN rules.fields[f] |-> Read(data, rules.fields[f][i])])
    IN  [f \in DOMAIN rules.fields |-> IF value(f) # Blank THEN value(f) ELSE Read(data, f)] @@ data

\* resolveLookupFieldsFromCatalog: a value the catalog does not have stays.
ResolveLookupFieldsFromCatalog(source, rules, catalog) ==
    [f \in DOMAIN source |->
        IF f \in rules.lookups /\ source[f] \in DOMAIN catalog.lookups
        THEN catalog.lookups[source[f]] ELSE source[f]]

\* A card is read as an update, its code being its id when it has none.
AuditCardSource(card, class, rules, catalog) ==
    LET whole == (Code :> FirstFilled(<<Read(card, Code), Read(card, Id)>>))
                 @@ (ClassName :> class) @@ (EventType :> "update") @@ card
    IN  ResolveLookupFieldsFromCatalog(NormalizeSourcePayload(whole, rules), rules, catalog)

AuditSuppressions(rules, source) ==
    SelectSeq(ByPriority(EnabledOnes(rules.suppressions)), LAMBDA r : Matches(r.when, source))

AuditHostProfiles(rules, source) ==
    SelectSeq(ByPriority(EnabledOnes(rules.hostProfiles)), LAMBDA p : Matches(p.when, source))

AuditIsMain(profile, index) ==
    IF profile.main # Unset THEN profile.main
    ELSE \/ profile.name \in {"main", "default"}
         \/ profile.hostName = "plain"
         \/ profile.hostName = Unset /\ index = 1

\* Rules are not asked whether they are bound to a profile.
AuditSelected(list, source) ==
    SelectSeq(ByPriority(list), LAMBDA r : Matches(r.when, source))

\* A dynamic rule gives one item, named by the whole text of its leaf.
AuditGroups(rules, source) ==
    UNION {IF r.leaf = Unset THEN ToSet(r.items)
           ELSE IF r.template THEN {GroupNamed(v) : v \in {ReadSourceField(source, r.leaf)} \ {Blank}}
           ELSE {} : r \in ToSet(AuditSelected(rules.groups, source))}

AuditTemplates(rules, source) ==
    UNION {ToSet(r.items) : r \in ToSet(AuditSelected(rules.templates, source))}

\* A rule whose field is empty gives none; a disabled rule is not left out.
AuditProfileInterface(rules, rule, source) ==
    LET address == AddressIn(source, rule.valueField, rule.mode)
        settings == ResolveInterface(rule.ref, rules)
    IN  IF address = NoAddress THEN NoAddress
        ELSE [type |-> settings.type, useip |-> address.mode # "dns", address |-> address.value]

\* selectInterface: what a profile without interface rules has.
AuditDefaultInterface(rules, source) ==
    LET profiles == AuditSelected(rules.interfaceProfileRules, source)
        others == AuditSelected(rules.interfaceRules, source)
        ref == IF profiles # <<>> /\ profiles[1].ref \in DOMAIN rules.interfaces THEN profiles[1].ref
               ELSE IF others # <<>> THEN others[1].ref ELSE Unset
        address == DefaultAddress(source, rules)
        dns == address # NoAddress /\ address.mode = "dns"
    IN  [type |-> ResolveInterface(ref, rules).type, useip |-> ~dns,
         address |-> IF address # NoAddress THEN address.value ELSE ReadSourceField(source, IpAddress)]

AuditInterfaces(rules, profile, source) ==
    IF profile.interfaces = <<>> THEN {AuditDefaultInterface(rules, source)}
    ELSE {AuditProfileInterface(rules, r, source) :
            r \in ToSet(AuditSelected(profile.interfaces, source))} \ {NoAddress}

\* The last binding of the card and the profile that is not deleted.
BindingOf(bindings, class, card, profile) ==
    LET own == SelectSeq(bindings, LAMBDA b : /\ ~b.deleted /\ b.class = class
                                              /\ b.card = card /\ b.profile = profile)
    IN  IF own = <<>> THEN Blank ELSE own[Len(own)].hostId

\* A name that comes from the profile's template is not normalised.
AuditHostName(source, profile) ==
    LET read(f) == ReadSourceField(source, f)
        rendered == <<read(ClassName), FirstFilled(<<read(Code), read(Id)>>),
                      IF profile.hostName = "profile" THEN profile.name ELSE Blank>>
    IN  IF profile.hostName = Unset THEN NormalName(rendered) ELSE rendered

Expectation(rules, card, source, profile, main, bindings) ==
    [name |-> AuditHostName(source, profile),
     hostId |-> IF main THEN Read(card, MainHostId)
                ELSE BindingOf(bindings, source[ClassName], source[Id], profile.name),
     interfaces |-> AuditInterfaces(rules, profile, source),
     groups |-> AuditGroups(rules, source),
     templates |-> AuditTemplates(rules, source)]

(***************************************************************************)
(* The comparison                                                          *)
(***************************************************************************)
InterfaceExists(host, expected) ==
    /\ expected.address # Blank
    /\ \E i \in host.interfaces :
          i.type = expected.type /\ (IF i.useip THEN i.ip ELSE i.dns) = expected.address

\* By the id of the binding, else by name: none or one.
FoundHosts(expected, zabbix) ==
    LET bound == {h \in zabbix : expected.hostId # Blank /\ h.hostid = expected.hostId}
    IN  IF bound # {} THEN bound ELSE {h \in zabbix : h.name = expected.name}

Checks(expected, suppressed, zabbix) ==
    LET found == FoundHosts(expected, zabbix)
        host == CHOOSE h \in found : TRUE
        missing(s) == {x \in s : ~InterfaceExists(host, x)}
    IN  IF suppressed THEN IF found = {} THEN {} ELSE {"suppressed_host_exists"}
        ELSE IF found = {} THEN {"zabbix_host_missing"}
        ELSE (IF expected.hostId = Blank THEN {"binding_missing"} ELSE {})
             \cup (IF host.name # expected.name THEN {"host_name_mismatch"} ELSE {})
             \cup (IF expected.interfaces = {} THEN {"expected_interface_empty"} ELSE {})
             \cup (IF missing(expected.interfaces) # {} THEN {"interface_missing"} ELSE {})
             \cup (IF expected.groups \subseteq host.groups THEN {} ELSE {"host_group_missing"})
             \cup (IF expected.templates \subseteq host.templates THEN {} ELSE {"template_missing"})

Errors == {"suppressed_host_exists", "zabbix_host_missing", "interface_missing",
           "host_group_missing", "template_missing", "cmdbuild_cards_read_failed"}

(***************************************************************************)
(* The audit                                                               *)
(***************************************************************************)
Item(class, card, profile, main, suppressed, checks) ==
    [class |-> class, card |-> card, profile |-> profile, main |-> main,
     suppressed |-> suppressed, checks |-> checks]

ItemsForCard(rules, catalog, class, card, bindings, zabbix) ==
    LET source == AuditCardSource(card, class, rules, catalog)
        suppressed == AuditSuppressions(rules, source) # <<>>
        profiles == AuditHostProfiles(rules, source)
        item(i) ==
            LET profile == profiles[i]
                main == AuditIsMain(profile, i)
                own == (HostProfile :> profile.name) @@ (OutputProfile :> profile.name) @@ source
                expected == Expectation(rules, card, own, profile, main, bindings)
            IN  Item(class, source[Id], profile.name, main, suppressed, Checks(expected, suppressed, zabbix))
    IN  IF profiles = <<>>
        THEN {Item(class, source[Id], Blank, FALSE, suppressed,
                   IF suppressed THEN {} ELSE {"no_host_profile_matched"})}
        ELSE {item(i) : i \in DOMAIN profiles}

\* cards: the cards of each class in CMDBuild, Unset where they cannot be read.
RunQuickAudit(rules, catalog, request, cards, bindings, zabbix) ==
    UNION {IF cards[class] = Unset
           THEN {Item(class, Blank, Blank, FALSE, FALSE, {"cmdbuild_cards_read_failed"})}
           ELSE UNION {ItemsForCard(rules, catalog, class, card, bindings, zabbix) :
                         card \in {cards[class][i] : i \in {j \in DOMAIN cards[class] :
                                      request.offset < j /\ j <= request.offset + request.max}}} :
           class \in AuditScope(catalog, rules, request)}

(***************************************************************************)
(* The dry run of the rules page: what a rules document, the file's or one *)
(* that is not saved yet, makes of a payload that the administrator        *)
(* pastes, read as the audit reads it but as one host: suppressions,       *)
(* profiles, conflicts between templates and the checks before publication *)
(* are not asked.  Status, proxies, tags, macros, inventory, maintenances  *)
(* and value maps of the preview, and the report of the validation, are    *)
(* left out.                                                               *)
(***************************************************************************)
\* A payload that names no event is one of creation.
DryRunSource(data, rules, catalog) ==
    ResolveLookupFieldsFromCatalog(NormalizeSourcePayload(data @@ (EventType :> "create"), rules),
                                   rules, catalog)

\* Mutant: the first rule that matches is the only one.
SelectFirstItems(list, source) ==
    LET selected == AuditSelected(list, source) IN IF selected = <<>> THEN {} ELSE ToSet(selected[1].items)

\* What the matching rules list: a rule with a leaf lists nothing.
SelectLookupItems(list, source) == UNION {ToSet(r.items) : r \in ToSet(AuditSelected(list, source))}

BuildDryRunModel(rules, source, route) ==
    LET unbound == route # <<>> /\ route[1].needsHostId /\ ReadSourceField(source, HostId) = Blank
    IN  [method |-> IF route = <<>> THEN Unset
                    ELSE IF unbound THEN route[1].fallback ELSE route[1].method,
         fallback |-> IF unbound THEN route[1].method ELSE Unset,
         groups |-> SelectLookupItems(rules.groups, source),
         templates |-> SelectLookupItems(rules.templates, source),
         interface |-> AuditDefaultInterface(rules, source)]

\* A skipped payload has no result, but a preview all the same.  The dry run
\* knows no default route.
DryRunRules(data, rules, catalog) ==
    LET source == DryRunSource(data, rules, catalog)
        route == RoutingRule(source, rules)
    IN  [skip |-> IF route = <<>> THEN "not_routed"
                  ELSE IF ~route[1].publish THEN "disabled" ELSE "",
         source |-> source,
         preview |-> BuildDryRunModel(rules, source, route)]

=============================================================================
