---------------------------- MODULE RulesCatalogs ----------------------------
(***************************************************************************)
(* Rules and the catalog of Zabbix: the file that synchronisations write,  *)
(* the starter made from it, the checks of the BFF and of the page's       *)
(* Logical Control, and the removal of what Zabbix does not have           *)
(* (server.mjs, app.js).                                                   *)
(*                                                                         *)
(*   a catalog    [groups, tgroups, templates]: sets of [id, name] and, a  *)
(*                template, keys: of its items and discovery rules, and    *)
(*                the inventory fields it fills                            *)
(*   a document   [lookups, defaults, rules, conflicts]: the first three   *)
(*                for each kind of item, a rule being [dynamic, items];    *)
(*                conflicts is a sequence of [when, remove]                *)
(*                                                                         *)
(* Name and host of a template are one; within one part of a document an   *)
(* id has one name.  Tags, macros, proxies and the like are kept beside    *)
(* these and checked by their names; they and the CMDBuild side of the     *)
(* checks (DraftChecks) are left out, and so are classes and fields in the *)
(* removal.                                                                *)
(***************************************************************************)
EXTENDS Naturals, Sequences, FiniteSets

CONSTANTS
    Syncs,        \* requests of the BFF that synchronise the catalog
    ZabbixIds, ZabbixNames, ItemKeys,
    Blank,        \* of an item without an id or name
    NotThere, HalfWritten, \* a file that is missing or cannot be parsed
    FreshId,      \* the id of what is created anew in Zabbix
    MaxOperations, \* of one removal of missing items: 250
    Starts        \* bounds: see CatalogStart

ItemKinds == {"groups", "tgroups", "templates"}
RuleItem == [id : ZabbixIds \cup {Blank}, name : ZabbixNames \cup {Blank}]
CatalogItem == [id : ZabbixIds, name : ZabbixNames] \cup [id : ZabbixIds, name : ZabbixNames, keys : SUBSET ItemKeys]
ZabbixCatalog == [ItemKinds -> SUBSET CatalogItem]
ConflictRule == [when : SUBSET ZabbixIds, remove : SUBSET ZabbixIds]
RulesDocument == [lookups : [ItemKinds -> SUBSET RuleItem],
                  defaults : [ItemKinds -> SUBSET RuleItem],
                  rules : [ItemKinds -> SUBSET [dynamic : BOOLEAN, items : SUBSET RuleItem]],
                  conflicts : Seq(ConflictRule)]
CatalogStart == [zabbix : ZabbixCatalog, rules : RulesDocument,
               edits : Nat, syncs : Nat, crashes : Nat, makes : Nat]

ASSUME RulesCatalogsAssumption ==
    /\ Starts \subseteq CatalogStart
    /\ FreshId \in ZabbixIds /\ Blank \notin ZabbixIds \cup ZabbixNames
    /\ NotThere \notin ZabbixCatalog /\ HalfWritten \notin ZabbixCatalog
    /\ MaxOperations \in Nat

VARIABLES
    zabbix,  \* what there is in Zabbix
    gone,    \* history: ids deleted there
    cached,  \* the catalog file
    sync,    \* what each synchronisation has read
    overtaken, \* history: one was written after another had been since it began
    rules,   \* the active rules
    made,    \* a document made by the BFF, on its way to publication
    view,    \* what Logical Control has loaded
    left     \* the edits, syncs, crashes and documents still to come

catalogVars == <<zabbix, gone, cached, sync, overtaken, rules, made, view, left>>

Nothing == [kind \in ItemKinds |-> {}]
AtRest == [pc |-> "idle"]
Unloaded == [pc |-> "none"]
IdsOf(items) == {i.id : i \in items} \ {Blank}

SyncRecord == [pc : ItemKinds \cup {"truncate", "write"}, read : ZabbixCatalog, alone : BOOLEAN]
MissingItem == [kind : ItemKinds, item : RuleItem]
BothView == [pc : {"both"}, rules : RulesDocument, catalog : ZabbixCatalog]

CatalogsTypeOK ==
    /\ zabbix \in ZabbixCatalog /\ gone \subseteq ZabbixIds
    /\ cached \in ZabbixCatalog \cup {NotThere, HalfWritten}
    /\ sync \in [Syncs -> SyncRecord \cup {AtRest}]
    /\ overtaken \in BOOLEAN
    /\ rules \in RulesDocument
    /\ made \in {Unloaded} \cup [pc : {"starter"}, doc : RulesDocument]
                \cup [pc : {"fixed"}, doc : RulesDocument, of : RulesDocument, seen : BothView,
                      chosen : SUBSET MissingItem]
    /\ view \in {Unloaded} \cup BothView \cup [pc : {"rules"}, rules : RulesDocument]
                \cup [pc : {"catalog"}, catalog : ZabbixCatalog]
    /\ left \in [{"edits", "syncs", "crashes", "makes"} -> Nat]

Pay(what) == left[what] > 0 /\ left' = [left EXCEPT ![what] = @ - 1]

(***************************************************************************)
(* Zabbix                                                                  *)
(***************************************************************************)
DeleteItem(kind, item) ==
    /\ Pay("edits")
    /\ zabbix' = [zabbix EXCEPT ![kind] = @ \ {item}]
    /\ gone' = gone \cup {item.id}
    /\ UNCHANGED <<cached, sync, overtaken, rules, made, view>>

\* Deleted and imported again: the name stays.
RecreateItem(kind, item) ==
    /\ Pay("edits") /\ FreshId \notin IdsOf(zabbix[kind])
    /\ zabbix' = [zabbix EXCEPT ![kind] = (@ \ {item}) \cup {[item EXCEPT !.id = FreshId]}]
    /\ gone' = gone \cup {item.id}
    /\ UNCHANGED <<cached, sync, overtaken, rules, made, view>>

(***************************************************************************)
(* Synchronisation                                                         *)
(***************************************************************************)
BeginSync(w) ==
    /\ sync[w] = AtRest /\ Pay("syncs")
    /\ sync' = [sync EXCEPT ![w] = [pc |-> "groups", read |-> Nothing, alone |-> TRUE]]
    /\ UNCHANGED <<zabbix, gone, cached, overtaken, rules, made, view>>

Follower(kind) == CASE kind = "groups" -> "tgroups" [] kind = "tgroups" -> "templates" [] OTHER -> "truncate"

\* One call after the other.  Template groups are optional: what cannot be read
\* is empty; without the others the request fails.
FetchKind(w) ==
    /\ sync[w].pc \in ItemKinds
    /\ LET kind == sync[w].pc
       IN  sync' \in {[sync EXCEPT ![w].read[kind] = zabbix[kind], ![w].pc = Follower(kind)],
                      IF kind = "tgroups" THEN [sync EXCEPT ![w].pc = Follower(kind)]
                      ELSE [sync EXCEPT ![w] = AtRest]}
    /\ UNCHANGED <<zabbix, gone, cached, overtaken, rules, made, view, left>>

TruncateSynced(w) ==
    /\ sync[w].pc = "truncate"
    /\ cached' = HalfWritten
    /\ sync' = [sync EXCEPT ![w].pc = "write"]
    /\ UNCHANGED <<zabbix, gone, overtaken, rules, made, view, left>>

\* Two that write at once may leave a mixture.
WriteSynced(w) ==
    /\ sync[w].pc = "write"
    /\ cached' \in {sync[w].read} \cup
            (IF \E v \in Syncs \ {w} : sync[v].pc = "write" THEN {HalfWritten} ELSE {})
    /\ overtaken' = (overtaken \/ ~sync[w].alone)
    /\ sync' = [v \in Syncs |-> IF v = w \/ sync[v] = AtRest THEN AtRest ELSE [sync[v] EXCEPT !.alone = FALSE]]
    /\ UNCHANGED <<zabbix, gone, rules, made, view, left>>

BffCrash ==
    /\ Pay("crashes")
    /\ sync' = [w \in Syncs |-> AtRest]
    /\ UNCHANGED <<zabbix, gone, cached, overtaken, rules, made, view>>

Several(ids) == \E a, b \in ids : a # b

\* ItemKeys that more than one template has, as the sets of their owners.
TemplateKeys(t) == IF "keys" \in DOMAIN t THEN t.keys ELSE {}
Conflicts(catalog) ==
    {c \in {IdsOf({t \in catalog.templates : key \in TemplateKeys(t)}) : key \in ItemKeys} : Several(c)}

(***************************************************************************)
(* The BFF's check, before it publishes                                    *)
(***************************************************************************)
RuleItems(doc, kind) == UNION {r.items : r \in doc.rules[kind]}
Used(doc, kind) == doc.lookups[kind] \cup doc.defaults[kind] \cup RuleItems(doc, kind)

\* ZabbixIds are looked for by their property in the whole document: groups of hosts
\* and of templates have the same one, and are looked up among those of hosts.
LookupIds(doc, property) ==
    IF property = "templateid" THEN IdsOf(Used(doc, "templates"))
    ELSE IdsOf(Used(doc, "groups") \cup Used(doc, "tgroups"))

Unknown(ids, items) == IF items = {} THEN {} ELSE ids \ IdsOf(items)

\* Without a catalog nothing is checked.
Errors(doc) ==
    IF cached \in {NotThere, HalfWritten} THEN {}
    ELSE Unknown(LookupIds(doc, "templateid"), cached.templates)
            \cup Unknown(LookupIds(doc, "groupid"), cached.groups)

(***************************************************************************)
(* The starter                                                             *)
(***************************************************************************)
Bare(items) == {[id |-> i.id, name |-> i.name] : i \in items}

\* Mutant: template groups stay among the lookups.
StarterWithAll(catalog) ==
    [lookups |-> [kind \in ItemKinds |-> Bare(catalog[kind])],
     defaults |-> Nothing, rules |-> Nothing, conflicts |-> <<>>]

Starter(catalog) ==
    [lookups |-> [kind \in ItemKinds |-> IF kind = "tgroups" THEN {} ELSE Bare(catalog[kind])],
     defaults |-> Nothing, rules |-> Nothing, conflicts |-> <<>>]

CreateStarter ==
    /\ made = Unloaded /\ Pay("makes")
    /\ cached \notin {NotThere, HalfWritten} /\ cached.groups # {} /\ cached.templates # {}
    /\ made' = [pc |-> "starter", doc |-> Starter(cached)]
    /\ UNCHANGED <<zabbix, gone, cached, sync, overtaken, rules, view>>

(***************************************************************************)
(* Logical Control of the page                                             *)
(***************************************************************************)
\* Rules and catalog are requested at once and come in any order.
LoadRules ==
    /\ view.pc \in {"none", "catalog"}
    /\ view' = IF view.pc = "none" THEN [pc |-> "rules", rules |-> rules]
               ELSE [pc |-> "both", rules |-> rules, catalog |-> view.catalog]
    /\ UNCHANGED <<zabbix, gone, cached, sync, overtaken, rules, made, left>>

LoadCatalog ==
    /\ view.pc \in {"none", "rules"}
    /\ LET catalog == IF cached = NotThere THEN Nothing ELSE cached
       IN  view' = IF cached = HalfWritten THEN Unloaded
                   ELSE IF view.pc = "none" THEN [pc |-> "catalog", catalog |-> catalog]
                   ELSE [pc |-> "both", rules |-> view.rules, catalog |-> catalog]
    /\ UNCHANGED <<zabbix, gone, cached, sync, overtaken, rules, made, left>>

\* Rules that make their groups of a field name none.
Static(doc, kind) == UNION {r.items : r \in {s \in doc.rules[kind] : kind = "groups" => ~s.dynamic}}

\* An item is known by its id, or by its name if it has none.
KeyOf(item) == IF item.id # Blank THEN item.id ELSE item.name

\* Of several items with a key the first counts: of lookups, defaults, rules.
Referenced(doc, kind) ==
    LET NewIn(items, before) == {i \in items : KeyOf(i) \notin {Blank} \cup {KeyOf(j) : j \in before}}
        one == doc.lookups[kind]
        two == doc.defaults[kind]
    IN  NewIn(one, {}) \cup NewIn(two, one) \cup NewIn(Static(doc, kind), one \cup two)

\* An item is there if its id or its name is, as either.
Tokens(item) == {item.id, item.name} \ {Blank}
IsThere(items, item) == \E i \in items : Tokens(i) \cap Tokens(item) # {}

Missing(doc, catalog) ==
    UNION {{[kind |-> kind, item |-> i] : i \in {j \in Referenced(doc, kind) : ~IsThere(catalog[kind], j)}} :
              kind \in ItemKinds}

\* The page takes templates away rule by rule.
Active(selected, conflicts) ==
    LET after[k \in 0 .. Len(conflicts)] ==
            IF k = 0 THEN selected
            ELSE IF conflicts[k].when \cap after[k - 1] = {} THEN after[k - 1]
            ELSE after[k - 1] \ conflicts[k].remove
    IN  after[Len(conflicts)]

\* Mutant: a conflict is noticed when all owners of the key are selected.
NoticedWhole(ids, catalog) == {c \in Conflicts(catalog) : c \subseteq ids}

Noticed(ids, catalog) == {c \in Conflicts(catalog) : Several(c \cap ids)}

RuleConflicts(doc, catalog, rule) ==
    Noticed(Active(IdsOf(doc.defaults["templates"] \cup rule.items), doc.conflicts), catalog)

(***************************************************************************)
(* Removal of what is missing, from the rules that are active by then      *)
(***************************************************************************)
SameItem(item, wanted) == Tokens(item) \cap Tokens(wanted) # {}

\* Everything that is the same as one of the items goes.
Fixed(doc, missing) ==
    LET Kept(kind, items) ==
            {i \in items : \A m \in missing : m.kind = kind => ~SameItem(i, m.item)}
    IN  [lookups |-> [kind \in ItemKinds |-> Kept(kind, doc.lookups[kind])],
         defaults |-> [kind \in ItemKinds |-> Kept(kind, doc.defaults[kind])],
         rules |-> [kind \in ItemKinds |->
                       {[dynamic |-> r.dynamic, items |-> Kept(kind, r.items)] : r \in doc.rules[kind]}],
         conflicts |-> doc.conflicts]

\* A request names some of what was found missing; of a long one the first count.
FixMapping ==
    /\ made = Unloaded /\ view.pc = "both" /\ Pay("makes")
    /\ \E chosen \in SUBSET Missing(view.rules, view.catalog) :
        /\ chosen # {} /\ Cardinality(chosen) <= MaxOperations
        /\ made' = [pc |-> "fixed", doc |-> Fixed(rules, chosen), of |-> rules, seen |-> view, chosen |-> chosen]
    /\ UNCHANGED <<zabbix, gone, cached, sync, overtaken, rules, view>>

\* What was made is published, unless the check refuses it.
PublishMade ==
    /\ made # Unloaded
    /\ made' = Unloaded
    /\ rules' = IF Errors(made.doc) = {} THEN made.doc ELSE rules
    /\ UNCHANGED <<zabbix, gone, cached, sync, overtaken, view, left>>

(***************************************************************************)

CatalogInit ==
    \E start \in Starts :
        /\ zabbix = start.zabbix /\ rules = start.rules
        /\ cached = start.zabbix /\ gone = {} /\ overtaken = FALSE
        /\ sync = [w \in Syncs |-> AtRest]
        /\ made = Unloaded /\ view = Unloaded
        /\ left = [edits |-> start.edits, syncs |-> start.syncs,
                   crashes |-> start.crashes, makes |-> start.makes]

CatalogNext ==
    \/ \E kind \in ItemKinds : \E item \in zabbix[kind] : DeleteItem(kind, item) \/ RecreateItem(kind, item)
    \/ \E w \in Syncs : BeginSync(w) \/ FetchKind(w) \/ TruncateSynced(w) \/ WriteSynced(w)
    \/ BffCrash \/ CreateStarter \/ LoadRules \/ LoadCatalog \/ FixMapping \/ PublishMade

CatalogSpec == CatalogInit /\ [][CatalogNext]_catalogVars

(* What the BFF makes is sound.  A starter is refused for what Zabbix has  *)
(* lost only, unless two synchronisations overlapped: whatever the checks  *)
(* look up, it names what the catalogs have (createStarterRules against    *)
(* validateRulesAgainstCatalogs and syncZabbixCatalogCore).  Removing all  *)
(* that Logical Control found missing leaves it nothing to find, unless    *)
(* the rules were replaced meanwhile, and removing any of it takes nothing *)
(* that the catalog has by id and by name (applyRulesFixOperations against *)
(* referencedTemplates and the others).                                    *)
Lists(items, item) == item.id \in IdsOf(items) /\ item.name \in {i.name : i \in items}
MadeIsSound ==
    /\ made.pc = "starter" /\ ~overtaken => Errors(made.doc) \subseteq gone
    /\ made.pc = "fixed" =>
          /\ made.of = made.seen.rules /\ made.chosen = Missing(made.of, made.seen.catalog) =>
                Missing(made.doc, made.seen.catalog) = {}
          /\ \A kind \in ItemKinds : \A item \in Used(made.of, kind) :
                Lists(made.seen.catalog[kind], item) => item \in Used(made.doc, kind)

\* The templates the converter gives the host of a card that matches one rule:
\* the conflict rules look at what the rules selected, not at what is left.
Converted(rule, conflicts) ==
    LET selected == IdsOf(rule.items)
    IN  selected \ UNION {conflicts[i].remove : i \in {k \in DOMAIN conflicts : conflicts[k].when \cap selected # {}}}

(* A template rule that Logical Control finds nothing wrong with gives no  *)
(* host two templates with a key in common, although page and converter    *)
(* apply the conflict rules differently (applyTemplateConflictRulesToIds   *)
(* against ApplyTemplateConflictRules).  It takes documents whose defaults *)
(* have no templates: the converter leaves these out.                      *)
NoConflictUnnoticed ==
    view.pc = "both" /\ view.rules.defaults["templates"] = {} =>
        \A rule \in view.rules.rules["templates"] :
            RuleConflicts(view.rules, view.catalog, rule) = {} =>
                \A c \in Conflicts(view.catalog) :
                    ~Several(c \cap Converted(rule, view.rules.conflicts))

\* What the checks of rules against catalogs say and make can be relied on.
ChecksCanBeTrusted == MadeIsSound /\ NoConflictUnnoticed

=============================================================================
