-------------------------- MODULE MCAdministration --------------------------
(* Two administrators and a class tree A, B below A: the rules use both    *)
(* and a class that CMDBuild does not have.  Either they synchronise the   *)
(* catalog and apply the audit model, or they turn a lookup of B, or rules *)
(* meet the catalog of a Zabbix with two groups and three templates.       *)
EXTENDS LookupBulk, RulesCatalogs, TLC

CONSTANTS p1, p2

Symmetry == Permutations(Pages)

MCParent == "A" :> None @@ "B" :> "A" @@ "Bindings" :> None @@ "Gone" :> None

Budget(kinds, asks, faults, crashes, edits, classes) ==
    [kinds |-> kinds, asks |-> asks, faults |-> faults, crashes |-> crashes, edits |-> edits,
     classes |-> classes, bulks |-> 0, others |-> 0]

BulkBudget(bulks, faults, crashes, edits, others) ==
    [kinds |-> {}, asks |-> 0, faults |-> faults, crashes |-> crashes, edits |-> edits,
     classes |-> {"A", "B"}, bulks |-> bulks, others |-> others]

\* No requests, and a CMDBuild without classes.
NoBudget == Budget({}, 0, 0, 0, 0, {})

Models == {"analyze", "apply"}
Tree == {"A", "B"}

MCBudgets ==
    {Budget({"sync"}, 3, 0, 0, 0, Tree),
     Budget({"sync"}, 2, 0, 1, 0, Tree),
     Budget(Models, 2, 1, 0, 0, Tree),
     Budget(Models, 2, 0, 1, 0, Tree),
     Budget(Models, 2, 0, 0, 1, Tree),
     BulkBudget(2, 1, 0, 0, 0),
     BulkBudget(1, 1, 1, 0, 0),
     BulkBudget(1, 0, 0, 1, 2),
     BulkBudget(1, 0, 1, 0, 1)} \cup {NoBudget}

MCLookupValues == <<"v1", "v2">>

Card(id, value, main) == [id |-> id, value |-> value, main |-> main]

MCFirstCards == <<Card("c1", "v1", TRUE), Card("c2", None, FALSE), Card("c3", "v2", FALSE)>>

-----------------------------------------------------------------------------
(* Rules and the Zabbix catalog. *)

Item(id, name) == [id |-> id, name |-> name]
Template(id, name, keys) == [id |-> id, name |-> name, keys |-> keys]

\* Two templates share a key, and all three another one.
Server == [groups |-> {Item("g1", "Linux")}, tgroups |-> {Item("q1", "Templates")},
           templates |-> {Template("t1", "os", {"cpu", "ping"}), Template("t2", "agent", {"cpu", "ping"}),
                          Template("t3", "icmp", {"ping"})}]
Small == [Server EXCEPT !.templates = {Template("t1", "os", {"cpu"})}]

Parts(groups, tgroups, templates) == [groups |-> groups, tgroups |-> tgroups, templates |-> templates]
Rule(dynamic, items) == [dynamic |-> dynamic, items |-> items]
Doc(lookups, defaults, applied, conflicts) ==
    [lookups |-> lookups, defaults |-> defaults, rules |-> applied, conflicts |-> conflicts]
Empty == Parts({}, {}, {})

\* Every rule of templates, under every two conflict rules of which one asks
\* for a single template.
Some == SUBSET {"t1", "t2", "t3"} \ {{}}
TemplateRules == {Rule(FALSE, {Item(id, id) : id \in ids}) : ids \in Some}
ConflictRules == {[when |-> w, remove |-> r] : w \in Some, r \in Some}
ConflictDocs ==
    {Doc(Empty, Empty, Parts({}, {}, TemplateRules), <<c, d>>) :
        c \in {e \in ConflictRules : Cardinality(e.when) = 1}, d \in ConflictRules}
    \cup {Doc(Empty, Empty, Parts({}, {}, TemplateRules), <<>>)}

\* Documents that name what is there, was renamed, or never was.
Named == {Item("g1", "Linux"), Item("g1", "Old"), Item("g9", "Old"), Item("g9", "Linux"), Item(Blank, "Linux")}
FixDocs ==
    {Doc(Parts({a}, {Item("q1", "Templates")}, {}), Parts({b}, {}, {}),
         Parts({Rule(dynamic, {c})}, {}, {Rule(FALSE, {Item("t1", "os"), Item("t9", "gone")})}), <<>>) :
        a \in Named, b \in Named, c \in Named, dynamic \in BOOLEAN}

RulesStart(server, doc, edits, syncs, crashes, makes) ==
    [zabbix |-> server, rules |-> doc, edits |-> edits, syncs |-> syncs, crashes |-> crashes, makes |-> makes]
MCRulesStarts ==
    {RulesStart(Small, Doc(Empty, Empty, Empty, <<>>), 1, 2, 0, 1),
     RulesStart(Small, Doc(Empty, Empty, Empty, <<>>), 1, 1, 1, 1)}
    \cup {RulesStart(Small, CHOOSE d \in FixDocs : d.lookups.groups = {Item("g9", "Old")}, 1, 1, 0, 2)}
    \cup {RulesStart(Server, d, 0, 0, 0, 0) : d \in ConflictDocs}
    \cup {RulesStart(Small, d, 0, 0, 0, 1) : d \in FixDocs}
Quiet == RulesStart(Empty, Doc(Empty, Empty, Empty, <<>>), 0, 0, 0, 0)
MCStarts == {Quiet} \cup MCRulesStarts

\* One of the two parts is at rest.
AdminInit == BulkInit /\ CatalogInit /\ (budget = NoBudget \/ zabbix = Empty)
AdminNext ==
    \/ BulkNext /\ UNCHANGED catalogVars
    \/ budget = NoBudget /\ CatalogNext /\ UNCHANGED allVars
AdminSpec == AdminInit /\ [][AdminNext]_<<allVars, catalogVars>>
=============================================================================
