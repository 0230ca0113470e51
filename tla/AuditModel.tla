----------------------------- MODULE AuditModel -----------------------------
(***************************************************************************)
(* The catalog of CMDBuild in a file of the BFF, the pages that have it    *)
(* synchronised, and the audit model: the attribute for the main host id   *)
(* in every class the rules use and the class of bindings, which the BFF   *)
(* plans from a fresh catalog and creates one call after the other while   *)
(* others do the same (server.mjs, app.js).                                *)
(*                                                                         *)
(*   a catalog  [at, classes, attrs]: attrs is empty where a class could   *)
(*              not be read                                                *)
(*   a plan     a set of [class, attr], attr being None for the class      *)
(*                                                                         *)
(* The limits of 250 classes and 500 lookups, domains and lookup values    *)
(* (whose failure leaves an empty list) and the Zabbix catalog, written    *)
(* the same way without a recovery, are left out.  A page has one request  *)
(* in the BFF at a time; that it shows a plan before it asks to apply one  *)
(* is left out too, as the BFF makes its own.                              *)
(***************************************************************************)
EXTENDS Naturals, FiniteSets

CONSTANTS
    Pages,
    Parent,         \* the superclass of each class, or None
    Participating,  \* classes the rules use, whether they exist or not
    Binding,        \* the class of the bindings
    Main, BindingAttrs,
    None, Broken,
    Attempts,       \* cmdbuildCatalogSyncRecoveryAttempts
    Budgets         \* bounds: [kinds, asks, faults, crashes, edits, classes]:
                    \* what may still happen, and the classes there are

(* None and Broken are no time, class or attribute, and no catalog.        *)
ASSUME AuditAssumption ==
    /\ Binding \in DOMAIN Parent
    /\ None \notin Nat \cup DOMAIN Parent \cup {Main} \cup BindingAttrs
    /\ {None, Broken} \cap [at : Nat, classes : SUBSET DOMAIN Parent,
                             attrs : UNION {[D -> SUBSET ({Main} \cup BindingAttrs)] :
                                              D \in SUBSET DOMAIN Parent}] = {}
    /\ \A b \in Budgets : b.classes \subseteq DOMAIN Parent

VARIABLES
    schema,  \* CMDBuild: the attributes each existing class has of its own
    file,    \* the cached catalog: None, Broken or a catalog
    clock,   \* the time catalogs are stamped with
    page,
    work,    \* the request of each page inside the BFF
    budget

vars == <<schema, file, clock, page, work, budget>>

Idle == [pc |-> "idle"]
TypeOK ==
    /\ DOMAIN schema \subseteq DOMAIN Parent
    /\ \A c \in DOMAIN schema : schema[c] \subseteq {Main} \cup BindingAttrs
    /\ \/ file \in {None, Broken}
       \/ file.at \in 1 .. clock /\ DOMAIN file.attrs = file.classes
    /\ \A p \in Pages : page[p].pc \in {"idle", "asked", "polling", "fetching", "shown", "failed"}
    /\ \A p \in Pages : work[p].pc \in {"idle", "classes", "attrs", "write", "create", "done", "error"}

-----------------------------------------------------------------------------
(* CMDBuild. *)

\* A class and its superclasses.
Lineage(c) ==
    LET from[d \in DOMAIN Parent] ==
            {d} \cup IF Parent[d] = None THEN {} ELSE from[Parent[d]]
    IN  from[c]

Inherited(c) == UNION {schema[d] : d \in Lineage(c) \cap DOMAIN schema}

\* A class or an attribute that is there already is refused.
Refused(item) ==
    IF item.attr = None THEN item.class \in DOMAIN schema
    ELSE item.class \notin DOMAIN schema \/ item.attr \in Inherited(item.class)

Created(item) ==
    IF item.attr = None
    THEN [c \in DOMAIN schema \cup {item.class} |-> IF c \in DOMAIN schema THEN schema[c] ELSE {}]
    ELSE [schema EXCEPT ![item.class] = @ \cup {item.attr}]

-----------------------------------------------------------------------------
(* The plan. *)

Has(catalog, c, a) == c \in catalog.classes /\ a \in catalog.attrs[c]

\* Mutant: a class of which nothing is known is taken to have the attribute.
PlanOfKnown(catalog) ==
    {[class |-> c, attr |-> Main] :
        c \in {d \in Participating \cap catalog.classes :
                 catalog.attrs[d] # {} /\ ~Has(catalog, d, Main)}}
    \cup (IF Binding \in catalog.classes THEN {} ELSE {[class |-> Binding, attr |-> None]})
    \cup {[class |-> Binding, attr |-> a] : a \in {b \in BindingAttrs : ~Has(catalog, Binding, b)}}

\* Classes of the rules that CMDBuild does not have are reported, not planned.
Plan(catalog) ==
    {[class |-> c, attr |-> Main] :
        c \in {d \in Participating \cap catalog.classes : ~Has(catalog, d, Main)}}
    \cup (IF Binding \in catalog.classes THEN {} ELSE {[class |-> Binding, attr |-> None]})
    \cup {[class |-> Binding, attr |-> a] : a \in {b \in BindingAttrs : ~Has(catalog, Binding, b)}}

\* Attributes of the classes, the class of bindings, then its attributes.
Rank(item) == IF item.class # Binding THEN 1 ELSE IF item.attr = None THEN 2 ELSE 3

-----------------------------------------------------------------------------
(* Requests in the BFF. *)

Spend(what) == budget[what] > 0 /\ budget' = [budget EXCEPT ![what] = @ - 1]

\* stage: 1 for the first catalog of a request, 2 for the one after applying.
Work(kind) ==
    [pc |-> "classes", kind |-> kind, stage |-> 1, read |-> None, todo |-> {}]

ReadClasses(p) ==
    /\ work[p].pc = "classes"
    /\ \/ /\ work' = [work EXCEPT ![p] = [@ EXCEPT !.pc = "attrs",
                        !.read = [at |-> 0, classes |-> DOMAIN schema, attrs |-> <<>>]]]
          /\ UNCHANGED budget
       \/ /\ Spend("faults")
          /\ work' = [work EXCEPT ![p].pc = "error"]
    /\ UNCHANGED <<schema, file, clock, page>>

With(catalog, c, attrs) ==
    [catalog EXCEPT !.attrs = [d \in DOMAIN @ \cup {c} |-> IF d = c THEN attrs ELSE @[d]]]

\* One class after the other; one that cannot be read has no attributes.
ReadAttributes(p) ==
    /\ work[p].pc = "attrs"
    /\ DOMAIN work[p].read.attrs # work[p].read.classes
    /\ LET c == CHOOSE d \in work[p].read.classes \ DOMAIN work[p].read.attrs : TRUE IN
         \/ /\ work' = [work EXCEPT ![p] = [@ EXCEPT !.read = With(work[p].read, c, Inherited(c))]]
            /\ UNCHANGED budget
         \/ /\ Spend("faults")
            /\ work' = [work EXCEPT ![p] = [@ EXCEPT !.read = With(work[p].read, c, {})]]
    /\ UNCHANGED <<schema, file, clock, page>>

\* Lookups and domains are read, or left empty where that fails; then the
\* catalog is stamped, and writeFile empties the file.
Truncate(p) ==
    /\ work[p].pc = "attrs"
    /\ DOMAIN work[p].read.attrs = work[p].read.classes
    /\ clock' = clock + 1
    /\ work' = [work EXCEPT ![p] =
                   [@ EXCEPT !.pc = "write", !.read = [work[p].read EXCEPT !.at = clock + 1]]]
    /\ file' = Broken
    /\ UNCHANGED <<schema, page, budget>>

\* Applying ends with a second catalog, whether there was something to do.
Planned(w) ==
    LET todo == Plan(w.read)
        read == [w EXCEPT !.todo = todo]
    IN  IF w.kind # "apply" \/ w.stage = 2 THEN [read EXCEPT !.pc = "done"]
        ELSE IF todo = {} THEN [read EXCEPT !.pc = "classes", !.stage = 2]
        ELSE [read EXCEPT !.pc = "create"]

\* Two requests that write at once may leave a mixture.
WriteCatalog(p) ==
    /\ work[p].pc = "write"
    /\ \E text \in {work[p].read} \cup
            (IF \E q \in Pages \ {p} : work[q].pc = "write" THEN {Broken} ELSE {}) : file' = text
    /\ work' = [work EXCEPT ![p] = Planned(@)]
    /\ UNCHANGED <<schema, clock, page, budget>>

\* One creation: an error of CMDBuild ends the request, whatever is left.
Create(p) ==
    /\ work[p].pc = "create"
    /\ LET item == CHOOSE i \in work[p].todo : \A j \in work[p].todo : Rank(i) <= Rank(j) IN
         \/ /\ ~Refused(item)
            /\ schema' = Created(item)
            /\ work' = [work EXCEPT ![p] =
                 IF work[p].todo = {item} THEN [@ EXCEPT !.todo = {}, !.pc = "classes", !.stage = 2]
                 ELSE [@ EXCEPT !.todo = work[p].todo \ {item}]]
            /\ UNCHANGED budget
         \/ /\ Refused(item)
            /\ work' = [work EXCEPT ![p].pc = "error"]
            /\ UNCHANGED <<schema, budget>>
         \/ /\ Spend("faults")
            /\ schema' \in {schema} \cup IF Refused(item) THEN {} ELSE {Created(item)}
            /\ work' = [work EXCEPT ![p].pc = "error"]
    /\ UNCHANGED <<file, clock, page>>

\* Files stay, requests are forgotten.
Crash ==
    /\ Spend("crashes")
    /\ work' = [p \in Pages |-> Idle]
    /\ UNCHANGED <<schema, file, clock, page>>

-----------------------------------------------------------------------------
(* Pages. *)

\* readCatalogStatus: the stamp of the file, None without one.
Status == IF file = None THEN 0 ELSE IF file = Broken THEN None ELSE file.at

\* Mutant: without an earlier status any later one is newer.
NewerThanNothing(status, before) ==
    status # None /\ status # 0 /\ (before = None \/ before = 0 \/ status >= before)

\* A status that could not be read before counts as no catalog.
Newer(status, before) ==
    status # None /\ status # 0 /\ (before = None \/ before = 0 \/ status > before)

(* The status before, then the request, which may not arrive.  since and   *)
(* blind are history: the catalog in the file, and whether it was there    *)
(* unseen.                                                                 *)
Ask(p, kind) ==
    /\ page[p].pc \in {"idle", "shown", "failed"} /\ work[p] = Idle
    /\ kind \in budget.kinds /\ Spend("asks")
    /\ \E before \in {Status, None}, arrives \in BOOLEAN :
         /\ kind # "sync" => before = None
         /\ page' = [page EXCEPT ![p] =
              [pc |-> "asked", kind |-> kind, before |-> before, tries |-> 0,
               since |-> IF file \in {None, Broken} THEN 0 ELSE file.at,
               blind |-> before = None /\ file # None, read |-> None, todo |-> {}]]
         /\ work' = IF arrives THEN [work EXCEPT ![p] = Work(kind)] ELSE work
    /\ UNCHANGED <<schema, file, clock>>

Answered(p) ==
    /\ page[p].pc = "asked" /\ work[p].pc \in {"done", "error"}
    /\ page' = [page EXCEPT ![p] =
         IF work[p].pc = "error" THEN [@ EXCEPT !.pc = "failed"]
         ELSE [@ EXCEPT !.pc = "shown", !.read = work[p].read, !.todo = work[p].todo]]
    /\ work' = [work EXCEPT ![p] = Idle]
    /\ UNCHANGED <<schema, file, clock, budget>>

(* fetch fails: a synchronisation goes on to look whether it was done      *)
(* nevertheless, the others give up.                                       *)
NetworkError(p) ==
    /\ page[p].pc = "asked"
    /\ page' = [page EXCEPT ![p].pc = IF page[p].kind = "sync" THEN "polling" ELSE "failed"]
    /\ UNCHANGED <<schema, file, clock, work, budget>>

Finish(p) ==
    /\ work[p].pc \in {"done", "error"} /\ page[p].pc # "asked"
    /\ work' = [work EXCEPT ![p] = Idle]
    /\ UNCHANGED <<schema, file, clock, page, budget>>

Poll(p) ==
    /\ page[p].pc = "polling"
    /\ \E status \in {Status, None} : page' = [page EXCEPT ![p] =
         IF Newer(status, page[p].before) THEN [@ EXCEPT !.pc = "fetching"]
         ELSE IF page[p].tries + 1 < Attempts THEN [@ EXCEPT !.tries = page[p].tries + 1]
         ELSE [@ EXCEPT !.pc = "failed"]]
    /\ UNCHANGED <<schema, file, clock, work, budget>>

Fetch(p) ==
    /\ page[p].pc = "fetching"
    /\ page' = [page EXCEPT ![p] =
         IF file \in {None, Broken} THEN [@ EXCEPT !.pc = "failed"]
         ELSE [@ EXCEPT !.pc = "shown", !.read = file]]
    /\ UNCHANGED <<schema, file, clock, work, budget>>

\* Administrators of CMDBuild create what they like.
Other ==
    /\ Spend("edits")
    /\ \E c \in DOMAIN Parent, a \in {None, Main} :
         /\ ~Refused([class |-> c, attr |-> a])
         /\ schema' = Created([class |-> c, attr |-> a])
    /\ UNCHANGED <<file, clock, page, work>>

Init ==
    /\ budget \in Budgets
    /\ schema = [c \in budget.classes |-> {}]
    /\ file = None
    /\ clock = 0
    /\ page = [p \in Pages |-> Idle]
    /\ work = [p \in Pages |-> Idle]

Next ==
    \/ \E p \in Pages :
         \/ \E kind \in {"sync", "analyze", "apply"} : Ask(p, kind)
         \/ Answered(p) \/ NetworkError(p) \/ Finish(p) \/ Poll(p) \/ Fetch(p)
         \/ ReadClasses(p) \/ ReadAttributes(p) \/ Truncate(p) \/ WriteCatalog(p) \/ Create(p)
    \/ Crash \/ Other

Spec == Init /\ [][Next]_vars

-----------------------------------------------------------------------------
(* A page that says "synchronised" never shows the catalog that was there  *)
(* when it asked, also when its own answer was lost and it found the file  *)
(* instead, while others write theirs (one of those, read earlier but      *)
(* written later, it may show). A page that had no status of the earlier   *)
(* catalog (blind) takes any for the new one and is exempt.                *)
SyncedIsNew ==
    \A p \in Pages :
        page[p].pc = "shown" /\ page[p].kind = "sync" /\ ~page[p].blind =>
            page[p].read.at # page[p].since

(* A page that says the audit model is ready is right: each class of the   *)
(* rules it saw has the attribute, the class of bindings is complete,      *)
(* although the catalog was read class by class while others worked, some  *)
(* could not be read and creations failed half-way.                        *)
ReadyIsComplete ==
    \A p \in Pages :
        page[p].pc = "shown" /\ page[p].kind # "sync" /\ page[p].todo = {} =>
            /\ \A c \in Participating \cap page[p].read.classes : Main \in Inherited(c)
            /\ Binding \in DOMAIN schema /\ BindingAttrs \subseteq Inherited(Binding)
=============================================================================
