------------------------- MODULE LookupBulk_proofs -------------------------
EXTENDS LookupBulk, RulesCatalogs, SequenceTheorems, WellFoundedInduction, TLAPS

(***************************************************************************)
(* The catalog, the audit model and the bulk operations beside them, for   *)
(* every tree of classes, every number of pages and cards and all budgets. *)
(* First the catalog (SyncedIsNew, ReadyIsComplete), of which the bulk     *)
(* operations change nothing, then the operations; last the rules and the  *)
(* catalog of Zabbix, which share no state with them.                      *)
(***************************************************************************)
USE AuditAssumption

-----------------------------------------------------------------------------
(* Catalogs and what is known of them. *)

Attributes == {Main} \cup BindingAttrs
Catalog == [at : Nat, classes : SUBSET DOMAIN Parent,
            attrs : UNION {[D -> SUBSET Attributes] : D \in SUBSET DOMAIN Parent}]
Items == [class : DOMAIN Parent, attr : {None} \cup Attributes]
Kinds == {"sync", "analyze", "apply"}

WorkRecord == [pc : {"classes", "attrs", "write", "create", "done", "error"}, kind : Kinds,
               stage : {1, 2}, read : Catalog \cup {None}, todo : SUBSET Items]
PageRecord == [pc : {"asked", "polling", "fetching", "shown", "failed"}, kind : Kinds,
               before : Nat \cup {None}, tries : Nat, since : Nat, blind : BOOLEAN,
               read : Catalog \cup {None}, todo : SUBSET Items]

\* What class c has in the schema s.
Inherit(s, c) == UNION {s[d] : d \in Lineage(c) \cap DOMAIN s}

\* The catalog r claims nothing that the schema s does not have.
Believable(r, s) ==
    /\ r \in Catalog /\ r.classes \subseteq DOMAIN s /\ DOMAIN r.attrs \subseteq r.classes
    /\ \A d \in DOMAIN r.attrs : r.attrs[d] \subseteq Inherit(s, d)

Whole(r) == DOMAIN r.attrs = r.classes

SoundWork(w, s) ==
    \/ w = Idle
    \/ /\ w \in WorkRecord
       /\ w.pc \in {"attrs", "write", "create", "done"} => Believable(w.read, s)
       /\ w.pc \in {"write", "create", "done"} => Whole(w.read)
       /\ w.pc = "create" => w.todo # {}
       /\ w.pc = "done" => w.todo = Plan(w.read)

SoundPage(g, s) ==
    \/ g = Idle
    \/ /\ g \in PageRecord
       /\ g.pc \in {"polling", "fetching"} => g.kind = "sync"
       /\ g.pc = "shown" /\ g.kind # "sync" =>
            Believable(g.read, s) /\ Whole(g.read) /\ g.todo = Plan(g.read)

\* The stamps of the catalogs that are being written.
Pending(ws) == {ws[q].read.at : q \in {r \in Pages : ws[r].pc = "write"}}
Stamped(w) == w.pc \in {"write", "create", "done"}

(* A page that waits knows the stamp it must not be shown; its own request *)
(* w, once stamped, is later, and no request will write that stamp again.  *)
PageStamp(g, w, f, time, pending) ==
    /\ g.pc \in {"asked", "polling", "fetching"} =>
         /\ g.since \in 0 .. time /\ g.since \notin pending
         /\ ~g.blind => g.before \in {None, g.since} /\ (g.before = None => g.since = 0)
    /\ g.pc = "asked" /\ Stamped(w) => w.read.at > g.since
    /\ g.pc = "fetching" /\ ~g.blind /\ f \in Catalog => f.at # g.since
    /\ g.pc = "shown" /\ g.kind = "sync" /\ ~g.blind => g.read.at # g.since

SchemaOK(s) == DOMAIN s \subseteq DOMAIN Parent /\ s \in [DOMAIN s -> SUBSET Attributes]

AuditType ==
    /\ SchemaOK(schema)
    /\ file \in Catalog \cup {None, Broken}
    /\ file \in Catalog => file.at \in 1 .. clock /\ Whole(file)
    /\ clock \in Nat
    /\ page \in [Pages -> PageRecord \cup {Idle}]
    /\ work \in [Pages -> WorkRecord \cup {Idle}]

SoundInv == \A p \in Pages : SoundWork(work[p], schema) /\ SoundPage(page[p], schema)

\* A stamp is given once, and written once.
StampInv ==
    /\ \A p \in Pages : Stamped(work[p]) => work[p].read.at \in 1 .. clock
    /\ file \in Catalog => file.at \notin Pending(work)
    /\ \A p, q \in Pages :
         work[p].pc = "write" /\ work[q].pc = "write" /\ work[p].read.at = work[q].read.at => p = q
    /\ \A p \in Pages : PageStamp(page[p], work[p], file, clock, Pending(work))

AuditInv == AuditType /\ SoundInv /\ StampInv

-----------------------------------------------------------------------------
(* Lemmas about catalogs and schemas. *)

\* CMDBuild loses no class and no attribute.
Grows(s, t) == DOMAIN s \subseteq DOMAIN t /\ \A d \in DOMAIN s : s[d] \subseteq t[d]

\* What a class has, it keeps.
LEMMA InheritGrows ==
  ASSUME NEW s, NEW t, Grows(s, t), NEW c
  PROVE  Inherit(s, c) \subseteq Inherit(t, c)
  BY DEF Grows, Inherit

\* What was believable stays believable.
LEMMA BelievableStays ==
  ASSUME NEW s, NEW t, Grows(s, t), NEW r, Believable(r, s)
  PROVE  Believable(r, t)
  BY InheritGrows DEF Believable, Grows

\* So do requests and pages.
LEMMA SoundStays ==
  ASSUME NEW s, NEW t, Grows(s, t)
  PROVE  /\ \A w : SoundWork(w, s) => SoundWork(w, t)
         /\ \A g : SoundPage(g, s) => SoundPage(g, t)
<1>1. ASSUME NEW w, SoundWork(w, s) PROVE SoundWork(w, t)
  BY <1>1, BelievableStays DEF SoundWork
<1>2. ASSUME NEW g, SoundPage(g, s) PROVE SoundPage(g, t)
  BY <1>2, BelievableStays DEF SoundPage
<1> QED BY <1>1, <1>2

\* The attributes a class has are attributes of the model.
LEMMA InheritTyped ==
  ASSUME NEW s, SchemaOK(s), NEW c
  PROVE  Inherit(s, c) \subseteq Attributes
  BY DEF SchemaOK, Inherit

\* Inherited is Inherit for the schema CMDBuild has now.
LEMMA InheritedIs == \A c : Inherited(c) = Inherit(schema, c)
  BY DEF Inherited, Inherit

\* A plan names classes of the tree and attributes of the model.
LEMMA PlanTyped ==
  ASSUME NEW r \in Catalog
  PROVE  Plan(r) \subseteq Items
<1>1. r.classes \subseteq DOMAIN Parent
  BY DEF Catalog
<1> QED BY <1>1 DEF Plan, Items, Attributes

\* What CMDBuild creates is of the model, and takes nothing away.
LEMMA CreatedGrows ==
  ASSUME SchemaOK(schema), NEW i \in Items, ~Refused(i)
  PROVE  SchemaOK(Created(i)) /\ Grows(schema, Created(i))
<1>1. i.class \in DOMAIN Parent /\ i.attr \in {None} \cup Attributes
  BY DEF Items
<1>2. CASE i.attr = None
  BY <1>1, <1>2 DEF Created, SchemaOK, Grows, Refused
<1>3. CASE i.attr # None
  <2>1. i.class \in DOMAIN schema /\ i.attr \in Attributes
    BY <1>1, <1>3 DEF Refused
  <2>2. Created(i) = [schema EXCEPT ![i.class] = schema[i.class] \cup {i.attr}]
    BY <1>3 DEF Created
  <2> QED BY <2>1, <2>2 DEF SchemaOK, Grows
<1> QED BY <1>2, <1>3

-----------------------------------------------------------------------------
(* The steps of the catalog. *)

(* What page p or its request does keeps the invariant, where the request  *)
(* stamps and writes nothing, and the page becomes one the invariant       *)
(* allows.                                                                 *)
LEMMA OwnStep ==
  ASSUME AuditInv, NEW p \in Pages, NEW w \in WorkRecord \cup {Idle}, NEW g \in PageRecord \cup {Idle},
         work' = [work EXCEPT ![p] = w], page' = [page EXCEPT ![p] = g],
         SchemaOK(schema'), Grows(schema, schema'), UNCHANGED <<file, clock>>,
         SoundWork(w, schema'), SoundPage(g, schema'),
         w.pc = "write" => w = work[p],
         Stamped(w) => Stamped(work[p]) /\ w.read = work[p].read,
         PageStamp(g, w, file, clock, Pending(work))
  PROVE  AuditInv'
<1>0. /\ \A q \in Pages : work'[q] = IF q = p THEN w ELSE work[q]
      /\ \A q \in Pages : page'[q] = IF q = p THEN g ELSE page[q]
  BY DEF AuditInv, AuditType
<1>1. AuditType'
  BY DEF AuditInv, AuditType
<1>2. SoundInv'
  <2> SUFFICES ASSUME NEW q \in Pages PROVE SoundWork(work'[q], schema') /\ SoundPage(page'[q], schema')
    BY DEF SoundInv
  <2>1. SoundWork(work[q], schema) /\ SoundPage(page[q], schema)
    BY DEF AuditInv, SoundInv
  <2>2. SoundWork(work[q], schema') /\ SoundPage(page[q], schema')
    BY <2>1, SoundStays
  <2> QED BY <1>0, <2>2
<1>3. Pending(work') \subseteq Pending(work)
  BY <1>0 DEF Pending
<1>4. \A q \in Pages : Stamped(work'[q]) => Stamped(work[q]) /\ work'[q].read = work[q].read
  BY <1>0
<1>5. \A q \in Pages : work'[q].pc = "write" => work[q].pc = "write" /\ work'[q].read = work[q].read
  BY <1>0
<1>6. StampInv'
  <2>1. \A q \in Pages : Stamped(work'[q]) => work'[q].read.at \in 1 .. clock'
    BY <1>4 DEF AuditInv, StampInv
  <2>2. file' \in Catalog => file'.at \notin Pending(work')
    BY <1>3 DEF AuditInv, StampInv
  <2>3. \A q, r \in Pages :
           work'[q].pc = "write" /\ work'[r].pc = "write" /\ work'[q].read.at = work'[r].read.at => q = r
    BY <1>5 DEF AuditInv, StampInv
  <2>4. ASSUME NEW q \in Pages PROVE PageStamp(page'[q], work'[q], file', clock', Pending(work'))
    <3>1. PageStamp(page'[q], work'[q], file, clock, Pending(work))
      BY <1>0 DEF AuditInv, StampInv
    <3> QED BY <3>1, <1>3 DEF PageStamp
  <2> QED BY <2>1, <2>2, <2>3, <2>4 DEF StampInv
<1> QED BY <1>1, <1>2, <1>6 DEF AuditInv

\* The same where only the request of p changes.
LEMMA WorkStep ==
  ASSUME AuditInv, NEW p \in Pages, NEW w \in WorkRecord \cup {Idle}, work' = [work EXCEPT ![p] = w],
         SchemaOK(schema'), Grows(schema, schema'), UNCHANGED <<file, clock, page>>,
         SoundWork(w, schema'), w.pc # "write",
         Stamped(w) => Stamped(work[p]) /\ w.read = work[p].read
  PROVE  AuditInv'
<1>1. page' = [page EXCEPT ![p] = page[p]] /\ page[p] \in PageRecord \cup {Idle}
  BY DEF AuditInv, AuditType
<1>2. SoundPage(page[p], schema')
  BY SoundStays DEF AuditInv, SoundInv
<1>3. PageStamp(page[p], w, file, clock, Pending(work))
  BY DEF AuditInv, StampInv, PageStamp
<1> QED BY <1>1, <1>2, <1>3, OwnStep

\* The same where only page p changes.
LEMMA PageStep ==
  ASSUME AuditInv, NEW p \in Pages, NEW g \in PageRecord \cup {Idle}, page' = [page EXCEPT ![p] = g],
         UNCHANGED <<schema, file, clock, work>>, SoundPage(g, schema),
         PageStamp(g, work[p], file, clock, Pending(work))
  PROVE  AuditInv'
<1>1. work' = [work EXCEPT ![p] = work[p]] /\ work[p] \in WorkRecord \cup {Idle} /\ SchemaOK(schema)
  BY DEF AuditInv, AuditType
<1>2. SoundWork(work[p], schema) /\ Grows(schema, schema)
  BY DEF AuditInv, SoundInv, Grows
<1>3. SchemaOK(schema') /\ Grows(schema, schema') /\ SoundWork(work[p], schema') /\ SoundPage(g, schema')
  BY <1>1, <1>2
<1>4. Stamped(work[p]) => Stamped(work[p]) /\ work[p].read = work[p].read
  OBVIOUS
<1> QED
  <2> HIDE DEF AuditInv
  <2> QED BY <1>1, <1>3, <1>4, OwnStep

\* What is known of a request that is not idle.
LEMMA AtWork ==
  ASSUME AuditInv, NEW p \in Pages, work[p].pc # "idle"
  PROVE  work[p] \in WorkRecord /\ SoundWork(work[p], schema)
  BY DEF AuditInv, AuditType, SoundInv, Idle

\* A schema that stays has grown.
LEMMA SameGrows ==
  ASSUME AuditInv, UNCHANGED schema
  PROVE  SchemaOK(schema') /\ Grows(schema, schema')
<1>1. SchemaOK(schema)
  BY DEF AuditInv, AuditType
<1> QED BY <1>1 DEF Grows

\* A request that ends with an error keeps the invariant.
LEMMA ErrorStep ==
  ASSUME AuditInv, NEW p \in Pages, work[p].pc # "idle", work' = [work EXCEPT ![p].pc = "error"],
         SchemaOK(schema'), Grows(schema, schema'), UNCHANGED <<file, clock, page>>
  PROVE  AuditInv'
<1> DEFINE w == [work[p] EXCEPT !.pc = "error"]
<1>1. work[p] \in WorkRecord
  BY AtWork
<1>2. w \in WorkRecord /\ w.pc = "error"
  BY <1>1 DEF WorkRecord
<1>3. work' = [work EXCEPT ![p] = w]
  OBVIOUS
<1> HIDE DEF w
<1> QED BY <1>2, <1>3, WorkStep DEF Stamped, SoundWork

\* The classes are read at one moment, and none of their attributes yet.
LEMMA ReadClassesStep ==
  ASSUME AuditInv, NEW p \in Pages, ReadClasses(p)
  PROVE  AuditInv'
<1>1. UNCHANGED <<schema, file, clock, page>> /\ work[p].pc = "classes"
  BY DEF ReadClasses
<1>2. work[p] \in WorkRecord /\ SoundWork(work[p], schema)
  BY <1>1, AtWork
<1>3. SchemaOK(schema') /\ Grows(schema, schema')
  BY <1>1, SameGrows
<1>4. CASE work' = [work EXCEPT ![p] = [@ EXCEPT !.pc = "attrs",
                      !.read = [at |-> 0, classes |-> DOMAIN schema, attrs |-> <<>>]]]
  <2> DEFINE r == [at |-> 0, classes |-> DOMAIN schema, attrs |-> <<>>]
             w == [work[p] EXCEPT !.pc = "attrs", !.read = r]
  <2>1. DOMAIN r.attrs = {} /\ r.attrs \in [{} -> SUBSET Attributes]
    OBVIOUS
  <2>2. r \in Catalog /\ Believable(r, schema)
    BY <2>1 DEF Catalog, Believable, AuditInv, AuditType, SchemaOK
  <2> HIDE DEF r
  <2>3. w \in WorkRecord /\ w.pc = "attrs" /\ w.read = r
    BY <1>2, <2>2 DEF WorkRecord
  <2>4. work' = [work EXCEPT ![p] = w]
    BY <1>4 DEF r
  <2> HIDE DEF w
  <2>5. SoundWork(w, schema')
    BY <2>2, <2>3, <1>1 DEF SoundWork
  <2> QED BY <1>1, <1>3, <2>3, <2>4, <2>5, WorkStep DEF Stamped
<1>5. CASE work' = [work EXCEPT ![p].pc = "error"]
  BY <1>1, <1>3, <1>5, ErrorStep
<1> QED BY <1>4, <1>5 DEF ReadClasses

\* A class is read with what it has then, or with nothing.
LEMMA ReadAttributesStep ==
  ASSUME AuditInv, NEW p \in Pages, ReadAttributes(p)
  PROVE  AuditInv'
<1> DEFINE old == work[p].read
           c == CHOOSE d \in old.classes \ DOMAIN old.attrs : TRUE
           w(r) == [work[p] EXCEPT !.read = r]
<1>1. /\ UNCHANGED <<schema, file, clock, page>> /\ work[p].pc = "attrs"
      /\ DOMAIN old.attrs # old.classes
  BY DEF ReadAttributes
<1>2. /\ work[p] \in WorkRecord /\ Believable(old, schema)
      /\ SchemaOK(schema') /\ Grows(schema, schema')
  <2>1. work[p] \in WorkRecord /\ SoundWork(work[p], schema)
    BY <1>1, AtWork
  <2> QED BY <1>1, <2>1, SameGrows DEF SoundWork, Idle
<1>3. \/ work' = [work EXCEPT ![p] = w(With(old, c, Inherited(c)))]
      \/ work' = [work EXCEPT ![p] = w(With(old, c, {}))]
  BY DEF ReadAttributes
<1>4. PICK attrs \in {Inherited(c), {}} : work' = [work EXCEPT ![p] = w(With(old, c, attrs))]
  BY <1>3
<1>5. attrs \subseteq Attributes /\ attrs \subseteq Inherit(schema, c)
  BY InheritTyped, InheritedIs DEF AuditInv, AuditType
<1>6. c \in old.classes
  BY <1>1, <1>2 DEF Believable
<1>7. PICK D \in SUBSET DOMAIN Parent : old.attrs \in [D -> SUBSET Attributes]
  BY <1>2 DEF Believable, Catalog
<1> DEFINE new == [d \in DOMAIN old.attrs \cup {c} |-> IF d = c THEN attrs ELSE old.attrs[d]]
           r == [old EXCEPT !.attrs = new]
<1> HIDE DEF c
<1>8. /\ new \in [D \cup {c} -> SUBSET Attributes] /\ D \cup {c} \in SUBSET DOMAIN Parent
      /\ DOMAIN new \subseteq old.classes
      /\ \A d \in DOMAIN new : new[d] \subseteq Inherit(schema, d)
  BY <1>2, <1>5, <1>6, <1>7 DEF Believable, Catalog
<1> HIDE DEF new
<1>9. Believable(r, schema)
  BY <1>2, <1>8 DEF Believable, Catalog
<1>10. r = With(old, c, attrs)
  BY DEF With, new
<1> HIDE DEF r
<1>11. w(r) \in WorkRecord /\ w(r).pc = "attrs" /\ w(r).read = r
  BY <1>1, <1>2, <1>9 DEF WorkRecord, Believable
<1>12. work' = [work EXCEPT ![p] = w(r)]
  BY <1>4, <1>10
<1> HIDE DEF w, old
<1>13. SoundWork(w(r), schema')
  BY <1>1, <1>9, <1>11 DEF SoundWork
<1> QED BY <1>1, <1>2, <1>11, <1>12, <1>13, WorkStep DEF Stamped

\* No catalog is mistaken for a missing or a half-written one.
LEMMA NoCatalog == None \notin Catalog /\ Broken \notin Catalog
  BY DEF Catalog, Attributes

(* The stamp is new: no other request writes it, and no page waits to see  *)
(* another.                                                                *)
LEMMA TruncateStep ==
  ASSUME AuditInv, NEW p \in Pages, Truncate(p)
  PROVE  AuditInv'
<1> DEFINE r == [work[p].read EXCEPT !.at = clock + 1]
           w == [work[p] EXCEPT !.pc = "write", !.read = r]
<1>1. /\ UNCHANGED <<schema, page>> /\ clock' = clock + 1 /\ file' = Broken
      /\ work[p].pc = "attrs" /\ Whole(work[p].read)
      /\ work' = [work EXCEPT ![p] = w]
  BY DEF Truncate, Whole
<1>2. /\ work[p] \in WorkRecord /\ Believable(work[p].read, schema) /\ clock \in Nat
  <2>1. work[p] \in WorkRecord /\ SoundWork(work[p], schema)
    BY <1>1, AtWork
  <2> QED BY <1>1, <2>1 DEF SoundWork, Idle, AuditInv, AuditType
<1>3. Believable(r, schema) /\ Whole(r) /\ r.at = clock + 1
  BY <1>1, <1>2 DEF Believable, Catalog, Whole
<1> HIDE DEF r
<1>4. w \in WorkRecord /\ w.pc = "write" /\ w.read = r
  BY <1>2, <1>3 DEF WorkRecord, Believable
<1> HIDE DEF w
<1>5. \A q \in Pages : work'[q] = IF q = p THEN w ELSE work[q]
  BY <1>1 DEF AuditInv, AuditType
<1>6. AuditType'
  BY <1>1, <1>4, NoCatalog DEF AuditInv, AuditType
<1>7. SoundInv'
  BY <1>1, <1>3, <1>4, <1>5 DEF AuditInv, SoundInv, SoundWork
<1>8. \A q \in Pages : Stamped(work[q]) => work[q].read.at \in 1 .. clock
  BY DEF AuditInv, StampInv
<1>9. Pending(work') \subseteq Pending(work) \cup {clock + 1}
  BY <1>3, <1>4, <1>5 DEF Pending
<1>10. StampInv'
  <2>1. \A q \in Pages : Stamped(work'[q]) => work'[q].read.at \in 1 .. clock'
    BY <1>1, <1>2, <1>3, <1>4, <1>5, <1>8
  <2>2. file' \notin Catalog
    BY <1>1, NoCatalog
  <2>3. \A q, o \in Pages :
           work'[q].pc = "write" /\ work'[o].pc = "write" /\ work'[q].read.at = work'[o].read.at => q = o
    BY <1>2, <1>3, <1>4, <1>5, <1>8 DEF AuditInv, StampInv, Stamped
  <2>4. ASSUME NEW q \in Pages PROVE PageStamp(page'[q], work'[q], file', clock', Pending(work'))
    <3>1. PageStamp(page[q], work[q], file, clock, Pending(work))
      BY DEF AuditInv, StampInv
    <3>2. page[q].pc \in {"asked", "polling", "fetching"} => page[q].since \in 0 .. clock
      BY <3>1 DEF PageStamp
    <3>3. page[q].pc = "asked" /\ Stamped(work'[q]) => work'[q].read.at > page[q].since
      BY <1>2, <1>3, <1>4, <1>5, <3>1, <3>2 DEF PageStamp
    <3>4. page[q].pc \in {"asked", "polling", "fetching"} =>
            page[q].since \in 0 .. clock' /\ page[q].since \notin Pending(work')
      <4> SUFFICES ASSUME page[q].pc \in {"asked", "polling", "fetching"}
                   PROVE  page[q].since \in 0 .. clock' /\ page[q].since \notin Pending(work')
        OBVIOUS
      <4>1. page[q].since \in 0 .. clock /\ page[q].since \notin Pending(work)
        BY <3>1 DEF PageStamp
      <4>2. page[q].since \in 0 .. clock + 1 /\ page[q].since # clock + 1
        BY <1>2, <4>1
      <4> QED BY <1>1, <1>9, <4>1, <4>2
    <3> QED BY <1>1, <2>2, <3>1, <3>3, <3>4 DEF PageStamp
  <2> QED BY <2>1, <2>2, <2>3, <2>4 DEF StampInv
<1> QED BY <1>6, <1>7, <1>10 DEF AuditInv

(* What is written was read and stamped by one request, and what it plans  *)
(* is the plan of that.                                                    *)
LEMMA WriteCatalogStep ==
  ASSUME AuditInv, NEW p \in Pages, WriteCatalog(p)
  PROVE  AuditInv'
<1> DEFINE r == work[p].read
           w == Planned(work[p])
<1>1. /\ UNCHANGED <<schema, clock, page>> /\ file' \in {r, Broken}
      /\ work[p].pc = "write" /\ work' = [work EXCEPT ![p] = w]
  BY DEF WriteCatalog
<1>2. /\ work[p] \in WorkRecord /\ Believable(r, schema) /\ Whole(r) /\ r \in Catalog
  <2>1. work[p] \in WorkRecord /\ SoundWork(work[p], schema)
    BY <1>1, AtWork
  <2> QED BY <1>1, <2>1 DEF SoundWork, Idle, Believable
<1>3. /\ w \in WorkRecord /\ w.pc \in {"done", "classes", "create"} /\ w.read = r
      /\ w.pc = "create" => w.todo # {}
      /\ w.pc = "done" => w.todo = Plan(r)
  <2>1. Plan(r) \subseteq Items
    BY <1>2, PlanTyped
  <2> HIDE DEF r
  <2>2. w \in WorkRecord /\ w.pc \in {"done", "classes", "create"}
    BY <1>2, <2>1 DEF WorkRecord, Planned, r
  <2>4. (w.pc = "create" => w.todo # {}) /\ (w.pc = "done" => w.todo = Plan(r))
    BY <1>2, <2>1 DEF WorkRecord, Planned, r
  <2>3. w.read = r
    BY <1>2 DEF WorkRecord, Planned, r
  <2> QED BY <2>2, <2>3, <2>4
<1> HIDE DEF w
<1>5. \A q \in Pages : work'[q] = IF q = p THEN w ELSE work[q]
  BY <1>1 DEF AuditInv, AuditType
<1>8. \A q \in Pages : Stamped(work[q]) => work[q].read.at \in 1 .. clock
  BY DEF AuditInv, StampInv
<1>6. AuditType'
  BY <1>1, <1>2, <1>3, <1>8, NoCatalog DEF AuditInv, AuditType, Stamped
<1>7. SoundInv'
  BY <1>1, <1>2, <1>3, <1>5 DEF AuditInv, SoundInv, SoundWork
<1>9. Pending(work') \subseteq Pending(work) \ {r.at} /\ r.at \in Pending(work)
  BY <1>1, <1>3, <1>5 DEF Pending, AuditInv, StampInv
<1>10. StampInv'
  <2>1. \A q \in Pages : Stamped(work'[q]) => work'[q].read.at \in 1 .. clock'
    BY <1>1, <1>3, <1>5, <1>8 DEF Stamped
  <2>2. file' \in Catalog => file'.at \notin Pending(work')
    BY <1>1, <1>9, NoCatalog
  <2>3. \A q, o \in Pages :
           work'[q].pc = "write" /\ work'[o].pc = "write" /\ work'[q].read.at = work'[o].read.at => q = o
    BY <1>3, <1>5 DEF AuditInv, StampInv
  <2>4. ASSUME NEW q \in Pages PROVE PageStamp(page'[q], work'[q], file', clock', Pending(work'))
    <3>1. PageStamp(page[q], work[q], file, clock, Pending(work))
      BY DEF AuditInv, StampInv
    <3>2. Stamped(work'[q]) => Stamped(work[q]) /\ work'[q].read.at = work[q].read.at
      BY <1>1, <1>3, <1>5 DEF Stamped
    <3>3. file' \in Catalog => file'.at = r.at
      BY <1>1, NoCatalog
    <3> QED BY <1>1, <1>9, <3>1, <3>2, <3>3 DEF PageStamp
  <2> QED BY <2>1, <2>2, <2>3, <2>4 DEF StampInv
<1> QED BY <1>6, <1>7, <1>10 DEF AuditInv

\* The creation that comes first is one of the plan.
LEMMA FirstOf ==
  ASSUME NEW todo \in SUBSET Items, todo # {}
  PROVE  (CHOOSE i \in todo : \A j \in todo : Rank(i) <= Rank(j)) \in todo
<1>1. \A i : Rank(i) \in {1, 2, 3}
  BY DEF Rank
<1>2. \E i \in todo : \A j \in todo : Rank(i) <= Rank(j)
  <2>1. CASE \E i \in todo : Rank(i) = 1
    BY <1>1, <2>1
  <2>2. CASE (\A i \in todo : Rank(i) # 1) /\ \E i \in todo : Rank(i) = 2
    BY <1>1, <2>2
  <2>3. CASE \A i \in todo : Rank(i) = 3
    BY <2>3
  <2> QED BY <1>1, <2>1, <2>2, <2>3
<1> QED BY <1>2

\* The plan is worked off in its order, and ends with a second reading.
LEMMA CreateStep ==
  ASSUME AuditInv, NEW p \in Pages, Create(p)
  PROVE  AuditInv'
<1> DEFINE item == CHOOSE i \in work[p].todo : \A j \in work[p].todo : Rank(i) <= Rank(j)
           last == [work[p] EXCEPT !.todo = {}, !.pc = "classes", !.stage = 2]
           next == [work[p] EXCEPT !.todo = work[p].todo \ {item}]
           w == IF work[p].todo = {item} THEN last ELSE next
<1>1. UNCHANGED <<file, clock, page>> /\ work[p].pc = "create"
  BY DEF Create
<1>2. /\ work[p] \in WorkRecord /\ Believable(work[p].read, schema) /\ Whole(work[p].read)
      /\ work[p].todo \in SUBSET Items /\ work[p].todo # {}
      /\ SchemaOK(schema)
  <2>1. work[p] \in WorkRecord /\ SoundWork(work[p], schema)
    BY <1>1, AtWork
  <2> QED BY <1>1, <2>1 DEF SoundWork, Idle, WorkRecord, AuditInv, AuditType
<1>3. item \in work[p].todo /\ item \in Items
  BY <1>2, FirstOf
<1> HIDE DEF item
<1>4. schema' = schema \/ (~Refused(item) /\ schema' = Created(item))
  <2>1. CASE Refused(item)
    BY <2>1 DEF Create, item
  <2>2. CASE ~Refused(item)
    BY <2>2 DEF Create, item
  <2> QED BY <2>1, <2>2
<1>5. SchemaOK(schema') /\ Grows(schema, schema')
  BY <1>2, <1>3, <1>4, CreatedGrows, SameGrows
<1>6. CASE work' = [work EXCEPT ![p].pc = "error"]
  BY <1>1, <1>5, <1>6, ErrorStep
<1>7. CASE work' = [work EXCEPT ![p] = w]
  <2>1. last \in WorkRecord /\ last.pc = "classes"
    BY <1>2 DEF WorkRecord
  <2>2. /\ next \in WorkRecord /\ next.pc = "create" /\ next.read = work[p].read
        /\ next.todo = work[p].todo \ {item}
    BY <1>1, <1>2 DEF WorkRecord
  <2>3. Believable(work[p].read, schema')
    BY <1>2, <1>5, BelievableStays
  <2> HIDE DEF last, next
  <2>4. CASE work[p].todo = {item}
    <3>1. SoundWork(last, schema')
      BY <2>1 DEF SoundWork
    <3> QED BY <1>1, <1>5, <1>7, <2>1, <2>4, <3>1, WorkStep DEF Stamped
  <2>5. CASE work[p].todo # {item}
    <3>1. SoundWork(next, schema')
      BY <1>2, <1>3, <2>2, <2>3, <2>5 DEF SoundWork
    <3> QED BY <1>1, <1>5, <1>7, <2>2, <2>5, <3>1, WorkStep DEF Stamped
  <2> QED BY <2>4, <2>5
<1> QED BY <1>6, <1>7 DEF Create, item

\* A crash forgets the requests, and no page sees anything by it.
LEMMA CrashStep ==
  ASSUME AuditInv, Crash
  PROVE  AuditInv'
<1>1. UNCHANGED <<schema, file, clock, page>> /\ \A q \in Pages : work'[q] = Idle
  BY DEF Crash
<1>2. Idle.pc = "idle"
  BY DEF Idle
<1>3. AuditType'
  BY <1>1 DEF Crash, AuditInv, AuditType
<1>4. SoundInv'
  BY <1>1 DEF AuditInv, SoundInv, SoundWork
<1>5. Pending(work') = {}
  BY <1>1, <1>2 DEF Pending
<1>6. StampInv'
  BY <1>1, <1>2, <1>5 DEF AuditInv, StampInv, PageStamp, Stamped
<1> QED BY <1>3, <1>4, <1>6 DEF AuditInv

\* What administrators create makes no catalog untrue.
LEMMA OtherStep ==
  ASSUME AuditInv, Other
  PROVE  AuditInv'
<1>1. PICK c \in DOMAIN Parent, a \in {None, Main} :
         /\ ~Refused([class |-> c, attr |-> a])
         /\ schema' = Created([class |-> c, attr |-> a])
  BY DEF Other
<1>2. [class |-> c, attr |-> a] \in Items
  BY DEF Items, Attributes
<1>3. UNCHANGED <<file, clock, page, work>> /\ SchemaOK(schema') /\ Grows(schema, schema')
  BY <1>1, <1>2, CreatedGrows DEF Other, AuditInv, AuditType
<1>4. AuditType' /\ StampInv'
  BY <1>3 DEF AuditInv, AuditType, StampInv
<1>5. SoundInv'
  BY <1>3, SoundStays DEF AuditInv, SoundInv
<1> QED BY <1>4, <1>5 DEF AuditInv

\* What is known of a page that is not idle.
LEMMA AtPage ==
  ASSUME AuditInv, NEW p \in Pages, page[p].pc # "idle"
  PROVE  /\ page[p] \in PageRecord /\ SoundPage(page[p], schema)
         /\ PageStamp(page[p], work[p], file, clock, Pending(work))
  BY DEF AuditInv, AuditType, SoundInv, StampInv, Idle

\* A status is the stamp of the file, 0 without one, or unreadable.
LEMMA StatusTyped ==
  ASSUME AuditInv
  PROVE  /\ Status \in Nat \cup {None}
         /\ file \in Catalog => Status = file.at /\ file.at \in 1 .. clock /\ file.at \in Nat
         /\ file \in {None, Broken} \/ file \in Catalog
         /\ file = None => Status = 0
         /\ file = Broken /\ file # None => Status = None
<1>1. file \in Catalog \cup {None, Broken} /\ (file \in Catalog => file.at \in 1 .. clock) /\ clock \in Nat
  BY DEF AuditInv, AuditType
<1> QED BY <1>1, NoCatalog DEF Status

\* A page that asks knows what it must not be shown.
LEMMA AskStep ==
  ASSUME AuditInv, NEW p \in Pages, NEW kind \in Kinds, Ask(p, kind)
  PROVE  AuditInv'
<1>1. UNCHANGED <<schema, file, clock>> /\ work[p] = Idle
  BY DEF Ask
<1> DEFINE since == IF file \in {None, Broken} THEN 0 ELSE file.at
           g(before) == [pc |-> "asked", kind |-> kind, before |-> before, tries |-> 0,
                         since |-> since, blind |-> before = None /\ file # None,
                         read |-> None, todo |-> {}]
<1>2. \E before \in {Status, None}, arrives \in BOOLEAN :
         /\ page' = [page EXCEPT ![p] = g(before)]
         /\ work' = IF arrives THEN [work EXCEPT ![p] = Work(kind)] ELSE work
  BY DEF Ask
<1>3. PICK before \in {Status, None}, arrives \in BOOLEAN :
         /\ page' = [page EXCEPT ![p] = g(before)]
         /\ work' = IF arrives THEN [work EXCEPT ![p] = Work(kind)] ELSE work
  BY <1>2
<1>4. since \in 0 .. clock /\ since \in Nat /\ since \notin Pending(work)
  <2>1. \A q \in Pages : work[q].pc = "write" => work[q].read.at \in 1 .. clock
    BY DEF AuditInv, StampInv, Stamped
  <2>2. 0 \notin Pending(work)
    BY <2>1 DEF Pending
  <2>3. CASE file \in {None, Broken}
    BY <2>2, <2>3 DEF AuditInv, AuditType
  <2>4. CASE file \notin {None, Broken}
    BY <2>4, StatusTyped DEF AuditInv, AuditType, StampInv
  <2> QED BY <2>3, <2>4
<1>5. g(before) \in PageRecord
  BY <1>4, StatusTyped DEF PageRecord
<1>6. SoundPage(g(before), schema')
  BY <1>5 DEF SoundPage
<1>7. \A w : ~Stamped(w) => PageStamp(g(before), w, file, clock, Pending(work))
  <2>1. before # None \/ file = None => before \in {None, since} /\ (before = None => since = 0)
    BY StatusTyped
  <2> HIDE DEF since
  <2> QED BY <1>4, <2>1 DEF PageStamp
<1> HIDE DEF g
<1>8. SchemaOK(schema') /\ Grows(schema, schema')
  BY <1>1, SameGrows
<1>9. CASE arrives
  <2>1. Work(kind) \in WorkRecord /\ Work(kind).pc = "classes"
    BY DEF WorkRecord, Work
  <2>2. work' = [work EXCEPT ![p] = Work(kind)]
    BY <1>3, <1>9
  <2>3. SoundWork(Work(kind), schema') /\ ~Stamped(Work(kind))
    BY <2>1 DEF SoundWork, Stamped
  <2> QED BY <1>1, <1>3, <1>5, <1>6, <1>7, <1>8, <2>1, <2>2, <2>3, OwnStep
<1>10. CASE ~arrives
  <2>1. work' = [work EXCEPT ![p] = Idle]
    BY <1>1, <1>3, <1>10 DEF AuditInv, AuditType
  <2>2. SoundWork(Idle, schema') /\ ~Stamped(Idle) /\ Idle.pc # "write"
    BY DEF SoundWork, Stamped, Idle
  <2> QED BY <1>1, <1>3, <1>5, <1>6, <1>7, <1>8, <2>1, <2>2, OwnStep
<1> QED BY <1>9, <1>10

\* An answer brings a catalog of its own request, stamped after it was asked.
LEMMA AnsweredStep ==
  ASSUME AuditInv, NEW p \in Pages, Answered(p)
  PROVE  AuditInv'
<1> DEFINE failed == [page[p] EXCEPT !.pc = "failed"]
           shown == [page[p] EXCEPT !.pc = "shown", !.read = work[p].read, !.todo = work[p].todo]
<1>1. /\ UNCHANGED <<schema, file, clock>> /\ page[p].pc = "asked"
      /\ work[p].pc \in {"done", "error"}
      /\ page' = [page EXCEPT ![p] = IF work[p].pc = "error" THEN failed ELSE shown]
      /\ work' = [work EXCEPT ![p] = Idle]
  BY DEF Answered
<1>2. /\ page[p] \in PageRecord /\ PageStamp(page[p], work[p], file, clock, Pending(work))
      /\ work[p] \in WorkRecord /\ SoundWork(work[p], schema) /\ work[p] # Idle
  BY <1>1, AtPage, AtWork DEF Idle
<1>3. SoundWork(Idle, schema') /\ ~Stamped(Idle) /\ Idle.pc # "write"
  BY DEF SoundWork, Stamped, Idle
<1>4. SchemaOK(schema') /\ Grows(schema, schema')
  BY <1>1, SameGrows
<1>5. failed \in PageRecord /\ failed.pc = "failed"
  BY <1>2 DEF PageRecord
<1>6. /\ shown \in PageRecord /\ shown.pc = "shown" /\ shown.read = work[p].read
      /\ shown.todo = work[p].todo /\ shown.since = page[p].since
  BY <1>2 DEF PageRecord, WorkRecord
<1> HIDE DEF failed, shown
<1>7. CASE work[p].pc = "error"
  <2>1. SoundPage(failed, schema') /\ PageStamp(failed, Idle, file, clock, Pending(work))
    BY <1>5 DEF SoundPage, PageStamp
  <2> QED BY <1>1, <1>3, <1>4, <1>5, <1>7, <2>1, OwnStep
<1>8. CASE work[p].pc # "error"
  <2>1. work[p].pc = "done"
    BY <1>1, <1>8
  <2>2. SoundPage(shown, schema')
    BY <1>1, <1>2, <1>6, <2>1 DEF SoundPage, SoundWork
  <2>3. work[p].read.at > page[p].since /\ work[p].read.at \in Nat /\ page[p].since \in Nat
    BY <1>1, <1>2, <2>1 DEF PageStamp, Stamped, SoundWork, Believable, Catalog, PageRecord
  <2>4. PageStamp(shown, Idle, file, clock, Pending(work))
    BY <1>6, <2>3 DEF PageStamp
  <2> QED BY <1>1, <1>3, <1>4, <1>6, <1>8, <2>2, <2>4, OwnStep
<1> QED BY <1>7, <1>8

\* A synchronisation whose answer is lost goes on to look; it knows what it knew.
LEMMA NetworkErrorStep ==
  ASSUME AuditInv, NEW p \in Pages, NetworkError(p)
  PROVE  AuditInv'
<1> DEFINE g == [page[p] EXCEPT !.pc = IF page[p].kind = "sync" THEN "polling" ELSE "failed"]
<1>1. /\ UNCHANGED <<schema, file, clock, work>> /\ page[p].pc = "asked"
      /\ page' = [page EXCEPT ![p] = g]
  BY DEF NetworkError
<1>2. page[p] \in PageRecord /\ PageStamp(page[p], work[p], file, clock, Pending(work))
  BY <1>1, AtPage
<1>3. /\ g \in PageRecord /\ g.pc \in {"polling", "failed"} /\ (g.pc = "polling" => g.kind = "sync")
      /\ g.since = page[p].since /\ g.blind = page[p].blind /\ g.before = page[p].before
  BY <1>2 DEF PageRecord
<1> HIDE DEF g
<1>4. SoundPage(g, schema)
  BY <1>3 DEF SoundPage
<1>5. PageStamp(g, work[p], file, clock, Pending(work))
  BY <1>1, <1>2, <1>3 DEF PageStamp
<1> QED BY <1>1, <1>3, <1>4, <1>5, PageStep

\* An answer nobody waits for is dropped.
LEMMA FinishStep ==
  ASSUME AuditInv, NEW p \in Pages, Finish(p)
  PROVE  AuditInv'
<1>1. UNCHANGED <<schema, file, clock, page>> /\ work' = [work EXCEPT ![p] = Idle]
  BY DEF Finish
<1>2. SoundWork(Idle, schema') /\ ~Stamped(Idle) /\ Idle.pc # "write"
  BY DEF SoundWork, Stamped, Idle
<1> QED BY <1>1, <1>2, SameGrows, WorkStep

\* A page believes a stamp that is later than the one it knew.
LEMMA PollStep ==
  ASSUME AuditInv, NEW p \in Pages, Poll(p)
  PROVE  AuditInv'
<1>1. UNCHANGED <<schema, file, clock, work>> /\ page[p].pc = "polling"
  BY DEF Poll
<1>2. PICK status \in {Status, None} : page' = [page EXCEPT ![p] =
         IF Newer(status, page[p].before) THEN [page[p] EXCEPT !.pc = "fetching"]
         ELSE IF page[p].tries + 1 < Attempts THEN [page[p] EXCEPT !.tries = page[p].tries + 1]
         ELSE [page[p] EXCEPT !.pc = "failed"]]
  BY DEF Poll
<1>3. /\ page[p] \in PageRecord /\ PageStamp(page[p], work[p], file, clock, Pending(work))
      /\ SoundPage(page[p], schema) /\ page[p].kind = "sync"
  BY <1>1, AtPage DEF SoundPage, Idle
<1> DEFINE fetching == [page[p] EXCEPT !.pc = "fetching"]
           again == [page[p] EXCEPT !.tries = page[p].tries + 1]
           failed == [page[p] EXCEPT !.pc = "failed"]
<1>4. /\ fetching \in PageRecord /\ fetching.pc = "fetching" /\ fetching.kind = "sync"
      /\ fetching.since = page[p].since /\ fetching.blind = page[p].blind
      /\ fetching.before = page[p].before
  BY <1>3 DEF PageRecord
<1>5. /\ again \in PageRecord /\ again.pc = "polling" /\ again.kind = "sync"
      /\ again.since = page[p].since /\ again.blind = page[p].blind
      /\ again.before = page[p].before
  BY <1>1, <1>3 DEF PageRecord
<1>6. failed \in PageRecord /\ failed.pc = "failed"
  BY <1>3 DEF PageRecord
<1> HIDE DEF fetching, again, failed
<1>7. CASE Newer(status, page[p].before)
  <2>1. ~page[p].blind /\ file \in Catalog => file.at # page[p].since
    <3>1. file \in Catalog => status = file.at /\ file.at \in Nat
      BY <1>7, StatusTyped DEF Newer
    <3>2. /\ page[p].before \in Nat \cup {None} /\ page[p].since \in Nat
          /\ ~page[p].blind => page[p].before \in {None, page[p].since}
                               /\ (page[p].before = None => page[p].since = 0)
      BY <1>1, <1>3 DEF PageStamp, PageRecord
    <3> QED BY <1>7, <3>1, <3>2 DEF Newer
  <2>2. SoundPage(fetching, schema)
    BY <1>4 DEF SoundPage
  <2>3. PageStamp(fetching, work[p], file, clock, Pending(work))
    BY <1>1, <1>3, <1>4, <2>1 DEF PageStamp
  <2> QED BY <1>1, <1>2, <1>4, <1>7, <2>2, <2>3, PageStep DEF fetching
<1>8. CASE ~Newer(status, page[p].before) /\ page[p].tries + 1 < Attempts
  <2>1. SoundPage(again, schema)
    BY <1>5 DEF SoundPage
  <2>2. PageStamp(again, work[p], file, clock, Pending(work))
    BY <1>1, <1>3, <1>5 DEF PageStamp
  <2> QED BY <1>1, <1>2, <1>5, <1>8, <2>1, <2>2, PageStep DEF again
<1>9. CASE ~Newer(status, page[p].before) /\ ~(page[p].tries + 1 < Attempts)
  <2>1. SoundPage(failed, schema) /\ PageStamp(failed, work[p], file, clock, Pending(work))
    BY <1>6 DEF SoundPage, PageStamp
  <2> QED BY <1>1, <1>2, <1>6, <1>9, <2>1, PageStep DEF failed
<1> QED BY <1>7, <1>8, <1>9

\* It fetches what the file has then.
LEMMA FetchStep ==
  ASSUME AuditInv, NEW p \in Pages, Fetch(p)
  PROVE  AuditInv'
<1> DEFINE failed == [page[p] EXCEPT !.pc = "failed"]
           shown == [page[p] EXCEPT !.pc = "shown", !.read = file]
<1>1. /\ UNCHANGED <<schema, file, clock, work>> /\ page[p].pc = "fetching"
      /\ page' = [page EXCEPT ![p] = IF file \in {None, Broken} THEN failed ELSE shown]
  BY DEF Fetch
<1>2. /\ page[p] \in PageRecord /\ PageStamp(page[p], work[p], file, clock, Pending(work))
      /\ SoundPage(page[p], schema) /\ page[p].kind = "sync"
  BY <1>1, AtPage DEF SoundPage, Idle
<1>3. CASE file \in {None, Broken}
  <2>1. failed \in PageRecord /\ failed.pc = "failed"
    BY <1>2 DEF PageRecord
  <2> HIDE DEF failed
  <2>2. SoundPage(failed, schema) /\ PageStamp(failed, work[p], file, clock, Pending(work))
    BY <2>1 DEF SoundPage, PageStamp
  <2> QED BY <1>1, <1>3, <2>1, <2>2, PageStep
<1>4. CASE file \notin {None, Broken}
  <2>1. file \in Catalog
    BY <1>4, StatusTyped
  <2>2. /\ shown \in PageRecord /\ shown.pc = "shown" /\ shown.read = file /\ shown.kind = "sync"
        /\ shown.since = page[p].since /\ shown.blind = page[p].blind
    BY <1>2, <2>1 DEF PageRecord
  <2> HIDE DEF shown
  <2>3. SoundPage(shown, schema)
    BY <2>2 DEF SoundPage
  <2>4. PageStamp(shown, work[p], file, clock, Pending(work))
    BY <1>1, <1>2, <2>1, <2>2 DEF PageStamp
  <2> QED BY <1>1, <1>4, <2>2, <2>3, <2>4, PageStep
<1> QED BY <1>3, <1>4

-----------------------------------------------------------------------------
(* What the invariant says of pages. *)

\* The invariant holds at first: there is no catalog and no request.
LEMMA AuditInitially == BulkInit => AuditInv
<1> SUFFICES ASSUME BulkInit PROVE AuditInv
  OBVIOUS
<1>1. /\ schema = [c \in budget.classes |-> {}] /\ budget.classes \subseteq DOMAIN Parent
      /\ file = None /\ clock = 0
      /\ page = [p \in Pages |-> Idle] /\ work = [p \in Pages |-> Idle]
  BY DEF BulkInit, Init
<1>2. Idle.pc = "idle"
  BY DEF Idle
<1>3. AuditType
  BY <1>1, NoCatalog DEF AuditType, SchemaOK
<1>4. SoundInv
  BY <1>1 DEF SoundInv, SoundWork, SoundPage
<1>5. Pending(work) = {}
  BY <1>1, <1>2 DEF Pending
<1>6. StampInv
  BY <1>1, <1>2, <1>5, NoCatalog DEF StampInv, PageStamp, Stamped
<1> QED BY <1>3, <1>4, <1>6 DEF AuditInv

\* The bulk operations leave the catalog alone, but for a crash of the BFF.
LEMMA AuditStep == AuditInv /\ [BulkNext]_allVars => AuditInv'
<1> SUFFICES ASSUME AuditInv, [BulkNext]_allVars PROVE AuditInv'
  OBVIOUS
<1>1. CASE UNCHANGED <<schema, file, clock, page, work>>
  BY <1>1 DEF AuditInv, AuditType, SoundInv, StampInv
<1>2. CASE Crash
  BY <1>2, CrashStep
<1>3. CASE Other
  BY <1>3, OtherStep
<1>4. ASSUME NEW p \in Pages, NEW kind \in Kinds, Ask(p, kind) PROVE AuditInv'
  BY <1>4, AskStep
<1>5. ASSUME NEW p \in Pages,
             Answered(p) \/ NetworkError(p) \/ Finish(p) \/ Poll(p) \/ Fetch(p)
      PROVE  AuditInv'
  BY <1>5, AnsweredStep, NetworkErrorStep, FinishStep, PollStep, FetchStep
<1>6. ASSUME NEW p \in Pages,
             ReadClasses(p) \/ ReadAttributes(p) \/ Truncate(p) \/ WriteCatalog(p) \/ Create(p)
      PROVE  AuditInv'
  BY <1>6, ReadClassesStep, ReadAttributesStep, TruncateStep, WriteCatalogStep, CreateStep
<1>7. ASSUME NEW p \in Pages,
             \/ \E filter \in BOOLEAN : StartBulk(p, filter)
             \/ Deliver(p) \/ Lose(p) \/ Respond(p) \/ Forget(p)
             \/ ReadCards(p) \/ FailToRead(p) \/ PassOver(p) \/ Turn(p)
      PROVE  UNCHANGED <<schema, file, clock, page, work>>
  BY <1>7 DEF StartBulk, Deliver, Lose, Respond, Forget, ReadCards, FailToRead, BatchError, PassOver,
              Turn, vars
<1>8. InsertCard \/ RemoveCard \/ Bind => UNCHANGED <<schema, file, clock, page, work>>
  BY DEF InsertCard, RemoveCard, Bind
<1>9. BulkCrash => Crash
  BY DEF BulkCrash
<1>10. UNCHANGED allVars => UNCHANGED <<schema, file, clock, page, work>>
  BY DEF allVars, vars
<1> QED BY <1>1, <1>2, <1>3, <1>4, <1>5, <1>6, <1>7, <1>8, <1>9, <1>10 DEF BulkNext, Kinds

(* What a page shows is true: a catalog it calls synchronised is not the   *)
(* one from before, and a ready audit model is complete.                   *)
LEMMA AuditSafe == AuditInv => SyncedIsNew /\ ReadyIsComplete
<1> SUFFICES ASSUME AuditInv PROVE SyncedIsNew /\ ReadyIsComplete
  OBVIOUS
<1>1. SyncedIsNew
  BY DEF AuditInv, StampInv, PageStamp, SyncedIsNew
<1>2. ASSUME NEW p \in Pages, page[p].pc = "shown", page[p].kind # "sync", page[p].todo = {}
      PROVE  /\ \A c \in Participating \cap page[p].read.classes : Main \in Inherited(c)
             /\ Binding \in DOMAIN schema /\ BindingAttrs \subseteq Inherited(Binding)
  <2> DEFINE r == page[p].read
  <2>1. Believable(r, schema) /\ Whole(r) /\ Plan(r) = {}
    BY <1>2, AtPage DEF SoundPage, Idle
  <2> HIDE DEF r
  <2>2. ASSUME NEW c \in Participating \cap r.classes, ~Has(r, c, Main) PROVE FALSE
    <3>1. [class |-> c, attr |-> Main] \in Plan(r)
      BY <2>2 DEF Plan
    <3> QED BY <2>1, <3>1
  <2>3. Binding \in r.classes
    BY <2>1 DEF Plan
  <2>4. ASSUME NEW a \in BindingAttrs, ~Has(r, Binding, a) PROVE FALSE
    <3>1. [class |-> Binding, attr |-> a] \in Plan(r)
      BY <2>4 DEF Plan
    <3> QED BY <2>1, <3>1
  <2>5. \A c, a : Has(r, c, a) => c \in DOMAIN schema /\ a \in Inherited(c)
    BY <2>1, InheritedIs DEF Has, Believable, Whole
  <2> QED BY <2>2, <2>3, <2>4, <2>5, <2>1 DEF r, Believable
<1> QED BY <1>1, <1>2 DEF ReadyIsComplete

(* A page that says "synchronised" does not show the catalog that was      *)
(* there when it asked, if it knew that one's status: a page without it    *)
(* accepts the first catalog it finds, old or new.                         *)
THEOREM SyncedIsNewHolds == BulkSpec => []SyncedIsNew
  BY AuditInitially, AuditStep, AuditSafe, PTL DEF BulkSpec

\* A page that says the audit model is ready is right.
THEOREM ReadyIsCompleteHolds == BulkSpec => []ReadyIsComplete
  BY AuditInitially, AuditStep, AuditSafe, PTL DEF BulkSpec

-----------------------------------------------------------------------------
(* The bulk operations.  b, t and y are the operation, the batch and the   *)
(* history of one page, cs the cards.                                      *)
HIDE AuditAssumption

ReadBatch == [pc |-> "read"]
BulkRecord == [pc : {"asking", "waiting", "done", "failed"}, filter : BOOLEAN, offset : Nat,
               tries : Nat, changed : Nat, failed : SUBSET Ids]
BatchRecord == [pc : {"turn", "done"}, todo : Seq(CardSet), total : Nat, reported : Nat,
                changed : Nat, failed : SUBSET Ids]
TallyRecord == [turned : [Ids -> Nat], spared : SUBSET CardSet, crashes : Nat, inserted : Nat,
                removed : Nat]

UniqueIds(cs) == \A i, j \in DOMAIN cs : cs[i].id = cs[j].id => i = j

BulkType ==
    /\ cards \in Seq(CardSet) /\ UniqueIds(cards)
    /\ bulk \in [Pages -> BulkRecord \cup {Idle}]
    /\ batch \in [Pages -> BatchRecord \cup {Unasked, ReadBatch}]
    /\ tally \in [Pages -> TallyRecord]

HasRead(t) == t.pc \in {"turn", "done"}
Open(b) == b.pc \in {"asking", "waiting"}
InTodo(t, id) == t.pc = "turn" /\ \E j \in DOMAIN t.todo : t.todo[j].id = id
After(cs, id, k) == \E i \in DOMAIN cs : i > k /\ cs[i].id = id

\* Where the batch after this one begins.
NextOffset(b, t) == b.offset + (IF HasRead(t) THEN t.total ELSE 0)

\* A card that a batch has still to read.
Ahead(b, t, cs, id) == (Open(b) \/ t.pc = "read") /\ After(cs, id, NextOffset(b, t))

BatchOK(b, t) ==
    /\ b.pc \in {"idle", "done"} => t = Unasked
    /\ t.pc = "turn" => t.todo # <<>> /\ UniqueIds(t.todo)

(* Every card has one turn left at most: it was turned, or is in the       *)
(* batch, or ahead of it.  A crash and an insertion give it another.       *)
Times(condition) == IF condition THEN 1 ELSE 0
OnceOK(b, t, y, cs) ==
    \A id \in Ids : y.turned[id] + Times(InTodo(t, id)) + Times(Ahead(b, t, cs, id))
                      <= 1 + y.crashes + y.inserted

\* Card c was turned, or reported as failed.
Settles(b, y, c) == y.turned[c.id] > 0 \/ c.id \in b.failed

(* As long as nobody removes a card, those that nobody touched are there,  *)
(* and each that the filter lets through is settled, in the batch, or      *)
(* ahead of a batch that is not the last; and ahead of where this batch    *)
(* began, should it be forgotten.                                          *)
SparedOK(b, t, y, cs) ==
    \A c \in y.spared :
        /\ \E i \in DOMAIN cs : cs[i].id = c.id /\ cs[i].main = c.main
        /\ t.pc = "turn" => \A j \in DOMAIN t.todo : t.todo[j].id = c.id => t.todo[j].main = c.main
        /\ (b.filter => ~c.main) =>
             /\ b.pc = "done" => Settles(b, y, c)
             /\ Open(b) => Settles(b, y, c) \/ After(cs, c.id, b.offset)
             /\ Open(b) /\ HasRead(t) =>
                  \/ Settles(b, y, c) \/ c.id \in t.failed \/ InTodo(t, c.id)
                  \/ ~Ends(t, NextOffset(b, t)) /\ After(cs, c.id, NextOffset(b, t))

Good(b, t, y, cs) ==
    BatchOK(b, t) /\ OnceOK(b, t, y, cs) /\ (y.removed = 0 => SparedOK(b, t, y, cs))

BulkInv == BulkType /\ \A p \in Pages : Good(bulk[p], batch[p], tally[p], cards)

-----------------------------------------------------------------------------
(* What the invariant knows of the cards: their order, ids and flags. *)

SameCards(cs, ds) ==
    DOMAIN ds = DOMAIN cs /\ \A i \in DOMAIN cs : ds[i].id = cs[i].id /\ ds[i].main = cs[i].main

\* The same cards are behind an offset.
LEMMA SameAfter ==
  ASSUME NEW cs, NEW ds, SameCards(cs, ds)
  PROVE  \A id, k : After(ds, id, k) <=> After(cs, id, k)
  BY DEF SameCards, After

\* Values of cards do not matter.
LEMMA GoodCards ==
  ASSUME NEW cs, NEW ds, SameCards(cs, ds)
  PROVE  \A b, t, y : Good(b, t, y, cs) => Good(b, t, y, ds)
<1> SUFFICES ASSUME NEW b, NEW t, NEW y, Good(b, t, y, cs) PROVE Good(b, t, y, ds)
  OBVIOUS
<1>1. \A id, k : After(ds, id, k) <=> After(cs, id, k)
  BY SameAfter
<1>2. \A id : Ahead(b, t, ds, id) <=> Ahead(b, t, cs, id)
  BY <1>1 DEF Ahead
<1>3. OnceOK(b, t, y, ds)
  BY <1>2 DEF Good, OnceOK, Times
<1>4. y.removed = 0 => SparedOK(b, t, y, ds)
  <2> SUFFICES ASSUME y.removed = 0, NEW c \in y.spared
               PROVE  /\ \E i \in DOMAIN ds : ds[i].id = c.id /\ ds[i].main = c.main
                      /\ \A k : After(cs, c.id, k) => After(ds, c.id, k)
    BY DEF Good, SparedOK
  <2> QED BY <1>1 DEF Good, SparedOK, SameCards
<1> QED BY <1>3, <1>4 DEF Good

(* What page p and its batch do keeps the invariant, where the ids and     *)
(* flags of the cards stay.                                                *)
LEMMA OpStep ==
  ASSUME BulkInv, NEW p \in Pages, NEW b \in BulkRecord, NEW t \in BatchRecord \cup {Unasked, ReadBatch},
         NEW y \in TallyRecord, bulk' = [bulk EXCEPT ![p] = b], batch' = [batch EXCEPT ![p] = t],
         tally' = [tally EXCEPT ![p] = y], cards' \in Seq(CardSet), SameCards(cards, cards'),
         Good(b, t, y, cards)
  PROVE  BulkInv'
<1>1. BulkType'
  <2>1. UniqueIds(cards')
    BY DEF BulkInv, BulkType, UniqueIds, SameCards
  <2> QED BY <2>1 DEF BulkInv, BulkType
<1>2. ASSUME NEW q \in Pages PROVE Good(bulk'[q], batch'[q], tally'[q], cards')
  <2>1. Good(bulk'[q], batch'[q], tally'[q], cards)
    BY DEF BulkInv, BulkType
  <2> QED BY <2>1, GoodCards
<1> QED BY <1>1, <1>2 DEF BulkInv

\* The same where the cards and the history stay.
LEMMA QuietStep ==
  ASSUME BulkInv, NEW p \in Pages, NEW b \in BulkRecord, NEW t \in BatchRecord \cup {Unasked, ReadBatch},
         bulk' = [bulk EXCEPT ![p] = b], batch' = [batch EXCEPT ![p] = t], UNCHANGED <<cards, tally>>,
         Good(b, t, tally[p], cards)
  PROVE  BulkInv'
<1>1. tally' = [tally EXCEPT ![p] = tally[p]] /\ tally[p] \in TallyRecord
  BY DEF BulkInv, BulkType
<1>2. cards' \in Seq(CardSet) /\ SameCards(cards, cards')
  BY DEF BulkInv, BulkType, SameCards
<1> QED BY <1>1, <1>2, OpStep

\* What is known of an operation that is not idle, and of its batch.
LEMMA AtOp ==
  ASSUME BulkInv, NEW p \in Pages
  PROVE  /\ Good(bulk[p], batch[p], tally[p], cards) /\ tally[p] \in TallyRecord
         /\ bulk[p].pc # "idle" => bulk[p] \in BulkRecord
         /\ HasRead(batch[p]) => batch[p] \in BatchRecord
         /\ ~HasRead(batch[p]) => batch[p] \in {Unasked, ReadBatch}
         /\ batch[p].pc \notin {"none", "read"} => HasRead(batch[p])
         /\ batch[p].pc = "none" => batch[p] = Unasked
         /\ batch[p].pc = "read" => batch[p] = ReadBatch
         /\ batch[p] \in BatchRecord \cup {Unasked, ReadBatch}
<1>1. /\ bulk[p] \in BulkRecord \cup {Idle} /\ batch[p] \in BatchRecord \cup {Unasked, ReadBatch}
      /\ tally[p] \in TallyRecord /\ Good(bulk[p], batch[p], tally[p], cards)
  BY DEF BulkInv, BulkType
<1>2. \A t \in BatchRecord : t.pc \in {"turn", "done"}
  BY DEF BatchRecord
<1>3. Idle.pc = "idle" /\ Unasked.pc = "none" /\ ReadBatch.pc = "read"
  BY DEF Idle, Unasked, ReadBatch
<1> QED BY <1>1, <1>2, <1>3 DEF HasRead

-----------------------------------------------------------------------------
(* The steps of a page. *)

\* A new operation has all cards ahead of it, and has turned none.
LEMMA StartBulkStep ==
  ASSUME BulkInv, NEW p \in Pages, NEW filter \in BOOLEAN, StartBulk(p, filter)
  PROVE  BulkInv'
<1> DEFINE b == [pc |-> "asking", filter |-> filter, offset |-> 0, tries |-> 0, changed |-> 0, failed |-> {}]
           y == [turned |-> [c \in Ids |-> 0], spared |-> {cards[i] : i \in DOMAIN cards},
                 crashes |-> 0, inserted |-> 0, removed |-> 0]
<1>1. /\ batch[p] = Unasked /\ UNCHANGED <<cards, batch>>
      /\ bulk' = [bulk EXCEPT ![p] = b] /\ tally' = [tally EXCEPT ![p] = y]
  BY DEF StartBulk
<1>2. cards \in Seq(CardSet) /\ DOMAIN cards = 1 .. Len(cards) /\ Len(cards) \in Nat
  BY DEF BulkInv, BulkType
<1>3. batch' = [batch EXCEPT ![p] = Unasked]
  BY <1>1 DEF BulkInv, BulkType
<1>4. b \in BulkRecord /\ y \in TallyRecord
  <2>1. \A i \in DOMAIN cards : cards[i] \in CardSet
    BY <1>2
  <2> QED BY <2>1 DEF BulkRecord, TallyRecord
<1>5. cards' \in Seq(CardSet) /\ SameCards(cards, cards')
  BY <1>1, <1>2 DEF SameCards
<1>6. Unasked.pc = "none"
  BY DEF Unasked
<1>7. BatchOK(b, Unasked)
  BY <1>6 DEF BatchOK
<1>8. OnceOK(b, Unasked, y, cards)
  BY <1>6 DEF OnceOK, Times, InTodo
<1>9. SparedOK(b, Unasked, y, cards)
  <2> SUFFICES ASSUME NEW i \in DOMAIN cards
               PROVE  /\ \E k \in DOMAIN cards : cards[k].id = cards[i].id /\ cards[k].main = cards[i].main
                      /\ After(cards, cards[i].id, 0)
    BY <1>6 DEF SparedOK, HasRead
  <2> QED BY <1>2 DEF After
<1> HIDE DEF b, y
<1> QED BY <1>1, <1>3, <1>4, <1>5, <1>7, <1>8, <1>9, OpStep DEF Good

(* An operation that asks as before or no more, with a batch that has read *)
(* as much as before, has no more left.                                    *)
LEMMA NoMoreLeft ==
  ASSUME NEW b, NEW c, NEW t, NEW u, NEW y, NEW cs, Good(b, t, y, cs),
         c.offset = b.offset, c.filter = b.filter, c.failed = b.failed,
         c.pc \notin {"idle", "done"}, Open(c) => Open(b),
         \/ u = t
         \/ ~HasRead(t) /\ ~HasRead(u) /\ (u.pc = "read" => Open(b) \/ t.pc = "read"),
         y \in TallyRecord
  PROVE  Good(c, u, y, cs)
<1>1. BatchOK(c, u)
  BY DEF Good, BatchOK, HasRead
<1>2. NextOffset(c, u) = NextOffset(b, t)
  BY DEF NextOffset
<1>3. \A id : InTodo(u, id) <=> InTodo(t, id)
  BY DEF InTodo, HasRead
<1>4. \A id : Ahead(c, u, cs, id) => Ahead(b, t, cs, id)
  BY <1>2 DEF Ahead
<1>5. OnceOK(c, u, y, cs)
  <2> SUFFICES ASSUME NEW id \in Ids
               PROVE  y.turned[id] + Times(InTodo(u, id)) + Times(Ahead(c, u, cs, id))
                        <= 1 + y.crashes + y.inserted
    BY DEF OnceOK
  <2>1. y.turned[id] + Times(InTodo(t, id)) + Times(Ahead(b, t, cs, id)) <= 1 + y.crashes + y.inserted
    BY DEF Good, OnceOK
  <2>2. y.turned[id] \in Nat /\ y.crashes \in Nat /\ y.inserted \in Nat
    BY DEF TallyRecord
  <2> QED BY <1>3, <1>4, <2>1, <2>2 DEF Times
<1>6. ASSUME y.removed = 0 PROVE SparedOK(c, u, y, cs)
  <2> SUFFICES ASSUME NEW d \in y.spared
               PROVE  /\ u.pc = "turn" => \A j \in DOMAIN u.todo : u.todo[j].id = d.id => u.todo[j].main = d.main
                      /\ (c.filter => ~d.main) =>
                           /\ Open(c) => Settles(c, y, d) \/ After(cs, d.id, c.offset)
                           /\ Open(c) /\ HasRead(u) =>
                                \/ Settles(c, y, d) \/ d.id \in u.failed \/ InTodo(u, d.id)
                                \/ ~Ends(u, NextOffset(c, u)) /\ After(cs, d.id, NextOffset(c, u))
    BY <1>6 DEF Good, SparedOK
  <2>1. Settles(c, y, d) <=> Settles(b, y, d)
    BY DEF Settles
  <2>2. u.pc = "turn" \/ HasRead(u) => u = t
    BY DEF HasRead
  <2> QED BY <1>2, <1>6, <2>1, <2>2 DEF Good, SparedOK
<1> QED BY <1>1, <1>5, <1>6 DEF Good

\* A request that arrives joins the batch there is, or begins one.
LEMMA DeliverStep ==
  ASSUME BulkInv, NEW p \in Pages, Deliver(p)
  PROVE  BulkInv'
<1> DEFINE b == [bulk[p] EXCEPT !.pc = "waiting"]
<1>1. /\ bulk[p].pc = "asking" /\ UNCHANGED <<cards, tally>>
      /\ bulk' = [bulk EXCEPT ![p] = b] /\ batch' = [batch EXCEPT ![p] = Join(p)]
  BY DEF Deliver
<1>2. b \in BulkRecord /\ b.pc = "waiting" /\ b.offset = bulk[p].offset /\ b.filter = bulk[p].filter
      /\ b.failed = bulk[p].failed
  <2>1. bulk[p] \in BulkRecord
    BY <1>1, AtOp
  <2> QED BY <2>1 DEF BulkRecord
<1> HIDE DEF b
<1>3. /\ Join(p) = batch[p] \/ (batch[p] = Unasked /\ Join(p) = ReadBatch)
      /\ Join(p) \in BatchRecord \cup {Unasked, ReadBatch}
  BY AtOp DEF Join, ReadBatch
<1>4. ~HasRead(Unasked) /\ ~HasRead(ReadBatch) /\ Open(bulk[p])
  BY <1>1 DEF HasRead, Unasked, ReadBatch, Open
<1>5. Good(b, Join(p), tally[p], cards)
  BY <1>2, <1>3, <1>4, AtOp, NoMoreLeft
<1> QED BY <1>1, <1>2, <1>3, <1>5, QuietStep

\* A lost request or answer changes only who waits.
LEMMA LoseStep ==
  ASSUME BulkInv, NEW p \in Pages, Lose(p)
  PROVE  BulkInv'
<1> DEFINE again == [bulk[p] EXCEPT !.pc = "asking", !.tries = bulk[p].tries + 1]
           failed == [bulk[p] EXCEPT !.pc = "failed"]
<1>1. /\ Open(bulk[p]) /\ UNCHANGED <<cards, batch, tally>>
      /\ bulk' = [bulk EXCEPT ![p] = IF bulk[p].tries + 1 < Repeats THEN again ELSE failed]
  BY DEF Lose, Open
<1>2. bulk[p] \in BulkRecord
  BY <1>1, AtOp DEF Open
<1>3. batch' = [batch EXCEPT ![p] = batch[p]]
  BY <1>1 DEF BulkInv, BulkType
<1>4. \E b \in {again, failed} : bulk' = [bulk EXCEPT ![p] = b]
  BY <1>1
<1>5. ASSUME NEW b \in {again, failed} PROVE b \in BulkRecord /\ Good(b, batch[p], tally[p], cards)
  <2> DEFINE like(r) == /\ r \in BulkRecord /\ r.pc \in {"asking", "failed"} /\ r.offset = bulk[p].offset
                        /\ r.filter = bulk[p].filter /\ r.failed = bulk[p].failed
  <2>2. like(again)
    <3>1. bulk[p].tries + 1 \in Nat
      BY <1>2 DEF BulkRecord
    <3>2. again \in BulkRecord
      BY <1>2, <3>1 DEF BulkRecord
    <3>3. again.pc = "asking" /\ again.offset = bulk[p].offset
      BY <1>2 DEF BulkRecord
    <3>4. again.filter = bulk[p].filter /\ again.failed = bulk[p].failed
      BY <1>2 DEF BulkRecord
    <3> QED BY <3>2, <3>3, <3>4
  <2>3. like(failed)
    BY <1>2 DEF BulkRecord
  <2>1. like(b)
    BY <2>2, <2>3
  <2> HIDE DEF again, failed
  <2> QED BY <1>1, <2>1, AtOp, NoMoreLeft
<1> HIDE DEF again, failed
<1> QED BY <1>1, <1>3, <1>4, <1>5, QuietStep, AtOp

\* A batch that cannot read has turned nothing.
LEMMA FailToReadStep ==
  ASSUME BulkInv, NEW p \in Pages, FailToRead(p)
  PROVE  BulkInv'
<1> DEFINE b == [bulk[p] EXCEPT !.pc = IF bulk[p].pc = "waiting" THEN "failed" ELSE bulk[p].pc]
<1>1. /\ batch[p].pc = "read" /\ UNCHANGED <<cards, tally>>
      /\ bulk' = [bulk EXCEPT ![p] = b] /\ batch' = [batch EXCEPT ![p] = Unasked]
  BY DEF FailToRead, BatchError
<1>2. bulk[p].pc \notin {"idle", "done"} /\ bulk[p] \in BulkRecord
  BY <1>1, AtOp DEF Good, BatchOK, Unasked
<1>3. b \in BulkRecord /\ b.pc \in {"asking", "failed"} /\ b.offset = bulk[p].offset
      /\ b.filter = bulk[p].filter /\ b.failed = bulk[p].failed /\ (Open(b) => Open(bulk[p]))
  BY <1>2 DEF BulkRecord, Open
<1> HIDE DEF b
<1>4. ~HasRead(batch[p]) /\ ~HasRead(Unasked) /\ Unasked.pc = "none"
  BY <1>1 DEF HasRead, Unasked
<1>5. Good(b, Unasked, tally[p], cards)
  BY <1>3, <1>4, AtOp, NoMoreLeft
<1> QED BY <1>1, <1>3, <1>5, QuietStep

\* A finished batch nobody waits for is dropped.
LEMMA ForgetStep ==
  ASSUME BulkInv, NEW p \in Pages, Forget(p)
  PROVE  BulkInv'
<1>1. /\ bulk[p].pc = "failed" /\ batch[p].pc = "done" /\ UNCHANGED <<cards, bulk, tally>>
      /\ batch' = [batch EXCEPT ![p] = Unasked]
  BY DEF Forget
<1>2. bulk[p] \in BulkRecord /\ bulk' = [bulk EXCEPT ![p] = bulk[p]]
  BY <1>1, AtOp DEF BulkInv, BulkType
<1>3. Unasked.pc = "none" /\ ~Open(bulk[p]) /\ tally[p] \in TallyRecord
  BY <1>1, AtOp DEF Unasked, Open
<1>4. BatchOK(bulk[p], Unasked)
  BY <1>3 DEF BatchOK
<1>5. OnceOK(bulk[p], Unasked, tally[p], cards)
  <2> SUFFICES ASSUME NEW id \in Ids PROVE tally[p].turned[id] <= 1 + tally[p].crashes + tally[p].inserted
    BY <1>3 DEF OnceOK, Times, InTodo, Ahead, TallyRecord
  <2>1. tally[p].turned[id] + Times(InTodo(batch[p], id)) + Times(Ahead(bulk[p], batch[p], cards, id))
          <= 1 + tally[p].crashes + tally[p].inserted
    BY AtOp DEF Good, OnceOK
  <2>2. tally[p].turned[id] \in Nat /\ tally[p].crashes \in Nat /\ tally[p].inserted \in Nat
    BY <1>3 DEF TallyRecord
  <2> QED BY <2>1, <2>2 DEF Times
<1>6. tally[p].removed = 0 => SparedOK(bulk[p], Unasked, tally[p], cards)
  BY <1>1, <1>3, AtOp DEF Good, SparedOK, HasRead
<1> QED BY <1>1, <1>2, <1>4, <1>5, <1>6, QuietStep DEF Good

\* The next batch begins where this one ended, unless it was the last.
LEMMA RespondStep ==
  ASSUME BulkInv, NEW p \in Pages, Respond(p)
  PROVE  BulkInv'
<1> DEFINE old == bulk[p]
           result == batch[p]
           y == tally[p]
           offset == old.offset + result.total
           b == [old EXCEPT !.offset = offset, !.tries = 0, !.changed = old.changed + result.changed,
                            !.failed = old.failed \cup result.failed,
                            !.pc = IF Ends(result, offset) THEN "done" ELSE "asking"]
<1>1. /\ old.pc = "waiting" /\ result.pc = "done" /\ UNCHANGED <<cards, tally>>
      /\ bulk' = [bulk EXCEPT ![p] = b] /\ batch' = [batch EXCEPT ![p] = Unasked]
  BY DEF Respond
<1>2. /\ old \in BulkRecord /\ result \in BatchRecord /\ y \in TallyRecord
      /\ Good(old, result, y, cards) /\ HasRead(result) /\ Open(old)
  BY <1>1, AtOp DEF HasRead, Open
<1> HIDE DEF old, result, y
<1>3. /\ offset \in Nat /\ old.changed + result.changed \in Nat
      /\ old.failed \cup result.failed \subseteq Ids /\ offset = NextOffset(old, result)
  BY <1>2 DEF BulkRecord, BatchRecord, NextOffset
<1> HIDE DEF offset
<1>4. /\ b \in BulkRecord /\ b.pc = (IF Ends(result, offset) THEN "done" ELSE "asking")
  BY <1>2, <1>3 DEF BulkRecord
<1>5. /\ b.offset = offset /\ b.filter = old.filter /\ b.failed = old.failed \cup result.failed
  BY <1>2 DEF BulkRecord
<1> HIDE DEF b
<1>6. Unasked.pc = "none" /\ ~HasRead(Unasked) /\ NextOffset(b, Unasked) = offset
  BY <1>3, <1>5 DEF Unasked, HasRead, NextOffset
<1>7. BatchOK(b, Unasked)
  BY <1>6 DEF BatchOK
<1>8. OnceOK(b, Unasked, y, cards)
  <2> SUFFICES ASSUME NEW id \in Ids
               PROVE  y.turned[id] + Times(InTodo(Unasked, id)) + Times(Ahead(b, Unasked, cards, id))
                        <= 1 + y.crashes + y.inserted
    BY DEF OnceOK
  <2>1. ~InTodo(Unasked, id) /\ (Ahead(b, Unasked, cards, id) => Ahead(old, result, cards, id))
    BY <1>2, <1>3, <1>6 DEF InTodo, Ahead
  <2>2. y.turned[id] + Times(InTodo(result, id)) + Times(Ahead(old, result, cards, id))
          <= 1 + y.crashes + y.inserted
    BY <1>2 DEF Good, OnceOK
  <2>3. y.turned[id] \in Nat /\ y.crashes \in Nat /\ y.inserted \in Nat
    BY <1>2 DEF TallyRecord
  <2> QED BY <2>1, <2>2, <2>3 DEF Times
<1>9. ASSUME y.removed = 0 PROVE SparedOK(b, Unasked, y, cards)
  <2> SUFFICES ASSUME NEW c \in y.spared, b.filter => ~c.main
               PROVE  /\ b.pc = "done" => Settles(b, y, c)
                      /\ Open(b) => Settles(b, y, c) \/ After(cards, c.id, b.offset)
    BY <1>2, <1>6, <1>9 DEF Good, SparedOK
  <2>1. \/ Settles(old, y, c) \/ c.id \in result.failed \/ InTodo(result, c.id)
        \/ ~Ends(result, offset) /\ After(cards, c.id, offset)
    BY <1>2, <1>3, <1>5, <1>9 DEF Good, SparedOK
  <2>2. ~InTodo(result, c.id)
    BY <1>1 DEF InTodo, result
  <2>3. Settles(b, y, c) \/ (~Ends(result, offset) /\ After(cards, c.id, offset))
    BY <1>5, <2>1, <2>2 DEF Settles
  <2> QED BY <1>4, <1>5, <2>3
<1> QED BY <1>1, <1>4, <1>7, <1>8, <1>9, QuietStep DEF Good, y

\* The cards a batch reads when it begins at o.
CardsFrom(o) ==
    IF o < Len(cards)
    THEN SubSeq(cards, o + 1, IF o + BatchSize < Len(cards) THEN o + BatchSize ELSE Len(cards))
    ELSE <<>>

\* A batch has the cards from its offset on, and none only after the last.
IsRead(read, o) ==
    /\ read \in Seq(CardSet) /\ Len(read) \in Nat /\ DOMAIN read = 1 .. Len(read)
    /\ \A j \in DOMAIN read : o + j \in DOMAIN cards /\ read[j] = cards[o + j]
    /\ \A i \in DOMAIN cards : i > o /\ i <= o + Len(read) => i - o \in DOMAIN read
    /\ read = <<>> <=> Len(read) = 0
    /\ Len(read) = 0 => Len(cards) <= o

\* CardsFrom gives such a part of the cards.
LEMMA ReadProperties ==
  ASSUME BulkInv, NEW o \in Nat
  PROVE  IsRead(CardsFrom(o), o)
<1> DEFINE n == IF o + BatchSize < Len(cards) THEN o + BatchSize ELSE Len(cards)
           q == SubSeq(cards, o + 1, n)
<1>1. cards \in Seq(CardSet) /\ DOMAIN cards = 1 .. Len(cards) /\ Len(cards) \in Nat
  BY DEF BulkInv, BulkType
<1>2. CASE o < Len(cards)
  <2>1. n \in Nat /\ o < n /\ n <= Len(cards)
    BY <1>1, <1>2, BulkAssumption
  <2>2. CardsFrom(o) = q
    BY <1>2 DEF CardsFrom
  <2> HIDE DEF n
  <2>3. \A i \in o + 1 .. n : cards[i] \in CardSet
    BY <1>1, <2>1
  <2>4. q \in Seq(CardSet) /\ Len(q) = n - o /\ \A j \in 1 .. n - o : q[j] = cards[o + j]
    BY <2>1, <2>3, SubSeqProperties
  <2> HIDE DEF q
  <2>5. DOMAIN q = 1 .. n - o
    BY <2>4, LenProperties
  <2>6. q # <<>>
    BY <2>1, <2>4, EmptySeq
  <2>7. \A j \in 1 .. n - o : o + j \in 1 .. Len(cards)
    BY <1>1, <2>1
  <2>8. \A i \in 1 .. Len(cards) : i > o /\ i <= o + (n - o) => i - o \in 1 .. n - o
    BY <1>1, <2>1
  <2>9. n - o \in Nat /\ n - o # 0
    BY <2>1
  <2>10. IsRead(q, o)
    BY <1>1, <2>4, <2>5, <2>6, <2>7, <2>8, <2>9 DEF IsRead
  <2> QED BY <2>2, <2>10
<1>3. CASE ~(o < Len(cards))
  <2>1. CardsFrom(o) = <<>>
    BY <1>3 DEF CardsFrom
  <2>2. IsRead(<<>>, o)
    BY <1>1, <1>3 DEF IsRead
  <2> QED BY <2>1, <2>2
<1> QED BY <1>2, <1>3

\* Each card goes from ahead of the batch into it, or stays ahead.
LEMMA ReadCardsStep ==
  ASSUME BulkInv, NEW p \in Pages, ReadCards(p)
  PROVE  BulkInv'
<1> DEFINE b == bulk[p]
           y == tally[p]
           o == b.offset
           read == CardsFrom(o)
           t == [pc |-> IF read = <<>> THEN "done" ELSE "turn", todo |-> read, total |-> Len(read),
                 reported |-> Len(cards), changed |-> 0, failed |-> {}]
<1>1. batch[p].pc = "read" /\ UNCHANGED <<cards, bulk, tally>> /\ batch' = [batch EXCEPT ![p] = t]
  BY DEF ReadCards, CardsFrom
<1>2. /\ b \in BulkRecord /\ b.pc # "done" /\ Good(b, batch[p], y, cards) /\ y \in TallyRecord
      /\ ~HasRead(batch[p]) /\ bulk' = [bulk EXCEPT ![p] = b]
  <2>1. b.pc \notin {"idle", "done"}
    BY <1>1, AtOp DEF Good, BatchOK, Unasked
  <2> QED BY <1>1, <2>1, AtOp DEF HasRead, BulkInv, BulkType
<1>3. o \in Nat /\ NextOffset(b, batch[p]) = o
  BY <1>2 DEF BulkRecord, NextOffset
<1> HIDE DEF b, y, o
<1>4. /\ IsRead(read, o) /\ DOMAIN cards = 1 .. Len(cards) /\ Len(cards) \in Nat
  BY <1>3, ReadProperties DEF BulkInv, BulkType
<1> HIDE DEF read
<1>5. /\ t \in BatchRecord /\ HasRead(t) /\ t.todo = read /\ t.total = Len(read)
      /\ t.reported = Len(cards) /\ (t.pc = "turn" <=> read # <<>>)
  BY <1>4 DEF BatchRecord, HasRead, IsRead
<1> HIDE DEF t
<1>6. NextOffset(b, t) = o + Len(read)
  BY <1>5 DEF NextOffset, o
<1>7. UniqueIds(cards)
  BY DEF BulkInv, BulkType
<1>8. BatchOK(b, t)
  <2>1. UniqueIds(read)
    BY <1>3, <1>4, <1>7 DEF UniqueIds, IsRead
  <2> QED BY <1>2, <1>5, <2>1 DEF BatchOK, BulkRecord
<1>9. OnceOK(b, t, y, cards)
  <2> SUFFICES ASSUME NEW id \in Ids
               PROVE  y.turned[id] + Times(InTodo(t, id)) + Times(Ahead(b, t, cards, id))
                        <= 1 + y.crashes + y.inserted
    BY DEF OnceOK
  <2>1. InTodo(t, id) => After(cards, id, o)
    BY <1>3, <1>4, <1>5 DEF InTodo, After, IsRead
  <2>2. Ahead(b, t, cards, id) => After(cards, id, o)
    BY <1>3, <1>4, <1>6 DEF Ahead, After, IsRead
  <2>3. ~(InTodo(t, id) /\ Ahead(b, t, cards, id))
    <3> SUFFICES ASSUME NEW j \in DOMAIN read, read[j].id = id,
                        NEW i \in DOMAIN cards, i > o + Len(read), cards[i].id = id
                 PROVE  FALSE
      BY <1>5, <1>6 DEF InTodo, Ahead, After
    <3>1. o + j \in DOMAIN cards /\ cards[o + j].id = id
      BY <1>4 DEF IsRead
    <3> QED BY <1>3, <1>4, <1>7, <3>1 DEF UniqueIds, IsRead
  <2>4. ~InTodo(batch[p], id) /\ (After(cards, id, o) => Ahead(b, batch[p], cards, id))
    BY <1>1, <1>3 DEF InTodo, Ahead
  <2>5. y.turned[id] + Times(InTodo(batch[p], id)) + Times(Ahead(b, batch[p], cards, id))
          <= 1 + y.crashes + y.inserted
    BY <1>2 DEF Good, OnceOK
  <2>6. y.turned[id] \in Nat /\ y.crashes \in Nat /\ y.inserted \in Nat
    BY <1>2 DEF TallyRecord
  <2> QED BY <2>1, <2>2, <2>3, <2>4, <2>5, <2>6 DEF Times
<1>10. ASSUME y.removed = 0 PROVE SparedOK(b, t, y, cards)
  <2> SUFFICES ASSUME NEW c \in y.spared
               PROVE  /\ \A j \in DOMAIN t.todo : t.todo[j].id = c.id => t.todo[j].main = c.main
                      /\ (b.filter => ~c.main) /\ Open(b) =>
                           \/ Settles(b, y, c) \/ c.id \in t.failed \/ InTodo(t, c.id)
                           \/ ~Ends(t, NextOffset(b, t)) /\ After(cards, c.id, NextOffset(b, t))
    BY <1>2, <1>10 DEF Good, SparedOK
  <2>1. ASSUME NEW j \in DOMAIN read, read[j].id = c.id PROVE read[j].main = c.main
    <3>1. PICK i \in DOMAIN cards : cards[i].id = c.id /\ cards[i].main = c.main
      BY <1>2, <1>10 DEF Good, SparedOK
    <3>2. o + j \in DOMAIN cards /\ cards[o + j].id = c.id /\ read[j] = cards[o + j]
      BY <1>4, <2>1 DEF IsRead
    <3> QED BY <1>7, <3>1, <3>2 DEF UniqueIds
  <2>2. ASSUME b.filter => ~c.main, Open(b), ~Settles(b, y, c)
        PROVE  InTodo(t, c.id) \/ (~Ends(t, NextOffset(b, t)) /\ After(cards, c.id, NextOffset(b, t)))
    <3>1. After(cards, c.id, o)
      BY <1>2, <1>10, <2>2 DEF Good, SparedOK, o
    <3>2. PICK i \in DOMAIN cards : i > o /\ cards[i].id = c.id
      BY <3>1 DEF After
    <3>3. CASE i <= o + Len(read)
      <4>1. i - o \in DOMAIN read /\ o + (i - o) = i
        BY <1>3, <1>4, <3>2, <3>3 DEF IsRead
      <4>2. read[i - o].id = c.id
        BY <1>4, <3>2, <4>1 DEF IsRead
      <4>3. read # <<>>
        BY <1>4, <4>1 DEF IsRead
      <4> QED BY <1>5, <4>1, <4>2, <4>3 DEF InTodo
    <3>4. CASE i > o + Len(read)
      <4>1. Len(read) # 0 /\ ~(o + Len(read) >= Len(cards))
        BY <1>3, <1>4, <3>2, <3>4 DEF IsRead
      <4> QED BY <1>5, <1>6, <3>2, <3>4, <4>1 DEF Ends, After
    <3> QED BY <1>3, <1>4, <3>3, <3>4 DEF IsRead
  <2> QED BY <1>5, <2>1, <2>2
<1> QED BY <1>1, <1>2, <1>5, <1>8, <1>9, <1>10, QuietStep DEF Good, y

\* The batch t is what is left of old when card had its turn.
IsSettled(t, old, card, failed) ==
    /\ t \in BatchRecord /\ HasRead(t) /\ t.total = old.total /\ t.reported = old.reported
    /\ t.failed = old.failed \cup failed /\ card \in CardSet /\ card.id \in Ids
    /\ t.pc = "turn" => t.todo # <<>> /\ UniqueIds(t.todo)
    /\ t.pc = "turn" => \A j \in DOMAIN t.todo : \E k \in DOMAIN old.todo : t.todo[j] = old.todo[k]
    /\ \A id : InTodo(t, id) <=> InTodo(old, id) /\ id # card.id
    /\ InTodo(old, card.id)

\* Settled gives such a batch.
LEMMA SettledIs ==
  ASSUME BulkInv, NEW p \in Pages, batch[p].pc = "turn", NEW changed \in Nat, NEW failed \in SUBSET Ids
  PROVE  IsSettled(Settled(p, batch[p].todo[1], changed, failed), batch[p], batch[p].todo[1], failed)
<1> DEFINE old == batch[p]
           todo == old.todo
           card == todo[1]
           rest == Tail(todo)
           t == Settled(p, card, changed, failed)
<1>1. old \in BatchRecord /\ todo # <<>> /\ UniqueIds(todo) /\ old.pc = "turn"
  BY AtOp DEF HasRead, Good, BatchOK
<1> HIDE DEF old
<1>2. todo \in Seq(CardSet) /\ old.changed \in Nat /\ old.failed \in SUBSET Ids
  BY <1>1 DEF BatchRecord
<1>3. t = [old EXCEPT !.todo = rest, !.changed = old.changed + changed, !.failed = old.failed \cup failed,
                      !.pc = IF rest = <<>> THEN "done" ELSE "turn"]
  BY DEF Settled, old
<1> HIDE DEF todo, t
<1>4. /\ rest \in Seq(CardSet) /\ Len(rest) = Len(todo) - 1 /\ Len(todo) \in Nat \ {0}
      /\ DOMAIN todo = 1 .. Len(todo) /\ DOMAIN rest = 1 .. Len(rest)
      /\ \A j \in DOMAIN rest : j + 1 \in DOMAIN todo /\ rest[j] = todo[j + 1]
  <2>1. rest \in Seq(CardSet) /\ Len(rest) = Len(todo) - 1 /\ \A j \in 1 .. Len(rest) : rest[j] = todo[j + 1]
    BY <1>1, <1>2, HeadTailProperties
  <2>2. Len(todo) \in Nat \ {0} /\ DOMAIN todo = 1 .. Len(todo)
    BY <1>1, <1>2, EmptySeq, LenProperties
  <2> HIDE DEF rest
  <2>3. DOMAIN rest = 1 .. Len(rest)
    BY <2>1, LenProperties
  <2> QED BY <2>1, <2>2, <2>3
<1> HIDE DEF rest
<1>5. rest = <<>> <=> Len(todo) = 1
  <2>1. rest = <<>> => Len(rest) = 0
    OBVIOUS
  <2>2. rest # <<>> => Len(rest) \in Nat \ {0}
    BY <1>4, EmptySeq
  <2> QED BY <1>4, <2>1, <2>2
<1>6. /\ t \in BatchRecord /\ t.total = old.total /\ t.reported = old.reported
      /\ t.failed = old.failed \cup failed /\ t.todo = rest
      /\ t.pc = IF rest = <<>> THEN "done" ELSE "turn"
  <2>1. old.changed + changed \in Nat /\ old.failed \cup failed \in SUBSET Ids
    BY <1>2
  <2>2. t \in BatchRecord
    BY <1>1, <1>3, <1>4, <2>1 DEF BatchRecord
  <2>3. t.total = old.total /\ t.reported = old.reported /\ t.failed = old.failed \cup failed
    BY <1>1, <1>3 DEF BatchRecord
  <2>4. t.todo = rest /\ t.pc = IF rest = <<>> THEN "done" ELSE "turn"
    BY <1>1, <1>3 DEF BatchRecord
  <2> QED BY <2>2, <2>3, <2>4
<1>7. card \in CardSet /\ card.id \in Ids /\ 1 \in DOMAIN todo
  <2>1. 1 \in DOMAIN todo /\ card \in CardSet
    BY <1>2, <1>4, ElementOfSeq
  <2> QED BY <2>1 DEF CardSet
<1> HIDE DEF card
<1>8. UniqueIds(rest)
  BY <1>1, <1>4 DEF UniqueIds
<1>9. ASSUME NEW id PROVE (\E j \in DOMAIN rest : rest[j].id = id) <=>
                          (\E k \in DOMAIN todo : todo[k].id = id) /\ id # card.id
  <2>1. ASSUME NEW j \in DOMAIN rest, rest[j].id = id
        PROVE  (\E k \in DOMAIN todo : todo[k].id = id) /\ id # card.id
    BY <1>1, <1>4, <1>7, <2>1 DEF UniqueIds, card
  <2>2. ASSUME NEW k \in DOMAIN todo, todo[k].id = id, id # card.id
        PROVE  \E j \in DOMAIN rest : rest[j].id = id
    <3>1. k # 1 /\ k - 1 \in DOMAIN rest /\ (k - 1) + 1 = k
      BY <1>4, <2>2 DEF card
    <3>2. rest[k - 1] = todo[k]
      BY <1>4, <3>1
    <3> QED BY <2>2, <3>1, <3>2
  <2> QED BY <2>1, <2>2
<1>10. ASSUME NEW id PROVE InTodo(t, id) <=> InTodo(old, id) /\ id # card.id
  <2>1. rest = <<>> => ~\E j \in DOMAIN rest : rest[j].id = id
    OBVIOUS
  <2>2. InTodo(t, id) <=> \E j \in DOMAIN rest : rest[j].id = id
    BY <1>6, <2>1 DEF InTodo
  <2>3. InTodo(old, id) <=> \E k \in DOMAIN todo : todo[k].id = id
    BY <1>1 DEF InTodo, todo
  <2> QED BY <1>9, <2>2, <2>3
<1>11. InTodo(old, card.id)
  BY <1>1, <1>7 DEF InTodo, todo, card
<1> QED BY <1>4, <1>6, <1>7, <1>8, <1>10, <1>11 DEF old, todo, card, t, HasRead, IsSettled

\* Counted counts one turn, and changes nothing else.
LEMMA CountedIs ==
  ASSUME NEW h \in TallyRecord, NEW id \in Ids
  PROVE  /\ Counted(h, id) \in TallyRecord
         /\ Counted(h, id).crashes = h.crashes /\ Counted(h, id).inserted = h.inserted
         /\ Counted(h, id).removed = h.removed /\ Counted(h, id).spared = h.spared
         /\ \A d \in Ids : Counted(h, id).turned[d] = IF d = id THEN h.turned[d] + 1 ELSE h.turned[d]
<1> DEFINE turned == [h.turned EXCEPT ![id] = h.turned[id] + 1]
<1>1. h.turned \in [Ids -> Nat]
  BY DEF TallyRecord
<1>2. turned \in [Ids -> Nat] /\ \A d \in Ids : turned[d] = IF d = id THEN h.turned[d] + 1 ELSE h.turned[d]
  BY <1>1
<1>3. Counted(h, id) = [h EXCEPT !.turned = turned]
  BY DEF Counted
<1> HIDE DEF turned
<1> QED BY <1>2, <1>3 DEF TallyRecord

(* A card that had its turn is settled: it was turned, or is reported, or  *)
(* the filter let it pass.                                                 *)
LEMMA SettleGood ==
  ASSUME BulkInv, NEW p \in Pages, batch[p].pc = "turn", NEW changed \in Nat, NEW failed \in SUBSET Ids,
         NEW y \in {tally[p], Counted(tally[p], batch[p].todo[1].id)},
         \/ Filtered(p, batch[p].todo[1])
         \/ batch[p].todo[1].id \in failed
         \/ y = Counted(tally[p], batch[p].todo[1].id)
  PROVE  Good(bulk[p], Settled(p, batch[p].todo[1], changed, failed), y, cards)
<1> DEFINE b == bulk[p]
           old == batch[p]
           h == tally[p]
           card == old.todo[1]
           t == Settled(p, card, changed, failed)
<1>1. /\ HasRead(t) /\ t.total = old.total /\ t.reported = old.reported
      /\ t.failed = old.failed \cup failed /\ card.id \in Ids
      /\ t.pc = "turn" => t.todo # <<>> /\ UniqueIds(t.todo)
      /\ t.pc = "turn" => \A j \in DOMAIN t.todo : \E k \in DOMAIN old.todo : t.todo[j] = old.todo[k]
      /\ \A id : InTodo(t, id) <=> InTodo(old, id) /\ id # card.id
      /\ InTodo(old, card.id)
  <2>1. IsSettled(t, old, card, failed)
    BY SettledIs
  <2> HIDE DEF t, card, old
  <2> QED BY <2>1 DEF IsSettled
<1>2. /\ Good(b, old, h, cards) /\ h \in TallyRecord /\ HasRead(old) /\ 1 \in DOMAIN old.todo
  <2>1. Good(b, old, h, cards) /\ h \in TallyRecord /\ HasRead(old) /\ old \in BatchRecord
    BY AtOp DEF HasRead
  <2>2. old.todo \in Seq(CardSet) /\ old.todo # <<>>
    BY <2>1 DEF BatchRecord, Good, BatchOK
  <2>3. Len(old.todo) \in Nat \ {0} /\ DOMAIN old.todo = 1 .. Len(old.todo)
    BY <2>2, EmptySeq, LenProperties
  <2> QED BY <2>1, <2>3
<1>3. /\ y \in TallyRecord /\ y.crashes = h.crashes /\ y.inserted = h.inserted
      /\ y.removed = h.removed /\ y.spared = h.spared
      /\ \A d \in Ids : y.turned[d] \in {h.turned[d], h.turned[d] + 1}
                        /\ (d # card.id => y.turned[d] = h.turned[d])
                        /\ h.turned[d] \in Nat
  <2>1. h.turned \in [Ids -> Nat]
    BY <1>2 DEF TallyRecord
  <2> QED BY <1>1, <1>2, <2>1, CountedIs
<1>4. y = Counted(h, card.id) => y.turned[card.id] > 0
  <2>1. card.id \in Ids /\ h.turned[card.id] \in Nat
    BY <1>1, <1>3
  <2>2. Counted(h, card.id).turned[card.id] = h.turned[card.id] + 1
    BY <1>2, <2>1, CountedIs
  <2> HIDE DEF card, h
  <2> QED BY <2>1, <2>2
<1>5. \/ b.filter /\ card.main
      \/ card.id \in failed
      \/ y.turned[card.id] > 0
  BY <1>4 DEF Filtered
<1> HIDE DEF b, old, h, card, t
<1>6. NextOffset(b, t) = NextOffset(b, old)
  BY <1>1, <1>2 DEF NextOffset
<1>7. b.pc \notin {"idle", "done"} /\ BatchOK(b, t)
  <2>1. b.pc \notin {"idle", "done"}
    BY <1>2 DEF Good, BatchOK, HasRead, Unasked
  <2> QED BY <1>1, <2>1 DEF BatchOK
<1>8. OnceOK(b, t, y, cards)
  <2> SUFFICES ASSUME NEW id \in Ids
               PROVE  y.turned[id] + Times(InTodo(t, id)) + Times(Ahead(b, t, cards, id))
                        <= 1 + y.crashes + y.inserted
    BY DEF OnceOK
  <2>1. Ahead(b, t, cards, id) => Ahead(b, old, cards, id)
    BY <1>1, <1>2, <1>6 DEF Ahead, HasRead
  <2>2. h.turned[id] + Times(InTodo(old, id)) + Times(Ahead(b, old, cards, id))
          <= 1 + h.crashes + h.inserted
    BY <1>2 DEF Good, OnceOK
  <2>3. h.turned[id] \in Nat /\ h.crashes \in Nat /\ h.inserted \in Nat
    BY <1>2 DEF TallyRecord
  <2>4. y.turned[id] \in {h.turned[id], h.turned[id] + 1} /\ (id # card.id => y.turned[id] = h.turned[id])
    BY <1>3
  <2>5. InTodo(t, id) <=> InTodo(old, id) /\ id # card.id
    BY <1>1
  <2>6. CASE id = card.id
    <3>1. InTodo(old, id) /\ ~InTodo(t, id)
      BY <1>1, <2>6
    <3> QED BY <1>3, <2>1, <2>2, <2>3, <2>4, <3>1 DEF Times
  <2>7. CASE id # card.id
    BY <1>3, <2>1, <2>2, <2>3, <2>4, <2>5, <2>7 DEF Times
  <2> QED BY <2>6, <2>7
<1>9. ASSUME y.removed = 0 PROVE SparedOK(b, t, y, cards)
  <2> SUFFICES ASSUME NEW c \in y.spared
               PROVE  /\ \E i \in DOMAIN cards : cards[i].id = c.id /\ cards[i].main = c.main
                      /\ t.pc = "turn" => \A j \in DOMAIN t.todo : t.todo[j].id = c.id => t.todo[j].main = c.main
                      /\ (b.filter => ~c.main) /\ Open(b) =>
                           /\ Settles(b, y, c) \/ After(cards, c.id, b.offset)
                           /\ \/ Settles(b, y, c) \/ c.id \in t.failed \/ InTodo(t, c.id)
                              \/ ~Ends(t, NextOffset(b, t)) /\ After(cards, c.id, NextOffset(b, t))
    BY <1>7, <1>9 DEF SparedOK
  <2>1. c \in h.spared /\ h.removed = 0 /\ c.id \in Ids
    BY <1>3, <1>9 DEF TallyRecord, CardSet
  <2>2. \E i \in DOMAIN cards : cards[i].id = c.id /\ cards[i].main = c.main
    BY <1>2, <2>1 DEF Good, SparedOK
  <2>3. old.pc = "turn" /\ \A j \in DOMAIN old.todo : old.todo[j].id = c.id => old.todo[j].main = c.main
    BY <1>2, <2>1 DEF Good, SparedOK, old
  <2>4. Settles(b, h, c) => Settles(b, y, c)
    BY <1>3, <2>1 DEF Settles
  <2>5. ASSUME b.filter => ~c.main, Open(b)
        PROVE  /\ Settles(b, y, c) \/ After(cards, c.id, b.offset)
               /\ \/ Settles(b, y, c) \/ c.id \in t.failed \/ InTodo(t, c.id)
                  \/ ~Ends(t, NextOffset(b, t)) /\ After(cards, c.id, NextOffset(b, t))
    <3>1. Settles(b, h, c) \/ After(cards, c.id, b.offset)
      BY <1>2, <2>1, <2>5 DEF Good, SparedOK
    <3>2. \/ Settles(b, h, c) \/ c.id \in old.failed \/ InTodo(old, c.id)
          \/ ~Ends(old, NextOffset(b, old)) /\ After(cards, c.id, NextOffset(b, old))
      BY <1>2, <2>1, <2>5 DEF Good, SparedOK
    <3>3. Ends(t, NextOffset(b, t)) <=> Ends(old, NextOffset(b, old))
      BY <1>1, <1>6 DEF Ends
    <3>4. c.id = card.id => c.id \in t.failed \/ Settles(b, y, c)
      BY <1>1, <1>2, <1>5, <2>3, <2>5 DEF card, Settles
    <3>5. c.id # card.id /\ InTodo(old, c.id) => InTodo(t, c.id)
      BY <1>1
    <3> QED BY <1>1, <1>6, <2>4, <3>1, <3>2, <3>3, <3>4, <3>5
  <2> QED BY <1>1, <2>2, <2>3, <2>5
<1> QED BY <1>7, <1>8, <1>9 DEF Good, b, t, card, old

\* The next value is one of the lookup.
LEMMA NextLookupValueTyped == \A v : NextLookupValue(v) \in ToSet(LookupValues)
<1> SUFFICES ASSUME NEW v PROVE NextLookupValue(v) \in ToSet(LookupValues)
  OBVIOUS
<1>1. /\ LookupValues \in Seq(ToSet(LookupValues)) /\ Len(LookupValues) \in Nat \ {0}
      /\ DOMAIN LookupValues = 1 .. Len(LookupValues)
  BY BulkAssumption, EmptySeq, LenProperties
<1>2. \A i \in 1 .. Len(LookupValues) : LookupValues[i] \in ToSet(LookupValues)
  BY <1>1, ElementOfSeq
<1>3. CASE v \in ToSet(LookupValues)
  <2> DEFINE i == CHOOSE k \in DOMAIN LookupValues : LookupValues[k] = v
  <2>1. i \in 1 .. Len(LookupValues)
    BY <1>1, <1>3 DEF ToSet
  <2> HIDE DEF i
  <2>2. (i % Len(LookupValues)) + 1 \in 1 .. Len(LookupValues)
    BY <1>1, <2>1
  <2>3. NextLookupValue(v) = LookupValues[(i % Len(LookupValues)) + 1]
    BY <1>3 DEF NextLookupValue, i
  <2> QED BY <1>2, <2>2, <2>3
<1>4. CASE v \notin ToSet(LookupValues)
  BY <1>1, <1>2, <1>4 DEF NextLookupValue
<1> QED BY <1>3, <1>4

\* A new value leaves the cards' order, ids and flags.
LEMMA SetValueSame ==
  ASSUME cards \in Seq(CardSet), NEW id, NEW v \in ToSet(LookupValues)
  PROVE  SetValue(id, v) \in Seq(CardSet) /\ SameCards(cards, SetValue(id, v))
<1> DEFINE e(i) == IF cards[i].id = id THEN [cards[i] EXCEPT !.value = v] ELSE cards[i]
<1>1. Len(cards) \in Nat /\ DOMAIN cards = 1 .. Len(cards) /\ \A i \in 1 .. Len(cards) : cards[i] \in CardSet
  BY LenProperties, ElementOfSeq
<1>2. ASSUME NEW c \in CardSet
      PROVE  /\ [c EXCEPT !.value = v] \in CardSet /\ [c EXCEPT !.value = v].id = c.id
             /\ [c EXCEPT !.value = v].main = c.main
  BY <1>2 DEF CardSet, CardValues
<1>3. \A i \in 1 .. Len(cards) : e(i) \in CardSet /\ e(i).id = cards[i].id /\ e(i).main = cards[i].main
  BY <1>1, <1>2
<1> HIDE DEF e
<1>4. SetValue(id, v) = [i \in 1 .. Len(cards) |-> e(i)]
  BY <1>1 DEF SetValue, e
<1>5. [i \in 1 .. Len(cards) |-> e(i)] \in Seq(CardSet)
  BY <1>1, <1>3, IsASeq
<1> QED BY <1>1, <1>3, <1>4, <1>5 DEF SameCards

\* A card the filter does not let through is passed over.
LEMMA PassOverStep ==
  ASSUME BulkInv, NEW p \in Pages, PassOver(p)
  PROVE  BulkInv'
<1> DEFINE card == batch[p].todo[1]
           t == Settled(p, card, 0, {})
<1>1. /\ batch[p].pc = "turn" /\ Filtered(p, card) /\ UNCHANGED <<cards, bulk, tally>>
      /\ batch' = [batch EXCEPT ![p] = t]
  BY DEF PassOver
<1>2. t \in BatchRecord
  BY <1>1, SettledIs DEF IsSettled
<1>3. Good(bulk[p], t, tally[p], cards)
  BY <1>1, SettleGood
<1>4. bulk[p] \in BulkRecord /\ bulk' = [bulk EXCEPT ![p] = bulk[p]]
  BY <1>1, AtOp DEF Good, BatchOK, Unasked, BulkInv, BulkType
<1> HIDE DEF card, t
<1> QED BY <1>1, <1>2, <1>3, <1>4, QuietStep

\* A card that is turned leaves the batch, whether the PUT succeeds or fails.
LEMMA TurnStep ==
  ASSUME BulkInv, NEW p \in Pages, Turn(p)
  PROVE  BulkInv'
<1> DEFINE card == batch[p].todo[1]
           value == NextLookupValue(card.value)
           counted == Counted(tally[p], card.id)
           t(changed, failed) == Settled(p, card, changed, failed)
           done == cards' = SetValue(card.id, value) /\ tally' = [tally EXCEPT ![p] = counted]
<1>1. batch[p].pc = "turn" /\ UNCHANGED bulk
  BY DEF Turn
<1>2. \/ done /\ batch' = [batch EXCEPT ![p] = t(1, {})]
      \/ done /\ batch' = [batch EXCEPT ![p] = t(0, {card.id})]
      \/ UNCHANGED <<cards, tally>> /\ batch' = [batch EXCEPT ![p] = t(0, {card.id})]
  BY DEF Turn
<1>3. card.id \in Ids
  BY <1>1, SettledIs DEF IsSettled
<1>4. bulk[p] \in BulkRecord /\ bulk' = [bulk EXCEPT ![p] = bulk[p]]
  BY <1>1, AtOp DEF Good, BatchOK, Unasked, BulkInv, BulkType
<1>5. ASSUME NEW changed \in Nat, NEW failed \in SUBSET Ids PROVE t(changed, failed) \in BatchRecord
  BY <1>1, <1>5, SettledIs DEF IsSettled
<1>6. ASSUME NEW changed \in Nat, NEW failed \in SUBSET Ids
      PROVE  Good(bulk[p], t(changed, failed), counted, cards)
  BY <1>1, SettleGood
<1>7. Good(bulk[p], t(0, {card.id}), tally[p], cards)
  <2>1. {card.id} \in SUBSET Ids
    BY <1>3
  <2> QED BY <1>1, <2>1, SettleGood
<1>8. counted \in TallyRecord
  BY <1>3, CountedIs, AtOp
<1>9. SetValue(card.id, value) \in Seq(CardSet) /\ SameCards(cards, SetValue(card.id, value))
  BY NextLookupValueTyped, SetValueSame DEF BulkInv, BulkType
<1> HIDE DEF card, value, counted, t
<1>10. ASSUME done, NEW changed \in Nat, NEW failed \in SUBSET Ids,
              batch' = [batch EXCEPT ![p] = t(changed, failed)]
       PROVE  BulkInv'
  <2>1. cards' \in Seq(CardSet) /\ SameCards(cards, cards')
    BY <1>9, <1>10
  <2> QED BY <1>4, <1>5, <1>6, <1>8, <1>10, <2>1, OpStep
<1>11. CASE UNCHANGED <<cards, tally>> /\ batch' = [batch EXCEPT ![p] = t(0, {card.id})]
  <2>1. t(0, {card.id}) \in BatchRecord
    BY <1>3, <1>5
  <2> QED BY <1>4, <1>7, <1>11, <2>1, QuietStep
<1> QED BY <1>2, <1>3, <1>10, <1>11

-----------------------------------------------------------------------------
(* The steps of the BFF as a whole, and of others. *)

\* One more insertion, and nothing else.
LEMMA TallyMore ==
  ASSUME NEW y \in TallyRecord
  PROVE  /\ [y EXCEPT !.inserted = y.inserted + 1] \in TallyRecord
         /\ [y EXCEPT !.inserted = y.inserted + 1].turned = y.turned
         /\ [y EXCEPT !.inserted = y.inserted + 1].crashes = y.crashes
         /\ [y EXCEPT !.inserted = y.inserted + 1].inserted = y.inserted + 1
         /\ [y EXCEPT !.inserted = y.inserted + 1].removed = y.removed
         /\ [y EXCEPT !.inserted = y.inserted + 1].spared = y.spared
<1>1. y.inserted + 1 \in Nat
  BY DEF TallyRecord
<1> QED BY <1>1 DEF TallyRecord

(* A forgotten batch is read again from its offset: what it turned may be  *)
(* turned once more, and what it reported is not lost.                     *)
LEMMA GoodForgotten ==
  ASSUME NEW b, NEW t, NEW y \in TallyRecord, NEW cs, Good(b, t, y, cs), b.pc # "idle" => b.offset \in Nat,
         HasRead(t) => t.total \in Nat
  PROVE  Good(b, Unasked, [y EXCEPT !.crashes = y.crashes + 1], cs)
<1> DEFINE z == [y EXCEPT !.crashes = y.crashes + 1]
<1>1. /\ z \in TallyRecord /\ z.turned = y.turned /\ z.crashes = y.crashes + 1 /\ z.inserted = y.inserted
      /\ z.removed = y.removed /\ z.spared = y.spared
  BY DEF TallyRecord
<1> HIDE DEF z
<1>2. Unasked.pc = "none" /\ ~HasRead(Unasked)
  BY DEF Unasked, HasRead
<1>3. BatchOK(b, Unasked)
  BY <1>2 DEF BatchOK
<1>4. OnceOK(b, Unasked, z, cs)
  <2> SUFFICES ASSUME NEW id \in Ids
               PROVE  z.turned[id] + Times(InTodo(Unasked, id)) + Times(Ahead(b, Unasked, cs, id))
                        <= 1 + z.crashes + z.inserted
    BY DEF OnceOK
  <2>1. ~InTodo(Unasked, id)
    BY <1>2 DEF InTodo
  <2>2. y.turned[id] + Times(InTodo(t, id)) + Times(Ahead(b, t, cs, id)) <= 1 + y.crashes + y.inserted
    BY DEF Good, OnceOK
  <2>3. y.turned[id] \in Nat /\ y.crashes \in Nat /\ y.inserted \in Nat
    BY DEF TallyRecord
  <2> QED BY <1>1, <2>1, <2>2, <2>3 DEF Times
<1>5. ASSUME z.removed = 0 PROVE SparedOK(b, Unasked, z, cs)
  BY <1>1, <1>2, <1>5 DEF Good, SparedOK, Settles
<1> QED BY <1>3, <1>4, <1>5 DEF Good, z

\* A crash forgets every batch.
LEMMA BulkCrashStep ==
  ASSUME BulkInv, BulkCrash
  PROVE  BulkInv'
<1>1. /\ UNCHANGED <<cards, bulk>> /\ batch' = [p \in Pages |-> Unasked]
      /\ tally' = [p \in Pages |-> [tally[p] EXCEPT !.crashes = tally[p].crashes + 1]]
  BY DEF BulkCrash
<1>2. ASSUME NEW p \in Pages
      PROVE  /\ Good(bulk[p], Unasked, [tally[p] EXCEPT !.crashes = tally[p].crashes + 1], cards)
             /\ [tally[p] EXCEPT !.crashes = tally[p].crashes + 1] \in TallyRecord
  <2>1. Good(bulk[p], batch[p], tally[p], cards) /\ tally[p] \in TallyRecord
    BY AtOp
  <2>2. (bulk[p].pc # "idle" => bulk[p].offset \in Nat) /\ (HasRead(batch[p]) => batch[p].total \in Nat)
    BY AtOp DEF BulkRecord, BatchRecord
  <2>3. [tally[p] EXCEPT !.crashes = tally[p].crashes + 1] \in TallyRecord
    BY <2>1 DEF TallyRecord
  <2> QED BY <2>1, <2>2, <2>3, GoodForgotten
<1>3. BulkType'
  BY <1>1, <1>2 DEF BulkInv, BulkType
<1> QED BY <1>1, <1>2, <1>3 DEF BulkInv

\* Every card of cs is in ds, at its place or after it.
Later(cs, ds) == \A k \in DOMAIN cs : \E m \in DOMAIN ds : m >= k /\ ds[m] = cs[k]

\* An inserted card moves others behind it, so that one may have a second turn.
LEMMA GoodInserted ==
  ASSUME NEW b, NEW t, NEW y \in TallyRecord, NEW cs \in Seq(CardSet), NEW ds \in Seq(CardSet),
         Good(b, t, y, cs), Later(cs, ds), b.pc # "idle" => b.offset \in Nat,
         HasRead(t) => t.total \in Nat, t.pc = "read" \/ Open(b) => b.pc # "idle"
  PROVE  Good(b, t, [y EXCEPT !.inserted = y.inserted + 1], ds)
<1> DEFINE z == [y EXCEPT !.inserted = y.inserted + 1]
<1>1. /\ z \in TallyRecord /\ z.turned = y.turned /\ z.crashes = y.crashes /\ z.inserted = y.inserted + 1
      /\ z.removed = y.removed /\ z.spared = y.spared
  BY TallyMore
<1> HIDE DEF z
<1>2. DOMAIN cs \subseteq Nat /\ DOMAIN ds \subseteq Nat
  BY LenProperties
<1>3. ASSUME NEW k \in Nat, NEW id, After(cs, id, k) PROVE After(ds, id, k)
  <2>1. PICK i \in DOMAIN cs : i > k /\ cs[i].id = id
    BY <1>3 DEF After
  <2>2. PICK m \in DOMAIN ds : m >= i /\ ds[m] = cs[i]
    BY DEF Later
  <2>3. m > k /\ ds[m].id = id
    BY <1>2, <2>1, <2>2
  <2> QED BY <2>3 DEF After
<1>4. OnceOK(b, t, z, ds)
  <2> SUFFICES ASSUME NEW id \in Ids
               PROVE  z.turned[id] + Times(InTodo(t, id)) + Times(Ahead(b, t, ds, id))
                        <= 1 + z.crashes + z.inserted
    BY DEF OnceOK
  <2>1. y.turned[id] + Times(InTodo(t, id)) + Times(Ahead(b, t, cs, id)) <= 1 + y.crashes + y.inserted
    BY DEF Good, OnceOK
  <2>2. y.turned[id] \in Nat /\ y.crashes \in Nat /\ y.inserted \in Nat
    BY DEF TallyRecord
  <2>3. Times(InTodo(t, id)) \in {0, 1} /\ Times(Ahead(b, t, cs, id)) \in {0, 1} /\ Times(Ahead(b, t, ds, id)) \in {0, 1}
    BY DEF Times
  <2>4. z.turned[id] = y.turned[id] /\ z.crashes = y.crashes /\ z.inserted = y.inserted + 1
    BY <1>1
  <2> DEFINE u == Times(InTodo(t, id))
             v == Times(Ahead(b, t, cs, id))
             w == Times(Ahead(b, t, ds, id))
  <2> HIDE DEF u, v, w
  <2>5. u \in {0, 1} /\ v \in {0, 1} /\ w \in {0, 1} /\ y.turned[id] + u + v <= 1 + y.crashes + y.inserted
    BY <2>1, <2>3 DEF u, v, w
  <2>6. ASSUME NEW n \in Nat, NEW c \in Nat, NEW i \in Nat, n + u + v <= 1 + c + i
        PROVE  n + u + w <= 1 + c + (i + 1)
    BY <2>5, <2>6
  <2>7. y.turned[id] + u + w <= 1 + y.crashes + (y.inserted + 1)
    BY ONLY <2>2, <2>5, <2>6
  <2> QED BY <2>4, <2>7 DEF u, w
<1>5. ASSUME z.removed = 0 PROVE SparedOK(b, t, z, ds)
  <2> SUFFICES ASSUME NEW c \in y.spared
               PROVE  /\ \E i \in DOMAIN ds : ds[i].id = c.id /\ ds[i].main = c.main
                      /\ t.pc = "turn" => \A j \in DOMAIN t.todo : t.todo[j].id = c.id => t.todo[j].main = c.main
                      /\ (b.filter => ~c.main) =>
                           /\ b.pc = "done" => Settles(b, y, c)
                           /\ Open(b) => Settles(b, y, c) \/ After(ds, c.id, b.offset)
                           /\ Open(b) /\ HasRead(t) =>
                                \/ Settles(b, y, c) \/ c.id \in t.failed \/ InTodo(t, c.id)
                                \/ ~Ends(t, NextOffset(b, t)) /\ After(ds, c.id, NextOffset(b, t))
    BY <1>1 DEF SparedOK, Settles
  <2>1. y.removed = 0 /\ SparedOK(b, t, y, cs)
    BY <1>1, <1>5 DEF Good
  <2>2. \E i \in DOMAIN ds : ds[i].id = c.id /\ ds[i].main = c.main
    <3>1. PICK i \in DOMAIN cs : cs[i].id = c.id /\ cs[i].main = c.main
      BY <2>1 DEF SparedOK
    <3>2. PICK m \in DOMAIN ds : ds[m] = cs[i]
      BY DEF Later
    <3> QED BY <3>1, <3>2
  <2>3. Open(b) => b.offset \in Nat /\ NextOffset(b, t) \in Nat
    BY DEF NextOffset, Open
  <2>4. Open(b) => /\ After(cs, c.id, b.offset) => After(ds, c.id, b.offset)
                   /\ After(cs, c.id, NextOffset(b, t)) => After(ds, c.id, NextOffset(b, t))
    BY <1>3, <2>3
  <2> QED BY <2>1, <2>2, <2>4 DEF SparedOK
<1> QED BY <1>4, <1>5 DEF Good, z

\* What InsertAt does to a sequence of cards.
LEMMA InsertedIs ==
  ASSUME NEW cs \in Seq(CardSet), NEW i \in 1 .. Len(cs) + 1, NEW e \in CardSet
  PROVE  /\ InsertAt(cs, i, e) \in Seq(CardSet) /\ Len(InsertAt(cs, i, e)) = Len(cs) + 1
         /\ \A k \in 1 .. Len(cs) + 1 :
              InsertAt(cs, i, e)[k] = IF k < i THEN cs[k] ELSE IF k = i THEN e ELSE cs[k - 1]
<1> DEFINE front == SubSeq(cs, 1, i - 1)
           back == SubSeq(cs, i, Len(cs))
<1>1. Len(cs) \in Nat /\ \A k \in 1 .. Len(cs) : cs[k] \in CardSet
  BY LenProperties, ElementOfSeq
<1>2. front \in Seq(CardSet) /\ Len(front) = i - 1 /\ \A k \in 1 .. i - 1 : front[k] = cs[k]
  BY <1>1, SubSeqProperties
<1>3. /\ back \in Seq(CardSet) /\ Len(back) = Len(cs) + 1 - i
      /\ \A k \in 1 .. Len(cs) + 1 - i : back[k] = cs[k + (i - 1)]
  BY <1>1, SubSeqProperties
<1>4. InsertAt(cs, i, e) = front \o <<e>> \o back
  BY DEF InsertAt
<1> HIDE DEF front, back
<1>5. <<e>> \in Seq(CardSet) /\ Len(<<e>>) = 1 /\ <<e>>[1] = e
  OBVIOUS
<1>6. /\ front \o <<e>> \in Seq(CardSet) /\ Len(front \o <<e>>) = i
      /\ \A k \in 1 .. i : (front \o <<e>>)[k] = IF k < i THEN cs[k] ELSE e
  BY <1>1, <1>2, <1>5, ConcatProperties
<1> DEFINE begin == front \o <<e>>
<1> HIDE DEF begin
<1>7. /\ begin \o back \in Seq(CardSet) /\ Len(begin \o back) = Len(cs) + 1
      /\ \A k \in 1 .. Len(cs) + 1 :
           (begin \o back)[k] = IF k < i THEN cs[k] ELSE IF k = i THEN e ELSE cs[k - 1]
  <2>1. begin \in Seq(CardSet) /\ Len(begin) = i /\ i \in Nat
    BY <1>1, <1>6 DEF begin
  <2>2. /\ begin \o back \in Seq(CardSet) /\ Len(begin \o back) = i + (Len(cs) + 1 - i)
        /\ \A k \in 1 .. i + (Len(cs) + 1 - i) :
             (begin \o back)[k] = IF k <= i THEN begin[k] ELSE back[k - i]
    <3>1. /\ begin \o back \in Seq(CardSet) /\ Len(begin \o back) = Len(begin) + Len(back)
          /\ \A k \in 1 .. Len(begin) + Len(back) :
               (begin \o back)[k] = IF k <= Len(begin) THEN begin[k] ELSE back[k - Len(begin)]
      BY <1>3, <2>1, ConcatProperties
    <3> QED BY <1>3, <2>1, <3>1
  <2>3. i + (Len(cs) + 1 - i) = Len(cs) + 1
    BY <1>1
  <2>4. ASSUME NEW k \in 1 .. Len(cs) + 1
        PROVE  (begin \o back)[k] = IF k < i THEN cs[k] ELSE IF k = i THEN e ELSE cs[k - 1]
    <3>1. CASE k <= i
      BY <1>6, <2>2, <2>3, <3>1 DEF begin
    <3>2. CASE k > i
      <4>1. k - i \in 1 .. Len(cs) + 1 - i /\ (k - i) + (i - 1) = k - 1
        BY <1>1, <3>2
      <4>2. (begin \o back)[k] = back[k - i]
        BY <1>1, <2>2, <2>3, <3>2
      <4>3. back[k - i] = cs[(k - i) + (i - 1)]
        BY <1>3, <4>1
      <4>4. ~(k < i) /\ k # i
        BY <1>1, <3>2
      <4> QED BY <4>1, <4>2, <4>3, <4>4
    <3>3. k <= i \/ k > i
      BY <1>1
    <3> QED BY <3>1, <3>2, <3>3
  <2> QED BY <2>2, <2>3, <2>4
<1> QED BY <1>4, <1>7 DEF begin

\* What RemoveAt does to a sequence of cards.
LEMMA RemovedIs ==
  ASSUME NEW cs \in Seq(CardSet), NEW i \in 1 .. Len(cs)
  PROVE  /\ RemoveAt(cs, i) \in Seq(CardSet) /\ Len(RemoveAt(cs, i)) = Len(cs) - 1
         /\ \A k \in 1 .. Len(cs) - 1 : RemoveAt(cs, i)[k] = IF k < i THEN cs[k] ELSE cs[k + 1]
<1> DEFINE front == SubSeq(cs, 1, i - 1)
           back == SubSeq(cs, i + 1, Len(cs))
<1>1. Len(cs) \in Nat /\ \A k \in 1 .. Len(cs) : cs[k] \in CardSet
  BY LenProperties, ElementOfSeq
<1>2. front \in Seq(CardSet) /\ Len(front) = i - 1 /\ \A k \in 1 .. i - 1 : front[k] = cs[k]
  BY <1>1, SubSeqProperties
<1>3. /\ back \in Seq(CardSet) /\ Len(back) = Len(cs) - i
      /\ \A k \in 1 .. Len(cs) - i : back[k] = cs[k + i]
  BY <1>1, SubSeqProperties
<1>4. RemoveAt(cs, i) = front \o back
  BY DEF RemoveAt
<1> HIDE DEF front, back
<1>5. /\ front \o back \in Seq(CardSet) /\ Len(front \o back) = Len(cs) - 1
      /\ \A k \in 1 .. Len(cs) - 1 : (front \o back)[k] = IF k < i THEN cs[k] ELSE cs[k + 1]
  <2>1. i - 1 \in Nat /\ (i - 1) + (Len(cs) - i) = Len(cs) - 1
    BY <1>1
  <2>2. /\ front \o back \in Seq(CardSet) /\ Len(front \o back) = Len(cs) - 1
        /\ \A k \in 1 .. Len(cs) - 1 :
             (front \o back)[k] = IF k <= i - 1 THEN front[k] ELSE back[k - (i - 1)]
    <3>1. /\ front \o back \in Seq(CardSet) /\ Len(front \o back) = Len(front) + Len(back)
          /\ \A k \in 1 .. Len(front) + Len(back) :
               (front \o back)[k] = IF k <= Len(front) THEN front[k] ELSE back[k - Len(front)]
      BY <1>2, <1>3, ConcatProperties
    <3> QED BY <1>2, <1>3, <2>1, <3>1
  <2>3. ASSUME NEW k \in 1 .. Len(cs) - 1
        PROVE  (front \o back)[k] = IF k < i THEN cs[k] ELSE cs[k + 1]
    <3>1. CASE k <= i - 1
      <4>1. k < i /\ k \in 1 .. i - 1
        BY <1>1, <3>1
      <4> QED BY <1>2, <2>2, <3>1, <4>1
    <3>2. CASE ~(k <= i - 1)
      <4>1. ~(k < i) /\ k - (i - 1) \in 1 .. Len(cs) - i /\ (k - (i - 1)) + i = k + 1
        BY <1>1, <3>2
      <4>2. (front \o back)[k] = back[k - (i - 1)]
        BY <2>2, <3>2
      <4>3. back[k - (i - 1)] = cs[(k - (i - 1)) + i]
        BY <1>3, <4>1
      <4> QED BY <4>1, <4>2, <4>3
    <3> QED BY <3>1, <3>2
  <2> QED BY <2>2, <2>3
<1> QED BY <1>4, <1>5

\* A new card has a new id, and no card is lost.
LEMMA InsertCardStep ==
  ASSUME BulkInv, InsertCard
  PROVE  BulkInv'
<1>1. PICK id \in Newcomers, i \in 1 .. Len(cards) + 1 :
         ~Exists(id) /\ cards' = InsertAt(cards, i, [id |-> id, value |-> None, main |-> FALSE])
  BY DEF InsertCard
<1> DEFINE e == [id |-> id, value |-> None, main |-> FALSE]
<1>2. /\ UNCHANGED <<bulk, batch>>
      /\ tally' = [p \in Pages |-> [tally[p] EXCEPT !.inserted = tally[p].inserted + 1]]
  BY DEF InsertCard
<1>3. cards \in Seq(CardSet) /\ Len(cards) \in Nat /\ DOMAIN cards = 1 .. Len(cards) /\ UniqueIds(cards)
  BY DEF BulkInv, BulkType
<1>4. e \in CardSet /\ e.id = id
  BY DEF CardSet, CardValues, Ids
<1> HIDE DEF e
<1>5. /\ cards' \in Seq(CardSet) /\ DOMAIN cards' = 1 .. Len(cards) + 1
      /\ \A k \in 1 .. Len(cards) + 1 :
           cards'[k] = IF k < i THEN cards[k] ELSE IF k = i THEN e ELSE cards[k - 1]
  <2>1. /\ InsertAt(cards, i, e) \in Seq(CardSet) /\ Len(InsertAt(cards, i, e)) = Len(cards) + 1
        /\ \A k \in 1 .. Len(cards) + 1 :
              InsertAt(cards, i, e)[k] = IF k < i THEN cards[k] ELSE IF k = i THEN e ELSE cards[k - 1]
    BY <1>3, <1>4, InsertedIs
  <2>2. DOMAIN InsertAt(cards, i, e) = 1 .. Len(cards) + 1
    BY <2>1, LenProperties
  <2>3. cards' = InsertAt(cards, i, e)
    BY <1>1 DEF e
  <2> QED BY <2>1, <2>2, <2>3
<1>6. Later(cards, cards')
  <2> SUFFICES ASSUME NEW k \in 1 .. Len(cards)
               PROVE  \E m \in 1 .. Len(cards) + 1 : m >= k /\ cards'[m] = cards[k]
    BY <1>3, <1>5 DEF Later
  <2>1. CASE k < i
    <3>1. k \in 1 .. Len(cards) + 1 /\ cards'[k] = cards[k]
      BY <1>3, <1>5, <2>1
    <3> QED BY <1>3, <3>1
  <2>2. CASE ~(k < i)
    <3>1. k + 1 \in 1 .. Len(cards) + 1 /\ ~(k + 1 < i) /\ k + 1 # i /\ (k + 1) - 1 = k
      BY <1>3, <2>2
    <3>2. cards'[k + 1] = cards[k]
      BY <1>5, <3>1
    <3> QED BY <1>3, <3>1, <3>2
  <2> QED BY <2>1, <2>2
<1>7. UniqueIds(cards')
  <2>1. \A k \in 1 .. Len(cards) : cards[k].id # id
    BY <1>1, <1>3 DEF Exists
  <2>2. ASSUME NEW j \in 1 .. Len(cards) + 1, NEW k \in 1 .. Len(cards) + 1, j < k PROVE cards'[j].id # cards'[k].id
    <3>1. CASE j = i
      <4>1. cards'[j] = e /\ cards'[k] = cards[k - 1] /\ k - 1 \in 1 .. Len(cards)
        BY <1>3, <1>5, <2>2, <3>1
      <4> QED BY <1>4, <2>1, <4>1
    <3>2. CASE k = i
      <4>1. cards'[k] = e /\ cards'[j] = cards[j] /\ j \in 1 .. Len(cards)
        BY <1>3, <1>5, <2>2, <3>2
      <4> QED BY <1>4, <2>1, <4>1
    <3>3. CASE j # i /\ k # i
      <4>1. PICK u \in 1 .. Len(cards), v \in 1 .. Len(cards) : u # v /\ cards'[j] = cards[u] /\ cards'[k] = cards[v]
        <5>1. CASE k < i
          <6>1. j \in 1 .. Len(cards) /\ k \in 1 .. Len(cards) /\ j # k /\ cards'[j] = cards[j] /\ cards'[k] = cards[k]
            BY <1>3, <1>5, <2>2, <5>1
          <6> QED BY <6>1
        <5>2. CASE j < i /\ i < k
          <6>1. /\ j \in 1 .. Len(cards) /\ k - 1 \in 1 .. Len(cards) /\ j # k - 1
                /\ cards'[j] = cards[j] /\ cards'[k] = cards[k - 1]
            BY <1>3, <1>5, <2>2, <5>2
          <6> QED BY <6>1
        <5>3. CASE i < j
          <6>1. /\ j - 1 \in 1 .. Len(cards) /\ k - 1 \in 1 .. Len(cards) /\ j - 1 # k - 1
                /\ cards'[j] = cards[j - 1] /\ cards'[k] = cards[k - 1]
            BY <1>3, <1>5, <2>2, <5>3
          <6> QED BY <6>1
        <5> QED BY <1>3, <2>2, <3>3, <5>1, <5>2, <5>3
      <4> QED BY <1>3, <4>1 DEF UniqueIds
    <3> QED BY <3>1, <3>2, <3>3
  <2>3. \A j, k \in 1 .. Len(cards) + 1 : j # k => j < k \/ k < j
    BY <1>3
  <2> QED BY <1>5, <2>2, <2>3 DEF UniqueIds
<1>8. ASSUME NEW p \in Pages
      PROVE  /\ Good(bulk[p], batch[p], [tally[p] EXCEPT !.inserted = tally[p].inserted + 1], cards')
             /\ [tally[p] EXCEPT !.inserted = tally[p].inserted + 1] \in TallyRecord
  <2>1. Good(bulk[p], batch[p], tally[p], cards) /\ tally[p] \in TallyRecord
    BY AtOp
  <2>2. (bulk[p].pc # "idle" => bulk[p].offset \in Nat) /\ (HasRead(batch[p]) => batch[p].total \in Nat)
    BY AtOp DEF BulkRecord, BatchRecord
  <2>3. batch[p].pc = "read" \/ Open(bulk[p]) => bulk[p].pc # "idle"
    BY <2>1 DEF Good, BatchOK, Unasked, Open
  <2> QED BY <1>3, <1>5, <1>6, <2>1, <2>2, <2>3, GoodInserted, TallyMore
<1>9. BulkType'
  BY <1>2, <1>5, <1>7, <1>8 DEF BulkInv, BulkType
<1> QED BY <1>2, <1>8, <1>9 DEF BulkInv

\* After a removal nothing is promised but that no card is turned again.
LEMMA RemoveCardStep ==
  ASSUME BulkInv, RemoveCard
  PROVE  BulkInv'
<1>1. PICK i \in DOMAIN cards :
         /\ cards' = RemoveAt(cards, i)
         /\ tally' = [p \in Pages |-> [tally[p] EXCEPT !.removed = tally[p].removed + 1]]
  BY DEF RemoveCard
<1>2. UNCHANGED <<bulk, batch>>
  BY DEF RemoveCard
<1>3. cards \in Seq(CardSet) /\ Len(cards) \in Nat /\ DOMAIN cards = 1 .. Len(cards) /\ UniqueIds(cards)
  BY DEF BulkInv, BulkType
<1>4. /\ cards' \in Seq(CardSet) /\ DOMAIN cards' = 1 .. Len(cards) - 1
      /\ \A k \in 1 .. Len(cards) - 1 : cards'[k] = IF k < i THEN cards[k] ELSE cards[k + 1]
  <2>1. /\ RemoveAt(cards, i) \in Seq(CardSet) /\ Len(RemoveAt(cards, i)) = Len(cards) - 1
        /\ \A k \in 1 .. Len(cards) - 1 : RemoveAt(cards, i)[k] = IF k < i THEN cards[k] ELSE cards[k + 1]
    BY <1>3, RemovedIs
  <2>2. DOMAIN RemoveAt(cards, i) = 1 .. Len(cards) - 1
    BY <2>1, LenProperties
  <2> QED BY <1>1, <2>1, <2>2
<1> DEFINE from(k) == IF k < i THEN k ELSE k + 1
<1>5. \A k \in DOMAIN cards' : from(k) \in DOMAIN cards /\ from(k) >= k /\ cards'[k] = cards[from(k)]
  BY <1>3, <1>4
<1>6. \A j, k \in DOMAIN cards' : from(j) = from(k) => j = k
  BY <1>3, <1>4
<1> HIDE DEF from
<1>7. UniqueIds(cards')
  BY <1>3, <1>5, <1>6 DEF UniqueIds
<1>8. ASSUME NEW k \in Nat, NEW id, After(cards', id, k) PROVE After(cards, id, k)
  <2>1. PICK m \in DOMAIN cards' : m > k /\ cards'[m].id = id
    BY <1>8 DEF After
  <2>2. from(m) \in DOMAIN cards /\ from(m) > k /\ cards[from(m)].id = id
    BY <1>3, <1>4, <1>5, <2>1
  <2> QED BY <2>2 DEF After
<1>9. ASSUME NEW p \in Pages
      PROVE  /\ Good(bulk[p], batch[p], [tally[p] EXCEPT !.removed = tally[p].removed + 1], cards')
             /\ [tally[p] EXCEPT !.removed = tally[p].removed + 1] \in TallyRecord
  <2> DEFINE y == tally[p]
             z == [y EXCEPT !.removed = y.removed + 1]
  <2>1. Good(bulk[p], batch[p], y, cards) /\ y \in TallyRecord
    BY AtOp
  <2> HIDE DEF y
  <2>2. y.removed + 1 \in Nat /\ y.removed + 1 # 0
    BY <2>1 DEF TallyRecord
  <2>3. /\ z \in TallyRecord /\ z.turned = y.turned /\ z.crashes = y.crashes /\ z.inserted = y.inserted
        /\ z.removed # 0
    BY <2>1, <2>2 DEF TallyRecord
  <2> HIDE DEF z
  <2>4. (Open(bulk[p]) \/ batch[p].pc = "read") => NextOffset(bulk[p], batch[p]) \in Nat
    <3>1. (Open(bulk[p]) \/ batch[p].pc = "read") => bulk[p].pc # "idle"
      BY <2>1 DEF Good, BatchOK, Unasked, Open
    <3> QED BY <3>1, AtOp DEF BulkRecord, BatchRecord, NextOffset
  <2>5. \A id : Ahead(bulk[p], batch[p], cards', id) => Ahead(bulk[p], batch[p], cards, id)
    BY <1>8, <2>4 DEF Ahead
  <2>6. OnceOK(bulk[p], batch[p], z, cards')
    <3> SUFFICES ASSUME NEW id \in Ids
                 PROVE  z.turned[id] + Times(InTodo(batch[p], id)) + Times(Ahead(bulk[p], batch[p], cards', id))
                          <= 1 + z.crashes + z.inserted
      BY DEF OnceOK
    <3>1. y.turned[id] + Times(InTodo(batch[p], id)) + Times(Ahead(bulk[p], batch[p], cards, id))
            <= 1 + y.crashes + y.inserted
      BY <2>1 DEF Good, OnceOK
    <3>2. y.turned[id] \in Nat /\ y.crashes \in Nat /\ y.inserted \in Nat
      BY <2>1 DEF TallyRecord
    <3> QED BY <2>3, <2>5, <3>1, <3>2 DEF Times
  <2>7. Good(bulk[p], batch[p], z, cards')
    BY <2>1, <2>3, <2>6 DEF Good
  <2> QED BY <2>3, <2>7 DEF y, z
<1>10. BulkType'
  BY <1>1, <1>2, <1>4, <1>7, <1>9 DEF BulkInv, BulkType
<1> QED BY <1>1, <1>2, <1>9, <1>10 DEF BulkInv

\* A card whose flag is set is no longer one that nobody touched.
LEMMA BindStep ==
  ASSUME BulkInv, Bind
  PROVE  BulkInv'
<1>1. PICK i \in DOMAIN cards :
         /\ cards' = [cards EXCEPT ![i].main = TRUE]
         /\ tally' = [p \in Pages |-> [tally[p] EXCEPT !.spared = {c \in @ : c.id # cards[i].id}]]
  BY DEF Bind
<1>2. UNCHANGED <<bulk, batch>>
  BY DEF Bind
<1>3. cards \in Seq(CardSet) /\ DOMAIN cards = 1 .. Len(cards) /\ UniqueIds(cards)
  BY DEF BulkInv, BulkType
<1> DEFINE e == [cards[i] EXCEPT !.main = TRUE]
<1>4. e \in CardSet /\ e.id = cards[i].id
  <2>1. cards[i] \in CardSet
    BY <1>3
  <2> QED BY <2>1 DEF CardSet
<1> HIDE DEF e
<1>5. cards' = [cards EXCEPT ![i] = e]
  BY <1>1 DEF e
<1>6. /\ cards' \in Seq(CardSet) /\ DOMAIN cards' = DOMAIN cards
      /\ \A k \in DOMAIN cards : cards'[k].id = cards[k].id /\ (k # i => cards'[k] = cards[k])
  <2>1. cards' \in Seq(CardSet)
    BY <1>3, <1>4, <1>5, ExceptSeq
  <2> QED BY <1>3, <1>4, <1>5, <2>1
<1>7. \A id, k : After(cards', id, k) <=> After(cards, id, k)
  BY <1>6 DEF After
<1>8. ASSUME NEW p \in Pages
      PROVE  /\ Good(bulk[p], batch[p], [tally[p] EXCEPT !.spared = {c \in @ : c.id # cards[i].id}], cards')
             /\ [tally[p] EXCEPT !.spared = {c \in @ : c.id # cards[i].id}] \in TallyRecord
  <2> DEFINE y == tally[p]
             z == [y EXCEPT !.spared = {c \in y.spared : c.id # cards[i].id}]
  <2>1. Good(bulk[p], batch[p], y, cards) /\ y \in TallyRecord
    BY AtOp
  <2> HIDE DEF y
  <2>2. /\ z \in TallyRecord /\ z.turned = y.turned /\ z.crashes = y.crashes /\ z.inserted = y.inserted
        /\ z.removed = y.removed /\ z.spared = {c \in y.spared : c.id # cards[i].id}
    BY <2>1 DEF TallyRecord
  <2> HIDE DEF z
  <2>3. OnceOK(bulk[p], batch[p], z, cards')
    BY <1>7, <2>1, <2>2 DEF Good, OnceOK, Ahead, Times
  <2>4. ASSUME z.removed = 0 PROVE SparedOK(bulk[p], batch[p], z, cards')
    <3>1. y.removed = 0 /\ SparedOK(bulk[p], batch[p], y, cards)
      BY <2>1, <2>2, <2>4 DEF Good
    <3>2. ASSUME NEW c \in z.spared PROVE \E k \in DOMAIN cards' : cards'[k].id = c.id /\ cards'[k].main = c.main
      <4>1. c \in y.spared /\ c.id # cards[i].id
        BY <2>2, <3>2
      <4>2. PICK k \in DOMAIN cards : cards[k].id = c.id /\ cards[k].main = c.main
        BY <3>1, <4>1 DEF SparedOK
      <4> QED BY <1>6, <4>1, <4>2
    <3> QED BY <1>7, <2>2, <3>1, <3>2 DEF SparedOK, Settles
  <2>5. Good(bulk[p], batch[p], z, cards')
    BY <2>1, <2>3, <2>4 DEF Good
  <2> QED BY <2>2, <2>5 DEF y, z
<1>9. UniqueIds(cards')
  BY <1>3, <1>6 DEF UniqueIds
<1>10. BulkType'
  BY <1>1, <1>2, <1>6, <1>8, <1>9 DEF BulkInv, BulkType
<1> QED BY <1>1, <1>2, <1>8, <1>10 DEF BulkInv

-----------------------------------------------------------------------------
(* What the invariant says of operations. *)

\* The invariant holds at first: there are no operations.
LEMMA BulkInitially == BulkInit => BulkInv
<1> SUFFICES ASSUME BulkInit PROVE BulkInv
  OBVIOUS
<1>1. /\ cards = FirstCards /\ bulk = [p \in Pages |-> Idle] /\ batch = [p \in Pages |-> Unasked]
      /\ tally = [p \in Pages |-> NoTally]
  BY DEF BulkInit
<1>2. NoTally \in TallyRecord /\ NoTally.spared = {} /\ \A id \in Ids : NoTally.turned[id] = 0
  BY DEF NoTally, TallyRecord
<1>3. NoTally.crashes = 0 /\ NoTally.inserted = 0
  BY DEF NoTally
<1>4. Idle.pc = "idle" /\ Unasked.pc = "none"
  BY DEF Idle, Unasked
<1>5. BulkType
  BY <1>1, <1>2, BulkAssumption DEF BulkType, UniqueIds
<1>6. BatchOK(Idle, Unasked) /\ OnceOK(Idle, Unasked, NoTally, cards)
  BY <1>2, <1>3, <1>4 DEF BatchOK, OnceOK, InTodo, Ahead, Open, Times
<1>7. SparedOK(Idle, Unasked, NoTally, cards)
  BY <1>2 DEF SparedOK
<1> QED BY <1>1, <1>5, <1>6, <1>7 DEF BulkInv, Good

\* The catalog and the audit model leave the operations alone.
LEMMA BulkStep == BulkInv /\ [BulkNext]_allVars => BulkInv'
<1> SUFFICES ASSUME BulkInv, [BulkNext]_allVars PROVE BulkInv'
  OBVIOUS
<1>1. CASE UNCHANGED bulkVars
  BY <1>1 DEF BulkInv, BulkType, bulkVars
<1>2. ASSUME NEW p \in Pages, NEW filter \in BOOLEAN, StartBulk(p, filter) PROVE BulkInv'
  BY <1>2, StartBulkStep
<1>3. ASSUME NEW p \in Pages, Deliver(p) \/ Lose(p) \/ Respond(p) \/ Forget(p) PROVE BulkInv'
  BY <1>3, DeliverStep, LoseStep, RespondStep, ForgetStep
<1>4. ASSUME NEW p \in Pages, ReadCards(p) \/ FailToRead(p) \/ PassOver(p) \/ Turn(p) PROVE BulkInv'
  BY <1>4, ReadCardsStep, FailToReadStep, PassOverStep, TurnStep
<1>5. CASE BulkCrash \/ InsertCard \/ RemoveCard \/ Bind
  BY <1>5, BulkCrashStep, InsertCardStep, RemoveCardStep, BindStep
<1>6. UNCHANGED allVars => UNCHANGED bulkVars
  BY DEF allVars, bulkVars
<1> QED BY <1>1, <1>2, <1>3, <1>4, <1>5, <1>6 DEF BulkNext

\* Turns are counted, and what is done is complete.
LEMMA BulkSafe == BulkInv => TurnedOnce /\ NobodyMissed
<1> SUFFICES ASSUME BulkInv PROVE TurnedOnce /\ NobodyMissed
  OBVIOUS
<1>1. ASSUME NEW p \in Pages, NEW id \in Ids
      PROVE  tally[p].turned[id] <= 1 + tally[p].crashes + tally[p].inserted
  <2>1. tally[p].turned[id] + Times(InTodo(batch[p], id)) + Times(Ahead(bulk[p], batch[p], cards, id))
          <= 1 + tally[p].crashes + tally[p].inserted
    BY AtOp DEF Good, OnceOK
  <2>2. tally[p].turned[id] \in Nat /\ tally[p].crashes \in Nat /\ tally[p].inserted \in Nat
    BY AtOp DEF TallyRecord
  <2> QED BY <2>1, <2>2 DEF Times
<1>2. ASSUME NEW p \in Pages, bulk[p].pc = "done", tally[p].removed = 0,
             NEW c \in tally[p].spared, ~Filtered(p, c)
      PROVE  tally[p].turned[c.id] > 0 \/ c.id \in bulk[p].failed
  BY <1>2, AtOp DEF Good, SparedOK, Settles, Filtered
<1> QED BY <1>1, <1>2 DEF TurnedOnce, NobodyMissed

\* An operation turns a card once, but for a crash or an insertion.
THEOREM TurnedOnceHolds == BulkSpec => []TurnedOnce
  BY BulkInitially, BulkStep, BulkSafe, PTL DEF BulkSpec

\* An operation that is done has missed no card.
THEOREM NobodyMissedHolds == BulkSpec => []NobodyMissed
  BY BulkInitially, BulkStep, BulkSafe, PTL DEF BulkSpec

-----------------------------------------------------------------------------
(* Rules and the catalog of Zabbix (RulesCatalogs): first what its         *)
(* operators on documents and catalogs compute, then the invariant.        *)

\* A set of numbers that has a member has a first one.
LEMMA FirstNumber ==
  ASSUME NEW D, D \subseteq Nat, D # {}
  PROVE  \E n \in D : \A k \in D : n <= k
  <1> DEFINE R == {x \in Nat \X Nat : x[1] < x[2]}
  <1>1. PICK n \in D : \A k \in D : ~(<<k, n>> \in R)
    <2>1. IsWellFoundedOn(R, Nat)
      BY NatLessThanWellFounded DEF OpToRel
    <2> HIDE DEF R
    <2> QED BY <2>1, WFMin
  <1>2. ASSUME NEW k \in D PROVE n <= k
    <2>1. <<k, n>> \in Nat \X Nat /\ ~(<<k, n>> \in R)
      BY <1>1
    <2> QED BY <2>1
  <1> QED BY <1>2

\* What is left of the selected ids after each conflict rule.
AfterRule(ids, rule) == IF rule.when \cap ids = {} THEN ids ELSE ids \ rule.remove
Course(selected, conflicts, g, n) ==
    /\ g = [k \in 0 .. n |-> g[k]]
    /\ \A k \in 0 .. n : g[k] = IF k = 0 THEN selected ELSE AfterRule(g[k - 1], conflicts[k])

\* There is such a course for any list of conflict rules.
LEMMA CourseExists ==
  ASSUME NEW selected, NEW conflicts, NEW n \in Nat
  PROVE  \E g : Course(selected, conflicts, g, n)
  <1> DEFINE D == {k \in Nat : ~ \E g : Course(selected, conflicts, g, k)}
  <1>1. SUFFICES ASSUME D # {} PROVE FALSE
    OBVIOUS
  <1>2. PICK m \in D : \A k \in D : m <= k
    <2>1. D \subseteq Nat
      OBVIOUS
    <2> HIDE DEF D
    <2> QED BY <1>1, <2>1, FirstNumber
  <1>3. m # 0
    <2> DEFINE g == [k \in 0 .. 0 |-> selected]
    <2>1. Course(selected, conflicts, g, 0)
      BY DEF Course
    <2>2. \E f : Course(selected, conflicts, f, 0)
      BY <2>1
    <2> QED BY <2>2
  <1>4. PICK g : Course(selected, conflicts, g, m - 1)
    BY <1>2, <1>3
  <1> DEFINE h == [k \in 0 .. m |-> IF k = m THEN AfterRule(g[m - 1], conflicts[m]) ELSE g[k]]
  <1>5. Course(selected, conflicts, h, m)
    <2>1. h = [k \in 0 .. m |-> h[k]]
      OBVIOUS
    <2>2. ASSUME NEW k \in 0 .. m
          PROVE  h[k] = IF k = 0 THEN selected ELSE AfterRule(h[k - 1], conflicts[k])
      <3>1. CASE k = m
        <4>1. m - 1 \in 0 .. m /\ m - 1 # m /\ m \in 0 .. m
          BY <1>3
        <4>2. h[m] = AfterRule(g[m - 1], conflicts[m]) /\ h[m - 1] = g[m - 1]
          BY <4>1
        <4> HIDE DEF h
        <4> QED BY <4>2, <3>1, <1>3
      <3>2. CASE k # m
        <4>1. k \in 0 .. m - 1
          BY <3>2
        <4>2. g[k] = IF k = 0 THEN selected ELSE AfterRule(g[k - 1], conflicts[k])
          BY <4>1, <1>4 DEF Course
        <4>3. h[k] = g[k]
          BY <3>2
        <4>4. k # 0 => h[k - 1] = g[k - 1]
          BY <4>1
        <4> HIDE DEF h
        <4> QED BY <4>2, <4>3, <4>4
      <3> QED BY <3>1, <3>2
    <2> HIDE DEF h
    <2> QED BY <2>1, <2>2 DEF Course
  <1>6. \E f : Course(selected, conflicts, f, m)
    BY <1>5
  <1> QED BY <1>6, <1>2

\* What the page counts as left is at the end of a course.
LEMMA ActiveIsCourse ==
  ASSUME NEW selected, NEW conflicts \in Seq(ConflictRule)
  PROVE  \E g : Course(selected, conflicts, g, Len(conflicts)) /\ Active(selected, conflicts) = g[Len(conflicts)]
  <1> DEFINE n == Len(conflicts)
             Rec(g) == g = [k \in 0 .. n |->
                        IF k = 0 THEN selected
                        ELSE IF conflicts[k].when \cap g[k - 1] = {} THEN g[k - 1]
                        ELSE g[k - 1] \ conflicts[k].remove]
             c == CHOOSE g : Rec(g)
  <1>1. n \in Nat
    OBVIOUS
  <1>2. PICK k : Course(selected, conflicts, k, n)
    BY <1>1, CourseExists
  <1>3. Rec(k)
    BY <1>2 DEF Course, AfterRule
  <1>4. Rec(c)
    BY <1>3
  <1>5. Active(selected, conflicts) = c[n]
    BY DEF Active
  <1>6. Course(selected, conflicts, c, n)
    <2> HIDE DEF c, n
    <2>1. \A i \in 0 .. n : c[i] = IF i = 0 THEN selected ELSE AfterRule(c[i - 1], conflicts[i])
      BY <1>4 DEF AfterRule
    <2>2. c = [i \in 0 .. n |-> c[i]]
      BY <1>4
    <2> QED BY <2>1, <2>2 DEF Course
  <1> QED BY <1>5, <1>6

\* The converter takes away at least what the page does.
LEMMA ConvertedIsActive ==
  ASSUME NEW rule, NEW conflicts \in Seq(ConflictRule)
  PROVE  Converted(rule, conflicts) \subseteq Active(IdsOf(rule.items), conflicts)
  <1> DEFINE n == Len(conflicts)
             selected == IdsOf(rule.items)
             chosen == Converted(rule, conflicts)
  <1>1. PICK g : Course(selected, conflicts, g, n) /\ Active(selected, conflicts) = g[n]
    BY ActiveIsCourse
  <1> DEFINE D == {k \in 0 .. n : ~(chosen \subseteq g[k] /\ g[k] \subseteq selected)}
  <1>2. n \in Nat
    OBVIOUS
  <1>3. D = {}
    <2>1. SUFFICES ASSUME D # {} PROVE FALSE
      OBVIOUS
    <2>2. PICK m \in D : \A k \in D : m <= k
      <3>1. D \subseteq Nat
        OBVIOUS
      <3> HIDE DEF D
      <3> QED BY <2>1, <3>1, FirstNumber
    <2>3. m # 0
      <3>1. g[0] = selected
        BY <1>1, <1>2 DEF Course
      <3>2. chosen \subseteq selected
        BY DEF Converted
      <3> QED BY <2>2, <3>1, <3>2
    <2>4. m - 1 \in 0 .. n /\ m - 1 \notin D /\ m \in 1 .. n
      BY <2>2, <2>3, <1>2
    <2>5. chosen \subseteq g[m - 1] /\ g[m - 1] \subseteq selected
      BY <2>4
    <2>6. g[m] = AfterRule(g[m - 1], conflicts[m])
      BY <2>4, <1>1 DEF Course
    <2>7. conflicts[m].when \cap g[m - 1] # {} => chosen \cap conflicts[m].remove = {}
      <3>1. m \in DOMAIN conflicts
        BY <2>4
      <3> QED BY <3>1, <2>5 DEF Converted
    <2>8. chosen \subseteq g[m] /\ g[m] \subseteq selected
      <3> HIDE DEF chosen, selected
      <3> QED BY <2>5, <2>6, <2>7 DEF AfterRule
    <2> QED BY <2>8, <2>2
  <1>4. n \in 0 .. n
    BY <1>2
  <1> QED BY <1>1, <1>3, <1>4

\* A rule without conflicts among what the page counts has none after conversion.
LEMMA ConflictsNoticed ==
  ASSUME NEW doc, doc.conflicts \in Seq(ConflictRule), doc.defaults["templates"] = {},
         NEW catalog, NEW rule, RuleConflicts(doc, catalog, rule) = {},
         NEW c \in Conflicts(catalog)
  PROVE  ~Several(c \cap Converted(rule, doc.conflicts))
  <1>1. doc.defaults["templates"] \cup rule.items = rule.items
    OBVIOUS
  <1>2. ~Several(c \cap Active(IdsOf(rule.items), doc.conflicts))
    BY <1>1 DEF RuleConflicts, Noticed
  <1>3. Converted(rule, doc.conflicts) \subseteq Active(IdsOf(rule.items), doc.conflicts)
    BY ConvertedIsActive
  <1> QED BY <1>2, <1>3 DEF Several

\* What is kept of some items when missing ones are removed.
Survives(missing, kind, i) == \A m \in missing : m.kind = kind => ~SameItem(i, m.item)

\* A removal keeps in every part of a document the items that survive it.
LEMMA FixedParts ==
  ASSUME NEW doc, NEW missing, NEW kind \in ItemKinds
  PROVE  /\ Fixed(doc, missing).lookups[kind] = {i \in doc.lookups[kind] : Survives(missing, kind, i)}
         /\ Fixed(doc, missing).defaults[kind] = {i \in doc.defaults[kind] : Survives(missing, kind, i)}
         /\ Static(Fixed(doc, missing), kind) = {i \in Static(doc, kind) : Survives(missing, kind, i)}
         /\ RuleItems(Fixed(doc, missing), kind) = {i \in RuleItems(doc, kind) : Survives(missing, kind, i)}
  <1> DEFINE kept(items) == {i \in items : Survives(missing, kind, i)}
             done == Fixed(doc, missing)
  <1>1. /\ done.lookups[kind] = kept(doc.lookups[kind])
        /\ done.defaults[kind] = kept(doc.defaults[kind])
        /\ done.rules[kind] = {[dynamic |-> r.dynamic, items |-> kept(r.items)] : r \in doc.rules[kind]}
    BY DEF Fixed, Survives
  <1> HIDE DEF done
  <1>2. ASSUME NEW r \in doc.rules[kind]
        PROVE  \E q \in done.rules[kind] : q.dynamic = r.dynamic /\ q.items = kept(r.items)
    <2> DEFINE q == [dynamic |-> r.dynamic, items |-> kept(r.items)]
    <2>1. q \in done.rules[kind]
      BY <1>1
    <2> QED BY <2>1
  <1>3. ASSUME NEW q \in done.rules[kind]
        PROVE  \E r \in doc.rules[kind] : q.dynamic = r.dynamic /\ q.items = kept(r.items)
    BY <1>1
  <1>4. Static(done, kind) = kept(Static(doc, kind))
    <2>1. ASSUME NEW i \in Static(done, kind) PROVE i \in kept(Static(doc, kind))
      <3>1. PICK q \in done.rules[kind] : (kind = "groups" => ~q.dynamic) /\ i \in q.items
        BY <2>1 DEF Static
      <3>2. PICK r \in doc.rules[kind] : q.dynamic = r.dynamic /\ q.items = kept(r.items)
        BY <1>3
      <3> QED BY <3>1, <3>2 DEF Static
    <2>2. ASSUME NEW i \in kept(Static(doc, kind)) PROVE i \in Static(done, kind)
      <3>1. PICK r \in doc.rules[kind] : (kind = "groups" => ~r.dynamic) /\ i \in r.items
        BY <2>2 DEF Static
      <3>2. PICK q \in done.rules[kind] : q.dynamic = r.dynamic /\ q.items = kept(r.items)
        BY <1>2
      <3> QED BY <2>2, <3>1, <3>2 DEF Static
    <2> HIDE DEF kept
    <2> QED BY <2>1, <2>2
  <1>5. RuleItems(done, kind) = kept(RuleItems(doc, kind))
    <2>1. ASSUME NEW i \in RuleItems(done, kind) PROVE i \in kept(RuleItems(doc, kind))
      <3>1. PICK q \in done.rules[kind] : i \in q.items
        BY <2>1 DEF RuleItems
      <3>2. PICK r \in doc.rules[kind] : q.items = kept(r.items)
        BY <1>3
      <3> QED BY <3>1, <3>2 DEF RuleItems
    <2>2. ASSUME NEW i \in kept(RuleItems(doc, kind)) PROVE i \in RuleItems(done, kind)
      <3>1. PICK r \in doc.rules[kind] : i \in r.items
        BY <2>2 DEF RuleItems
      <3>2. PICK q \in done.rules[kind] : q.items = kept(r.items)
        BY <1>2
      <3> QED BY <2>2, <3>1, <3>2 DEF RuleItems
    <2> HIDE DEF kept
    <2> QED BY <2>1, <2>2
  <1> QED BY <1>1, <1>4, <1>5 DEF done

\* An item that is not counted for its key stands behind one that is.
LEMMA BehindAnother ==
  ASSUME NEW doc, NEW kind, NEW one, NEW two, NEW three,
         one = doc.lookups[kind], two = doc.defaults[kind], three = Static(doc, kind),
         NEW i, KeyOf(i) # Blank, i \notin Referenced(doc, kind)
  PROVE  /\ i \notin one
         /\ i \in two => \E j \in one : KeyOf(j) = KeyOf(i) /\ j \in Referenced(doc, kind)
         /\ i \in three => \E j \in one \cup two : KeyOf(j) = KeyOf(i) /\ j \in Referenced(doc, kind)
  BY DEF Referenced

\* The names of an item: its key and what else it is called.
LEMMA TokensOfKey ==
  ASSUME NEW i, KeyOf(i) # Blank
  PROVE  KeyOf(i) \in Tokens(i) /\ \A x, y \in Tokens(i) : x # KeyOf(i) /\ y # KeyOf(i) => x = y
  BY DEF KeyOf, Tokens

(* Removing all that is missing leaves nothing missing: what comes to be   *)
(* counted instead of a removed item has its key, and would have been      *)
(* removed with it were the key missing.                                   *)
LEMMA NothingMissing ==
  ASSUME NEW doc, NEW catalog
  PROVE  Missing(Fixed(doc, Missing(doc, catalog)), catalog) = {}
  <1> DEFINE gap == Missing(doc, catalog)
             done == Fixed(doc, gap)
  <1>1. SUFFICES ASSUME NEW kind \in ItemKinds, NEW i \in Referenced(done, kind), ~IsThere(catalog[kind], i)
                 PROVE  FALSE
    BY DEF Missing
  <1>2. \A j \in Referenced(doc, kind) : ~IsThere(catalog[kind], j) =>
            \E m \in gap : m.kind = kind /\ m.item = j
    <2> SUFFICES ASSUME NEW j \in Referenced(doc, kind), ~IsThere(catalog[kind], j)
                 PROVE  \E m \in gap : m.kind = kind /\ m.item = j
      OBVIOUS
    <2> DEFINE m == [kind |-> kind, item |-> j]
    <2>1. m \in {[kind |-> kind, item |-> k] : k \in {l \in Referenced(doc, kind) : ~IsThere(catalog[kind], l)}}
      OBVIOUS
    <2>2. m \in gap
      BY <2>1 DEF Missing
    <2> HIDE DEF gap
    <2> QED BY <2>2
  <1>3. \A m \in gap : m.kind = kind => ~IsThere(catalog[kind], m.item)
    BY DEF Missing
  <1> HIDE DEF gap
  <1> DEFINE one == doc.lookups[kind]
             two == doc.defaults[kind]
             three == Static(doc, kind)
             kept(items) == {j \in items : Survives(gap, kind, j)}
  <1>4. /\ done.lookups[kind] = kept(one) /\ done.defaults[kind] = kept(two)
        /\ Static(done, kind) = kept(three)
    BY FixedParts
  <1> HIDE DEF done
  <1>5. /\ KeyOf(i) # Blank
        /\ \/ i \in kept(one)
           \/ i \in kept(two) /\ \A j \in kept(one) : KeyOf(j) # KeyOf(i)
           \/ i \in kept(three) /\ \A j \in kept(one) \cup kept(two) : KeyOf(j) # KeyOf(i)
    BY <1>4 DEF Referenced
  <1>6. Survives(gap, kind, i)
    BY <1>5
  <1>7. KeyOf(i) \in Tokens(i)
    BY <1>5, TokensOfKey
  <1>8. i \notin Referenced(doc, kind)
    <2>1. SUFFICES ASSUME i \in Referenced(doc, kind) PROVE FALSE
      OBVIOUS
    <2>2. PICK m \in gap : m.kind = kind /\ m.item = i
      BY <2>1, <1>1, <1>2
    <2>3. ~SameItem(i, i)
      BY <2>2, <1>6 DEF Survives
    <2> QED BY <2>3, <1>7 DEF SameItem
  <1>9. PICK j : j \in Referenced(doc, kind) /\ KeyOf(j) = KeyOf(i) /\ ~Survives(gap, kind, j)
    <2>1. /\ i \notin one
          /\ i \in two => \E j \in one : KeyOf(j) = KeyOf(i) /\ j \in Referenced(doc, kind)
          /\ i \in three => \E j \in one \cup two : KeyOf(j) = KeyOf(i) /\ j \in Referenced(doc, kind)
      BY <1>5, <1>8, BehindAnother
    <2> HIDE DEF one, two, three
    <2> QED BY <2>1, <1>5
  <1>10. PICK m \in gap : m.kind = kind /\ SameItem(j, m.item)
    BY <1>9 DEF Survives
  <1>11. KeyOf(j) \notin Tokens(m.item)
    BY <1>6, <1>7, <1>9, <1>10 DEF Survives, SameItem
  <1>12. IsThere(catalog[kind], j)
    <2>1. SUFFICES ASSUME ~IsThere(catalog[kind], j) PROVE FALSE
      OBVIOUS
    <2>2. PICK n \in gap : n.kind = kind /\ n.item = j
      BY <2>1, <1>9, <1>2
    <2>3. KeyOf(i) \in Tokens(j)
      BY <1>5, <1>9, TokensOfKey
    <2> QED BY <2>2, <2>3, <1>6, <1>7 DEF Survives, SameItem
  <1>13. PICK z \in catalog[kind] : Tokens(z) \cap Tokens(j) # {}
    BY <1>12 DEF IsThere
  <1>14. PICK x \in Tokens(j) : x \in Tokens(m.item)
    BY <1>10 DEF SameItem
  <1>15. PICK y \in Tokens(j) : y \in Tokens(z)
    BY <1>13
  <1>16. y # KeyOf(j)
    BY <1>15, <1>9, <1>7, <1>1 DEF IsThere
  <1>17. x = y
    BY <1>16, <1>11, <1>14, <1>15, <1>9, <1>5, TokensOfKey
  <1>18. IsThere(catalog[kind], m.item)
    BY <1>17, <1>15, <1>14 DEF IsThere
  <1> QED BY <1>18, <1>10, <1>3

\* Removing some of what is missing keeps what the catalog has by id and name.
LEMMA ListedIsKept ==
  ASSUME NEW doc \in RulesDocument, NEW rev, NEW catalog, NEW chosen, chosen \subseteq Missing(rev, catalog),
         NEW kind \in ItemKinds, NEW item \in Used(doc, kind), Lists(catalog[kind], item)
  PROVE  item \in Used(Fixed(doc, chosen), kind)
  <1>1. Survives(chosen, kind, item)
    <2>1. SUFFICES ASSUME NEW m \in chosen, m.kind = kind, NEW x \in Tokens(item), x \in Tokens(m.item)
                   PROVE  FALSE
      BY DEF Survives, SameItem
    <2>2. ~IsThere(catalog[kind], m.item)
      BY <2>1 DEF Missing
    <2>3. PICK z \in catalog[kind] : x \in Tokens(z)
      BY DEF Lists, Tokens, IdsOf
    <2> QED BY <2>1, <2>2, <2>3 DEF IsThere
  <1> DEFINE done == Fixed(doc, chosen)
  <1>2. /\ done.lookups[kind] = {i \in doc.lookups[kind] : Survives(chosen, kind, i)}
        /\ done.defaults[kind] = {i \in doc.defaults[kind] : Survives(chosen, kind, i)}
        /\ RuleItems(done, kind) = {i \in RuleItems(doc, kind) : Survives(chosen, kind, i)}
    BY FixedParts
  <1> HIDE DEF done
  <1>3. item \in Used(done, kind)
    BY <1>1, <1>2 DEF Used
  <1> QED BY <1>3 DEF done

-----------------------------------------------------------------------------
(* The invariant of the catalog and of what is made from it.               *)

\* The kinds that the checks look up, in what a synchronisation has read.
Checked == {"groups", "templates"}
HasFetched(s, kind) ==
    IF kind = "groups" THEN s.pc \in {"tgroups", "templates", "truncate", "write"}
    ELSE s.pc \in {"truncate", "write"}

\* All of the ids are among the items, but for those that Zabbix lost.
Known(ids, items, lost) == ids \subseteq IdsOf(items) \cup lost

\* What was read once is still there or was lost.
ReadInv ==
    /\ cached \in ZabbixCatalog => \A kind \in Checked : Known(IdsOf(cached[kind]), zabbix[kind], gone)
    /\ \A w \in Syncs : sync[w] # AtRest =>
          \A kind \in Checked : HasFetched(sync[w], kind) => Known(IdsOf(sync[w].read[kind]), zabbix[kind], gone)

\* One that nobody overtook has read what the file had, but for what was lost.
AloneInv ==
    \A w \in Syncs : sync[w] # AtRest /\ sync[w].alone /\ cached \in ZabbixCatalog =>
        \A kind \in Checked : HasFetched(sync[w], kind) => Known(IdsOf(cached[kind]), sync[w].read[kind], gone)

\* The same of a starter: Zabbix has it, the file and whoever may write it.
StarterInv ==
    made.pc = "starter" =>
        /\ made.doc.lookups["tgroups"] = {} /\ made.doc.defaults = Nothing /\ made.doc.rules = Nothing
        /\ \A kind \in Checked :
              LET named == IdsOf(made.doc.lookups[kind])
              IN  /\ Known(named, zabbix[kind], gone)
                  /\ ~overtaken /\ cached \in ZabbixCatalog => Known(named, cached[kind], gone)
                  /\ \A w \in Syncs : sync[w] # AtRest /\ sync[w].alone /\ HasFetched(sync[w], kind) =>
                        Known(named, sync[w].read[kind], gone)

FixedInv ==
    made.pc = "fixed" =>
        /\ made.doc = Fixed(made.of, made.chosen)
        /\ made.chosen \subseteq Missing(made.seen.rules, made.seen.catalog)

CatalogsInv == CatalogsTypeOK /\ ReadInv /\ AloneInv /\ StarterInv /\ FixedInv

\* The empty catalog is one, as is the empty part of a document.
LEMMA NothingTyped == Nothing \in ZabbixCatalog /\ Nothing \in [ItemKinds -> SUBSET RuleItem]
  BY DEF Nothing, ZabbixCatalog

\* A document with items removed is a document.
LEMMA FixedTyped ==
  ASSUME NEW doc \in RulesDocument, NEW missing
  PROVE  Fixed(doc, missing) \in RulesDocument
  <1> DEFINE kept(kind, items) == {i \in items : \A m \in missing : m.kind = kind => ~SameItem(i, m.item)}
             lookups == [kind \in ItemKinds |-> kept(kind, doc.lookups[kind])]
             defaults == [kind \in ItemKinds |-> kept(kind, doc.defaults[kind])]
             applied == [kind \in ItemKinds |->
                           {[dynamic |-> r.dynamic, items |-> kept(kind, r.items)] : r \in doc.rules[kind]}]
  <1>1. /\ doc.lookups \in [ItemKinds -> SUBSET RuleItem] /\ doc.defaults \in [ItemKinds -> SUBSET RuleItem]
        /\ doc.rules \in [ItemKinds -> SUBSET [dynamic : BOOLEAN, items : SUBSET RuleItem]]
        /\ doc.conflicts \in Seq(ConflictRule)
    BY DEF RulesDocument
  <1>2. lookups \in [ItemKinds -> SUBSET RuleItem] /\ defaults \in [ItemKinds -> SUBSET RuleItem]
    BY <1>1
  <1>3. applied \in [ItemKinds -> SUBSET [dynamic : BOOLEAN, items : SUBSET RuleItem]]
    <2>1. ASSUME NEW kind \in ItemKinds, NEW r \in doc.rules[kind]
          PROVE  [dynamic |-> r.dynamic, items |-> kept(kind, r.items)] \in [dynamic : BOOLEAN, items : SUBSET RuleItem]
      BY <1>1
    <2> HIDE DEF kept
    <2> QED BY <2>1
  <1>4. Fixed(doc, missing) = [lookups |-> lookups, defaults |-> defaults, rules |-> applied, conflicts |-> doc.conflicts]
    BY DEF Fixed
  <1> HIDE DEF lookups, defaults, applied
  <1> QED BY <1>1, <1>2, <1>3, <1>4 DEF RulesDocument

\* A starter's items have the ids of the catalog's.
LEMMA BareTyped ==
  ASSUME NEW items \in SUBSET CatalogItem
  PROVE  Bare(items) \in SUBSET RuleItem /\ IdsOf(Bare(items)) = IdsOf(items)
  <1>1. Bare(items) \in SUBSET RuleItem
    BY DEF Bare, RuleItem, CatalogItem
  <1>2. ASSUME NEW i \in items PROVE \E b \in Bare(items) : b.id = i.id
    <2> DEFINE b == [id |-> i.id, name |-> i.name]
    <2>1. b \in Bare(items)
      BY DEF Bare
    <2> QED BY <2>1
  <1>3. ASSUME NEW b \in Bare(items) PROVE \E i \in items : i.id = b.id
    BY DEF Bare
  <1>4. IdsOf(Bare(items)) = IdsOf(items)
    BY <1>2, <1>3 DEF IdsOf
  <1> QED BY <1>1, <1>4

\* A starter is a document with lookups of what the checks look up.
LEMMA StarterTyped ==
  ASSUME NEW catalog \in ZabbixCatalog
  PROVE  /\ Starter(catalog) \in RulesDocument
         /\ Starter(catalog).lookups["tgroups"] = {}
         /\ Starter(catalog).defaults = Nothing /\ Starter(catalog).rules = Nothing
         /\ \A kind \in Checked : IdsOf(Starter(catalog).lookups[kind]) = IdsOf(catalog[kind])
  <1> DEFINE lookups == [kind \in ItemKinds |-> IF kind = "tgroups" THEN {} ELSE Bare(catalog[kind])]
  <1>1. \A kind \in ItemKinds : catalog[kind] \in SUBSET CatalogItem
    BY DEF ZabbixCatalog
  <1>2. lookups \in [ItemKinds -> SUBSET RuleItem]
    BY <1>1, BareTyped
  <1>3. \A kind \in Checked : IdsOf(lookups[kind]) = IdsOf(catalog[kind])
    BY <1>1, BareTyped DEF Checked, ItemKinds
  <1>4. lookups["tgroups"] = {}
    BY DEF ItemKinds
  <1>5. Starter(catalog) = [lookups |-> lookups, defaults |-> Nothing, rules |-> Nothing, conflicts |-> <<>>]
    BY DEF Starter
  <1>6. /\ Nothing \in [ItemKinds -> SUBSET RuleItem] /\ <<>> \in Seq(ConflictRule)
        /\ Nothing \in [ItemKinds -> SUBSET [dynamic : BOOLEAN, items : SUBSET RuleItem]]
    BY DEF Nothing
  <1> HIDE DEF lookups
  <1> QED BY <1>2, <1>3, <1>4, <1>5, <1>6 DEF RulesDocument

\* What is missing are items of the document.
LEMMA MissingTyped ==
  ASSUME NEW doc \in RulesDocument, NEW catalog
  PROVE  Missing(doc, catalog) \subseteq MissingItem
  <1>1. ASSUME NEW kind \in ItemKinds, NEW i \in Referenced(doc, kind) PROVE i \in RuleItem
    <2>1. /\ doc.lookups[kind] \subseteq RuleItem /\ doc.defaults[kind] \subseteq RuleItem
          /\ \A r \in doc.rules[kind] : r.items \subseteq RuleItem
      BY DEF RulesDocument
    <2>2. Static(doc, kind) \subseteq RuleItem
      BY <2>1 DEF Static
    <2> QED BY <2>1, <2>2 DEF Referenced
  <1> QED BY <1>1 DEF Missing, MissingItem

\* The catalog's type is kept by every step.
LEMMA CatalogTyped == CatalogsTypeOK /\ [CatalogNext]_catalogVars => CatalogsTypeOK'
<1> SUFFICES ASSUME CatalogsTypeOK, [CatalogNext]_catalogVars PROVE CatalogsTypeOK'
  OBVIOUS
<1> USE RulesCatalogsAssumption DEF CatalogsTypeOK
<1>1. ASSUME NEW kind \in ItemKinds, NEW item \in zabbix[kind], DeleteItem(kind, item) \/ RecreateItem(kind, item)
      PROVE  CatalogsTypeOK'
  <2>1. item \in CatalogItem /\ item.id \in ZabbixIds /\ zabbix[kind] \subseteq CatalogItem
    BY DEF ZabbixCatalog, CatalogItem
  <2>2. [item EXCEPT !.id = FreshId] \in CatalogItem
    BY <2>1 DEF CatalogItem
  <2>3. zabbix' \in ZabbixCatalog /\ gone' \subseteq ZabbixIds
    BY <1>1, <2>1, <2>2 DEF DeleteItem, RecreateItem, ZabbixCatalog
  <2>4. left' \in [{"edits", "syncs", "crashes", "makes"} -> Nat]
    BY <1>1 DEF DeleteItem, RecreateItem, Pay
  <2> QED BY <1>1, <2>3, <2>4 DEF DeleteItem, RecreateItem
<1>2. ASSUME NEW w \in Syncs, BeginSync(w) PROVE CatalogsTypeOK'
  <2>1. [pc |-> "groups", read |-> Nothing, alone |-> TRUE] \in SyncRecord
    BY NothingTyped DEF SyncRecord, ItemKinds
  <2>2. sync' \in [Syncs -> SyncRecord \cup {AtRest}]
    BY <1>2, <2>1 DEF BeginSync
  <2>3. left' \in [{"edits", "syncs", "crashes", "makes"} -> Nat]
    BY <1>2 DEF BeginSync, Pay
  <2> QED BY <1>2, <2>2, <2>3 DEF BeginSync
<1>3. ASSUME NEW w \in Syncs, FetchKind(w) PROVE CatalogsTypeOK'
  <2> DEFINE s == sync[w]
             k == s.pc
             got == [s EXCEPT !.read = [s.read EXCEPT ![k] = zabbix[k]], !.pc = Follower(k)]
             skip == [s EXCEPT !.pc = Follower(k)]
  <2>1. s \in SyncRecord /\ k \in ItemKinds
    BY <1>3 DEF FetchKind, AtRest, ItemKinds
  <2>2. Follower(k) \in ItemKinds \cup {"truncate", "write"}
    BY DEF Follower, ItemKinds
  <2>3. got \in SyncRecord /\ skip \in SyncRecord
    BY <2>1, <2>2 DEF SyncRecord, ZabbixCatalog
  <2>4. \/ sync' = [sync EXCEPT ![w] = got]
        \/ sync' = [sync EXCEPT ![w] = skip]
        \/ sync' = [sync EXCEPT ![w] = AtRest]
    BY <1>3, <2>1 DEF FetchKind, SyncRecord
  <2> HIDE DEF s, k, got, skip
  <2>5. sync' \in [Syncs -> SyncRecord \cup {AtRest}]
    BY <2>3, <2>4
  <2> QED BY <1>3, <2>5 DEF FetchKind
<1>4. ASSUME NEW w \in Syncs, TruncateSynced(w) PROVE CatalogsTypeOK'
  <2>1. sync[w] \in SyncRecord
    BY <1>4 DEF TruncateSynced, AtRest
  <2>2. [sync[w] EXCEPT !.pc = "write"] \in SyncRecord
    BY <2>1 DEF SyncRecord
  <2>3. sync' = [sync EXCEPT ![w] = [sync[w] EXCEPT !.pc = "write"]]
    BY <1>4 DEF TruncateSynced
  <2> QED BY <1>4, <2>2, <2>3 DEF TruncateSynced
<1>5. ASSUME NEW w \in Syncs, WriteSynced(w) PROVE CatalogsTypeOK'
  <2>1. sync[w] \in SyncRecord
    BY <1>5 DEF WriteSynced, AtRest
  <2>2. cached' \in ZabbixCatalog \cup {NotThere, HalfWritten}
    BY <1>5, <2>1 DEF WriteSynced, SyncRecord
  <2>3. ASSUME NEW v \in Syncs, sync[v] # AtRest PROVE [sync[v] EXCEPT !.alone = FALSE] \in SyncRecord
    <3>1. sync[v] \in SyncRecord
      BY <2>3
    <3> QED BY <3>1 DEF SyncRecord
  <2>4. sync' \in [Syncs -> SyncRecord \cup {AtRest}]
    BY <1>5, <2>3 DEF WriteSynced
  <2>5. overtaken' \in BOOLEAN
    BY <1>5 DEF WriteSynced
  <2> QED BY <1>5, <2>2, <2>4, <2>5 DEF WriteSynced
<1>6. CASE BffCrash
  <2>1. left' \in [{"edits", "syncs", "crashes", "makes"} -> Nat]
    BY <1>6 DEF BffCrash, Pay
  <2> QED BY <1>6, <2>1 DEF BffCrash
<1>7. CASE CreateStarter
  <2>1. left' \in [{"edits", "syncs", "crashes", "makes"} -> Nat]
    BY <1>7 DEF CreateStarter, Pay
  <2>2. Starter(cached) \in RulesDocument
    BY <1>7, StarterTyped DEF CreateStarter
  <2>3. made' \in [pc : {"starter"}, doc : RulesDocument]
    BY <1>7, <2>2 DEF CreateStarter
  <2> QED BY <1>7, <2>1, <2>3 DEF CreateStarter
<1>8. CASE LoadRules
  <2>1. view' \in BothView \cup [pc : {"rules"}, rules : RulesDocument]
    BY <1>8 DEF LoadRules, BothView, Unloaded
  <2> QED BY <1>8, <2>1 DEF LoadRules
<1>9. CASE LoadCatalog
  <2>1. view' \in {Unloaded} \cup BothView \cup [pc : {"catalog"}, catalog : ZabbixCatalog]
    BY <1>9, NothingTyped DEF LoadCatalog, BothView, Unloaded
  <2> QED BY <1>9, <2>1 DEF LoadCatalog
<1>10. CASE FixMapping
  <2>1. left' \in [{"edits", "syncs", "crashes", "makes"} -> Nat]
    BY <1>10 DEF FixMapping, Pay
  <2>2. view \in BothView
    BY <1>10 DEF FixMapping, Unloaded, BothView
  <2>3. PICK chosen \in SUBSET Missing(view.rules, view.catalog) :
            made' = [pc |-> "fixed", doc |-> Fixed(rules, chosen), of |-> rules, seen |-> view, chosen |-> chosen]
    BY <1>10 DEF FixMapping
  <2>4. chosen \in SUBSET MissingItem /\ Fixed(rules, chosen) \in RulesDocument
    BY <2>2, <2>3, MissingTyped, FixedTyped DEF BothView
  <2>5. made' \in [pc : {"fixed"}, doc : RulesDocument, of : RulesDocument, seen : BothView,
                   chosen : SUBSET MissingItem]
    BY <2>2, <2>3, <2>4
  <2> QED BY <1>10, <2>1, <2>5 DEF FixMapping
<1>11. CASE PublishMade
  <2>1. rules' \in RulesDocument
    BY <1>11 DEF PublishMade
  <2> QED BY <1>11, <2>1 DEF PublishMade
<1>12. CASE UNCHANGED catalogVars
  BY <1>12 DEF catalogVars
<1> QED BY <1>1, <1>2, <1>3, <1>4, <1>5, <1>6, <1>7, <1>8, <1>9, <1>10, <1>11, <1>12 DEF CatalogNext

\* At first the file is what Zabbix has, and nothing is made.
LEMMA CatalogsInitially == CatalogInit => CatalogsInv
<1> SUFFICES ASSUME CatalogInit PROVE CatalogsInv
  OBVIOUS
<1>1. PICK start \in Starts :
        /\ zabbix = start.zabbix /\ rules = start.rules
        /\ cached = start.zabbix /\ gone = {} /\ overtaken = FALSE
        /\ sync = [w \in Syncs |-> AtRest]
        /\ made = Unloaded /\ view = Unloaded
        /\ left = [edits |-> start.edits, syncs |-> start.syncs,
                   crashes |-> start.crashes, makes |-> start.makes]
  BY DEF CatalogInit
<1>2. start \in CatalogStart
  BY RulesCatalogsAssumption
<1>3. CatalogsTypeOK
  <2>1. left \in [{"edits", "syncs", "crashes", "makes"} -> Nat]
    BY <1>1, <1>2 DEF CatalogStart
  <2> QED BY <1>1, <1>2, <2>1 DEF CatalogsTypeOK, CatalogStart
<1>4. ReadInv /\ AloneInv
  BY <1>1 DEF ReadInv, AloneInv, Known
<1>5. StarterInv /\ FixedInv
  BY <1>1 DEF StarterInv, FixedInv, Unloaded
<1> QED BY <1>3, <1>4, <1>5 DEF CatalogsInv

\* What is known stays so while Zabbix loses an item of a kind and notes it.
LEMMA LossIsNoted ==
  ASSUME NEW kind \in ItemKinds, NEW item \in zabbix[kind], zabbix \in ZabbixCatalog,
         DeleteItem(kind, item) \/ RecreateItem(kind, item)
  PROVE  /\ gone \subseteq gone'
         /\ \A k \in Checked : \A ids : Known(ids, zabbix[k], gone) => Known(ids, zabbix'[k], gone')
  <1>1. gone' = gone \cup {item.id}
    BY DEF DeleteItem, RecreateItem
  <1>2. ASSUME NEW k \in Checked PROVE IdsOf(zabbix[k]) \subseteq IdsOf(zabbix'[k]) \cup {item.id}
    <2>1. k \in ItemKinds
      BY DEF Checked, ItemKinds
    <2>2. zabbix[k] \ {item} \subseteq zabbix'[k]
      BY <2>1 DEF DeleteItem, RecreateItem, ZabbixCatalog
    <2> QED BY <2>2 DEF IdsOf
  <1> QED BY <1>1, <1>2 DEF Known

\* More may be lost meanwhile.
LEMMA KnownStill ==
  ASSUME NEW ids, NEW items, NEW lost, NEW more, lost \subseteq more, Known(ids, items, lost)
  PROVE  Known(ids, items, more)
  BY DEF Known

\* A step of Zabbix keeps the invariant.
LEMMA ZabbixStep ==
  ASSUME CatalogsInv, NEW kind \in ItemKinds, NEW item \in zabbix[kind],
         DeleteItem(kind, item) \/ RecreateItem(kind, item)
  PROVE  ReadInv' /\ AloneInv' /\ StarterInv' /\ FixedInv'
<1>1. UNCHANGED <<cached, sync, overtaken, rules, made, view>>
  BY DEF DeleteItem, RecreateItem
<1>2. /\ gone \subseteq gone'
      /\ \A k \in Checked : \A ids : Known(ids, zabbix[k], gone) => Known(ids, zabbix'[k], gone')
  BY LossIsNoted DEF CatalogsInv, CatalogsTypeOK
<1>3. \A ids, items : Known(ids, items, gone) => Known(ids, items, gone')
  BY <1>2, KnownStill
<1>4. ReadInv'
  BY <1>1, <1>2 DEF CatalogsInv, ReadInv
<1>5. AloneInv'
  BY <1>1, <1>3 DEF CatalogsInv, AloneInv
<1>6. StarterInv'
  BY <1>1, <1>2, <1>3 DEF CatalogsInv, StarterInv
<1>7. FixedInv'
  BY <1>1 DEF CatalogsInv, FixedInv
<1> QED BY <1>4, <1>5, <1>6, <1>7

\* So does a call for one kind of items, answered or not.
LEMMA FetchKindStep ==
  ASSUME CatalogsInv, NEW w \in Syncs, FetchKind(w)
  PROVE  ReadInv' /\ AloneInv' /\ StarterInv' /\ FixedInv'
<1> DEFINE s == sync[w]
           t == sync'[w]
<1>1. UNCHANGED <<zabbix, gone, cached, overtaken, rules, made, view>>
  BY DEF FetchKind
<1>2. sync \in [Syncs -> SyncRecord \cup {AtRest}] /\ s \in SyncRecord /\ s.pc \in ItemKinds
  BY DEF FetchKind, CatalogsInv, CatalogsTypeOK, AtRest, ItemKinds
<1>3. \A v \in Syncs : v # w => sync'[v] = sync[v]
  BY <1>2 DEF FetchKind
<1>4. \/ t = AtRest
      \/ /\ t.pc = Follower(s.pc) /\ t.alone = s.alone
         /\ \A k \in Checked : t.read[k] = IF k = s.pc THEN zabbix[k] ELSE s.read[k]
  <2>1. s.read \in ZabbixCatalog /\ s = [pc |-> s.pc, read |-> s.read, alone |-> s.alone]
    BY <1>2 DEF SyncRecord
  <2>2. CASE sync' = [sync EXCEPT ![w] = AtRest]
    BY <2>2, <1>2
  <2>3. CASE s.pc = "tgroups" /\ sync' = [sync EXCEPT ![w].pc = Follower(s.pc)]
    <3>1. t = [s EXCEPT !.pc = Follower(s.pc)]
      BY <2>3, <1>2
    <3>2. t = [pc |-> Follower(s.pc), read |-> s.read, alone |-> s.alone]
      BY <2>1, <3>1
    <3> QED BY <3>2, <2>3 DEF Checked
  <2>4. CASE sync' = [sync EXCEPT ![w].read[s.pc] = zabbix[s.pc], ![w].pc = Follower(s.pc)]
    <3> DEFINE got == [s.read EXCEPT ![s.pc] = zabbix[s.pc]]
    <3>1. t = [s EXCEPT !.read = got, !.pc = Follower(s.pc)]
      BY <2>1, <2>4, <1>2
    <3>2. t = [pc |-> Follower(s.pc), read |-> got, alone |-> s.alone]
      BY <2>1, <3>1
    <3>3. \A k \in Checked : got[k] = IF k = s.pc THEN zabbix[k] ELSE s.read[k]
      BY <2>1 DEF Checked, ZabbixCatalog, ItemKinds
    <3> HIDE DEF got
    <3> QED BY <3>2, <3>3
  <2> QED BY <2>2, <2>3, <2>4 DEF FetchKind
<1>5. \A k \in Checked : t # AtRest /\ HasFetched(t, k) => k = s.pc \/ (HasFetched(s, k) /\ k # s.pc)
  BY <1>2, <1>4 DEF HasFetched, Follower, Checked, ItemKinds
<1>6. s # AtRest
  BY <1>2 DEF AtRest, ItemKinds
<1> HIDE DEF s, t
<1>7. ReadInv'
  <2>1. ASSUME NEW k \in Checked, t # AtRest, HasFetched(t, k) PROVE Known(IdsOf(t.read[k]), zabbix[k], gone)
    <3>1. CASE k = s.pc
      BY <3>1, <1>4, <2>1 DEF Known
    <3>2. CASE HasFetched(s, k) /\ k # s.pc
      BY <3>2, <1>4, <1>6, <2>1 DEF CatalogsInv, ReadInv, s
    <3> QED BY <3>1, <3>2, <1>5, <2>1
  <2> QED BY <2>1, <1>1, <1>3 DEF CatalogsInv, ReadInv, t
<1>8. AloneInv'
  <2>1. ASSUME NEW k \in Checked, t # AtRest, t.alone, HasFetched(t, k), cached \in ZabbixCatalog
        PROVE  Known(IdsOf(cached[k]), t.read[k], gone)
    <3>1. CASE k = s.pc
      BY <3>1, <1>4, <2>1 DEF CatalogsInv, ReadInv
    <3>2. CASE HasFetched(s, k) /\ k # s.pc
      BY <3>2, <1>4, <1>6, <2>1 DEF CatalogsInv, AloneInv, s
    <3> QED BY <3>1, <3>2, <1>5, <2>1
  <2> QED BY <2>1, <1>1, <1>3 DEF CatalogsInv, AloneInv, t
<1>9. StarterInv'
  <2>1. ASSUME made.pc = "starter", NEW k \in Checked, t # AtRest, t.alone, HasFetched(t, k)
        PROVE  Known(IdsOf(made.doc.lookups[k]), t.read[k], gone)
    <3>1. CASE k = s.pc
      BY <3>1, <1>4, <2>1 DEF CatalogsInv, StarterInv
    <3>2. CASE HasFetched(s, k) /\ k # s.pc
      BY <3>2, <1>4, <1>6, <2>1 DEF CatalogsInv, StarterInv, s
    <3> QED BY <3>1, <3>2, <1>5, <2>1
  <2> QED BY <2>1, <1>1, <1>3 DEF CatalogsInv, StarterInv, t
<1>10. FixedInv'
  BY <1>1 DEF CatalogsInv, FixedInv
<1> QED BY <1>7, <1>8, <1>9, <1>10

\* So does the writing of the file.
LEMMA WriteStep ==
  ASSUME CatalogsInv, NEW w \in Syncs, WriteSynced(w)
  PROVE  ReadInv' /\ AloneInv' /\ StarterInv' /\ FixedInv'
<1>1. UNCHANGED <<zabbix, gone, rules, made, view>>
  BY DEF WriteSynced
<1>2. /\ sync[w] \in SyncRecord /\ sync[w] # AtRest
      /\ \A k \in Checked : HasFetched(sync[w], k)
  BY DEF WriteSynced, CatalogsInv, CatalogsTypeOK, AtRest, HasFetched, Checked
<1>3. cached' = sync[w].read \/ cached' = HalfWritten
  BY DEF WriteSynced
<1>4. HalfWritten \notin ZabbixCatalog
  BY RulesCatalogsAssumption
<1>5. ASSUME NEW v \in Syncs, sync'[v] # AtRest
      PROVE  /\ sync[v] # AtRest /\ ~sync'[v].alone
             /\ \A k \in Checked : /\ HasFetched(sync'[v], k) = HasFetched(sync[v], k)
                                   /\ sync'[v].read = sync[v].read
  <2>1. sync[v] # AtRest /\ sync'[v] = [sync[v] EXCEPT !.alone = FALSE]
    BY <1>5 DEF WriteSynced
  <2>2. sync[v] = [pc |-> sync[v].pc, read |-> sync[v].read, alone |-> sync[v].alone]
    BY <2>1 DEF CatalogsInv, CatalogsTypeOK, SyncRecord
  <2>3. sync'[v] = [pc |-> sync[v].pc, read |-> sync[v].read, alone |-> FALSE]
    BY <2>1, <2>2
  <2> QED BY <2>1, <2>3 DEF HasFetched
<1>6. ~overtaken' => ~overtaken /\ sync[w].alone
  BY DEF WriteSynced
<1>7. ReadInv'
  BY <1>1, <1>2, <1>3, <1>4, <1>5 DEF CatalogsInv, ReadInv
<1>8. AloneInv'
  BY <1>5 DEF AloneInv
<1>9. StarterInv'
  BY <1>1, <1>2, <1>3, <1>4, <1>5, <1>6 DEF CatalogsInv, StarterInv
<1>10. FixedInv'
  BY <1>1 DEF CatalogsInv, FixedInv
<1> QED BY <1>7, <1>8, <1>9, <1>10

\* Every step keeps the invariant.
LEMMA CatalogsStep == CatalogsInv /\ [CatalogNext]_catalogVars => CatalogsInv'
<1> SUFFICES ASSUME CatalogsInv, [CatalogNext]_catalogVars PROVE ReadInv' /\ AloneInv' /\ StarterInv' /\ FixedInv'
  BY CatalogTyped DEF CatalogsInv
<1>1. ASSUME NEW kind \in ItemKinds, NEW item \in zabbix[kind], DeleteItem(kind, item) \/ RecreateItem(kind, item)
      PROVE  ReadInv' /\ AloneInv' /\ StarterInv' /\ FixedInv'
  BY <1>1, ZabbixStep
<1>2. ASSUME NEW w \in Syncs, BeginSync(w) PROVE ReadInv' /\ AloneInv' /\ StarterInv' /\ FixedInv'
  <2>1. UNCHANGED <<zabbix, gone, cached, overtaken, rules, made, view>>
    BY <1>2 DEF BeginSync
  <2>2. /\ \A v \in Syncs : v # w => sync'[v] = sync[v]
        /\ \A k \in Checked : ~HasFetched(sync'[w], k)
    BY <1>2 DEF BeginSync, CatalogsInv, CatalogsTypeOK, HasFetched, Checked
  <2>3. ReadInv'
    BY <2>1, <2>2 DEF CatalogsInv, ReadInv
  <2>4. AloneInv'
    BY <2>1, <2>2 DEF CatalogsInv, AloneInv
  <2>5. StarterInv'
    BY <2>1, <2>2 DEF CatalogsInv, StarterInv
  <2>6. FixedInv'
    BY <2>1 DEF CatalogsInv, FixedInv
  <2> QED BY <2>3, <2>4, <2>5, <2>6
<1>3. ASSUME NEW w \in Syncs, FetchKind(w) PROVE ReadInv' /\ AloneInv' /\ StarterInv' /\ FixedInv'
  BY <1>3, FetchKindStep
<1>4. ASSUME NEW w \in Syncs, TruncateSynced(w) PROVE ReadInv' /\ AloneInv' /\ StarterInv' /\ FixedInv'
  <2>1. UNCHANGED <<zabbix, gone, overtaken, rules, made, view>> /\ cached' \notin ZabbixCatalog
    BY <1>4, RulesCatalogsAssumption DEF TruncateSynced
  <2>2. \A v \in Syncs : v # w => sync'[v] = sync[v]
    BY <1>4 DEF TruncateSynced, CatalogsInv, CatalogsTypeOK
  <2>3. /\ sync[w] # AtRest /\ sync[w].alone = sync'[w].alone /\ sync'[w].read = sync[w].read
        /\ \A k \in Checked : HasFetched(sync[w], k)
    <3>1. sync[w] = [pc |-> "truncate", read |-> sync[w].read, alone |-> sync[w].alone]
      BY <1>4 DEF TruncateSynced, CatalogsInv, CatalogsTypeOK, SyncRecord, AtRest
    <3>2. sync'[w] = [pc |-> "write", read |-> sync[w].read, alone |-> sync[w].alone]
      BY <1>4, <3>1 DEF TruncateSynced, CatalogsInv, CatalogsTypeOK
    <3> QED BY <3>1, <3>2 DEF HasFetched, AtRest, Checked
  <2>4. ReadInv'
    BY <2>1, <2>2, <2>3 DEF CatalogsInv, ReadInv
  <2>5. AloneInv'
    BY <2>1 DEF AloneInv
  <2>6. StarterInv'
    BY <2>1, <2>2, <2>3 DEF CatalogsInv, StarterInv
  <2>7. FixedInv'
    BY <2>1 DEF CatalogsInv, FixedInv
  <2> QED BY <2>4, <2>5, <2>6, <2>7
<1>5. ASSUME NEW w \in Syncs, WriteSynced(w) PROVE ReadInv' /\ AloneInv' /\ StarterInv' /\ FixedInv'
  BY <1>5, WriteStep
<1>6. CASE BffCrash
  <2>1. UNCHANGED <<zabbix, gone, cached, overtaken, rules, made, view>> /\ \A w \in Syncs : sync'[w] = AtRest
    BY <1>6 DEF BffCrash
  <2>2. ReadInv'
    BY <2>1 DEF CatalogsInv, ReadInv
  <2>3. AloneInv'
    BY <2>1 DEF AloneInv
  <2>4. StarterInv'
    BY <2>1 DEF CatalogsInv, StarterInv
  <2>5. FixedInv'
    BY <2>1 DEF CatalogsInv, FixedInv
  <2> QED BY <2>2, <2>3, <2>4, <2>5
<1>7. CASE CreateStarter
  <2>1. UNCHANGED <<zabbix, gone, cached, sync, overtaken, rules, view>>
    BY <1>7 DEF CreateStarter
  <2>2. cached \in ZabbixCatalog /\ made' = [pc |-> "starter", doc |-> Starter(cached)]
    BY <1>7 DEF CreateStarter, CatalogsInv, CatalogsTypeOK
  <2>3. /\ Starter(cached).lookups["tgroups"] = {}
        /\ Starter(cached).defaults = Nothing /\ Starter(cached).rules = Nothing
        /\ \A kind \in Checked : IdsOf(Starter(cached).lookups[kind]) = IdsOf(cached[kind])
    BY <2>2, StarterTyped
  <2>4. ReadInv' /\ AloneInv'
    BY <2>1 DEF CatalogsInv, ReadInv, AloneInv
  <2>5. StarterInv'
    <3>1. \A kind \in Checked : Known(IdsOf(cached[kind]), cached[kind], gone)
      BY DEF Known
    <3> QED BY <2>1, <2>2, <2>3, <3>1 DEF CatalogsInv, ReadInv, AloneInv, StarterInv
  <2>6. FixedInv'
    BY <2>2 DEF FixedInv
  <2> QED BY <2>4, <2>5, <2>6
<1>8. CASE LoadRules \/ LoadCatalog
  <2>1. UNCHANGED <<zabbix, gone, cached, sync, overtaken, rules, made>>
    BY <1>8 DEF LoadRules, LoadCatalog
  <2> QED BY <2>1 DEF CatalogsInv, ReadInv, AloneInv, StarterInv, FixedInv
<1>9. CASE FixMapping
  <2>1. UNCHANGED <<zabbix, gone, cached, sync, overtaken, rules, view>>
    BY <1>9 DEF FixMapping
  <2>2. PICK chosen \in SUBSET Missing(view.rules, view.catalog) :
            made' = [pc |-> "fixed", doc |-> Fixed(rules, chosen), of |-> rules, seen |-> view, chosen |-> chosen]
    BY <1>9 DEF FixMapping
  <2>3. StarterInv' /\ FixedInv'
    BY <2>2 DEF StarterInv, FixedInv
  <2> QED BY <2>1, <2>3 DEF CatalogsInv, ReadInv, AloneInv
<1>10. CASE PublishMade
  <2>1. UNCHANGED <<zabbix, gone, cached, sync, overtaken, view>> /\ made' = Unloaded
    BY <1>10 DEF PublishMade
  <2>2. StarterInv' /\ FixedInv'
    BY <2>1 DEF StarterInv, FixedInv, Unloaded
  <2> QED BY <2>1, <2>2 DEF CatalogsInv, ReadInv, AloneInv
<1>11. CASE UNCHANGED catalogVars
  BY <1>11 DEF catalogVars, CatalogsInv, ReadInv, AloneInv, StarterInv, FixedInv
<1> QED BY <1>1, <1>2, <1>3, <1>4, <1>5, <1>6, <1>7, <1>8, <1>9, <1>10, <1>11 DEF CatalogNext

\* A starter names nothing that the checks look up in vain, but what Zabbix lost.
LEMMA StarterIsSound ==
  ASSUME CatalogsInv, made.pc = "starter", ~overtaken
  PROVE  Errors(made.doc) \subseteq gone
<1> DEFINE doc == made.doc
<1>1. cached \in {NotThere, HalfWritten} => Errors(doc) = {}
  BY DEF Errors
<1>2. CASE cached \notin {NotThere, HalfWritten}
  <2>1. cached \in ZabbixCatalog
    BY <1>2 DEF CatalogsInv, CatalogsTypeOK
  <2>2. /\ doc.lookups["tgroups"] = {} /\ doc.defaults = Nothing /\ doc.rules = Nothing
        /\ \A kind \in Checked : Known(IdsOf(doc.lookups[kind]), cached[kind], gone)
    BY <2>1 DEF CatalogsInv, StarterInv
  <2> HIDE DEF doc
  <2>3. \A kind \in ItemKinds : Used(doc, kind) = doc.lookups[kind]
    BY <2>2 DEF Used, RuleItems, Nothing
  <2>4. /\ LookupIds(doc, "templateid") = IdsOf(doc.lookups["templates"])
        /\ LookupIds(doc, "groupid") = IdsOf(doc.lookups["groups"])
    BY <2>2, <2>3 DEF LookupIds, ItemKinds
  <2>5. /\ Unknown(LookupIds(doc, "templateid"), cached["templates"]) \subseteq gone
        /\ Unknown(LookupIds(doc, "groupid"), cached["groups"]) \subseteq gone
    BY <2>2, <2>4 DEF Unknown, Known, Checked
  <2>6. Errors(doc) \subseteq gone
    BY <1>2, <2>5 DEF Errors
  <2> QED BY <2>6 DEF doc
<1> QED BY <1>1, <1>2

\* What was made is sound in every state of the invariant.
LEMMA MadeSound == CatalogsInv => MadeIsSound
<1> SUFFICES ASSUME CatalogsInv PROVE MadeIsSound
  OBVIOUS
<1>1. made.pc = "starter" /\ ~overtaken => Errors(made.doc) \subseteq gone
  BY StarterIsSound
<1>2. ASSUME made.pc = "fixed" PROVE made.doc = Fixed(made.of, made.chosen) /\ made.of \in RulesDocument
                                     /\ made.chosen \subseteq Missing(made.seen.rules, made.seen.catalog)
  BY <1>2 DEF CatalogsInv, FixedInv, CatalogsTypeOK, Unloaded
<1>3. ASSUME made.pc = "fixed", made.chosen = Missing(made.of, made.seen.catalog)
      PROVE  Missing(made.doc, made.seen.catalog) = {}
  BY <1>2, <1>3, NothingMissing
<1>4. ASSUME made.pc = "fixed", NEW kind \in ItemKinds, NEW item \in Used(made.of, kind),
             Lists(made.seen.catalog[kind], item)
      PROVE  item \in Used(made.doc, kind)
  BY <1>2, <1>4, ListedIsKept
<1> QED BY <1>1, <1>3, <1>4 DEF MadeIsSound

\* No conflict goes unnoticed in any rules and catalog that the page has loaded.
LEMMA AllNoticed == CatalogsTypeOK => NoConflictUnnoticed
<1> SUFFICES ASSUME CatalogsTypeOK, view.pc = "both", view.rules.defaults["templates"] = {},
                    NEW rule \in view.rules.rules["templates"],
                    RuleConflicts(view.rules, view.catalog, rule) = {}, NEW c \in Conflicts(view.catalog)
             PROVE  ~Several(c \cap Converted(rule, view.rules.conflicts))
  BY DEF NoConflictUnnoticed
<1>1. view.rules.conflicts \in Seq(ConflictRule)
  BY DEF CatalogsTypeOK, Unloaded, BothView, RulesDocument
<1> QED BY <1>1, ConflictsNoticed

\* The invariant of the catalog holds in every behaviour.
LEMMA CatalogsAlways == CatalogSpec => []CatalogsInv
  BY CatalogsInitially, CatalogsStep, PTL DEF CatalogSpec

\* Zabbix, the file, the rules and the page have the shapes that the models say.
THEOREM CatalogsTypeCorrect == CatalogSpec => []CatalogsTypeOK
<1>1. CatalogsInv => CatalogsTypeOK
  BY DEF CatalogsInv
<1> QED BY <1>1, CatalogsAlways, PTL

(* A starter is refused for what Zabbix lost only, a removal of what is    *)
(* missing is complete and takes nothing else, and a single rule the page  *)
(* finds nothing wrong with gives a host no conflicting templates where    *)
(* the defaults of the document have none.  Templates of several rules, or *)
(* of a rule and the defaults, may conflict unnoticed.                     *)
THEOREM ChecksTrusted == CatalogSpec => []ChecksCanBeTrusted
<1>1. CatalogsInv => ChecksCanBeTrusted
  BY MadeSound, AllNoticed DEF CatalogsInv, ChecksCanBeTrusted
<1> QED BY <1>1, CatalogsAlways, PTL

=============================================================================
