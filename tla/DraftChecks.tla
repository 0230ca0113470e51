----------------------------- MODULE DraftChecks -----------------------------
(***************************************************************************)
(* What the editor tells about a draft when it is saved: the warnings of   *)
(* validateMappingDraftBeforeSave, and the file of webhook bodies for the  *)
(* administrator who sets the webhooks up by hand (public/app.js).         *)
(*                                                                         *)
(* The file is made from the changes since the draft was loaded.  Left     *)
(* out: its advice for what was removed, event routes (a draft's events    *)
(* never change here), the fields expected by Zabbix and the scalar        *)
(* targets of domain fields, of which documents here have no trace.        *)
(***************************************************************************)
EXTENDS MappingRules

WebhookClass(c) == c \in DOMAIN Catalog.classes => ~Catalog.classes[c]

(***************************************************************************)
(* The warnings                                                            *)
(***************************************************************************)
Items(doc) == ToSet(doc.hostProfiles) \cup ToSet(doc.selectionRules)
ClassConditions(item) ==
    UNION {l.value.literals : l \in {k \in Leaves(item.when) :
                                        k.field = ClassName /\ k.op \in {"equals", "regex"}}}
MonitoredClasses(doc) == doc.classes \cup UNION {ClassConditions(i) : i \in Items(doc)}

\* Address fields of any profile that a card of the class has.
AddressCandidates(doc, class) ==
    {f \in {p.valueField : p \in ToSet(doc.hostProfiles)} :
        /\ CompatibleWithClass(class, f)
        /\ FindAttributeForField(AttributesOf(Catalog, class), FieldRule[f]) # <<>>}

WarnedClasses(doc) ==
    {c \in MonitoredClasses(doc) :
        \/ c \notin DOMAIN Catalog.classes
        \/ WebhookClass(c) /\ (~ClassHasProfile(doc, c) \/ AddressCandidates(doc, c) = {})}

(***************************************************************************)
(* The changes of a session                                                *)
(***************************************************************************)
\* Mutant: a rule that keeps its name is taken for the same rule.
AddedByName(old, new) ==
    [classes |-> new.classes \ old.classes, fields |-> ToSet(new.fields) \ ToSet(old.fields),
     rules |-> {i \in Items(new) : i.name \notin {j.name : j \in Items(old)}}]

\* Rules and profiles are the same when nothing in them differs.
Added(old, new) ==
    [classes |-> new.classes \ old.classes, fields |-> ToSet(new.fields) \ ToSet(old.fields),
     rules |-> Items(new) \ Items(old)]

ClassesForSourceField(doc, f) ==
    IF f \in Virtual THEN {}
    ELSE {c \in doc.classes :
            WebhookClass(c) /\ FindAttributeForField(AttributesOf(Catalog, c), FieldRule[f]) # <<>>}

\* The classes a rule names; else, without a condition, all; else those that
\* have one of its fields.  The address of a profile is inside its interface
\* and not among them.
ClassesForRuleChange(doc, item) ==
    LET named == {c \in ClassConditions(item) : WebhookClass(c)}
        fields == ConditionFields(item.when) \cup IF "reads" \in DOMAIN item THEN item.reads ELSE {}
    IN  IF named # {} THEN named
        ELSE IF item.when.op = "always" THEN {c \in doc.classes : WebhookClass(c)}
        ELSE UNION {ClassesForSourceField(doc, f) : f \in fields}

\* The classes that the file has bodies for.
ClassesWithBodies(old, new) ==
    LET added == Added(old, new)
    IN  {c \in added.classes : WebhookClass(c)}
            \cup UNION {ClassesForSourceField(new, f) : f \in added.fields}
            \cup UNION {ClassesForRuleChange(new, i) : i \in added.rules}

(***************************************************************************)
(* Bodies: from key to attribute of the card                               *)
(***************************************************************************)
BodyKey(f) == FirstName(FieldRule[f].sources \o <<f>>)
BodyHasField(body, f) ==
    Tokens({BodyKey(f), f, canonical(f)} \cup ToSet(FieldRule[f].sources) \cup ToSet(FieldRule[f].attrs))
        \cap Tokens(DOMAIN body) # {}

UsedTokens(doc, class) ==
    Tokens({entityId, code}) \cup {u.token : u \in SourceFieldUsage(Payload(doc), class)}

BodyValue(class, f) ==
    LET a == FindAttributeForField(AttributesOf(Catalog, class), FieldRule[f])
    IN  IF a # <<>> THEN a[1].name ELSE IF canonical(f) = entityId THEN Id ELSE None

NeededFields(doc, class) ==
    LET used == UsedTokens(doc, class)
    IN  {f \in ToSet(doc.fields) :
        /\ Tokens({f, canonical(f)}) \cap used # {} \/ FieldRule[f].required
        /\ PathRootApplies(FieldRule[f].path, class, Catalog, Payload(doc))
        /\ BodyValue(class, f) # None}

Body(doc, class) ==
    LET needed == NeededFields(doc, class)
        put(body, f) == IF f \notin needed \/ BodyHasField(body, f) THEN body
                        ELSE body @@ (BodyKey(f) :> BodyValue(class, f))
    IN  Fold(put, [k \in FixedKeys |-> None], doc.fields)

\* The webhooks of the classes, set up by hand for one document and brought up
\* to date with the file that was saved with another.
SetUpByHand(old, new) ==
    LET told == ClassesWithBodies(old, new)
    IN  [c \in {k \in new.classes : WebhookClass(k)} |-> Body(IF c \in told THEN new ELSE old, c)]

(***************************************************************************)
(* What the converter makes of it                                          *)
(***************************************************************************)
\* Some card of the class has a profile that applies and an address it reads.
Converts(doc, class) ==
    \E p \in ToSet(doc.hostProfiles) :
        /\ CompatibleWithClass(class, p.valueField)
        /\ \E card \in Cards(p.when, class, ToSet(doc.fields)) : Matches(p.when, card)

\* The profiles that forms make: of one class, with an address of that class.
MadeByForms(doc) ==
    \A p \in ToSet(doc.hostProfiles) :
        ProfileContext(p) # None /\ CompatibleWithClass(ProfileContext(p), p.valueField)

=============================================================================
