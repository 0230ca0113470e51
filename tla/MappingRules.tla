---------------------------- MODULE MappingRules ----------------------------
(***************************************************************************)
(* The rules document of "Conversion Rules Management" and what its forms  *)
(* do to a draft of it (public/app.js, public/lib/mapping-logic.js).       *)
(*                                                                         *)
(*   a document  [version, classes : set, fields : sequence of keys in the *)
(*               order they were declared, hostProfiles, selectionRules :  *)
(*               sequences]                                                *)
(*   a profile   [name, main, when, valueField]: its primary interface     *)
(*               reads valueField when there is one                        *)
(*   a rule      [name, when, valueField, reads]: the leaf of a            *)
(*               dynamicFromLeaf target, Blank without, and the fields     *)
(*               its target reads, that leaf or those of a string template *)
(*                                                                         *)
(* A source field is declared the same way whoever declares it, FieldRule. *)
(* Names are told apart as sameNormalized does.  The collections of        *)
(* selection rules are one; priorities, targets and texts are left out.    *)
(***************************************************************************)
EXTENDS WebhookPayload

CONSTANTS Catalog,    \* the CMDBuild catalog of the page
          FieldRule,  \* what is declared for a source field
          ClassOrder  \* the classes as compareText sorts them

HasField(doc, f) == f \in ToSet(doc.fields)
ProfilesOf(doc, name) == {i \in DOMAIN doc.hostProfiles : doc.hostProfiles[i].name = name}

(***************************************************************************)
(* What the BFF accepts, and what the webhooks must send for a document    *)
(***************************************************************************)
AsConditions(doc) ==
    [hostProfiles |-> doc.hostProfiles, selectionRules |-> doc.selectionRules,
     fields |-> [f \in ToSet(doc.fields) |-> FirstName(FieldRule[f].path)]]
Accepted(doc) ==
    ValidateRulesConditions(AsConditions(doc)) /\ IgnoredProfileScopedRules(AsConditions(doc)) = {}

Requiring(name, when, fields, nodes) == [name |-> name, when |-> when, fields |-> fields, nodes |-> nodes]
Payload(doc) ==
    [classes |-> SelectSeq(ClassOrder, LAMBDA c : c \in doc.classes), events |-> <<"update">>,
     fields |-> [i \in DOMAIN doc.fields |-> FieldRule[doc.fields[i]]], always |-> {code},
     nodes |-> {LET interface == Requiring(p.name, Leaf(p.valueField, "exists", Broken), {p.valueField}, {})
                IN  Requiring(p.name, p.when, {}, {interface}) : p \in ToSet(doc.hostProfiles)}
               \cup {Requiring(r.name, r.when, r.reads, {}) : r \in ToSet(doc.selectionRules)}]

(***************************************************************************)
(* Classes and source fields                                               *)
(***************************************************************************)
CompatibleWithClass(class, f) ==
    f \notin Virtual =>
        IF FieldRule[f].path = <<>>
        THEN FindAttributeForField(AttributesOf(Catalog, class), FieldRule[f]) # <<>>
        ELSE FieldRule[f].path[1] = class

\* The one class of a profile's condition, None when there is not one.
ProfileContext(profile) ==
    LET classes == ExactValues(profile.when, ClassName)
    IN  IF \E c \in classes : classes = {c} THEN CHOOSE c \in classes : TRUE ELSE None

WithClass(doc, class) == [doc EXCEPT !.classes = @ \cup {class}]
WithField(doc, f) ==
    IF f \in Virtual \/ HasField(doc, f) THEN doc ELSE [doc EXCEPT !.fields = Append(@, f)]

(***************************************************************************)
(* Conditions                                                              *)
(***************************************************************************)
ProfileCondition(main, class, f) ==
    LET ofClass == Leaf(ClassName, "equals", Text(class))
        hasAddress == AnyOf(<<Leaf(f, "exists", Broken), Leaf(EventType, "equals", Text("delete"))>>)
    IN  IF main THEN <<ofClass>> ELSE <<ofClass, hasAddress>>

\* The condition without the tests of a field, as a sequence of one or none.
RECURSIVE Without(_, _)
Without(e, f) ==
    LET left == Flatten([i \in DOMAIN e.items |-> Without(e.items[i], f)])
    IN  IF e.op \notin Groups THEN IF e.field = f THEN <<>> ELSE <<e>>
        ELSE IF left = <<>> \/ (e.op = "not" /\ Len(left) # 1) THEN <<>>
        ELSE <<[e EXCEPT !.items = left]>>

\* The object condition of a rule, with the profile's own test taken off.
UserCondition(when) == (Without(when, HostProfile) \o <<Always>>)[1]

\* Tests for the old profile name, and patterns that name it alone, name the new.
RECURSIVE Renamed(_, _, _)
Renamed(e, old, new) ==
    IF e.op \in Groups THEN [e EXCEPT !.items = [i \in DOMAIN @ |-> Renamed(@[i], old, new)]]
    ELSE IF e.field = HostProfile /\ e.op \in {"equals", "regex"} /\ e.value.literals = {old}
    THEN [e EXCEPT !.value = Text(new)] ELSE e

(***************************************************************************)
(* Selection rules.  A form is [profile, when, kind, field]: kind "static",*)
(* "dynamic" (from the leaf) or "template" (a string that reads it).       *)
(***************************************************************************)
ConditionAllowed(class, when) ==
    \A f \in ConditionFields(when) :
        f # EventType => f \notin Virtual /\ CompatibleWithClass(class, f)

RuleFormValid(doc, form) ==
    \E i \in ProfilesOf(doc, form.profile) :
        LET class == ProfileContext(doc.hostProfiles[i])
        IN  /\ class # None /\ ConditionAllowed(class, form.when) /\ ValidExpression(form.when)
            /\ form.kind = "static" <=> form.field = Blank
            /\ form.kind = "dynamic" => CompatibleWithClass(class, form.field)

RuleOf(name, form) ==
    [name |-> name, when |-> ProfileBound(form.profile, UserCondition(form.when)),
     valueField |-> IF form.kind = "dynamic" THEN form.field ELSE Blank,
     reads |-> {form.field} \ {Blank}]

\* The class and the leaf or template fields of the rule are declared with it.
Declared(doc, form) ==
    LET i == CHOOSE k \in ProfilesOf(doc, form.profile) : TRUE
        known == WithClass(doc, ProfileContext(doc.hostProfiles[i]))
    IN  IF form.kind = "static" THEN known ELSE WithField(known, form.field)

AddRule(doc, name, form) ==
    [Declared(doc, form) EXCEPT !.selectionRules = Append(@, RuleOf(name, form))]

\* Rules that the lists for modification and deletion offer.
Scoped(doc) == {i \in DOMAIN doc.selectionRules :
                    IsProfileScopedRule(doc.selectionRules[i], AsConditions(doc))}
Editable(doc) == {i \in Scoped(doc) : ProfileContext(ScopeOf(doc.selectionRules[i], doc)) # None}

S == INSTANCE SequencesExt
ModifyRule(doc, i, form) ==
    [Declared(doc, form) EXCEPT
        !.selectionRules = Append(S!RemoveAt(@, i), RuleOf(@[i].name, form))]
DeleteRule(doc, i) == [doc EXCEPT !.selectionRules = S!RemoveAt(@, i)]

(***************************************************************************)
(* Profiles.  A form is [name, main, class, field]                         *)
(***************************************************************************)
\* Mutant: only profiles that name the class count.
ClassNamedByProfile(doc, class) ==
    \E i \in DOMAIN doc.hostProfiles : class \in ExactValues(doc.hostProfiles[i].when, ClassName)

ClassHasProfile(doc, class) ==
    \E i \in DOMAIN doc.hostProfiles : MayApplyToClass(doc.hostProfiles[i].when, class)

CreateFormValid(doc, form) ==
    /\ ProfilesOf(doc, form.name) = {}
    /\ form.main <=> ~ClassHasProfile(doc, form.class)
    /\ CompatibleWithClass(form.class, form.field)

CreateProfile(doc, form) ==
    LET conditions == ProfileCondition(form.main, form.class, form.field)
        profile == [name |-> form.name, main |-> form.main, valueField |-> form.field,
                    when |-> IF form.main THEN conditions[1] ELSE AllOf(conditions)]
    IN  [WithField(WithClass(doc, form.class), form.field) EXCEPT !.hostProfiles = Append(@, profile)]

\* The form of a profile is loaded with the first class of its condition; the
\* new condition replaces all of the old one.
SaveFormValid(doc, i, form) ==
    /\ form.class \in ExactValues(doc.hostProfiles[i].when, ClassName)
    /\ ProfilesOf(doc, form.name) \subseteq {i}
    /\ CompatibleWithClass(form.class, form.field)

\* Mutant: renames the profile and forgets the rules that name it.
SaveProfileOnly(doc, i, form) ==
    [WithField(WithClass(doc, form.class), form.field) EXCEPT
        !.hostProfiles[i] = [name |-> form.name, main |-> form.main, valueField |-> form.field,
                             when |-> AllOf(ProfileCondition(form.main, form.class, form.field))]]

SaveProfile(doc, i, form) ==
    [WithField(WithClass(doc, form.class), form.field) EXCEPT
        !.hostProfiles[i] = [name |-> form.name, main |-> form.main, valueField |-> form.field,
                             when |-> AllOf(ProfileCondition(form.main, form.class, form.field))],
        !.selectionRules = [j \in DOMAIN @ |-> [@[j] EXCEPT
            !.when = Renamed(@, doc.hostProfiles[i].name, form.name)]]]

\* Mutant: every rule that was scoped to any profile of the class goes.
DeleteProfileByClass(doc, name) ==
    LET gone == {doc.hostProfiles[i] : i \in ProfilesOf(doc, name)}
        class(r) == ProfileContext(ScopeOf(r, doc))
    IN  [doc EXCEPT
        !.hostProfiles = SelectSeq(@, LAMBDA p : p.name # name),
        !.selectionRules = SelectSeq(@, LAMBDA r : \A p \in gone : class(r) # ProfileContext(p))]

DeleteProfile(doc, name) ==
    [doc EXCEPT
        !.hostProfiles = SelectSeq(@, LAMBDA p : p.name # name),
        !.selectionRules = SelectSeq(@, LAMBDA r : name \notin ExactValues(r.when, HostProfile))]

=============================================================================
