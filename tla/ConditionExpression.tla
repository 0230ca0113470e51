------------------------- MODULE ConditionExpression -------------------------
(***************************************************************************)
(* The conditions of conversion rules as the monitoring UI reads them:     *)
(* public/lib/condition-expression.js, shared by the editor in the browser *)
(* and by the BFF's validation and dry run.                                *)
(*                                                                         *)
(* An expression is a tree of records of one shape, [op, field, value,     *)
(* items].  A value to compare with is [matches, literals, ok]: the texts  *)
(* it accepts, the texts regexLiteralValues reads out of it, and whether   *)
(* it is filled in and compiles.  A plain value accepts and names itself;  *)
(* ^(A|B)$ accepts and names A and B; ^A.* may accept many and names only  *)
(* "A".  Fields are told apart as sameField does, texts as sameValue does. *)
(*                                                                         *)
(* The module is evaluated by TLC only: it recurses over trees.            *)
(***************************************************************************)
EXTENDS Naturals, Sequences

CONSTANTS ClassName, HostProfile, OutputProfile, EventType, \* the special fields
          NoField,  \* an expression without a field
          Blank     \* the text of an empty value

(***************************************************************************)
(* Values and expressions                                                  *)
(***************************************************************************)
Pattern(matches, literals) == [matches |-> matches, literals |-> literals, ok |-> TRUE]
Text(v) == IF v = Blank THEN [matches |-> {}, literals |-> {}, ok |-> FALSE]
                        ELSE Pattern({v}, {v})
Broken == [matches |-> {}, literals |-> {}, ok |-> FALSE]

Node(op, field, value, items) ==
    [op |-> op, field |-> field, value |-> value, items |-> items]
Always == Node("always", NoField, Broken, <<>>)
Leaf(field, op, value) == Node(op, field, value, <<>>)
AllOf(items) == Node("all", NoField, Broken, items)
AnyOf(items) == Node("any", NoField, Broken, items)
NotOf(item) == Node("not", NoField, Broken, <<item>>)

Groups == {"all", "any", "not"}
Compared == {"equals", "notequals", "regex", "notregex"}
LeafOps == Compared \cup {"always", "exists", "empty"}

\* The condition the editor gives a rule bound to a profile.
ProfileBound(profile, object) ==
    LET own == Leaf(HostProfile, "equals", Text(profile))
    IN  AllOf(IF object.op = "always" THEN <<own>> ELSE <<own, object>>)

(***************************************************************************)
(* Reading an expression                                                   *)
(***************************************************************************)
RECURSIVE Leaves(_)
Leaves(e) ==
    IF e.op \in Groups THEN UNION {Leaves(e.items[i]) : i \in DOMAIN e.items} ELSE {e}

\* The fields an expression reads.
ConditionFields(e) == {l.field : l \in {k \in Leaves(e) : k.op # "always"}} \ {NoField}

\* The values of a field that occur anywhere, negated or alternative alike.
ExactValues(e, field) ==
    UNION {l.value.literals : l \in {k \in Leaves(e) : k.op \in {"equals", "regex"} /\ k.field = field}}

\* The leaves every match satisfies, since only "all" lies above them.
RECURSIVE RequiredLeaves(_)
RequiredLeaves(e) ==
    IF e.op = "all" THEN UNION {RequiredLeaves(e.items[i]) : i \in DOMAIN e.items} ELSE {e}

RequiredEquals(e, field) ==
    UNION {l.value.literals : l \in {k \in RequiredLeaves(e) : k.op = "equals" /\ k.field = field}}

\* The one profile a rule is bound to, Blank when it is bound to none.
RequiredHostProfileName(e) ==
    LET names == RequiredEquals(e, HostProfile)
    IN  IF e.op = "all" /\ \E n \in names : names = {n}
        THEN CHOOSE n \in names : TRUE ELSE Blank

\* May the rule apply to cards of the class?  Anything not about the class may.
RECURSIVE MayApplyToClass(_, _)
MayApplyToClass(e, class) ==
    \/ e.op = "all" /\ \A i \in DOMAIN e.items : MayApplyToClass(e.items[i], class)
    \/ e.op = "any" /\ \E i \in DOMAIN e.items : MayApplyToClass(e.items[i], class)
    \/ e.op = "not"
    \/ e.op \notin Groups /\ e.field # ClassName
    \/ e.op \in {"equals", "regex"} /\ class \in e.value.matches
    \/ e.op \in {"notequals", "notregex"} /\ class \notin e.value.matches
    \/ e.op \in {"exists", "empty"}

\* Does a card (a function from fields to texts) satisfy the expression?
RECURSIVE Matches(_, _)
Matches(e, card) ==
    LET read == IF e.field \in DOMAIN card THEN card[e.field] ELSE Blank
    IN  \/ e.op = "always"
        \/ e.op = "all" /\ e.items # <<>> /\ \A i \in DOMAIN e.items : Matches(e.items[i], card)
        \/ e.op = "any" /\ \E i \in DOMAIN e.items : Matches(e.items[i], card)
        \/ e.op = "not" /\ Len(e.items) = 1 /\ ~Matches(e.items[1], card)
        \/ e.op = "exists" /\ read # Blank
        \/ e.op = "empty" /\ read = Blank
        \/ e.op \in {"equals", "regex"} /\ read # Blank /\ read \in e.value.matches
        \/ e.op = "notequals" /\ read # Blank /\ read \notin e.value.matches
        \/ e.op = "notregex" /\ read # Blank /\ e.value.ok /\ read \notin e.value.matches

(***************************************************************************)
(* Validation                                                              *)
(***************************************************************************)
RECURSIVE ValidExpression(_)
ValidExpression(e) ==
    /\ e.op \in Groups \cup LeafOps
    /\ e.op \in {"all", "any"} => e.items # <<>>
    /\ e.op = "not" => Len(e.items) = 1
    /\ e.op \in Groups => \A i \in DOMAIN e.items : ValidExpression(e.items[i])
    /\ e.op \in LeafOps \ {"always"} => e.field # NoField
    /\ e.op \in Compared => e.value.ok

\* rules is [hostProfiles, selectionRules, fields]: sequences of [name, when,
\* ...] and of [when, valueField, ...], and for each source field the class its
\* cmdbPath starts with (Blank for none).
ProfilesNamed(rules, name) ==
    {i \in DOMAIN rules.hostProfiles : rules.hostProfiles[i].name = name}

IsProfileScopedRule(rule, rules) ==
    LET name == RequiredHostProfileName(rule.when)
    IN  name # Blank /\ ProfilesNamed(rules, name) # {}

\* Which selection rules never apply, for want of a profile or of a known one.
IgnoredProfileScopedRules(rules) ==
    {i \in DOMAIN rules.selectionRules : ~IsProfileScopedRule(rules.selectionRules[i], rules)}

\* The profile a scoped rule belongs to: the first one of that name.
ScopeOf(rule, rules) ==
    rules.hostProfiles[CHOOSE i \in ProfilesNamed(rules, RequiredHostProfileName(rule.when)) :
        \A j \in ProfilesNamed(rules, RequiredHostProfileName(rule.when)) : i <= j]

\* Fields of a scoped rule whose cmdbPath starts in the class it is scoped to.
FieldsOfClass(rule, class, rules) ==
    \A f \in (ConditionFields(rule.when) \cup {rule.valueField}) \cap DOMAIN rules.fields :
        rules.fields[f] \in {Blank, class}

ValidProfileScopedRule(rule, rules) ==
    IsProfileScopedRule(rule, rules) =>
        LET classes == ExactValues(ScopeOf(rule, rules).when, ClassName)
        IN  /\ ConditionFields(rule.when) \cap {ClassName, OutputProfile} = {}
            /\ \E c \in classes : classes = {c} /\ FieldsOfClass(rule, c, rules)

ValidateRulesConditions(rules) ==
    /\ \A i \in DOMAIN rules.hostProfiles : ValidExpression(rules.hostProfiles[i].when)
    /\ \A i \in DOMAIN rules.selectionRules :
          /\ ValidExpression(rules.selectionRules[i].when)
          /\ ValidProfileScopedRule(rules.selectionRules[i], rules)

=============================================================================
