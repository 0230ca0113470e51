---------------------------- MODULE WebhookPayload ----------------------------
(***************************************************************************)
(* What the CMDBuild webhooks of the managed classes must send:            *)
(* public/lib/webhook-logic.js.  WebhookPlan brings the existing ones      *)
(* there.                                                                  *)
(*                                                                         *)
(* Names of fields, attributes, payload keys, classes and path segments    *)
(* are those of WebhookPlan.  Class names are told apart as                *)
(* normalizeClassName does.                                                *)
(*                                                                         *)
(*   rules    [classes, events : sequences, fields : sequence of source    *)
(*            fields, always : names read by T4 templates and the          *)
(*            normalization, nodes : the rules]                            *)
(*   a field  [key, sources, attrs, path, required]                        *)
(*   a rule   [name, when, fields, nodes]: the fields it reads itself and  *)
(*            the objects nested in it, each with a condition of its own   *)
(*   catalog  [classes : name -> is it a superclass, attributes : class -> *)
(*            sequence of [name, alias]]                                   *)
(***************************************************************************)
EXTENDS ConditionExpression, WebhookPlan, TLC

CONSTANTS canonical(_),    \* canonicalSourceField, of names
          Id, Code,        \* the attributes every card has
          entityId, code,  \* the canonical fields they stand for
          Domains          \* path segments {domain:...}

ToSet(seq) == {seq[i] : i \in DOMAIN seq}
FirstName(names) == IF names = <<>> THEN None ELSE Head(names)
FirstWhere(seq, Test(_)) ==
    LET found == SelectSeq(seq, Test) IN IF found = <<>> THEN <<>> ELSE <<Head(found)>>

\* FoldLeft and FlattenSeq as recursive functions, which TLC evaluates fast.
Fold(Op(_, _), base, seq) ==
    LET f[i \in 0..Len(seq)] == IF i = 0 THEN base ELSE Op(f[i - 1], seq[i]) IN f[Len(seq)]
Flatten(seqs) == Fold(LAMBDA all, s : all \o s, <<>>, seqs)

(***************************************************************************)
(* Which fields a class needs, and why                                     *)
(***************************************************************************)
Virtual == {ClassName, EventType, HostProfile, OutputProfile}

\* The fields a rule and the objects nested in it read for the class.
RECURSIVE FieldsForClass(_, _)
FieldsForClass(node, class) ==
    IF MayApplyToClass(node.when, class)
    THEN ConditionFields(node.when) \cup node.fields
            \cup UNION {FieldsForClass(n, class) : n \in node.nodes}
    ELSE {}

\* [token, reason] pairs: which tokens are used for the class and by what.
SourceFieldUsage(rules, class) ==
    LET uses(names, reason) ==
            {[token |-> token(k), reason |-> reason] :
                k \in UNION {{n, canonical(n)} : n \in {f \in names : canonical(f) \notin Virtual}}}
        required == {rules.fields[i].key : i \in {j \in DOMAIN rules.fields : rules.fields[j].required}}
    IN  uses(required, "required") \cup uses(rules.always, "templates")
            \cup UNION {uses(FieldsForClass(n, class), n.name) : n \in rules.nodes}

\* The first attribute of that name or alias, as a sequence of one or none.
FindAttribute(attributes, name, key) ==
    LET wanted == Tokens({name, key, canonical(key)})
    IN  FirstWhere(attributes, LAMBDA a : Tokens({a.name, a.alias}) \cap wanted # {})

\* cmdbAttribute(s) first, then the sources, then the key itself.
FindAttributeForField(attributes, field) ==
    LET tried == field.attrs \o field.sources \o <<field.key>>
        found(n) == FindAttribute(attributes, n, field.key)
        hit == FirstWhere(tried, LAMBDA n : found(n) # <<>>)
    IN  IF hit = <<>> THEN <<>> ELSE found(hit[1])

\* The attribute of this card from which the path starts; Id for a domain.
BodyValueForPath(class, attributes, path) ==
    LET own == IF path[1] = class THEN Tail(path) ELSE path
    IN  IF own = <<>> \/ Head(own) \in Domains THEN Id
        ELSE LET a == FindAttribute(attributes, Head(own), Head(own))
             IN  IF a = <<>> THEN Head(own) ELSE a[1].name

PlaceholderAttribute(class, attributes, field) ==
    IF field.path # <<>> THEN BodyValueForPath(class, attributes, field.path)
    ELSE LET a == FindAttributeForField(attributes, field)
         IN  IF a # <<>> THEN a[1].name
             ELSE IF canonical(field.key) = entityId THEN Id
             ELSE IF canonical(field.key) = code THEN Code ELSE None

\* A path rooted in another known class says nothing about this one.
PathRootApplies(path, class, catalog, rules) ==
    \/ Len(path) < 2 \/ path[1] \in Domains \/ path[1] = class
    \/ path[1] \notin DOMAIN catalog.classes \cup ToSet(rules.classes)

RequirementForField(class, attributes, field, reasons) ==
    LET placeholder == PlaceholderAttribute(class, attributes, field)
        source == FirstName(field.sources \o <<field.key>>)
    IN  [keys |-> {field.key}, payloadKey |-> source, source |-> source,
         attr |-> FirstName(field.attrs \o <<placeholder>>),
         path |-> field.path # <<>>, placeholder |-> placeholder,
         by |-> reasons]

RequirementsCanMerge(l, r) ==
    \/ EqualsIgnoreCase(l.payloadKey, r.payloadKey)
    \/ token(l.payloadKey) = token(r.payloadKey) /\ ~l.path /\ ~r.path

\* Joins the first requirement that can take it in, or comes last.
AddRequirement(result, r) ==
    LET fits == {i \in DOMAIN result : RequirementsCanMerge(result[i], r)}
    IN  IF fits = {} THEN Append(result, r)
        ELSE LET i == CHOOSE k \in fits : \A j \in fits : k <= j
             IN  [result EXCEPT ![i].keys = @ \cup r.keys, ![i].path = @ \/ r.path,
                                ![i].by = @ \cup r.by]

(***************************************************************************)
(* A requirement with a path shadows the plain ones that name the same     *)
(* thing: they are dropped and their reasons passed on.                    *)
(***************************************************************************)
Identity(r) == Tokens({r.payloadKey, r.source, r.attr, r.placeholder})
Shadows(p, r) == p.path /\ ~r.path /\ Identity(p) \cap Identity(r) # {}

\* Mutant: the plain requirement is dropped, and its reasons with it.
PruneForgetting(result, r) ==
    IF r.path THEN Append(SelectSeq(result, LAMBDA x : ~Shadows(r, x)), r)
    ELSE IF \E i \in DOMAIN result : Shadows(result[i], r) THEN result ELSE Append(result, r)

Prune(result, r) ==
    IF ~r.path
    THEN LET over == {i \in DOMAIN result : Shadows(result[i], r)}
         IN  IF over = {} THEN Append(result, r)
             ELSE [result EXCEPT ![CHOOSE k \in over : \A j \in over : k <= j].by = @ \cup r.by]
    ELSE LET shadowed == {i \in DOMAIN result : Shadows(r, result[i])}
         IN  Append(SelectSeq(result, LAMBDA x : ~Shadows(r, x)),
                    [r EXCEPT !.by = @ \cup UNION {result[i].by : i \in shadowed}])

AttributesOf(catalog, class) ==
    IF class \in DOMAIN catalog.attributes THEN catalog.attributes[class] ELSE <<>>

RequirementsForClass(rules, catalog, class) ==
    LET usage == SourceFieldUsage(rules, class)
        reasons(f) == {u.reason : u \in {v \in usage : v.token \in Tokens({f.key, canonical(f.key)})}}
        wanted(f) == /\ canonical(f.key) \notin Virtual /\ reasons(f) # {}
                     /\ PathRootApplies(f.path, class, catalog, rules)
        requirement(f) == RequirementForField(class, AttributesOf(catalog, class), f, reasons(f))
        add(result, f) == IF wanted(f) /\ requirement(f).placeholder # None
                          THEN AddRequirement(result, requirement(f)) ELSE result
    IN  Fold(Prune, <<>>, Fold(add, <<>>, rules.fields))

(***************************************************************************)
(* The webhooks the rules ask for                                          *)
(***************************************************************************)
WebhookClasses(rules, catalog) ==
    SelectSeq(rules.classes, LAMBDA c : c \in DOMAIN catalog.classes => ~catalog.classes[c])

\* The classes with webhooks, each with what it requires.
BuildRequirements(rules, catalog) ==
    LET classes == WebhookClasses(rules, catalog)
    IN  [i \in DOMAIN classes |->
            [class |-> classes[i], fields |-> RequirementsForClass(rules, catalog, classes[i])]]

\* The names under which a body may hold the requirement already; the joined
\* keys of a merged requirement name nothing.
Aliases(r) ==
    {r.source, r.attr, r.placeholder}
        \cup (IF \E k \in r.keys : r.keys = {k} THEN r.keys \cup {canonical(k) : k \in r.keys} ELSE {})

\* One for each class and each event, with what a body must hold for it.
WantedWebhooks(requirements, events) ==
    LET asked(r) == [payloadKey |-> r.payloadKey, placeholder |-> r.placeholder, aliases |-> Tokens(Aliases(r))]
        fields(i) == [n \in DOMAIN requirements[i].fields |-> asked(requirements[i].fields[n])]
    IN  Flatten([i \in DOMAIN requirements |->
            [j \in DOMAIN events |->
                [class |-> requirements[i].class, event |-> events[j], fields |-> fields(i)]]])

(***************************************************************************)
(* What the requirements owe the rules                                     *)
(***************************************************************************)
\* Source fields that can be sent for a class at all, and those that are: by a
\* requirement of their own or by the path that shadows them, for that reason.
Sendable(rules, catalog, class) ==
    LET plain(f) == RequirementForField(class, AttributesOf(catalog, class), f, {})
    IN  {f \in ToSet(rules.fields) :
            /\ PathRootApplies(f.path, class, catalog, rules)
            /\ plain(f).placeholder # None}

Sent(rules, catalog, class, requirements, reason) ==
    LET plain(f) == RequirementForField(class, AttributesOf(catalog, class), f, {})
        serves(r, f) == reason \in r.by /\ (f.key \in r.keys \/ Shadows(r, plain(f)))
    IN  {f.key : f \in {g \in Sendable(rules, catalog, class) : \E r \in requirements : serves(r, g)}}

\* The cards of a class as far as an expression tells them apart.
Cards(e, class, fields) ==
    LET texts == UNION {l.value.matches : l \in Leaves(e)} \cup {Blank}
    IN  {card \in [ConditionFields(e) \cup {ClassName} -> texts \cup {class}] :
            /\ card[ClassName] = class
            /\ \A f \in DOMAIN card \ (fields \cup Virtual) : card[f] = Blank}

\* Cards that agree on the fields sent agree on the condition, and what a rule
\* that matches reads is sent; likewise for the objects in it.
RECURSIVE Served(_, _, _, _)
Served(node, class, fields, sent) ==
    \A card \in Cards(node.when, class, fields) :
        LET seen == [f \in DOMAIN card |-> IF f \in sent \cup Virtual THEN card[f] ELSE Blank]
        IN  /\ Matches(node.when, card) = Matches(node.when, seen)
            /\ Matches(node.when, card) =>
                  /\ node.fields \cap fields \subseteq sent
                  /\ \A n \in node.nodes : Served(n, class, fields, sent)

UsesServed(rules, catalog, plan) ==
    \A i \in DOMAIN plan : \A node \in rules.nodes :
        Served(node, plan[i].class, {f.key : f \in Sendable(rules, catalog, plan[i].class)},
               Sent(rules, catalog, plan[i].class, ToSet(plan[i].fields), node.name))

=============================================================================
