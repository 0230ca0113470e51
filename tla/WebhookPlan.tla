----------------------------- MODULE WebhookPlan -----------------------------
(***************************************************************************)
(* The plan that brings the CMDBuild webhooks to what the rules ask for:   *)
(* public/lib/webhook-logic.js, run in the browser by "Analyze rules".     *)
(* What the rules ask for is WebhookPayload.                               *)
(*                                                                         *)
(* Names of payload keys, attributes and classes are values told apart     *)
(* exactly; fold and token say which of them are equal ignoring case and   *)
(* equal after normalizeToken.  Headers other than Authorization, method,  *)
(* language and description travel with the url and are left out, as are   *)
(* the literal values of the four keys every body has.                     *)
(*                                                                         *)
(*   a hook   [code, owner, url, target, event, body, auth, active]; owner *)
(*            is "ours" or "theirs" (managedIdentifier), "topic" (none but *)
(*            a targetTopic) or "legacy" (neither)                         *)
(*   items    the webhooks of CMDBuild by their ids, in the order of which *)
(*            it lists them                                                *)
(*   wanted   a sequence of [class, event, fields : sequence of            *)
(*            requirements [payloadKey, placeholder, aliases : tokens]]    *)
(***************************************************************************)
EXTENDS Naturals, Sequences

CONSTANTS None,            \* the empty name, the empty url
          fold(_), token(_), \* of names
          FixedKeys,       \* source, className, eventType, cmdbuildEvent
          CardPrefix,      \* the placeholder prefix of any class
          DefaultUrl, Outside, \* the receiver's url; codes without the prefix
          rankOf(_), rankOfCode(_) \* the order of compareText on names and on codes

ASSUME PrefixAssumption == CardPrefix # None /\ DefaultUrl # None

EqualsIgnoreCase(a, b) == fold(a) = fold(b)
Tokens(names) == {token(n) : n \in names \ {None}}

FirstOf(S) == CHOOSE i \in S : \A j \in S : i <= j
LastOf(S) == CHOOSE i \in S : \A j \in S : j <= i

(***************************************************************************)
(* Bodies                                                                  *)
(***************************************************************************)
Placeholder(prefix, attribute) == [prefix |-> prefix, attr |-> attribute]
Fixed == [prefix |-> None, attr |-> None] \* a literal

\* The placeholder prefix of a body (of several, one).
PrefixesIn(body) == {body[k].prefix : k \in DOMAIN body} \ {None}
PrefixOf(body) == IF PrefixesIn(body) = {} THEN None ELSE CHOOSE p \in PrefixesIn(body) : TRUE

\* No body uses several.
OnePrefix(items) == \A i \in DOMAIN items : \A p, q \in PrefixesIn(items[i].body) : p = q

PrefixMatches(prefix, class) == prefix \in {CardPrefix, class}
PrefixForClass(current, default, class) ==
    IF PrefixMatches(current, class) THEN current
    ELSE IF PrefixMatches(default, class) THEN default ELSE CardPrefix

Normalized(value, prefix, class) ==
    IF value.prefix = None \/ PrefixMatches(value.prefix, class) THEN value
    ELSE Placeholder(prefix, value.attr)

\* Aliases are removed, except keys that differ from payloadKey in case only.
Removes(r, k) == ~EqualsIgnoreCase(k, r.payloadKey) /\ token(k) \in r.aliases

\* The last requirement that puts a key, or 0.
LastPut(requirements, k) == LastOf({0} \cup {i \in DOMAIN requirements : requirements[i].payloadKey = k})

\* One requirement after the other removes its aliases and puts its own key: a
\* key stays that is not removed after it was last put.
BodyForRequirements(prefix, base, requirements, class) ==
    LET keys == FixedKeys \cup DOMAIN base \cup {requirements[i].payloadKey : i \in DOMAIN requirements}
        last == [k \in keys |-> LastPut(requirements, k)]
        stays(k) == \A j \in (last[k] + 1)..Len(requirements) : ~Removes(requirements[j], k)
    IN  [k \in {n \in keys : stays(n)} |->
            IF last[k] # 0 THEN Placeholder(prefix, requirements[last[k]].placeholder)
            ELSE IF k \in FixedKeys THEN Fixed ELSE Normalized(base[k], prefix, class)]

(***************************************************************************)
(* The desired hooks                                                       *)
(***************************************************************************)
CodeOf(want) == <<want.class, want.event>>

\* What wanted hooks are: each has a class and a code of its own.
IsWanted(wanted) ==
    /\ Len(wanted) \in Nat /\ DOMAIN wanted = 1..Len(wanted)
    /\ \A n \in DOMAIN wanted :
          /\ CodeOf(wanted[n]) # Outside /\ wanted[n].class # None
          /\ Len(wanted[n].fields) \in Nat /\ DOMAIN wanted[n].fields = 1..Len(wanted[n].fields)
          /\ \A m \in DOMAIN wanted : CodeOf(wanted[m]) = CodeOf(wanted[n]) => m = n

IsManaged(hook) ==
    /\ hook.code # Outside
    /\ \/ hook.owner = "ours"
       \/ hook.owner = "legacy" /\ hook.url = DefaultUrl
Managed(items) == {i \in DOMAIN items : IsManaged(items[i])}

\* Maps from codes keep the last hook of the list with that code.
Lookup(items, c) ==
    LET at == {i \in Managed(items) : items[i].code = c}
    IN  IF at = {} THEN <<>> ELSE <<items[LastOf(at)]>>

UrlOr(url, default) == IF url = None THEN default ELSE url

\* As in the first managed hook with a url, or the first.
Defaults(items) ==
    IF Managed(items) = {} THEN [url |-> DefaultUrl, auth |-> None, prefix |-> CardPrefix]
    ELSE LET given == {i \in Managed(items) : items[i].url # None}
             sample == items[FirstOf(IF given # {} THEN given ELSE Managed(items))]
         IN  [url |-> UrlOr(sample.url, DefaultUrl), auth |-> sample.auth,
              prefix |-> IF PrefixOf(sample.body) = None THEN CardPrefix ELSE PrefixOf(sample.body)]

DesiredHook(want, current, defaults) ==
    LET base == IF current = <<>> THEN <<>> ELSE current[1].body
        own == IF current = <<>> THEN [url |-> defaults.url, auth |-> defaults.auth, active |-> TRUE]
               ELSE current[1]
        prefix == PrefixForClass(PrefixOf(base), defaults.prefix, want.class)
    IN  [code |-> CodeOf(want), owner |-> "ours", url |-> UrlOr(own.url, defaults.url),
         target |-> want.class, event |-> want.event, auth |-> own.auth, active |-> own.active,
         body |-> BodyForRequirements(prefix, base, want.fields, want.class)]

(***************************************************************************)
(* The plan                                                                *)
(***************************************************************************)
\* What "update" looks at: everything but Authorization.
Comparable(hook) ==
    [owner |-> hook.owner, url |-> hook.url, target |-> hook.target, event |-> hook.event,
     body |-> hook.body, active |-> hook.active]

Operation(action, current, desired) ==
    [action |-> action, selected |-> action # "delete", current |-> current, desired |-> desired,
     code |-> (desired \o current)[1].code]

\* The order in which operations are listed and applied.
Before(o, p) ==
    LET hook(x) == (x.desired \o x.current)[1]
        action == [create |-> 1, delete |-> 2, update |-> 3]
        key(x) == <<rankOf(hook(x).target), rankOf(hook(x).event), action[x.action], rankOfCode(x.code)>>
        first == key(o) second == key(p)
    IN  \E i \in 1..4 : first[i] < second[i] /\ \A j \in 1..(i - 1) : first[j] = second[j]

\* One after the other is put before those of the result that it comes before.
Inserted(result, op) ==
    LET later == {i \in DOMAIN result : Before(op, result[i])}
        at == IF later = {} THEN Len(result) + 1 ELSE FirstOf(later)
    IN  [i \in 1..(Len(result) + 1) |->
            IF i < at THEN result[i] ELSE IF i = at THEN op ELSE result[i - 1]]

\* Of choices, each an operation or none, those that there are, in order.
Sorted(choices) ==
    LET result[n \in 0..Len(choices)] ==
            IF n = 0 THEN <<>>
            ELSE LET choice == choices[n]
                 IN  IF choice = <<>> THEN result[n - 1] ELSE Inserted(result[n - 1], choice[1])
    IN  result[Len(choices)]

\* What becomes of a desired hook.
Planned(desired, current) ==
    IF current = <<>> THEN <<Operation("create", <<>>, <<desired>>)>>
    ELSE IF Comparable(current[1]) # Comparable(desired)
    THEN <<Operation("update", current, <<desired>>)>> ELSE <<>>

\* Creates and updates of the desired hooks, deletes of the managed hooks that
\* nothing desires.
BuildOperations(wanted, items) ==
    LET current == [n \in DOMAIN wanted |-> Lookup(items, CodeOf(wanted[n]))]
        defaults == Defaults(items)
        obsolete == {i \in Managed(items) : \A k \in DOMAIN wanted : CodeOf(wanted[k]) # items[i].code}
        last == IF DOMAIN items = {} THEN 0 ELSE LastOf(DOMAIN items)
    IN  Sorted([n \in 1..(Len(wanted) + last) |->
                    IF n <= Len(wanted)
                    THEN Planned(DesiredHook(wanted[n], current[n], defaults), current[n])
                    ELSE IF n - Len(wanted) \in obsolete
                    THEN <<Operation("delete", <<items[n - Len(wanted)]>>, <<>>)>> ELSE <<>>])

=============================================================================
