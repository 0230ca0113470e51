-------------------------- MODULE HostUpdateMerge ---------------------------
(***************************************************************************)
(* What host.update makes of a host that is not only the rules': the merge *)
(* of a rules payload with the host read before it, BuildHostUpdateRequest-*)
(* Json of KafkaZabbixRequestWorker, applied again and again to a host     *)
(* that administrators change in between.                                  *)
(*                                                                         *)
(* Arrays of the payload are sets, or functions from their key, the key of *)
(* a repeated entry having its last value; interfaces are sequences, since *)
(* their order counts. Comparison without case is a key of its own: a tag  *)
(* has a key and a spelling. A lookup that is stale is ZabbixRequests.     *)
(***************************************************************************)
EXTENDS Integers, Sequences, FiniteSetsExt

CONSTANTS
    GroupIds, TemplateIds, Macros, Values,
    HostTags,   \* records with the fields key and spelling
    Addresses,  \* interfaces without id: type, useip, ip, dns and port
    Payloads,   \* what the rules send: see Payload
    MaxSteps    \* bound: updates and edits

Partial(K, V) == UNION {[D -> V] : D \in SUBSET K}

\* A payload names the fields it has: an absent field is not written.
Payload == [fields : SUBSET {"groups", "templates", "tags", "macros", "interfaces"},
            groups : SUBSET GroupIds, templates : SUBSET TemplateIds,
            clear : SUBSET TemplateIds, tags : SUBSET HostTags,
            macros : Partial(Macros, Values), interfaces : Seq(Addresses)]

(* The converter sends no interface twice (SelectInterfaces). *)
ASSUME MergeAssumption ==
    /\ Payloads \subseteq Payload
    /\ \A p \in Payloads : \A i, j \in DOMAIN p.interfaces :
         p.interfaces[i] = p.interfaces[j] => i = j
    /\ MaxSteps \in Nat

VARIABLES
    host,     \* the host in Zabbix
    nextId,   \* the next interface id of Zabbix
    last,     \* the payload applied by the last step, or none
    foreign,  \* history: what administrators set and no payload replaced
    steps

mergeVars == <<host, nextId, last, foreign, steps>>

Interface == [id : Nat, address : Addresses]

ForeignRecords == [groups : SUBSET GroupIds, templates : SUBSET TemplateIds,
                   tags : SUBSET HostTags, macros : Partial(Macros, Values)]
HostRecords == [groups : SUBSET GroupIds, templates : SUBSET TemplateIds, tags : SUBSET HostTags,
                macros : Partial(Macros, Values), interfaces : Seq(Interface)]

MergeTypeOK ==
    /\ host \in HostRecords /\ nextId \in Nat
    /\ \A i, j \in DOMAIN host.interfaces :
         host.interfaces[i].id = host.interfaces[j].id => i = j
    /\ \A i \in DOMAIN host.interfaces : host.interfaces[i].id \in 1 .. nextId - 1
    /\ last \in Payloads \union {<<>>}
    /\ foreign \in ForeignRecords
    /\ steps \in 0 .. MaxSteps

-----------------------------------------------------------------------------
(* The merge. *)

\* Mutant: the payload's groups replace the host's.
MergedGroupsReplaced(desired, existing) == desired

(* WriteMergedObjectArrayByKey for groups, whose key is all of them: the   *)
(* host's own, then those of the payload.                                  *)
MergedGroups(desired, existing) == existing \union desired

\* The same for macros: an existing macro is kept unless the payload has it.
MergedMacros(desired, existing) ==
    [m \in DOMAIN desired \union DOMAIN existing |->
        IF m \in DOMAIN desired THEN desired[m] ELSE existing[m]]

\* WriteMergedTemplates: linked and desired templates, less those to clear.
MergedTemplates(desired, existing, clear) ==
    (existing \ clear) \union (desired \ clear)

\* WriteTemplatesClearWithExistingIds: only what is linked can be cleared.
TemplatesToClear(clear, existing) == existing \intersect clear

\* WriteMergedTags: a tag of the host stays unless the payload has its key.
MergedTagObjects(desired, existing) ==
    {t \in existing : \A d \in desired : d.key # t.key} \union desired

\* The first of the interfaces found, or 0.
First(found) == IF found = {} THEN 0 ELSE Min(found)

SameAddress(a, b) ==
    /\ a.type = b.type /\ a.port = b.port
    /\ (a.ip # "" /\ a.ip = b.ip) \/ (a.dns # "" /\ a.dns = b.dns)

\* Mutant: an equal interface is not preferred to one of the same address.
FindByAddress(address, existing, index) ==
    LET same == First({i \in DOMAIN existing : SameAddress(address, existing[i].address)})
    IN IF same # 0 THEN existing[same].id
       ELSE IF index = 1 /\ existing # <<>> THEN existing[1].id ELSE 0

(* FindMatchingInterfaceId: the interface that is equal, else the one of   *)
(* this address, else the host's first for the payload's first; 0 is none. *)
FindMatchingInterfaceId(address, existing, index) ==
    LET exact == First({i \in DOMAIN existing : existing[i].address = address})
        same  == First({i \in DOMAIN existing : SameAddress(address, existing[i].address)})
    IN IF exact # 0 THEN existing[exact].id
       ELSE IF same # 0 THEN existing[same].id
       ELSE IF index = 1 /\ existing # <<>> THEN existing[1].id ELSE 0

\* WriteInterfacesWithExistingIds.
InterfacesWithIds(desired, existing) ==
    [i \in DOMAIN desired |->
        [id |-> FindMatchingInterfaceId(desired[i], existing, i),
         address |-> desired[i]]]

\* BuildHostUpdateRequestJson.
BuildHostUpdate(p, h) ==
    [fields |-> p.fields,
     groups |-> MergedGroups(p.groups, h.groups),
     templates |-> MergedTemplates(p.templates, h.templates, p.clear),
     clear |-> TemplatesToClear(p.clear, h.templates),
     tags |-> MergedTagObjects(p.tags, h.tags),
     macros |-> MergedMacros(p.macros, h.macros),
     interfaces |-> InterfacesWithIds(p.interfaces, h.interfaces)]

-----------------------------------------------------------------------------
(* Zabbix. *)

\* An interface may be named once, a template linked or cleared.
Valid(r) ==
    /\ "interfaces" \in r.fields =>
         \A i, j \in DOMAIN r.interfaces :
             r.interfaces[i].id = r.interfaces[j].id => i = j \/ r.interfaces[i].id = 0
    /\ r.templates \intersect r.clear = {}

\* The interfaces a host.get lists: the first is the one of the lowest id.
ListedById(s) ==
    [k \in DOMAIN s |-> CHOOSE e \in {s[i] : i \in DOMAIN s} :
        Cardinality({i \in DOMAIN s : s[i].id <= e.id}) = k]

(* A field of the request replaces the host's; new interfaces get new ids, *)
(* and host.get lists them by id.                                          *)
Apply(r, h, fresh) ==
    LET Has(f) == f \in r.fields
    IN [groups |-> IF Has("groups") THEN r.groups ELSE h.groups,
        templates |-> IF Has("templates") THEN r.templates
                      ELSE h.templates \ r.clear,
        tags |-> IF Has("tags") THEN r.tags ELSE h.tags,
        macros |-> IF Has("macros") THEN r.macros ELSE h.macros,
        interfaces |->
            IF ~Has("interfaces") THEN h.interfaces
            ELSE ListedById([i \in DOMAIN r.interfaces |->
                               IF r.interfaces[i].id # 0 THEN r.interfaces[i]
                               ELSE [r.interfaces[i] EXCEPT !.id = fresh + i]])]

\* What administrators set stays theirs unless the payload names it.
StillForeign(p) ==
    [groups |-> IF "groups" \in p.fields THEN foreign.groups \ p.groups
                ELSE foreign.groups,
     templates |-> foreign.templates \ (p.clear \union
                     IF "templates" \in p.fields THEN p.templates ELSE {}),
     tags |-> IF "tags" \in p.fields THEN foreign.tags \ p.tags ELSE foreign.tags,
     macros |-> IF "macros" \in p.fields
                THEN [m \in DOMAIN foreign.macros \ DOMAIN p.macros |->
                        foreign.macros[m]]
                ELSE foreign.macros]

-----------------------------------------------------------------------------
\* host.create by the rules is where the host comes from.
Created(p) ==
    [groups |-> p.groups, templates |-> p.templates, tags |-> p.tags,
     macros |-> p.macros,
     interfaces |-> [i \in DOMAIN p.interfaces |->
                       [id |-> i, address |-> p.interfaces[i]]]]

MergeInit ==
    /\ \E p \in Payloads : host = Created(p) /\ nextId = Len(p.interfaces) + 1
    /\ last = <<>>
    /\ foreign = [groups |-> {}, templates |-> {}, tags |-> {}, macros |-> <<>>]
    /\ steps = 0

Step == steps < MaxSteps /\ steps' = steps + 1

\* host.get and the host.update built from its answer.
Update(p) ==
    /\ Step
    /\ LET r == BuildHostUpdate(p, host) IN
         IF Valid(r)
         THEN /\ host' = Apply(r, host, nextId)
              /\ nextId' = nextId + 1 + Len(r.interfaces)
              /\ last' = p
              /\ foreign' = StillForeign(p)
         ELSE last' = <<>> /\ UNCHANGED <<host, nextId, foreign>>

\* An administrator sets something in Zabbix.
Edit(h, f) ==
    /\ Step
    /\ host' = h /\ foreign' = f
    /\ last' = <<>>
    /\ UNCHANGED nextId

AddGroup(g) ==
    /\ g \notin host.groups
    /\ Edit([host EXCEPT !.groups = @ \union {g}],
            [foreign EXCEPT !.groups = @ \union {g}])

LinkTemplate(t) ==
    /\ t \notin host.templates
    /\ Edit([host EXCEPT !.templates = @ \union {t}],
            [foreign EXCEPT !.templates = @ \union {t}])

AddTag(t) ==
    /\ t \notin host.tags
    /\ Edit([host EXCEPT !.tags = @ \union {t}],
            [foreign EXCEPT !.tags = @ \union {t}])

SetMacro(m, v) ==
    Edit([host EXCEPT !.macros = MergedMacros([k \in {m} |-> v], @)],
         [foreign EXCEPT !.macros = MergedMacros([k \in {m} |-> v], @)])

MergeNext ==
    \/ \E p \in Payloads : Update(p)
    \/ \E g \in GroupIds : AddGroup(g)
    \/ \E t \in TemplateIds : LinkTemplate(t)
    \/ \E t \in HostTags : AddTag(t)
    \/ \E m \in Macros, v \in Values : SetMacro(m, v)

MergeSpec == MergeInit /\ [][MergeNext]_mergeVars

-----------------------------------------------------------------------------
(* What an administrator set and no payload has named since is still       *)
(* there, after any number of updates: groups, templates and macros as     *)
(* they were, tags up to the case of their letters.                        *)
ExternalKept ==
    /\ foreign.groups \subseteq host.groups
    /\ foreign.templates \subseteq host.templates
    /\ \A m \in DOMAIN foreign.macros :
         m \in DOMAIN host.macros /\ host.macros[m] = foreign.macros[m]
    /\ \A t \in foreign.tags : \E u \in host.tags : u.key = t.key

(* An update that is repeated, as one is after a crash or a lost answer,   *)
(* is accepted and changes nothing: no interface gets another id, nothing  *)
(* is cleared twice.                                                       *)
SecondUpdateIsNoop ==
    last # <<>> =>
        LET r == BuildHostUpdate(last, host) IN Valid(r) /\ Apply(r, host, nextId) = host

=============================================================================
