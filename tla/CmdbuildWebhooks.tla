-------------------------- MODULE CmdbuildWebhooks --------------------------
(***************************************************************************)
(* "Webhook Setup" of the monitoring UI: browsers load the webhooks of     *)
(* CMDBuild, plan changes from the rules, edit the plan and have the BFF   *)
(* apply it or bring the Authorization header up to date.  Every request   *)
(* of the BFF reads the webhooks once and then writes them one by one, so  *)
(* other requests, other services and administrators act in between.       *)
(*                                                                         *)
(* browser[b] is the page's state: what was loaded, and the history of     *)
(* plans that undo and redo walk, with the rules version the first of them  *)
(* was made from (0 for none).  request[b] is its request at the BFF.      *)
(* How a plan follows from what the rules ask for is WebhookPlan; what     *)
(* they ask for is the constant operator Wanted, for which the program     *)
(* takes WebhookPayload.                                                   *)
(*                                                                         *)
(* hooks is CMDBuild: external, modelled by what the BFF uses of it.  It   *)
(* gives each record an id of its own and takes no second record with a    *)
(* code that is taken.                                                     *)
(***************************************************************************)
EXTENDS WebhookPlan, SequencesExt, FiniteSets

CONSTANTS Browsers, Versions,   \* of the rules, positive numbers
          FirstHooks, FirstVersions, \* the states they may be found in
          Wanted(_),            \* what the rules of each version ask for
          Edits(_),             \* what an operator may make of a hook
          Strangers,            \* hooks other services may add
          Auths, Configured,    \* Authorization headers; the one configured
          MaxHooks, MaxReads, MaxRequests, MaxEdits, MaxOutside, MaxHistory \* bounds

\* CMDBuild holds a code once; codes without the prefix are not told apart.
CodesOnce(store) ==
    \A i, j \in DOMAIN store : store[i].code = store[j].code => i = j \/ store[i].code = Outside

ASSUME HooksAssumption ==
    \A store \in FirstHooks : /\ Len(store) \in Nat /\ DOMAIN store = 1..Len(store)
                               /\ CodesOnce(store)

AllVersions == Versions \cup FirstVersions

\* A class is wanted once for each event.
ASSUME WantedAssumption ==
    /\ 0 \notin AllVersions
    /\ \A v \in AllVersions : IsWanted(Wanted(v))

VARIABLES hooks, nextId,     \* CMDBuild
          version,           \* version of the current rules
          browser, request,
          budget             \* what is left of the bounds
vars == <<hooks, nextId, version, browser, request, budget>>

Page == [loaded |-> FALSE, items |-> <<>>, history |-> <<>>, index |-> 0, version |-> 0]

\* todo is what is left to write: operations, or the ids of webhooks to sync.
Request(phase, kind, seen, todo) == [phase |-> phase, kind |-> kind, seen |-> seen, todo |-> todo]
Idle == Request("idle", "none", <<>>, <<>>)

Init ==
    /\ hooks \in FirstHooks /\ nextId = 1 + Len(hooks)
    /\ version \in FirstVersions
    /\ browser = [b \in Browsers |-> Page]
    /\ request = [b \in Browsers |-> Idle]
    /\ budget = [reads |-> MaxReads, requests |-> MaxRequests, edits |-> MaxEdits, outside |-> MaxOutside]

Spend(what) == budget[what] > 0 /\ budget' = [budget EXCEPT ![what] = @ - 1]

(***************************************************************************)
(* The browser                                                             *)
(***************************************************************************)
Loaded(page) == [page EXCEPT !.loaded = TRUE, !.items = hooks, !.history = <<>>, !.index = 0,
                               !.version = 0]

\* The rules are read anew, the webhooks only if they never were.
Analyzed(page) ==
    LET items == IF page.loaded THEN page.items ELSE hooks
    IN  [page EXCEPT !.loaded = TRUE, !.items = items, !.version = version,
                     !.history = <<BuildOperations(Wanted(version), items)>>, !.index = 1]

Load(b) ==
    /\ request[b].phase = "idle" /\ Spend("reads")
    /\ browser' = [browser EXCEPT ![b] = Loaded(@)]
    /\ UNCHANGED <<hooks, nextId, version, request>>

Analyze(b) ==
    /\ request[b].phase = "idle" /\ Spend("reads")
    /\ browser' = [browser EXCEPT ![b] = Analyzed(@)]
    /\ UNCHANGED <<hooks, nextId, version, request>>

Operations(b) == IF browser[b].index = 0 THEN <<>> ELSE browser[b].history[browser[b].index]
Selected(b) == SelectSeq(Operations(b), LAMBDA op : op.selected)

\* Whatever was undone is forgotten.
Push(b, operations) ==
    /\ request[b].phase = "idle" /\ browser[b].index < MaxHistory
    /\ Spend("edits")
    /\ browser' = [browser EXCEPT
          ![b].history = Append(SubSeq(@, 1, browser[b].index), operations),
          ![b].index = @ + 1]
    /\ UNCHANGED <<hooks, nextId, version, request>>

Select(b) ==
    \E i \in DOMAIN Operations(b) :
        Push(b, [Operations(b) EXCEPT ![i].selected = ~@])

SelectAll(b) ==
    \E all \in BOOLEAN : /\ Operations(b) # <<>>
                         /\ Push(b, [i \in DOMAIN Operations(b) |->
                                        [Operations(b)[i] EXCEPT !.selected = all]])

\* Editing an operation turns anything but a create into an update.
Edited(op, hook) ==
    [action |-> IF op.action = "create" THEN "create" ELSE "update", selected |-> TRUE,
     current |-> IF op.action = "create" THEN <<>> ELSE IF op.current = <<>> THEN <<hook>> ELSE op.current,
     desired |-> <<hook>>, code |-> hook.code]

EditOperation(b) ==
    \E i \in DOMAIN Operations(b) : \E hook \in Edits((Operations(b)[i].desired \o Operations(b)[i].current)[1]) :
        Push(b, [Operations(b) EXCEPT ![i] = Edited(@, hook)])

\* Editing a loaded webhook replaces the operation with that code or adds one.
EditCurrent(b) ==
    \E id \in DOMAIN browser[b].items : \E hook \in Edits(browser[b].items[id]) :
        LET op == Edited([action |-> "update", current |-> <<browser[b].items[id]>>], hook)
            same == {i \in DOMAIN Operations(b) : Operations(b)[i].code = op.code}
        IN  Push(b, IF same = {} THEN Append(Operations(b), op)
                    ELSE [Operations(b) EXCEPT ![CHOOSE i \in same : \A j \in same : i <= j] = op])

Undo(b) ==
    /\ request[b].phase = "idle" /\ browser[b].index > 1
    /\ browser' = [browser EXCEPT ![b].index = @ - 1]
    /\ UNCHANGED <<hooks, nextId, version, request, budget>>

Redo(b) ==
    /\ request[b].phase = "idle" /\ browser[b].index < Len(browser[b].history)
    /\ browser' = [browser EXCEPT ![b].index = @ + 1]
    /\ UNCHANGED <<hooks, nextId, version, request, budget>>

Send(b, kind, todo) ==
    /\ request[b].phase = "idle" /\ Spend("requests")
    /\ request' = [request EXCEPT ![b] = Request("sent", kind, <<>>, todo)]
    /\ UNCHANGED <<hooks, nextId, version, browser>>

ApplySelected(b) == Selected(b) # <<>> /\ Send(b, "apply", Selected(b))

DeleteSelected(b) ==
    LET deletes == SelectSeq(Selected(b), LAMBDA op : op.action = "delete")
    IN  deletes # <<>> /\ Send(b, "apply", deletes)

SyncAuthorization(b) == browser[b].loaded /\ Send(b, "sync", <<>>)

(***************************************************************************)
(* The BFF                                                                 *)
(***************************************************************************)
\* Mutant: the prefix alone makes a webhook ours.
OwnedByPrefix(hook, desired) == hook.code # Outside /\ hook.owner \in {"ours", "legacy"}

\* Ours by its identifier; without one, ours only to be moved to the identifier
\* by an update that leaves its url or names none.
Owned(hook, desired) ==
    /\ hook.code # Outside
    /\ \/ hook.owner = "ours"
       \/ /\ hook.owner = "legacy" /\ desired # <<>>
          /\ desired[1].url \in {None, hook.url}

\* The last webhook listed with a code, as a set of one id or none.
FindByCode(seen, c) ==
    LET at == {i \in DOMAIN seen : seen[i].code = c}
    IN  {i \in at : \A j \in at : j <= i}

\* What a sync visits, in the order CMDBuild lists it.
Candidates == {i \in DOMAIN hooks : Owned(hooks[i], <<>>) /\ i \in FindByCode(hooks, hooks[i].code)}

\* readCmdbuildWebhooksByCode.
ReadHooks(b) ==
    /\ request[b].phase = "sent"
    /\ \/ /\ request[b].kind = "apply"
          /\ request' = [request EXCEPT ![b] = Request("running", "apply", hooks, request[b].todo)]
       \/ /\ request[b].kind = "sync"
          /\ \E ids \in SetToSeqs(Candidates) :
                /\ \A j, k \in DOMAIN ids : j < k => ids[j] < ids[k]
                /\ request' = [request EXCEPT ![b] = Request("running", "sync", hooks, ids)]
    /\ UNCHANGED <<hooks, nextId, version, browser, budget>>

\* The webhooks an operation is about to write, and whether the BFF goes on
\* with it: the payload is ours and has the code of the operation, the code is
\* not another service's.
Targets(op, seen) == IF op.action = "create" THEN {} ELSE FindByCode(seen, op.code)

Allowed(op, seen) ==
    /\ op.code # Outside
    /\ \/ /\ op.action = "create"
          /\ op.desired[1].code = op.code /\ op.desired[1].owner = "ours"
          /\ \A i \in FindByCode(seen, op.code) : Owned(seen[i], <<>>)
       \/ /\ op.action = "update"
          /\ op.desired[1].code = op.code /\ op.desired[1].owner = "ours"
          /\ \E i \in Targets(op, seen) : Owned(seen[i], op.desired)
       \/ /\ op.action = "delete"
          /\ \E i \in Targets(op, seen) : Owned(seen[i], <<>>)

WithAuthorization(hook, auth) ==
    [code |-> hook.code, owner |-> hook.owner, url |-> hook.url, target |-> hook.target,
     event |-> hook.event, body |-> hook.body, active |-> hook.active, auth |-> auth]

\* Mutants: the Authorization of the plan is written; the identifier is not.
WrittenAsPlanned(op, existing) == op.desired[1]
WrittenUnclaimed(op, existing) ==
    [WithAuthorization(op.desired[1], existing.auth) EXCEPT !.owner = existing.owner]

\* What an update writes: the Authorization stays the one that was read.
Written(op, existing) == WithAuthorization(op.desired[1], existing.auth)

\* The store CMDBuild is left with, if it takes the request.
Accepts(op, seen, store) ==
    IF op.action = "create" THEN \A i \in DOMAIN store : store[i].code # op.code
    ELSE Targets(op, seen) \subseteq DOMAIN store

Effect(op, seen, store, fresh) ==
    IF op.action = "create" THEN [i \in DOMAIN store \cup {fresh} |->
                                    IF i = fresh THEN op.desired[1] ELSE store[i]]
    ELSE IF op.action = "delete" THEN [i \in DOMAIN store \ Targets(op, seen) |-> store[i]]
    ELSE [i \in DOMAIN store |-> IF i \in Targets(op, seen) THEN Written(op, seen[i]) ELSE store[i]]

More(b) == request[b].phase = "running" /\ request[b].todo # <<>>
Drop(b) == request' = [request EXCEPT ![b] =
                         Request("running", request[b].kind, request[b].seen, Tail(request[b].todo))]
Abort(b) == request' = [request EXCEPT ![b] = Idle]

\* Of a sync: the next webhook has the configured Authorization.
UpToDate(b) == request[b].seen[request[b].todo[1]].auth = Configured

Skip(b) ==
    /\ More(b) /\ request[b].kind = "sync" /\ UpToDate(b)
    /\ Drop(b) /\ UNCHANGED <<hooks, nextId, version, browser, budget>>

\* A write; its answer may be lost, which ends the request.
Write(b) ==
    LET op == request[b].todo[1] seen == request[b].seen
    IN  /\ More(b) /\ request[b].kind = "apply"
        /\ Allowed(op, seen) /\ Accepts(op, seen, hooks)
        /\ op.action = "create" => nextId <= MaxHooks
        /\ hooks' = Effect(op, seen, hooks, nextId)
        /\ nextId' = IF op.action = "create" THEN nextId + 1 ELSE nextId
        /\ Drop(b) \/ Abort(b)
        /\ UNCHANGED <<version, browser, budget>>

\* Of a sync: everything else stays as it was read.
WriteAuthorization(b) ==
    LET id == request[b].todo[1]
    IN  /\ More(b) /\ request[b].kind = "sync" /\ ~UpToDate(b)
        /\ id \in DOMAIN hooks
        /\ hooks' = [i \in DOMAIN hooks |->
                        IF i = id THEN WithAuthorization(request[b].seen[id], Configured) ELSE hooks[i]]
        /\ Drop(b) \/ Abort(b)
        /\ UNCHANGED <<nextId, version, browser, budget>>

\* Refused by the BFF or by CMDBuild, or lost on the way: what was applied
\* before stays, the page keeps the plan it had.
Fail(b) ==
    /\ request[b].phase \in {"sent", "reload", "analyze"} \/ More(b)
    /\ Abort(b) /\ UNCHANGED <<hooks, nextId, version, browser, budget>>

\* The page loads and analyses anew.
Finish(b) ==
    /\ request[b].phase = "running" /\ request[b].todo = <<>>
    /\ request' = [request EXCEPT ![b] = Request("reload", request[b].kind, <<>>, <<>>)]
    /\ UNCHANGED <<hooks, nextId, version, browser, budget>>

Reload(b) ==
    /\ request[b].phase = "reload"
    /\ LET again == request[b].kind = "apply" \/ browser[b].index > 0
       IN  request' = [request EXCEPT ![b] = IF again THEN Request("analyze", "none", <<>>, <<>>) ELSE Idle]
    /\ browser' = [browser EXCEPT ![b] = Loaded(@)]
    /\ UNCHANGED <<hooks, nextId, version, budget>>

Reanalyze(b) ==
    /\ request[b].phase = "analyze"
    /\ browser' = [browser EXCEPT ![b] = Analyzed(@)]
    /\ Abort(b) /\ UNCHANGED <<hooks, nextId, version, budget>>

(***************************************************************************)
(* Everybody else                                                          *)
(***************************************************************************)
ChangeRules ==
    /\ Spend("outside") /\ \E v \in Versions \ {version} : version' = v
    /\ UNCHANGED <<hooks, nextId, browser, request>>

\* Another service or an administrator works in CMDBuild itself.
OthersChange(store) ==
    /\ Spend("outside") /\ hooks' = store
    /\ UNCHANGED <<version, browser, request>>

OthersAdd ==
    \E h \in Strangers : /\ nextId <= MaxHooks /\ \A i \in DOMAIN hooks : hooks[i].code # h.code
                         /\ OthersChange([i \in DOMAIN hooks \cup {nextId} |->
                                            IF i = nextId THEN h ELSE hooks[i]])
                         /\ nextId' = nextId + 1
OthersRemove ==
    \E id \in DOMAIN hooks : /\ OthersChange([i \in DOMAIN hooks \ {id} |-> hooks[i]])
                             /\ UNCHANGED nextId
OthersRotate ==
    \E id \in DOMAIN hooks, a \in Auths :
        OthersChange([hooks EXCEPT ![id] = WithAuthorization(@, a)]) /\ UNCHANGED nextId
Taken(hook) ==
    [code |-> hook.code, owner |-> "theirs", url |-> hook.url, target |-> hook.target,
     event |-> hook.event, body |-> hook.body, active |-> hook.active, auth |-> hook.auth]
OthersTake ==
    \E id \in DOMAIN hooks :
        OthersChange([hooks EXCEPT ![id] = Taken(@)]) /\ UNCHANGED nextId

Others == OthersAdd \/ OthersRemove \/ OthersRotate \/ OthersTake

Next ==
    \/ \E b \in Browsers :
        \/ Load(b) \/ Analyze(b) \/ Select(b) \/ SelectAll(b) \/ EditOperation(b) \/ EditCurrent(b)
        \/ Undo(b) \/ Redo(b) \/ ApplySelected(b) \/ DeleteSelected(b) \/ SyncAuthorization(b)
        \/ ReadHooks(b) \/ Skip(b) \/ Write(b) \/ WriteAuthorization(b) \/ Fail(b)
        \/ Finish(b) \/ Reload(b) \/ Reanalyze(b)
    \/ ChangeRules \/ Others

Spec == Init /\ [][Next]_vars

(***************************************************************************)
(* Properties                                                              *)
(***************************************************************************)
IsForeign(hook) == hook.code = Outside \/ hook.owner \in {"theirs", "topic"}

\* Request b writes now, and it read webhook id before.
Writes(b, id) == id \in DOMAIN request[b].seen /\ (Write(b) \/ WriteAuthorization(b))

\* Whatever plan the browser sends, and whoever works in CMDBuild meanwhile: a
\* request never writes or deletes a webhook that was another service's when it
\* read the webhooks; one without an identifier it only takes over in place,
\* with the url it had or with none (isOwnedCmdbuildWebhook and its callers).
RequestsKeepToOwn ==
    [][\A id \in DOMAIN hooks :
          (id \notin DOMAIN hooks' \/ hooks'[id] # hooks[id]) =>
              \/ Others
              \/ \E b \in Browsers :
                    /\ Writes(b, id) /\ ~IsForeign(request[b].seen[id])
                    /\ request[b].seen[id].owner = "legacy" =>
                          /\ id \in DOMAIN hooks'
                          /\ hooks'[id].url \in {None, request[b].seen[id].url}]_vars

\* A webhook's Authorization changes only to the configured one by a sync, or
\* back to what a request had read before somebody else changed it: neither a
\* stale plan nor an edited one replaces it
\* (preserveExistingCmdbuildWebhookAuthorization).
AuthorizationKept ==
    [][\A id \in DOMAIN hooks \cap DOMAIN hooks' :
          hooks'[id].auth # hooks[id].auth =>
              \/ Others
              \/ \E b \in Browsers :
                    /\ Writes(b, id)
                    /\ \/ request[b].kind = "sync" /\ hooks'[id].auth = Configured
                       \/ /\ request[b].seen[id].auth # hooks[id].auth
                          /\ hooks'[id].auth = request[b].seen[id].auth]_vars

\* The page shows an unedited plan of the rules and webhooks as they are.
Fresh(b) ==
    /\ browser[b].index = 1 /\ Len(browser[b].history) = 1
    /\ browser[b].items = hooks /\ browser[b].version = version

\* What applying the creates and updates of a plan one after the other leaves.
Applied(store, plan) ==
    LET left[k \in 0..Len(plan)] ==
            IF k = 0 THEN store
            ELSE IF plan[k].action = "delete" THEN left[k - 1]
            ELSE Effect(plan[k], store, left[k - 1], nextId + k)
    IN  left[Len(plan)]

\* A plan applied without anybody interfering settles the matter: unless another
\* service holds a code the plan wants to create, nothing of it is refused and
\* the next analysis creates and updates nothing (buildCmdbuildWebhookOperations
\* and applyCmdbuildWebhookOperations on its result).
PlanSettles ==
    \A b \in Browsers : Fresh(b) /\ OnePrefix(hooks) =>
        LET plan == browser[b].history[1]
            changes == {k \in DOMAIN plan : plan[k].action # "delete"}
            conflict == \E k \in changes : /\ plan[k].action = "create"
                                          /\ FindByCode(hooks, plan[k].code) # {}
            again == BuildOperations(Wanted(version), Applied(hooks, plan))
        IN  conflict \/ /\ \A k \in changes : Allowed(plan[k], hooks)
                        /\ \A k \in DOMAIN again : again[k].action = "delete"

=============================================================================
